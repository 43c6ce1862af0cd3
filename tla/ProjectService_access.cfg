SPECIFICATION Spec
CONSTANTS
  p1 = p1 p2 = p2 f1 = f1 f2 = f2 k1 = k1
  v1 = v1 v2 = v2 none = none empty = empty
  Process = {p1, p2}
  FileOrder <- TwoFiles
  Key = {k1}
  Value = {empty}
  Empty = empty
  Absent = none
  Sensitive = {}
  Ops = {"detach_link_member", "create_link", "set_codex_access"}
  Fault = {}
  Interference = FALSE
PROPERTY AccessOnRequest
