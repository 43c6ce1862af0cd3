SPECIFICATION FairSpec
CONSTANTS
  p1 = p1 p2 = p2 f1 = f1 f2 = f2 k1 = k1
  v1 = v1 v2 = v2 none = none empty = empty
  Process = {p1}
  FileOrder <- TwoFiles
  Key = {k1}
  Value = {empty, v1, v2}
  Empty = empty
  Absent = none
  Sensitive = {}
  Ops = {"save_value", "create_link", "detach_link_member", "delete_variable", "add_variable", "set_codex_access", "initialize"}
  Fault = {"io", "undo", "crash", "manifest"}
  Interference = TRUE
INVARIANT LinksAgree
PROPERTIES Linked LinkedSaveReachesAll CallsReturn AccessOnRequest
