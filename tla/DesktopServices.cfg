SPECIFICATION AllSpec
CONSTANTS
  w1 = w1 w2 = w2 k1 = k1 k2 = k2
  Writer = {w1, w2}
  File = {f1, f2}
  Bytes = {b1, b2}
  Fault = {"io", "undo", "crash", "edit"}
  Interference = TRUE
  Key = {k1, k2}
  Provider = {"github", "cloudflare", "eas", "secrets", "ssm", "personal", "runtime"}
  MaxKeys = 2
  MaxChanges = 1
  Empty = Empty
  Absent = Absent
  Broker = {"newer", "older"}
  Directory <- OneLegacy
  MaxLines = 1
  MaxShown = 2
  MaxEvents = 3
  MaxStarts = 2
  CanFail = TRUE
INVARIANTS ReceiptIsTrue ErrorSentNothing ComparisonIsTrue MigrationKeepsActivity
PROPERTIES AllOrNothing WritesOnlyCheckedPlans BrokenCommitIsPrefix OnlyWhatWasChosen
SYMMETRY Symmetry
CHECK_DEADLOCK FALSE
