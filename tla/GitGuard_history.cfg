SPECIFICATION Spec
CONSTANTS
  File <- EnvPaths
  IgnoredFiles = {}
  IgnoredDirectories = {}
  Nested <- NoNested
  Prefix <- Below
  Call = {c1}
  MaxCalls = 1
  MaxEdits = 0
  GitFails = FALSE
INVARIANT ProtectedIsTrue
CHECK_DEADLOCK FALSE
