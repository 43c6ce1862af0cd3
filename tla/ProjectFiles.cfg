SPECIFICATION AllSpec
CONSTANTS
  Word <- Words
  Key <- Keys
  Value <- Values
  Name <- Names
  Remarks <- Descriptions
  Texts <- PlainFiles
  Edits = {"save_value", "add_variable", "delete_variable", "move_variable", "create_group", "rename_group", "save_description", "migrate"}
  MaxTextEdits = 2
  File <- EnvPaths
  IgnoredFiles = {}
  IgnoredDirectories = {"generated"}
  Nested <- LocalIsKept
  Prefix <- AtTop
  Call = {"call"}
  MaxCalls = 2
  MaxEdits = 1
  GitFails = TRUE
INVARIANT ProtectedIsTrue
PROPERTIES GuardAddsRules PlainEditsKeepTheRest SavedValueReadsBack ShownAsAsked
CHECK_DEADLOCK FALSE
