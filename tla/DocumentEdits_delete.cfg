SPECIFICATION Spec
CONSTANTS
  Word <- Words
  Key <- Keys
  Value <- Values
  Name <- Names
  Remarks <- Descriptions
  Texts <- RaggedFiles
  Edits = {"delete_variable"}
  MaxEdits = 1
PROPERTIES EditsKeepTheRest
CHECK_DEADLOCK FALSE
