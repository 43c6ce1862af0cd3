--------------------------- MODULE MCProjectFiles ---------------------------
(***************************************************************************)
(* An instance of ProjectFiles: the files of MCDocumentEdits, and a        *)
(* repository whose top is the project, with two files the app manages,    *)
(* one of them in a folder with rules of its own, and two it passes over.  *)
(***************************************************************************)
EXTENDS ProjectFiles

\* Its sets, which depend on none of its constants.
MC == INSTANCE MCDocumentEdits WITH Word <- {}, Key <- {}, Value <- {}, Name <- {}, Remarks <- {},
                                    Texts <- {}, Edits <- {}, MaxEdits <- 0

Words == MC!Words
Keys == MC!Keys
Values == MC!Values
Names == MC!Names
Descriptions == MC!Descriptions
PlainFiles == MC!PlainFiles

Path(dir, name) == [dir |-> dir, name |-> name]
Local == Path(<<"app">>, <<"", "env", "local">>)
Passed == { Path(<< >>, <<"", "env", "example">>), Path(<<"generated">>, <<"", "dev", "vars">>) }
EnvPaths == { Path(<< >>, <<"", "env">>), Local } \cup Passed
LocalIsKept == [f \in EnvPaths |-> IF f = Local THEN "keep" ELSE "none"]
AtTop == << >>
=============================================================================
