---------------------------- MODULE ProjectFiles ----------------------------
(***************************************************************************)
(* The env files of a project: whether Git would take them (GitGuard), and *)
(* their texts with the edits of them (DocumentEdits).  The one does not   *)
(* look at what the other does, so it is enough to look at one at a time   *)
(* while the other rests at the first of its states.                       *)
(***************************************************************************)
EXTENDS GitGuard

CONSTANTS
  Word, Key, Value, Name, Remarks, Texts, Edits, MaxTextEdits  \* of DocumentEdits

VARIABLES
  running,   \* which part is looked at
  file, edit, count

textVars == <<file, edit, count>>
allVars == <<running, textVars, vars>>

Doc == INSTANCE DocumentEdits WITH MaxEdits <- MaxTextEdits

ASSUME FilesAssumption == GuardAssumption /\ Doc!WordAssumption /\ Doc!EditsAssumption

AllInit ==
  /\ running \in {"edits", "git"}
  /\ Init
  /\ IF running = "edits"
       THEN /\ Doc!Init
            /\ tree = [f \in Candidates |-> "none"] /\ gitignore.kind = "none"
            /\ history = {}
       ELSE file = Doc!Parse(<< >>) /\ edit = Doc!NoEdit /\ count = 0

AllNext ==
  /\ UNCHANGED running
  /\ \/ running = "git" /\ Next /\ UNCHANGED textVars
     \/ running = "edits" /\ Doc!Next /\ UNCHANGED vars

AllSpec == AllInit /\ [][AllNext]_allVars

----------------------------------------------------------------------------
\* An edit of a plain file changes nothing but what it was asked for (DocumentEdits).
PlainEditsKeepTheRest == Doc!PlainEditsKeepTheRest

\* A value that was saved in a plain file reads back as it was given (DocumentEdits).
SavedValueReadsBack == Doc!SavedValueReadsBack

\* Groups and descriptions of a plain file are shown as they were asked for (DocumentEdits).
ShownAsAsked == Doc!ShownAsAsked
=============================================================================
