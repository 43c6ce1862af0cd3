--------------------------- MODULE DesktopServices ---------------------------
(***************************************************************************)
(* Three parts of the desktop app that share no state: commits of env      *)
(* files (Transaction), pushes to and comparisons with providers           *)
(* (ProviderPush; a value is the bytes of it), and the log of what agents  *)
(* did (ActivityLog).  A behaviour of all is one of each, so it is enough  *)
(* to look at one at a time while the others rest where they start.        *)
(***************************************************************************)
EXTENDS Transaction

CONSTANTS
  Key, Provider, MaxKeys, MaxChanges, Empty, Absent,                    \* of ProviderPush
  Broker, Directory, MaxLines, MaxShown, MaxEvents, MaxStarts, CanFail  \* of ActivityLog

VARIABLES
  running,     \* which part is looked at
  local, remote, login, call, receipt, others, changes,
  names, bytes, events, writer, desk, starts, since

pushVars == <<local, remote, login, call, receipt, others, changes>>
logVars == <<names, bytes, events, writer, desk, starts, since>>
allVars == <<running, pushVars, logVars, vars>>

Pushes == INSTANCE ProviderPush WITH Value <- Bytes
Log == INSTANCE ActivityLog WITH Writer <- Broker

ASSUME PushesAssumption == Pushes!PushAssumption
ASSUME LogAssumption == Log!LogAssumption

\* What is not looked at rests: without bytes, without values, with the login at the intended account.
AllInit ==
  /\ running \in {"commit", "push", "log"}
  /\ IF running = "commit" THEN Init
     ELSE /\ disk = [f \in File |-> NoBytes]
          /\ txn = [w \in Writer |-> Idle("none")] /\ disturbed = [w \in Writer |-> FALSE]
  /\ Pushes!Init /\ Log!Init
  /\ running # "push" =>
       /\ \A k \in Key : local[k] = Empty /\ remote["mine"][k] = Absent
       /\ login = "mine"

AllNext ==
  /\ UNCHANGED running
  /\ \/ running = "commit" /\ Next /\ UNCHANGED <<pushVars, logVars>>
     \/ running = "push" /\ Pushes!Next /\ UNCHANGED <<logVars, vars>>
     \/ running = "log" /\ Log!Next /\ UNCHANGED <<pushVars, vars>>

AllSpec == AllInit /\ [][AllNext]_allVars

----------------------------------------------------------------------------
\* A receipt names as succeeded what was acknowledged and stored (ProviderPush).
ReceiptIsTrue == Pushes!ReceiptIsTrue

\* A push that is refused has sent nothing (ProviderPush).
ErrorSentNothing == Pushes!ErrorSentNothing

\* A comparison answers truly for every key (ProviderPush).
ComparisonIsTrue == Pushes!ComparisonIsTrue

\* A push changes the selected keys in the account that was checked (ProviderPush).
OnlyWhatWasChosen == Pushes!OnlyWhatWasChosen

\* The migration of the log loses no event that was there (ActivityLog).
MigrationKeepsActivity == Log!MigrationKeepsActivity
=============================================================================
