---------------------------- MODULE TeamSharing ----------------------------
(***************************************************************************)
(* A package on its way from one project to another: connected and         *)
(* published through a folder channel (TeamChannel), fetched, planned and  *)
(* applied by a receiver (TeamImport).  The two meet only in the package   *)
(* that is fetched, so it is enough to look at one at a time: at the       *)
(* members, or at an import of any package that a folder may hold.         *)
(***************************************************************************)
EXTENDS TeamChannel, TeamImport

CONSTANT Receiver

ASSUME ReceiverAssumption == Receiver \in Member \ Publisher

VARIABLE watched   \* which of them is looked at

vars == <<watched, channelVars, importVars>>

\* Every package a folder may hold: some files, each with some values.
Packages == UNION { [S -> Bytes] : S \in SUBSET File }

\* The receiver has registered the channel that is mounted, with one package in it.
ChannelReady ==
  /\ mounted \in Folder
  /\ \E id \in ChannelId, p \in Packages :
       /\ folders = [d \in Folder |->
            IF d = mounted
              THEN [descriptor |-> id, directory |-> TRUE, packages |-> [q \in PackageId |-> p]]
              ELSE [descriptor |-> NoId, directory |-> FALSE, packages |-> Nothing]]
       /\ member = [m \in Member |->
            [registered |-> IF m = Receiver THEN {id} ELSE {}, call |-> Idle]]
  /\ origin \in [Publisher -> Origin]

Init ==
  /\ ImportInit
  /\ \/ watched = "channel" /\ ChannelInit /\ links = {} /\ disk = [f \in File |-> NoFile]
     \/ watched = "import" /\ ChannelReady

\* plan_team_channel_import: the registration's channel is opened and the package fetched; a folder
\* that is mounted between the two has one of Packages as well.
PlanPublished ==
  /\ \E id \in member[Receiver].registered : Opens(id)
  /\ \E id \in DOMAIN AtPath.packages : BeginPlan(AtPath.packages[id])

Next ==
  /\ UNCHANGED watched
  /\ \/ watched = "import" /\ (PlanPublished \/ ImportNext) /\ UNCHANGED channelVars
     \/ watched = "channel" /\ ChannelNext /\ UNCHANGED importVars

Spec == Init /\ [][Next]_vars
=============================================================================
