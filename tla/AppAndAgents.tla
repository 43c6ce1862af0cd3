---------------------------- MODULE AppAndAgents ----------------------------
(***************************************************************************)
(* The desktop app and its registry of projects (DesktopRegistry), a       *)
(* broker that serves an agent (Broker), and the packs both execute        *)
(* (ActionPacks).  Where they meet, each model has the other's steps among *)
(* its own: "broker_register" there, the user's changes here.  What is     *)
(* left of them shares no state, so a behaviour of all is one of each, and *)
(* it is enough to look at one at a time while the others rest where they  *)
(* start.                                                                  *)
(***************************************************************************)
EXTENDS DesktopRegistry, SequencesExt, FiniteSetsExt

CONSTANTS
  Agent, Workspace, Folder, Key, Value, Empty, Absent, TTL, Access, Default, \* of Broker
  Requests, Variables, Policies, MaxPlan, Horizon,
  Host, Pack, Manifest, NoPack, Version, NoTool, Binding, MaxUpgrades, MaxInstalls  \* of ActionPacks

VARIABLES
  running,     \* which of the three is looked at
  project, registered, agentPlans, nextId, now, agentCall, agentSince,
  packs, install, installs, tool, versions, packPlan, packCall, packSince

agentVars == <<project, registered, agentPlans, nextId, now, agentCall, agentSince>>
packVars == <<packs, install, installs, tool, versions, packPlan, packCall, packSince>>
allVars == <<running, agentVars, packVars, vars>>

Agents == INSTANCE Broker WITH
  Project <- Folder, registry <- registered, plans <- agentPlans, call <- agentCall,
  since <- agentSince

Actions == INSTANCE ActionPacks WITH
  cache <- versions, plan <- packPlan, call <- packCall, since <- packSince

ASSUME AgentsAssumption == Agents!BrokerAssumption
ASSUME ActionsAssumption == Actions!ActionAssumption

\* What is not looked at is at the first of its initial states.
AllInit ==
  /\ running \in {"desktop", "broker", "packs"}
  /\ Init
  /\ running # "desktop" => Registered(registry) = {} /\ ~registry.old /\ legacy = {}
  /\ Agents!Init
  /\ running # "broker" =>
       /\ registered = { }
       /\ \A p \in Folder : project[p] = [values |-> [k \in Key |-> Absent],
                                        access |-> [k \in Key |-> "none"], manifest |-> TRUE]
  /\ Actions!Init
  /\ running # "packs" => packs = [p \in Pack |-> NoPack] /\ tool.version = NoTool

AllNext ==
  /\ UNCHANGED running
  /\ \/ running = "desktop" /\ Next /\ UNCHANGED <<agentVars, packVars>>
     \/ running = "broker" /\ Agents!Next /\ UNCHANGED <<packVars, vars>>
     \/ running = "packs" /\ Actions!Next /\ UNCHANGED <<agentVars, vars>>

AllSpec == AllInit /\ [][AllNext]_allVars

----------------------------------------------------------------------------
\* A key is read or written for an agent under a policy that held during the call (Broker).
AgentNeedsAccess == Agents!AgentNeedsAccess

\* A broker's calls change and copy from registered projects only (Broker).
OnlyRegistered == Agents!OnlyRegistered

\* No change is made for a plan that was spent, or had expired when it was taken (Broker).
SingleUse == Agents!SingleUse

\* Only the classification plan of a key opens one that was closed when the call began (Broker).
OpensOnRequest == Agents!OpensOnRequest

\* A pack that was replaced or removed after it was planned does not run (ActionPacks).
RevokedPackNeverRuns == Actions!RevokedPackNeverRuns

\* A tool is given the arguments of a profile for its version (ActionPacks).
ProfileFitsTool == Actions!ProfileFitsTool
=============================================================================
