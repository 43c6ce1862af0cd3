------------------------------ MODULE Programs ------------------------------
(***************************************************************************)
(* Two programs that are started for one thing each and share no state     *)
(* with the rest: "value apply-stdin" (StdinValue) and the verifier on a   *)
(* remote host (RemoteVerifier).  A behaviour of both is one of each, so   *)
(* it is enough to look at one at a time while the other rests where it    *)
(* starts.                                                                 *)
(***************************************************************************)
EXTENDS RemoteVerifier, Sequences, SequencesExt, FiniteSetsExt

CONSTANTS
  Process, FileOrder, Value, Absent, Plan, TTL, MaxScan, CanDie, Minutes, MaxStamp  \* of StdinValue

VARIABLES
  running,     \* which program runs
  files, manifest, registered, plans, now, call, since

valueVars == <<files, manifest, registered, plans, now, call, since>>
allVars == <<running, valueVars, vars>>

Values == INSTANCE StdinValue WITH Horizon <- Minutes

ASSUME ValuesAssumption == Values!StdinAssumption

\* A program that does not run is at the first of its initial states.
AllInit ==
  /\ running \in {"value", "verifier"}
  /\ Values!Init
  /\ running # "value" =>
       manifest.members = { } /\ \A f \in DOMAIN files : files[f].value = CHOOSE v \in Value : TRUE
  /\ Init
  /\ running # "verifier" =>
       clock = 0 /\ \A v \in Verifier : check[v].req = CHOOSE r \in Request : TRUE

AllNext ==
  /\ UNCHANGED running
  /\ \/ running = "value" /\ Values!Next /\ UNCHANGED vars
     \/ running = "verifier" /\ Next /\ UNCHANGED valueVars

AllSpec == AllInit /\ [][AllNext]_allVars

----------------------------------------------------------------------------
\* "can be claimed only once" (stdin-value-ingest.md:15): a plan for a value from stdin is worked on
\* by one process (StdinValue).
OneClaim == Values!OneClaim

\* A value from stdin is written for a plan claimed in time, to the files it has announced, as these
\* were then, of a project that is registered (StdinValue).
BoundToPlan == Values!BoundToPlan
=============================================================================
