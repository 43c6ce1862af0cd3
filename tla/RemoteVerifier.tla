--------------------------- MODULE RemoteVerifier ---------------------------
(***************************************************************************)
(* compare_encrypted_request of crates/env-remote-verifier/src/lib.rs: a   *)
(* process on a remote host answers whether candidate values equal the     *)
(* deployed ones.  A request may be answered once.  It is refused if its   *)
(* time stamp is more than Skew away from the verifier's clock, or if a    *)
(* marker file with its id exists; markers are deleted once they are       *)
(* Retention old.  Every delivery starts a process of its own, so the      *)
(* three steps of one (time check, cleanup, claim) interleave with those   *)
(* of others, and any message can be delivered again.                      *)
(***************************************************************************)
EXTENDS Naturals, FiniteSets

CONSTANTS
  Verifier,    \* verifier processes
  Request,     \* requests, by their id
  Skew,        \* MAX_CLOCK_SKEW_SECONDS
  Retention,   \* REPLAY_RETENTION_SECONDS
  Pause,       \* bound: seconds from a process's time check to its claim
  Horizon      \* bound: the last second

ASSUME TimeAssumption ==
  Skew \in Nat /\ Retention \in Nat /\ Pause \in Nat /\ Horizon \in Nat

\* The constants of the program satisfy this for every pause up to 420 seconds.
ASSUME RetentionAssumption == Retention >= 2 * Skew + Pause

VARIABLES
  clock,      \* the host's clock, in seconds
  issued,     \* issued[r]: the time stamp the sender put into r, or Never
  marker,     \* marker[r]: the modification time of r's marker file, or Never
  check,      \* check[v]: the request v is at, its program counter and its time check
  answered    \* history: how often r has been let through

vars == <<clock, issued, marker, check, answered>>

Time == 0..Horizon
Never == Horizon + 1
Idle(v) == check[v].pc = "idle"
Finish(v) == check' = [check EXCEPT ![v].pc = "idle"]

Init ==
  /\ clock \in Time
  /\ issued = [r \in Request |-> Never]
  /\ marker = [r \in Request |-> Never]
  /\ check \in [Verifier -> [pc : {"idle"}, req : Request, since : {clock}]]
  /\ answered = [r \in Request |-> 0]

\* encrypt_request on the sender: its clock may be anywhere.
Issue(r) ==
  /\ issued[r] = Never
  /\ \E t \in Time : issued' = [issued EXCEPT ![r] = t]
  /\ UNCHANGED <<clock, marker, check, answered>>

Distance(a, b) == IF a >= b THEN a - b ELSE b - a

\* A delivery of r, the first or a later one: validate_request takes the time and lets it pass.
Accept(v, r) ==
  /\ Idle(v)
  /\ issued[r] # Never
  /\ Distance(clock, issued[r]) <= Skew
  /\ check' = [check EXCEPT ![v] = [pc |-> "cleanup", req |-> r, since |-> clock]]
  /\ UNCHANGED <<clock, issued, marker, answered>>

\* Mutant: markers are kept only as long as a time stamp is accepted.
CleanupEarly(v) ==
  /\ check[v].pc = "cleanup"
  /\ marker' = [r \in Request |-> IF marker[r] # Never /\ clock > marker[r] + Skew THEN Never
                                  ELSE marker[r]]
  /\ check' = [check EXCEPT ![v].pc = "claim"]
  /\ UNCHANGED <<clock, issued, answered>>

\* cleanup_replay_markers: of the old markers, those it comes to and can remove; of 1000 entries
\* at most, and errors are ignored.
Cleanup(v) ==
  /\ check[v].pc = "cleanup"
  /\ \E old \in SUBSET { r \in Request : marker[r] # Never /\ clock > marker[r] + Retention } :
       marker' = [r \in Request |-> IF r \in old THEN Never ELSE marker[r]]
  /\ check' = [check EXCEPT ![v].pc = "claim"]
  /\ UNCHANGED <<clock, issued, answered>>

\* claim_request_id: the marker is created, and the comparison answered.
Claim(v) ==
  /\ check[v].pc = "claim"
  /\ marker[check[v].req] = Never
  /\ marker' = [marker EXCEPT ![check[v].req] = clock]
  /\ answered' = [answered EXCEPT ![check[v].req] = @ + 1]
  /\ Finish(v)
  /\ UNCHANGED <<clock, issued>>

\* create_new finds the marker: REMOTE_REQUEST_REPLAYED.
Replayed(v) ==
  /\ check[v].pc = "claim"
  /\ marker[check[v].req] # Never
  /\ Finish(v)
  /\ UNCHANGED <<clock, issued, marker, answered>>

\* Any other error, or the end of the process, before the claim.
Fails(v) == ~Idle(v) /\ Finish(v) /\ UNCHANGED <<clock, issued, marker, answered>>

\* A second passes; nobody is stopped for longer than Pause on its way to the claim.
Tick ==
  /\ clock < Horizon
  /\ \A v \in Verifier : ~Idle(v) => clock + 1 <= check[v].since + Pause
  /\ clock' = clock + 1
  /\ UNCHANGED <<issued, marker, check, answered>>

Next ==
  \/ \E r \in Request : Issue(r)
  \/ \E v \in Verifier : \/ \E r \in Request : Accept(v, r)
                         \/ Cleanup(v) \/ Claim(v) \/ Replayed(v) \/ Fails(v)
  \/ Tick

Spec == Init /\ [][Next]_vars

----------------------------------------------------------------------------
\* The type invariant.
TypeOK ==
  /\ clock \in Time
  /\ issued \in [Request -> Time \cup {Never}]
  /\ marker \in [Request -> Time \cup {Never}]
  /\ check \in [Verifier -> [pc : {"idle", "cleanup", "claim"}, req : Request, since : Time]]
  /\ answered \in [Request -> Nat]

\* No request is answered twice, however its deliveries are spread over time and processes.
NoReplay == \A r \in Request : answered[r] <= 1

\* A process on its way to the claim checked the time not long ago.
OnItsWay(v) ==
  ~Idle(v) =>
    /\ issued[check[v].req] # Never
    /\ check[v].since <= clock
    /\ clock <= check[v].since + Pause
    /\ check[v].since <= issued[check[v].req] + Skew
    /\ issued[check[v].req] <= check[v].since + Skew

\* Nobody on its way to a claim of r can still be there, and nobody can start one.
TooLate(r) == clock > issued[r] + Skew + Pause

\* An answered request has its marker, from not before its time stamp could be accepted, or its
\* time is over.
Guarded(r) ==
  /\ marker[r] # Never =>
       issued[r] # Never /\ marker[r] <= clock /\ issued[r] <= marker[r] + Skew
  /\ answered[r] > 0 => issued[r] # Never /\ (marker[r] # Never \/ TooLate(r))

\* The inductive invariant behind NoReplay.
ReplayInv ==
  /\ TypeOK
  /\ NoReplay
  /\ \A v \in Verifier : OnItsWay(v)
  /\ \A r \in Request : Guarded(r)
=============================================================================
