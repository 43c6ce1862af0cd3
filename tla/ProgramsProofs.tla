--------------------------- MODULE ProgramsProofs ---------------------------
(***************************************************************************)
(* No request is answered twice, for every number of verifiers and         *)
(* requests and every Skew, Retention and Pause that satisfy the           *)
(* assumption of RemoteVerifier.  And a plan for a value from stdin is     *)
(* worked on by one process, and writes what it was bound to, for every    *)
(* number of processes, files and plans, every clock and every number of   *)
(* writes by others.                                                       *)
(***************************************************************************)
EXTENDS Programs, TLAPS

\* Times are natural numbers, and Never is none of them.
LEMMA TimeFacts ==
  /\ Time \subseteq Nat
  /\ Never \in Nat /\ Never \notin Time
  /\ \A t \in Time : t <= Horizon
BY TimeAssumption DEF Time, Never

\* What ReplayInv says, spelled out with the types of all that is compared.
LEMMA InvFacts ==
  ASSUME ReplayInv
  PROVE  /\ clock \in Time /\ clock \in Nat
         /\ \A r \in Request : /\ issued[r] \in Nat /\ marker[r] \in Nat /\ answered[r] \in Nat
                               /\ issued[r] \in Time \cup {Never}
                               /\ marker[r] \in Time \cup {Never}
         /\ \A v \in Verifier : check[v].req \in Request /\ check[v].since \in Nat
         /\ Skew \in Nat /\ Pause \in Nat /\ Retention \in Nat
BY TimeFacts, TimeAssumption DEF ReplayInv, TypeOK

LEMMA InitReplay ==
  ASSUME Init
  PROVE  ReplayInv
<1>1. TypeOK
  <2>1. \A v \in Verifier : check[v] \in [pc : {"idle"}, req : Request, since : {clock}]
    BY DEF Init
  <2>2. check \in [Verifier -> [pc : {"idle", "cleanup", "claim"}, req : Request, since : Time]]
    BY <2>1 DEF Init
  <2>3. QED
    BY <2>2, TimeFacts DEF Init, TypeOK
<1>2. NoReplay
  BY DEF Init, NoReplay
<1>3. ASSUME NEW v \in Verifier
      PROVE  OnItsWay(v)
  BY DEF Init, OnItsWay, Idle
<1>4. ASSUME NEW r \in Request
      PROVE  Guarded(r)
  BY DEF Init, Guarded
<1>5. QED
  BY <1>1, <1>2, <1>3, <1>4 DEF ReplayInv

\* A request that has just been issued is on nobody's way and has no marker yet.
LEMMA IssueReplay ==
  ASSUME ReplayInv, NEW r \in Request, Issue(r)
  PROVE  ReplayInv'
<1>1. PICK t \in Time : issued' = [issued EXCEPT ![r] = t]
  BY DEF Issue
<1>2. issued[r] = Never /\ UNCHANGED <<clock, marker, check, answered>>
  BY DEF Issue
<1>3. TypeOK'
  BY <1>1, <1>2 DEF ReplayInv, TypeOK
<1>4. NoReplay'
  BY <1>2 DEF ReplayInv, NoReplay
<1>5. ASSUME NEW v \in Verifier
      PROVE  OnItsWay(v)'
  <2>1. OnItsWay(v) /\ check[v].req \in Request
    BY InvFacts DEF ReplayInv
  <2>2. ~Idle(v) => issued'[check[v].req] = issued[check[v].req]
    BY <1>1, <1>2, <2>1 DEF OnItsWay, ReplayInv, TypeOK
  <2>3. QED
    BY <1>2, <2>1, <2>2 DEF OnItsWay, Idle
<1>6. ASSUME NEW q \in Request
      PROVE  Guarded(q)'
  <2>1. Guarded(q) /\ answered[q] \in Nat
    BY InvFacts DEF ReplayInv
  <2>2. q # r => issued'[q] = issued[q]
    BY <1>1 DEF ReplayInv, TypeOK
  <2>3. q = r => marker[q] = Never /\ ~(answered[q] > 0)
    BY <1>2, <2>1 DEF Guarded
  <2>4. QED
    BY <1>2, <2>1, <2>2, <2>3 DEF Guarded, TooLate
<1>7. QED
  BY <1>3, <1>4, <1>5, <1>6 DEF ReplayInv

\* The time check establishes OnItsWay for the process that makes it.
LEMMA AcceptReplay ==
  ASSUME ReplayInv, NEW v \in Verifier, NEW r \in Request, Accept(v, r)
  PROVE  ReplayInv'
<1> DEFINE c == [pc |-> "cleanup", req |-> r, since |-> clock]
<1>1. /\ issued[r] # Never /\ Distance(clock, issued[r]) <= Skew
      /\ check' = [check EXCEPT ![v] = c]
      /\ UNCHANGED <<clock, issued, marker, answered>>
  BY DEF Accept
<1>2. TypeOK'
  BY <1>1 DEF ReplayInv, TypeOK
<1>3. NoReplay'
  BY <1>1 DEF ReplayInv, NoReplay
<1>4. clock <= issued[r] + Skew /\ issued[r] <= clock + Skew
  BY <1>1, InvFacts DEF Distance
<1>5. ASSUME NEW u \in Verifier
      PROVE  OnItsWay(u)'
  <2>1. CASE u = v
    <3>1. check'[u] = c
      BY <1>1, <2>1 DEF ReplayInv, TypeOK
    <3>2. QED
      BY <1>1, <1>4, <3>1, InvFacts DEF OnItsWay
  <2>2. CASE u # v
    <3>1. check'[u] = check[u]
      BY <1>1, <2>2 DEF ReplayInv, TypeOK
    <3>2. QED
      BY <1>1, <3>1 DEF ReplayInv, OnItsWay, Idle
  <2>3. QED
    BY <2>1, <2>2
<1>6. \A q \in Request : Guarded(q)'
  BY <1>1 DEF ReplayInv, Guarded, TooLate
<1>7. QED
  BY <1>2, <1>3, <1>5, <1>6 DEF ReplayInv

\* A marker that is old enough to go guards a request that is too late to come back.
LEMMA CleanupReplay ==
  ASSUME ReplayInv, NEW v \in Verifier, Cleanup(v)
  PROVE  ReplayInv'
<1>1. PICK old \in SUBSET { r \in Request : marker[r] # Never /\ clock > marker[r] + Retention } :
        marker' = [r \in Request |-> IF r \in old THEN Never ELSE marker[r]]
  BY DEF Cleanup
<1>2. /\ check[v].pc = "cleanup"
      /\ check' = [check EXCEPT ![v].pc = "claim"]
      /\ UNCHANGED <<clock, issued, answered>>
  BY DEF Cleanup
<1>3. TypeOK'
  BY <1>1, <1>2 DEF ReplayInv, TypeOK
<1>4. NoReplay'
  BY <1>2 DEF ReplayInv, NoReplay
<1>5. ASSUME NEW u \in Verifier
      PROVE  OnItsWay(u)'
  <2>1. /\ check'[u].req = check[u].req /\ check'[u].since = check[u].since
        /\ Idle(u) => Idle(u)'
    BY <1>2 DEF ReplayInv, TypeOK, Idle
  <2>2. QED
    BY <1>2, <2>1 DEF ReplayInv, OnItsWay
<1>6. ASSUME NEW r \in Request
      PROVE  Guarded(r)'
  <2>1. Guarded(r)
    BY DEF ReplayInv
  <2>2. CASE r \in old
    <3>1. marker[r] # Never /\ clock > marker[r] + Retention /\ issued[r] <= marker[r] + Skew
      BY <2>1, <2>2 DEF Guarded
    <3>2. TooLate(r)
      BY <3>1, InvFacts, RetentionAssumption DEF TooLate
    <3>3. marker'[r] = Never
      BY <1>1, <2>2
    <3>4. QED
      BY <1>2, <2>1, <3>2, <3>3 DEF Guarded, TooLate
  <2>3. CASE r \notin old
    <3>1. marker'[r] = marker[r]
      BY <1>1, <2>3
    <3>2. QED
      BY <1>2, <2>1, <3>1 DEF Guarded, TooLate
  <2>4. QED
    BY <2>2, <2>3
<1>7. QED
  BY <1>3, <1>4, <1>5, <1>6 DEF ReplayInv

\* A request that is claimed was never answered before: its time is not over.
LEMMA ClaimReplay ==
  ASSUME ReplayInv, NEW v \in Verifier, Claim(v)
  PROVE  ReplayInv'
<1> DEFINE r == check[v].req
<1>1. /\ check[v].pc = "claim" /\ marker[r] = Never
      /\ marker' = [marker EXCEPT ![r] = clock]
      /\ answered' = [answered EXCEPT ![r] = @ + 1]
      /\ check' = [check EXCEPT ![v].pc = "idle"]
      /\ UNCHANGED <<clock, issued>>
  BY DEF Claim, Finish
<1>2. r \in Request /\ ~Idle(v) /\ OnItsWay(v) /\ Guarded(r) /\ check[v].since \in Nat
  BY <1>1, InvFacts DEF ReplayInv, Idle
<1>3. /\ issued[r] # Never
      /\ clock <= issued[r] + Skew + Pause
      /\ issued[r] <= clock + Skew
  BY <1>2, InvFacts DEF OnItsWay
<1>4. answered[r] = 0
  <2>1. ~TooLate(r)
    BY <1>2, <1>3, InvFacts DEF TooLate
  <2>2. QED
    BY <1>1, <1>2, <2>1, InvFacts DEF Guarded
<1>5. TypeOK'
  BY <1>1, <1>2 DEF ReplayInv, TypeOK
<1>6. NoReplay'
  BY <1>1, <1>2, <1>4 DEF ReplayInv, NoReplay, TypeOK
<1>7. ASSUME NEW u \in Verifier
      PROVE  OnItsWay(u)'
  <2>1. /\ check'[u].req = check[u].req /\ check'[u].since = check[u].since
        /\ Idle(u) => Idle(u)'
    BY <1>1 DEF ReplayInv, TypeOK, Idle
  <2>2. QED
    BY <1>1, <2>1 DEF ReplayInv, OnItsWay
<1>8. ASSUME NEW q \in Request
      PROVE  Guarded(q)'
  <2>1. CASE q = r
    <3>1. marker'[q] = clock
      BY <1>1, <1>2, <2>1 DEF ReplayInv, TypeOK
    <3>2. clock # Never
      BY InvFacts, TimeFacts
    <3>3. QED
      BY <1>1, <1>3, <2>1, <3>1, <3>2, InvFacts DEF Guarded
  <2>2. CASE q # r
    <3>1. marker'[q] = marker[q] /\ answered'[q] = answered[q]
      BY <1>1, <2>2 DEF ReplayInv, TypeOK
    <3>2. QED
      BY <1>1, <3>1 DEF ReplayInv, Guarded, TooLate
  <2>3. QED
    BY <2>1, <2>2
<1>9. QED
  BY <1>5, <1>6, <1>7, <1>8 DEF ReplayInv

\* A process that gives up leaves everything else alone.
LEMMA FinishReplay ==
  ASSUME ReplayInv, NEW v \in Verifier, Finish(v), UNCHANGED <<clock, issued, marker, answered>>
  PROVE  ReplayInv'
<1>1. TypeOK'
  BY DEF ReplayInv, TypeOK, Finish
<1>2. NoReplay'
  BY DEF ReplayInv, NoReplay
<1>3. ASSUME NEW u \in Verifier
      PROVE  OnItsWay(u)'
  <2>1. /\ check'[u].req = check[u].req /\ check'[u].since = check[u].since
        /\ Idle(u) => Idle(u)'
    BY DEF ReplayInv, TypeOK, Finish, Idle
  <2>2. QED
    BY <2>1 DEF ReplayInv, OnItsWay
<1>4. \A r \in Request : Guarded(r)'
  BY DEF ReplayInv, Guarded, TooLate
<1>5. QED
  BY <1>1, <1>2, <1>3, <1>4 DEF ReplayInv

\* The clock waits for whoever is on its way.
LEMMA TickReplay ==
  ASSUME ReplayInv, Tick
  PROVE  ReplayInv'
<1>1. clock' = clock + 1 /\ clock < Horizon /\ UNCHANGED <<issued, marker, check, answered>>
  BY DEF Tick
<1>2. TypeOK'
  BY <1>1, TimeAssumption DEF ReplayInv, TypeOK, Time
<1>3. NoReplay'
  BY <1>1 DEF ReplayInv, NoReplay
<1>4. ASSUME NEW v \in Verifier
      PROVE  OnItsWay(v)'
  <2>1. ~Idle(v) => clock + 1 <= check[v].since + Pause
    BY DEF Tick
  <2>2. QED
    BY <1>1, <2>1, InvFacts DEF ReplayInv, OnItsWay, Idle
<1>5. ASSUME NEW r \in Request
      PROVE  Guarded(r)'
  BY <1>1, InvFacts DEF ReplayInv, Guarded, TooLate
<1>6. QED
  BY <1>2, <1>3, <1>4, <1>5 DEF ReplayInv

LEMMA StepReplay ==
  ASSUME ReplayInv, [Next]_vars
  PROVE  ReplayInv'
<1>1. ASSUME NEW r \in Request, Issue(r)
      PROVE  ReplayInv'
  BY <1>1, IssueReplay
<1>2. ASSUME NEW v \in Verifier, NEW r \in Request, Accept(v, r)
      PROVE  ReplayInv'
  BY <1>2, AcceptReplay
<1>3. ASSUME NEW v \in Verifier, Cleanup(v)
      PROVE  ReplayInv'
  BY <1>3, CleanupReplay
<1>4. ASSUME NEW v \in Verifier, Claim(v)
      PROVE  ReplayInv'
  BY <1>4, ClaimReplay
<1>5. ASSUME NEW v \in Verifier, Replayed(v) \/ Fails(v)
      PROVE  ReplayInv'
  BY <1>5, FinishReplay DEF Replayed, Fails
<1>6. CASE Tick
  BY <1>6, TickReplay
<1>7. CASE UNCHANGED vars
  BY <1>7 DEF vars, ReplayInv, TypeOK, NoReplay, OnItsWay, Idle, Guarded, TooLate
<1>8. QED
  BY <1>1, <1>2, <1>3, <1>4, <1>5, <1>6, <1>7 DEF Next

\* The conjunction behind NoReplay holds in every reachable state: a claim of the request is only
\* on its way while the marker it would find cannot have been cleaned up (compare_encrypted_request).
THEOREM ReplayInvariant == Spec => []ReplayInv
<1>1. Init => ReplayInv
  BY InitReplay
<1>2. ReplayInv /\ [Next]_vars => ReplayInv'
  BY StepReplay
<1>3. QED
  BY <1>1, <1>2, PTL DEF Spec

\* claim_request_id lets no request through twice.
THEOREM NoReplayEver == Spec => []NoReplay
<1>1. ReplayInv => NoReplay
  BY DEF ReplayInv
<1>2. QED
  BY <1>1, ReplayInvariant, PTL

----------------------------------------------------------------------------
(* StdinValue *)

\* The part of the invariant that is about one process.
ProcessOK(p) ==
  Values!InTime(p) /\ Values!WasRegistered(p) /\ Values!ManifestBound(p) /\ Values!FilesBound(p)

LEMMA AbsentFacts == Absent \notin Value /\ Absent \notin Plan /\ Absent \notin Process
BY ValuesAssumption DEF Values!StdinAssumption

LEMMA NoPlanTyped == Values!NoPlan \in Values!PlanRecord /\ Values!NoPlan.manifest = 0
BY DEF Values!NoPlan, Values!PlanRecord

LEMMA IdleTyped ==
  Values!Idle \in Values!CallRecord /\ Values!Idle.plan = Values!NoPlan /\ Values!Idle.value = Absent
BY NoPlanTyped DEF Values!Idle, Values!CallRecord, Values!NothingLoaded

LEMMA InitValue ==
  ASSUME Values!Init
  PROVE  Values!ValueInv
<1> USE DEF Values!Init
<1>1. \A p \in Process : call[p] = Values!Idle /\ since[p] = Values!Fresh
  OBVIOUS
<1>2. Values!TypeOK
  BY IdleTyped, NoPlanTyped DEF Values!TypeOK, Values!Fresh
<1>3. Values!OneClaim
  BY <1>1, AbsentFacts DEF Values!OneClaim, Values!Working, Values!Idle
<1>4. \A q \in Plan : Values!PlanBound(q)
  BY NoPlanTyped DEF Values!PlanBound
<1>5. ASSUME NEW p \in Process
      PROVE  ProcessOK(p)
  BY <1>1, AbsentFacts, NoPlanTyped
     DEF ProcessOK, Values!InTime, Values!WasRegistered, Values!ManifestBound, Values!FilesBound, Values!Idle,
         Values!At, Values!Planning, Values!Working, Values!Checking, Values!Window
<1>6. QED
  BY <1>2, <1>3, <1>4, <1>5 DEF Values!ValueInv, ProcessOK

----------------------------------------------------------------------------
\* A step of one process that keeps its plan and changes nothing others can see.
Others(p) == \A r \in Process : r # p => call'[r] = call[r] /\ since'[r] = since[r]

\* Who is not part of a step that changes nothing but plans nobody else has claimed.
LEMMA Bystander ==
  ASSUME Values!ValueInv, NEW r \in Process, call'[r] = call[r], since'[r] = since[r],
         UNCHANGED <<files, manifest, registered, now>>,
         Values!Working(r) => plans'[call[r].id].plan = plans[call[r].id].plan
  PROVE  ProcessOK(r)'
<1> USE DEF Values!At, Values!Planning, Values!Working, Values!Checking, Values!Window
<1>1. ProcessOK(r)
  BY DEF Values!ValueInv, ProcessOK
<1>2. Values!InTime(r)'
  BY <1>1 DEF ProcessOK, Values!InTime, Values!Expired
<1>3. Values!WasRegistered(r)'
  BY <1>1 DEF ProcessOK, Values!WasRegistered
<1>4. Values!ManifestBound(r)'
  BY <1>1 DEF ProcessOK, Values!ManifestBound, Values!Targets
<1>5. Values!Loaded(r)' = Values!Loaded(r) /\ Values!Compared(r)' = Values!Compared(r)
  BY DEF Values!Loaded, Values!Compared
<1>6. Values!FilesBound(r)'
  BY <1>1, <1>5 DEF ProcessOK, Values!FilesBound, Values!Targets
<1>7. QED
  BY <1>2, <1>3, <1>4, <1>6 DEF ProcessOK

LEMMA OwnStep ==
  ASSUME Values!ValueInv, NEW p \in Process,
         UNCHANGED <<files, manifest, registered, plans, now>>,
         Values!TypeOK', Others(p), call'[p].id = call[p].id, ProcessOK(p)'
  PROVE  Values!ValueInv'
<1>1. \A r \in Process : call'[r].id = call[r].id
  BY DEF Others
<1>3. Values!OneClaim'
  BY <1>1 DEF Values!ValueInv, Values!OneClaim, Values!Working
<1>4. \A q \in Plan : Values!PlanBound(q)'
  BY DEF Values!ValueInv, Values!PlanBound
<1>5. ASSUME NEW r \in Process, r # p
      PROVE  ProcessOK(r)'
  BY <1>5, Bystander DEF Others
<1>6. QED
  BY <1>3, <1>4, <1>5 DEF Values!ValueInv, ProcessOK

LEMMA CreatePlanStep ==
  ASSUME Values!ValueInv, NEW p \in Process, NEW file \in Values!File, Values!CreatePlan(p, file)
  PROVE  Values!ValueInv'
<1> DEFINE plan == [Values!NoPlan EXCEPT !.file = file, !.targets = Values!Targets(file)]
           c == [Values!Idle EXCEPT !.pc = "stat", !.todo = Values!Targets(file), !.plan = plan]
<1>1. /\ UNCHANGED <<files, manifest, registered, plans, now, since>>
      /\ call' = [call EXCEPT ![p] = c] /\ call[p].pc = "idle"
  BY DEF Values!CreatePlan, Values!At
<1>2. Values!Targets(file) \in SUBSET Values!File
  BY DEF Values!ValueInv, Values!TypeOK, Values!Targets
<1>3. plan \in Values!PlanRecord /\ plan.manifest = 0 /\ plan.file \in Values!File
  BY <1>2 DEF Values!NoPlan, Values!PlanRecord
<1>4. c \in Values!CallRecord /\ c.pc = "stat" /\ c.id = Absent /\ c.plan = plan
  BY <1>2, <1>3 DEF Values!Idle, Values!NothingLoaded, Values!CallRecord
<1>5. call'[p] = c /\ Values!TypeOK' /\ Others(p)
  BY <1>1, <1>4 DEF Values!ValueInv, Values!TypeOK, Others
<1>6. call[p].id = Absent
  BY <1>1 DEF Values!ValueInv, Values!TypeOK, Values!CallRecord, Values!InTime, Values!Working, Values!At
<1>7. manifest.stamp \in Nat
  BY DEF Values!ValueInv, Values!TypeOK
<1> HIDE DEF c, plan
<1>8. ProcessOK(p)'
  BY <1>1, <1>3, <1>4, <1>5, <1>7, AbsentFacts
     DEF ProcessOK, Values!InTime, Values!WasRegistered, Values!ManifestBound, Values!FilesBound, Values!At,
         Values!Planning, Values!Working, Values!Checking, Values!Window
<1>9. QED
  BY <1>1, <1>4, <1>5, <1>6, <1>8, OwnStep

\* A process that gives up its plan, before it has removed the claimed file.
LEMMA LeaveStep ==
  ASSUME Values!ValueInv, NEW p \in Process, Values!Working(p), Values!Leave(p),
         UNCHANGED <<files, manifest, registered, plans, now, since>>
  PROVE  Values!ValueInv'
<1> DEFINE c == [Values!Idle EXCEPT !.pc = "release", !.id = call[p].id]
<1>1. c \in Values!CallRecord /\ c.pc = "release" /\ c.id = call[p].id /\ c.plan = Values!NoPlan
  BY IdleTyped DEF Values!Working, Values!Idle, Values!CallRecord
<1>2. call' = [call EXCEPT ![p] = c]
  BY DEF Values!Leave
<1>3. call'[p] = c /\ Values!TypeOK' /\ Others(p)
  BY <1>1, <1>2 DEF Values!ValueInv, Values!TypeOK, Others
<1>4. manifest.stamp \in Nat
  BY DEF Values!ValueInv, Values!TypeOK
<1>5. ProcessOK(p)'
  BY <1>1, <1>3, <1>4, NoPlanTyped
     DEF ProcessOK, Values!InTime, Values!WasRegistered, Values!ManifestBound, Values!FilesBound, Values!At,
         Values!Planning, Values!Working, Values!Checking, Values!Window
<1>6. QED
  BY <1>1, <1>3, <1>5, OwnStep

\* The step of a process that makes a plan.
LEMMA PlanningStep ==
  ASSUME Values!ValueInv, NEW p \in Process, Values!Planning(p), Values!Planning(p)',
         NEW c \in Values!CallRecord, call' = [call EXCEPT ![p] = c],
         c.id = call[p].id, c.plan.manifest <= manifest.stamp, c.plan.file = call[p].plan.file,
         UNCHANGED <<files, manifest, registered, plans, now, since>>
  PROVE  Values!ValueInv'
<1>1. call'[p] = c /\ Values!TypeOK' /\ Others(p)
  BY DEF Values!ValueInv, Values!TypeOK, Others
<1>2. ~Values!Working(p) /\ call[p].plan.file \in Values!File
  BY DEF Values!ValueInv, Values!InTime, Values!Planning
<1>3. ProcessOK(p)'
  BY <1>1, <1>2
     DEF ProcessOK, Values!InTime, Values!WasRegistered, Values!ManifestBound, Values!FilesBound, Values!At,
         Values!Planning, Values!Working, Values!Checking, Values!Window
<1>4. QED
  BY <1>1, <1>3, OwnStep

LEMMA StatStep ==
  ASSUME Values!ValueInv, NEW p \in Process, Values!Stat(p)
  PROVE  Values!ValueInv'
<1>1. PICK f \in Values!Next1(p) :
        call' = [call EXCEPT ![p].todo = @ \ {f}, ![p].plan.states[f] = files[f].stamp,
                             ![p].pc = IF Values!LastOf(p, f) THEN "statManifest" ELSE @]
  BY DEF Values!Stat
<1> DEFINE pc == IF Values!LastOf(p, f) THEN "statManifest" ELSE "stat"
           plan == [call[p].plan EXCEPT !.states[f] = files[f].stamp]
           c == [call[p] EXCEPT !.todo = @ \ {f}, !.plan = plan, !.pc = pc]
<1>2. call[p].pc = "stat" /\ UNCHANGED <<files, manifest, registered, plans, now, since>>
  BY DEF Values!Stat, Values!At
<1>3. call[p] \in Values!CallRecord /\ call[p].plan \in Values!PlanRecord /\ f \in Values!File
      /\ files[f].stamp \in Nat
  BY DEF Values!ValueInv, Values!TypeOK, Values!CallRecord, Values!Next1
<1>4. plan \in Values!PlanRecord /\ plan.manifest = call[p].plan.manifest /\ plan.file = call[p].plan.file
  BY <1>3 DEF Values!PlanRecord
<1>5. c \in Values!CallRecord /\ c.pc = pc /\ c.id = call[p].id /\ c.plan = plan
  BY <1>3, <1>4 DEF Values!CallRecord
<1>6. call' = [call EXCEPT ![p] = c]
  BY <1>1, <1>2, <1>3 DEF Values!CallRecord, Values!PlanRecord
<1>7. call[p].plan.manifest <= manifest.stamp
  BY DEF Values!ValueInv, Values!ManifestBound
<1>8. Values!Planning(p) /\ Values!Planning(p)'
  BY <1>2, <1>3, <1>5, <1>6 DEF Values!ValueInv, Values!TypeOK, Values!Planning
<1> HIDE DEF c, plan, pc
<1>9. QED
  BY <1>2, <1>4, <1>5, <1>6, <1>7, <1>8, PlanningStep

LEMMA StatManifestStep ==
  ASSUME Values!ValueInv, NEW p \in Process, Values!StatManifest(p)
  PROVE  Values!ValueInv'
<1> DEFINE plan == [call[p].plan EXCEPT !.manifest = manifest.stamp]
           c == [call[p] EXCEPT !.plan = plan, !.pc = "store"]
<1>1. /\ call[p].pc = "statManifest" /\ UNCHANGED <<files, manifest, registered, plans, now, since>>
      /\ call' = [call EXCEPT ![p].plan.manifest = manifest.stamp, ![p].pc = "store"]
  BY DEF Values!StatManifest, Values!At
<1>2. call[p] \in Values!CallRecord /\ call[p].plan \in Values!PlanRecord /\ manifest.stamp \in Nat
  BY DEF Values!ValueInv, Values!TypeOK, Values!CallRecord
<1>3. plan \in Values!PlanRecord /\ plan.manifest = manifest.stamp /\ plan.file = call[p].plan.file
  BY <1>2 DEF Values!PlanRecord
<1>4. c \in Values!CallRecord /\ c.pc = "store" /\ c.id = call[p].id /\ c.plan = plan
  BY <1>2, <1>3 DEF Values!CallRecord
<1>5. call' = [call EXCEPT ![p] = c]
  BY <1>1, <1>2 DEF Values!CallRecord, Values!PlanRecord
<1>6. Values!Planning(p) /\ Values!Planning(p)'
  BY <1>1, <1>4, <1>5 DEF Values!ValueInv, Values!TypeOK, Values!Planning
<1> HIDE DEF c, plan
<1>7. c.plan.manifest <= manifest.stamp
  BY <1>2, <1>3, <1>4
<1>8. QED
  BY <1>1, <1>3, <1>4, <1>5, <1>6, <1>7, PlanningStep

\* The end of a call: the process is idle, and the plan it had claimed is out of the way.
LEMMA IdleStep ==
  ASSUME Values!ValueInv, NEW p \in Process, Values!Return(p),
         plans' \in [Plan -> [status : {"unused", "open", "claimed", "left", "gone"}, plan : Values!PlanRecord]],
         \A q \in Plan : Values!PlanBound(q)',
         \A q \in Plan : plans[q].status = "claimed" /\ q # call[p].id => plans'[q] = plans[q],
         UNCHANGED <<files, manifest, registered, now>>
  PROVE  Values!ValueInv'
<1>1. /\ call' = [call EXCEPT ![p] = Values!Idle] /\ since' = [since EXCEPT ![p] = Values!Fresh]
  BY DEF Values!Return
<1>2. Values!TypeOK'
  BY <1>1, IdleTyped DEF Values!ValueInv, Values!TypeOK, Values!Fresh
<1>3. call'[p] = Values!Idle /\ Others(p)
  BY <1>1 DEF Values!ValueInv, Values!TypeOK, Others
<1>4. ~Values!Working(p)' /\ call'[p].pc = "idle" /\ call'[p].plan.manifest = 0
  BY <1>3, AbsentFacts, NoPlanTyped DEF Values!Working, Values!Idle
<1>5. \A r \in Process : Values!Working(r)' =>
         /\ r # p /\ call'[r] = call[r] /\ Values!Working(r) /\ call[r].id # call[p].id
         /\ plans[call[r].id].status = "claimed" /\ plans'[call[r].id] = plans[call[r].id]
  BY <1>3, <1>4 DEF Others, Values!ValueInv, Values!OneClaim, Values!Working
<1>6. Values!OneClaim'
  BY <1>4, <1>5 DEF Values!ValueInv, Values!OneClaim, Values!Working
<1>7. manifest.stamp \in Nat
  BY DEF Values!ValueInv, Values!TypeOK
<1>8. ASSUME NEW r \in Process
      PROVE  ProcessOK(r)'
  <2>1. CASE r = p
    BY <1>4, <1>7, <2>1
       DEF ProcessOK, Values!InTime, Values!WasRegistered, Values!ManifestBound, Values!FilesBound, Values!At,
           Values!Planning, Values!Working, Values!Checking, Values!Window
  <2>2. CASE r # p
    <3>1. call'[r] = call[r] /\ since'[r] = since[r]
      BY <1>3, <2>2 DEF Others
    <3>2. Values!Working(r) => plans'[call[r].id] = plans[call[r].id]
      BY <1>5, <3>1 DEF Values!Working
    <3>3. QED
      BY <3>1, <3>2, Bystander
  <2>3. QED
    BY <2>1, <2>2
<1>9. QED
  BY <1>2, <1>6, <1>8 DEF Values!ValueInv, ProcessOK

LEMMA StoreStep ==
  ASSUME Values!ValueInv, NEW p \in Process, Values!StorePlan(p)
  PROVE  Values!ValueInv'
<1>1. PICK S \in Values!Scanned, q \in { u \in Plan : plans[u].status = "unused" } :
        plans' = [Values!CleanedUp(S) EXCEPT
                    ![q] = [status |-> "open", plan |-> [call[p].plan EXCEPT !.created = now]]]
  BY DEF Values!StorePlan
<1> DEFINE plan == [call[p].plan EXCEPT !.created = now]
<1>2. /\ call[p].plan \in Values!PlanRecord /\ call[p].plan.manifest <= manifest.stamp /\ now \in Nat
      /\ call[p].plan.file \in Values!File
  BY DEF Values!StorePlan, Values!At, Values!ValueInv, Values!TypeOK, Values!CallRecord, Values!InTime,
         Values!ManifestBound
<1>3. plan \in Values!PlanRecord /\ plan.manifest <= manifest.stamp /\ plan.file \in Values!File
  BY <1>2 DEF Values!PlanRecord
<1>4. ASSUME NEW u \in Plan
      PROVE  /\ plans'[u] \in [status : {"unused", "open", "claimed", "left", "gone"}, plan : Values!PlanRecord]
             /\ Values!PlanBound(u)'
             /\ plans[u].status = "claimed" => plans'[u] = plans[u]
  <2> USE DEF Values!StorePlan, Values!PlanBound
  <2>1. CASE u = q
    BY <1>1, <1>3, <2>1 DEF Values!CleanedUp
  <2>2. CASE u # q
    <3>1. \/ plans'[u] = plans[u]
          \/ plans[u].status = "open" /\ plans'[u] = [status |-> "gone", plan |-> Values!NoPlan]
      BY <1>1, <2>2 DEF Values!CleanedUp
    <3>2. QED
      BY <3>1, NoPlanTyped DEF Values!ValueInv, Values!TypeOK
  <2>3. QED
    BY <2>1, <2>2
<1>5. plans' = [u \in Plan |-> plans'[u]]
  BY <1>1 DEF Values!CleanedUp
<1>6. Values!Return(p) /\ UNCHANGED <<files, manifest, registered, now>>
  BY DEF Values!StorePlan
<1>7. QED
  BY <1>4, <1>5, <1>6, IdleStep

\* The claim: nobody else can be working on an open plan.
LEMMA ClaimStep ==
  ASSUME Values!ValueInv, NEW p \in Process, NEW q \in Plan, Values!Claim(p, q)
  PROVE  Values!ValueInv'
<1> DEFINE c == [Values!Idle EXCEPT !.pc = "plan", !.id = q]
<1>1. /\ call[p].pc = "idle" /\ plans[q].status = "open"
      /\ plans' = [plans EXCEPT ![q].status = "claimed"]
      /\ call' = [call EXCEPT ![p] = c]
      /\ since' = [since EXCEPT ![p].late = Values!Expired(plans[q].plan)]
      /\ UNCHANGED <<files, manifest, registered, now>>
  BY DEF Values!Claim, Values!At
<1>2. c \in Values!CallRecord /\ c.pc = "plan" /\ c.id = q /\ c.plan = Values!NoPlan
  BY IdleTyped DEF Values!Idle, Values!CallRecord
<1> HIDE DEF c
<1>3. Values!Expired(plans[q].plan) \in BOOLEAN
  BY DEF Values!Expired
<1>4. Values!TypeOK'
  BY <1>1, <1>2, <1>3 DEF Values!ValueInv, Values!TypeOK
<1>5. call'[p] = c /\ Others(p)
  BY <1>1, <1>2 DEF Values!ValueInv, Values!TypeOK, Others
<1>6. \A u \in Plan : plans'[u].plan = plans[u].plan /\ (u # q => plans'[u] = plans[u])
  BY <1>1 DEF Values!ValueInv, Values!TypeOK
<1>7. plans'[q].status = "claimed"
  BY <1>1 DEF Values!ValueInv, Values!TypeOK
<1>8. \A r \in Process : r # p /\ Values!Working(r)' => Values!Working(r) /\ call'[r].id = call[r].id /\ call[r].id # q
  BY <1>1, <1>5 DEF Others, Values!ValueInv, Values!OneClaim, Values!Working
<1>9. Values!OneClaim'
  BY <1>2, <1>5, <1>6, <1>7, <1>8 DEF Values!ValueInv, Values!OneClaim, Values!Working
<1>10. ASSUME NEW r \in Process
       PROVE  ProcessOK(r)'
  <2> USE DEF Values!At, Values!Planning, Values!Working, Values!Checking, Values!Window
  <2>1. CASE r = p
    <3>1. since'[p].late = Values!Expired(plans[q].plan)
      BY <1>1 DEF Values!ValueInv, Values!TypeOK
    <3>2. manifest.stamp \in Nat
      BY DEF Values!ValueInv, Values!TypeOK
    <3>3. Values!InTime(r)'
      BY <1>1, <1>2, <1>5, <1>6, <2>1, <3>1 DEF Values!InTime, Values!Expired
    <3>4. QED
      BY <1>1, <1>2, <1>5, <2>1, <3>2, <3>3, NoPlanTyped
         DEF ProcessOK, Values!WasRegistered, Values!ManifestBound, Values!FilesBound
  <2>2. CASE r # p
    BY <1>1, <1>5, <1>6, <2>2, Bystander DEF Others, Values!ValueInv, Values!TypeOK, Values!CallRecord
  <2>3. QED
    BY <2>1, <2>2
<1>11. \A u \in Plan : Values!PlanBound(u)'
  BY <1>1, <1>6 DEF Values!ValueInv, Values!PlanBound
<1>12. QED
  BY <1>4, <1>9, <1>10, <1>11 DEF Values!ValueInv, ProcessOK

\* A step of a process that applies a plan it has claimed.
LEMMA ApplyingStep ==
  ASSUME Values!ValueInv, NEW p \in Process, Values!Working(p),
         NEW c \in Values!CallRecord, call' = [call EXCEPT ![p] = c], c.id = call[p].id,
         UNCHANGED <<files, manifest, registered, plans, now, since>>,
         ProcessOK(p)'
  PROVE  Values!ValueInv'
<1>1. call'[p] = c /\ Values!TypeOK' /\ Others(p)
  BY DEF Values!ValueInv, Values!TypeOK, Others
<1>2. QED
  BY <1>1, OwnStep

LEMMA ReadPlanStep ==
  ASSUME Values!ValueInv, NEW p \in Process, Values!ReadPlan(p)
  PROVE  Values!ValueInv'
<1> DEFINE plan == plans[call[p].id].plan
           c == [call[p] EXCEPT !.plan = plan, !.pc = "stdin"]
<1>1. call[p].pc = "plan" /\ UNCHANGED <<files, manifest, registered, plans, now, since>>
  BY DEF Values!ReadPlan, Values!At
<1>2. Values!Working(p)
  BY <1>1 DEF Values!ValueInv, Values!InTime, Values!At, Values!Planning
<1>3. CASE Values!Expired(plan)
  BY <1>1, <1>2, <1>3, LeaveStep DEF Values!ReadPlan
<1>4. CASE ~Values!Expired(plan)
  <2>1. call' = [call EXCEPT ![p].plan = plan, ![p].pc = "stdin"]
    BY <1>4 DEF Values!ReadPlan
  <2>2. /\ call[p] \in Values!CallRecord /\ plan \in Values!PlanRecord
        /\ plan.manifest <= manifest.stamp /\ plan.file \in Values!File
    BY <1>2 DEF Values!ValueInv, Values!TypeOK, Values!OneClaim, Values!Working, Values!PlanBound
  <2>3. c \in Values!CallRecord /\ c.pc = "stdin" /\ c.id = call[p].id /\ c.plan = plan
    BY <2>2 DEF Values!CallRecord
  <2>4. call' = [call EXCEPT ![p] = c]
    BY <2>1, <2>2 DEF Values!CallRecord
  <2>5. call'[p] = c
    BY <2>4 DEF Values!ValueInv, Values!TypeOK
  <2>6. ~since[p].late
    BY <1>1, <1>4 DEF Values!ValueInv, Values!InTime, Values!At
  <2> HIDE DEF c
  <2>7. ProcessOK(p)'
    BY <1>1, <1>2, <2>2, <2>3, <2>5, <2>6
       DEF ProcessOK, Values!InTime, Values!WasRegistered, Values!ManifestBound, Values!FilesBound, Values!At,
           Values!Planning, Values!Working, Values!Checking, Values!Window
  <2>8. QED
    BY <1>1, <1>2, <2>3, <2>4, <2>7, ApplyingStep
<1>5. QED
  BY <1>3, <1>4

\* Where a process is that applies a plan, as InTime says of it.
LEMMA Works ==
  ASSUME Values!ValueInv, NEW p \in Process, call[p].pc \notin {"idle", "stat", "statManifest", "store"}
  PROVE  /\ Values!Working(p) /\ call[p] \in Values!CallRecord /\ call[p].plan \in Values!PlanRecord
         /\ call[p].plan.manifest <= manifest.stamp /\ manifest.stamp \in Nat
         /\ call[p].pc \notin {"plan", "release"} => call[p].plan.file \in Values!File
BY DEF Values!ValueInv, Values!TypeOK, Values!CallRecord, Values!InTime, Values!ManifestBound,
       Values!At, Values!Planning

LEMMA ReadStdinStep ==
  ASSUME Values!ValueInv, NEW p \in Process, NEW v \in Value, Values!ReadStdin(p, v)
  PROVE  Values!ValueInv'
<1> DEFINE c == [call[p] EXCEPT !.value = v, !.pc = "registry"]
<1>1. /\ call[p].pc = "stdin" /\ UNCHANGED <<files, manifest, registered, plans, now>>
      /\ call' = [call EXCEPT ![p].value = v, ![p].pc = "registry"]
      /\ since' = [since EXCEPT ![p].registered = registered]
  BY DEF Values!ReadStdin, Values!At
<1>2. /\ Values!Working(p) /\ call[p] \in Values!CallRecord
      /\ call[p].plan.manifest <= manifest.stamp /\ ~since[p].late /\ call[p].plan.file \in Values!File
  BY <1>1, Works DEF Values!ValueInv, Values!InTime, Values!At
<1>3. c \in Values!CallRecord /\ c.pc = "registry" /\ c.id = call[p].id /\ c.plan = call[p].plan /\ c.value = v
  BY <1>2 DEF Values!CallRecord
<1>4. call' = [call EXCEPT ![p] = c]
  BY <1>1, <1>2 DEF Values!CallRecord
<1> HIDE DEF c
<1>5. call'[p] = c /\ Others(p) /\ Values!TypeOK'
  <2>1. call'[p] = c /\ Others(p)
    BY <1>1, <1>4 DEF Values!ValueInv, Values!TypeOK, Others
  <2>2. since' \in [Process -> [late : BOOLEAN, written : BOOLEAN, registered : BOOLEAN]]
    BY <1>1 DEF Values!ValueInv, Values!TypeOK
  <2>3. QED
    BY <1>1, <1>3, <1>4, <2>1, <2>2 DEF Values!ValueInv, Values!TypeOK
<1>6. (registered => since'[p].registered) /\ ~since'[p].late
  BY <1>1, <1>2 DEF Values!ValueInv, Values!TypeOK
<1>7. ProcessOK(p)'
  BY <1>1, <1>2, <1>3, <1>5, <1>6
     DEF ProcessOK, Values!InTime, Values!WasRegistered, Values!ManifestBound, Values!FilesBound, Values!At,
         Values!Planning, Values!Working, Values!Checking, Values!Window
<1>8. QED
  BY <1>1, <1>3, <1>5, <1>7, OwnStep

\* A step that only moves on to another place.
LEMMA GoTyped ==
  ASSUME Values!ValueInv, NEW p \in Process, NEW pc \in {"targets", "manifest"}, Values!Go(p, pc)
  PROVE  \E c \in Values!CallRecord :
           call' = [call EXCEPT ![p] = c] /\ c = [call[p] EXCEPT !.pc = pc] /\ call'[p] = c
<1>1. call[p] \in Values!CallRecord /\ call \in [Process -> Values!CallRecord]
  BY DEF Values!ValueInv, Values!TypeOK
<1> DEFINE c == [call[p] EXCEPT !.pc = pc]
<1>2. c \in Values!CallRecord
  BY <1>1 DEF Values!CallRecord
<1>3. call' = [call EXCEPT ![p] = c]
  BY <1>1 DEF Values!Go
<1>4. call'[p] = c
  BY <1>1, <1>3
<1>5. QED
  BY <1>2, <1>3, <1>4

LEMMA CheckRegistryStep ==
  ASSUME Values!ValueInv, NEW p \in Process, Values!CheckRegistry(p)
  PROVE  Values!ValueInv'
<1>1. call[p].pc = "registry" /\ UNCHANGED <<files, manifest, registered, plans, now, since>>
  BY DEF Values!CheckRegistry, Values!At
<1>2. /\ Values!Working(p) /\ call[p] \in Values!CallRecord /\ call[p].plan.manifest <= manifest.stamp
      /\ call[p].plan.file \in Values!File
      /\ ~since[p].late /\ call[p].value \in Value /\ (registered => since[p].registered)
  BY <1>1, Works DEF Values!ValueInv, Values!InTime, Values!WasRegistered, Values!At, Values!Checking
<1>3. CASE ~registered
  BY <1>1, <1>2, <1>3, LeaveStep DEF Values!CheckRegistry
<1>4. CASE registered
  <2>1. PICK c \in Values!CallRecord :
          call' = [call EXCEPT ![p] = c] /\ c = [call[p] EXCEPT !.pc = "targets"] /\ call'[p] = c
    BY <1>4, GoTyped DEF Values!CheckRegistry
  <2>2. c.pc = "targets" /\ c.id = call[p].id /\ c.plan = call[p].plan /\ c.value = call[p].value
    BY <1>2, <2>1 DEF Values!CallRecord
  <2>3. ProcessOK(p)'
    BY <1>1, <1>2, <1>4, <2>1, <2>2
       DEF ProcessOK, Values!InTime, Values!WasRegistered, Values!ManifestBound, Values!FilesBound, Values!At,
           Values!Planning, Values!Working, Values!Checking, Values!Window
  <2>4. QED
    BY <1>1, <1>2, <2>1, <2>2, <2>3, ApplyingStep
<1>5. QED
  BY <1>3, <1>4

\* The links are those of the plan, or the manifest will be found to have changed.
LEMMA CheckTargetsStep ==
  ASSUME Values!ValueInv, NEW p \in Process, Values!CheckTargets(p)
  PROVE  Values!ValueInv'
<1> DEFINE targets == Values!Targets(call[p].plan.file)
<1>1. call[p].pc = "targets" /\ UNCHANGED <<files, manifest, registered, plans, now, since>>
  BY DEF Values!CheckTargets, Values!At
<1>2. /\ Values!Working(p) /\ call[p] \in Values!CallRecord /\ call[p].plan.manifest <= manifest.stamp
      /\ call[p].plan.file \in Values!File
      /\ ~since[p].late /\ call[p].value \in Value /\ since[p].registered
  BY <1>1, Works DEF Values!ValueInv, Values!InTime, Values!WasRegistered, Values!At, Values!Checking
<1>3. CASE ~(Values!Assigned(targets) /\ targets = call[p].plan.targets)
  BY <1>1, <1>2, <1>3, LeaveStep DEF Values!CheckTargets
<1>4. CASE Values!Assigned(targets) /\ targets = call[p].plan.targets
  <2>1. PICK c \in Values!CallRecord :
          call' = [call EXCEPT ![p] = c] /\ c = [call[p] EXCEPT !.pc = "manifest"] /\ call'[p] = c
    BY <1>4, GoTyped DEF Values!CheckTargets
  <2>2. c.pc = "manifest" /\ c.id = call[p].id /\ c.plan = call[p].plan /\ c.value = call[p].value
    BY <1>2, <2>1 DEF Values!CallRecord
  <2>3. Values!ManifestBound(p)'
    BY <1>1, <1>2, <1>4, <2>1, <2>2 DEF Values!ManifestBound, Values!Targets
  <2>4. ProcessOK(p)'
    BY <1>1, <1>2, <2>1, <2>2, <2>3
       DEF ProcessOK, Values!InTime, Values!WasRegistered, Values!FilesBound, Values!At,
           Values!Planning, Values!Working, Values!Checking, Values!Window
  <2>5. QED
    BY <1>1, <1>2, <2>1, <2>2, <2>4, ApplyingStep
<1>5. QED
  BY <1>3, <1>4

\* From here to the commit, what the plan says of the manifest is so unless somebody writes.
LEMMA CheckManifestStep ==
  ASSUME Values!ValueInv, NEW p \in Process, Values!CheckManifest(p)
  PROVE  Values!ValueInv'
<1> DEFINE c == [call[p] EXCEPT !.pc = "states", !.todo = call[p].plan.targets]
<1>1. call[p].pc = "manifest" /\ UNCHANGED <<files, manifest, registered, plans, now, since>>
  BY DEF Values!CheckManifest, Values!At
<1>2. /\ Values!Working(p) /\ call[p] \in Values!CallRecord /\ call[p].plan \in Values!PlanRecord
      /\ call[p].plan.manifest <= manifest.stamp /\ manifest.stamp \in Nat
      /\ call[p].plan.file \in Values!File
      /\ ~since[p].late /\ call[p].value \in Value /\ since[p].registered
      /\ \/ Values!Targets(call[p].plan.file) = call[p].plan.targets
         \/ call[p].plan.manifest < manifest.stamp
  BY <1>1, Works DEF Values!ValueInv, Values!InTime, Values!WasRegistered, Values!ManifestBound, Values!At,
                     Values!Checking
<1>3. CASE manifest.stamp # call[p].plan.manifest
  BY <1>1, <1>2, <1>3, LeaveStep DEF Values!CheckManifest
<1>4. CASE manifest.stamp = call[p].plan.manifest
  <2>1. call' = [call EXCEPT ![p].pc = "states", ![p].todo = call[p].plan.targets]
    BY <1>4 DEF Values!CheckManifest
  <2>2. /\ c \in Values!CallRecord /\ c.pc = "states" /\ c.id = call[p].id /\ c.plan = call[p].plan
        /\ c.value = call[p].value /\ c.todo = call[p].plan.targets /\ c.loaded = call[p].loaded
    BY <1>2 DEF Values!CallRecord, Values!PlanRecord
  <2>3. call' = [call EXCEPT ![p] = c]
    BY <1>2, <2>1 DEF Values!CallRecord
  <2>4. call'[p] = c
    BY <2>3 DEF Values!ValueInv, Values!TypeOK
  <2> HIDE DEF c
  <2>5. Values!Targets(call[p].plan.file) = call[p].plan.targets
    BY <1>2, <1>4 DEF Values!PlanRecord
  <2>7. Values!Compared(p)' = {}
    BY <2>2, <2>4 DEF Values!Compared, Values!At
  <2>8. Values!FilesBound(p)'
    BY <1>1, <1>4, <2>2, <2>4, <2>5, <2>7 DEF Values!FilesBound, Values!Targets, Values!At
  <2>9. ProcessOK(p)'
    BY <1>1, <1>2, <2>2, <2>4, <2>8
       DEF ProcessOK, Values!InTime, Values!WasRegistered, Values!ManifestBound, Values!At,
           Values!Planning, Values!Working, Values!Checking, Values!Window
  <2>10. QED
    BY <1>1, <1>2, <2>2, <2>3, <2>9, ApplyingStep
<1>5. QED
  BY <1>3, <1>4

\* What the invariant says of a process between the comparison of the manifest and the commit.
LEMMA InWindow ==
  ASSUME Values!ValueInv, NEW p \in Process, call[p].pc \in Values!Window
  PROVE  /\ Values!Working(p) /\ call[p] \in Values!CallRecord /\ call[p].plan \in Values!PlanRecord
         /\ call[p].plan.manifest <= manifest.stamp /\ manifest.stamp \in Nat
         /\ call[p].plan.file \in Values!File
         /\ ~since[p].late /\ call[p].value \in Value /\ since[p].registered
         /\ Values!FilesBound(p)
BY Works DEF Values!ValueInv, Values!InTime, Values!WasRegistered, Values!Window

\* The step of such a process that stays there.
LEMMA WindowStep ==
  ASSUME Values!ValueInv, NEW p \in Process, call[p].pc \in Values!Window,
         NEW c \in Values!CallRecord, call' = [call EXCEPT ![p] = c], c.pc \in Values!Window,
         c.id = call[p].id, c.plan = call[p].plan, c.value = call[p].value,
         UNCHANGED <<files, manifest, registered, plans, now, since>>,
         Values!FilesBound(p)'
  PROVE  Values!ValueInv'
<1>1. call'[p] = c
  BY DEF Values!ValueInv, Values!TypeOK
<1>2. ProcessOK(p)'
  BY <1>1, InWindow
     DEF ProcessOK, Values!InTime, Values!WasRegistered, Values!ManifestBound, Values!At,
         Values!Planning, Values!Working, Values!Checking, Values!Window
<1>3. QED
  BY <1>2, InWindow, ApplyingStep

LEMMA CheckStateStep ==
  ASSUME Values!ValueInv, NEW p \in Process, Values!CheckState(p)
  PROVE  Values!ValueInv'
<1>1. call[p].pc = "states" /\ UNCHANGED <<files, manifest, registered, plans, now, since>>
  BY DEF Values!CheckState, Values!At
<1>2. PICK f \in Values!Next1(p) :
        IF files[f].stamp = call[p].plan.states[f]
          THEN call' = [call EXCEPT ![p].todo = @ \ {f},
                                    ![p].pc = IF Values!LastOf(p, f) THEN "resolve" ELSE @]
          ELSE Values!Leave(p)
  BY DEF Values!CheckState
<1>3. call[p] \in Values!CallRecord /\ Values!Working(p) /\ Values!FilesBound(p) /\ call[p].pc \in Values!Window
  BY <1>1, InWindow DEF Values!Window
<1>4. CASE files[f].stamp # call[p].plan.states[f]
  BY <1>1, <1>2, <1>3, <1>4, LeaveStep
<1>5. CASE files[f].stamp = call[p].plan.states[f]
  <2> DEFINE pc == IF Values!LastOf(p, f) THEN "resolve" ELSE "states"
             c == [call[p] EXCEPT !.todo = @ \ {f}, !.pc = pc]
  <2>1. /\ c \in Values!CallRecord /\ c.pc = pc /\ c.id = call[p].id /\ c.plan = call[p].plan
        /\ c.value = call[p].value /\ c.todo = call[p].todo \ {f} /\ c.loaded = call[p].loaded
    BY <1>3 DEF Values!CallRecord
  <2>2. call' = [call EXCEPT ![p] = c]
    BY <1>1, <1>2, <1>3, <1>5 DEF Values!CallRecord
  <2>3. call'[p] = c
    BY <2>2 DEF Values!ValueInv, Values!TypeOK
  <2>4. pc \in {"resolve", "states"} /\ (pc = "resolve" => call[p].todo = {f})
    BY DEF Values!LastOf
  <2> HIDE DEF c, pc
  <2>5. Values!Compared(p)' \subseteq Values!Compared(p) \cup {f}
    BY <1>1, <2>1, <2>3, <2>4 DEF Values!Compared, Values!At
  <2>6. Values!FilesBound(p)'
    BY <1>1, <1>3, <1>5, <2>1, <2>3, <2>4, <2>5 DEF Values!FilesBound, Values!Targets, Values!At, Values!Window
  <2>7. QED
    BY <1>1, <1>3, <2>1, <2>2, <2>4, <2>6, WindowStep DEF Values!Window
<1>6. QED
  BY <1>4, <1>5

LEMMA ResolveStep ==
  ASSUME Values!ValueInv, NEW p \in Process, Values!Resolve(p)
  PROVE  Values!ValueInv'
<1> DEFINE targets == Values!Targets(call[p].plan.file)
           c == [call[p] EXCEPT !.todo = targets, !.loaded = Values!NothingLoaded, !.pc = "load"]
<1>1. call[p].pc = "resolve" /\ UNCHANGED <<files, manifest, registered, plans, now, since>>
  BY DEF Values!Resolve, Values!At
<1>2. /\ call[p] \in Values!CallRecord /\ call[p].plan \in Values!PlanRecord
      /\ call[p].plan.file \in Values!File
      /\ Values!Working(p) /\ Values!FilesBound(p) /\ call[p].pc \in Values!Window
  BY <1>1, InWindow DEF Values!Window
<1>3. CASE ~Values!Assigned(targets)
  BY <1>1, <1>2, <1>3, LeaveStep DEF Values!Resolve
<1>4. CASE Values!Assigned(targets)
  <2>1. call' = [call EXCEPT ![p].todo = targets, ![p].loaded = Values!NothingLoaded, ![p].pc = "load"]
    BY <1>4 DEF Values!Resolve
  <2>2. targets \in SUBSET Values!File
    BY <1>2 DEF Values!ValueInv, Values!TypeOK, Values!Targets
  <2>3. /\ c \in Values!CallRecord /\ c.pc = "load" /\ c.id = call[p].id /\ c.plan = call[p].plan
        /\ c.value = call[p].value /\ c.todo = targets /\ c.loaded = Values!NothingLoaded
    BY <1>2, <2>2 DEF Values!CallRecord, Values!NothingLoaded
  <2>4. call' = [call EXCEPT ![p] = c]
    BY <1>2, <2>1 DEF Values!CallRecord
  <2>5. call'[p] = c
    BY <2>4 DEF Values!ValueInv, Values!TypeOK
  <2> HIDE DEF c
  <2>6. Values!Loaded(p)' = {} /\ Values!Compared(p)' = Values!Compared(p)
    BY <1>1, <2>3, <2>5 DEF Values!Loaded, Values!NothingLoaded, Values!Compared, Values!At
  <2>7. Values!FilesBound(p)'
    BY <1>1, <1>2, <2>3, <2>5, <2>6 DEF Values!FilesBound, Values!Targets, Values!At, Values!Window
  <2>8. QED
    BY <1>1, <1>2, <2>3, <2>4, <2>7, WindowStep DEF Values!Window
<1>5. QED
  BY <1>3, <1>4

LEMMA LoadStep ==
  ASSUME Values!ValueInv, NEW p \in Process, Values!Load(p)
  PROVE  Values!ValueInv'
<1>1. call[p].pc = "load" /\ UNCHANGED <<files, manifest, registered, plans, now, since>>
  BY DEF Values!Load, Values!At
<1>2. PICK f \in Values!Next1(p) :
        IF files[f].value # Absent
          THEN call' = [call EXCEPT ![p].todo = @ \ {f}, ![p].loaded[f] = files[f].value,
                                    ![p].pc = IF Values!LastOf(p, f) THEN "commit" ELSE @]
          ELSE Values!Leave(p)
  BY DEF Values!Load
<1>3. call[p] \in Values!CallRecord /\ Values!Working(p) /\ Values!FilesBound(p) /\ call[p].pc \in Values!Window
  BY <1>1, InWindow DEF Values!Window
<1>4. CASE files[f].value = Absent
  BY <1>1, <1>2, <1>3, <1>4, LeaveStep
<1>5. CASE files[f].value # Absent
  <2> DEFINE pc == IF Values!LastOf(p, f) THEN "commit" ELSE "load"
             loaded == [call[p].loaded EXCEPT ![f] = files[f].value]
             c == [call[p] EXCEPT !.todo = @ \ {f}, !.loaded = loaded, !.pc = pc]
  <2>1. f \in call[p].todo /\ f \in Values!File /\ files[f].value \in Value
    BY <1>3, <1>5 DEF Values!Next1, Values!CallRecord, Values!ValueInv, Values!TypeOK
  <2>2. loaded \in [Values!File -> Value \cup {Absent}]
    BY <1>3, <2>1 DEF Values!CallRecord
  <2>3. /\ c \in Values!CallRecord /\ c.pc = pc /\ c.id = call[p].id /\ c.plan = call[p].plan
        /\ c.value = call[p].value /\ c.todo = call[p].todo \ {f} /\ c.loaded = loaded
    BY <1>3, <2>2 DEF Values!CallRecord
  <2>4. call' = [call EXCEPT ![p] = c]
    BY <1>1, <1>2, <1>3, <1>5 DEF Values!CallRecord
  <2>5. call'[p] = c
    BY <2>4 DEF Values!ValueInv, Values!TypeOK
  <2>6. pc \in {"load", "commit"} /\ (pc = "commit" => call[p].todo = {f})
    BY DEF Values!LastOf
  <2>7. Values!Loaded(p)' = Values!Loaded(p) \cup {f}
    <3>1. \A g \in Values!File : loaded[g] # Absent <=> g = f \/ call[p].loaded[g] # Absent
      BY <1>3, <1>5, <2>1 DEF Values!CallRecord
    <3> HIDE DEF c, pc, loaded
    <3>2. QED
      BY <2>1, <2>3, <2>5, <3>1 DEF Values!Loaded
  <2> HIDE DEF c, pc, loaded
  <2>8. Values!Compared(p)' = Values!Compared(p)
    BY <1>1, <2>3, <2>5, <2>6 DEF Values!Compared, Values!At
  <2>9. Values!FilesBound(p)'
    BY <1>1, <1>3, <2>1, <2>3, <2>5, <2>6, <2>7, <2>8 DEF Values!FilesBound, Values!Targets, Values!At, Values!Window
  <2>10. QED
    BY <1>1, <1>3, <2>3, <2>4, <2>6, <2>9, WindowStep DEF Values!Window
<1>6. QED
  BY <1>4, <1>5

----------------------------------------------------------------------------
\* Who is not part of a step that writes files or the manifest.
LEMMA Disturbed ==
  ASSUME Values!ValueInv, NEW r \in Process, call'[r] = call[r],
         since'[r] = IF call[r].pc \in Values!Window THEN [since[r] EXCEPT !.written = TRUE] ELSE since[r],
         UNCHANGED <<registered, plans, now>>,
         manifest' = manifest \/ manifest'.stamp = manifest.stamp + 1
  PROVE  ProcessOK(r)'
<1> USE DEF Values!At, Values!Planning, Values!Working, Values!Checking
<1>1. /\ ProcessOK(r) /\ manifest.stamp \in Nat
      /\ call[r] \in Values!CallRecord /\ call[r].plan.manifest \in Nat
      /\ since[r] \in [late : BOOLEAN, written : BOOLEAN, registered : BOOLEAN]
  BY DEF Values!ValueInv, ProcessOK, Values!TypeOK, Values!CallRecord, Values!PlanRecord
<1>2. (since'[r].late => since[r].late) /\ (since[r].late => since'[r].late) /\ (since[r].registered => since'[r].registered)
      /\ (call[r].pc \in Values!Window => since'[r].written)
  BY <1>1
<1>3. Values!InTime(r)'
  BY <1>1, <1>2 DEF ProcessOK, Values!InTime, Values!Expired
<1>4. Values!WasRegistered(r)'
  BY <1>1, <1>2 DEF ProcessOK, Values!WasRegistered
<1>5. Values!ManifestBound(r)'
  BY <1>1 DEF ProcessOK, Values!ManifestBound, Values!Targets
<1>6. Values!FilesBound(r)'
  BY <1>2 DEF Values!FilesBound
<1>7. QED
  BY <1>3, <1>4, <1>5, <1>6 DEF ProcessOK

\* What Disturb leaves of the types.
LEMMA DisturbTyped ==
  ASSUME Values!TypeOK, NEW p, Values!Disturb(p)
  PROVE  /\ since' \in [Process -> [late : BOOLEAN, written : BOOLEAN, registered : BOOLEAN]]
         /\ \A r \in Process : since'[r] = IF r # p /\ call[r].pc \in Values!Window
                                             THEN [since[r] EXCEPT !.written = TRUE] ELSE since[r]
<1>1. \A r \in Process : [since[r] EXCEPT !.written = TRUE] \in [late : BOOLEAN, written : BOOLEAN, registered : BOOLEAN]
  BY DEF Values!TypeOK
<1>2. QED
  BY <1>1 DEF Values!Disturb, Values!TypeOK

LEMMA CommitStep ==
  ASSUME Values!ValueInv, NEW p \in Process, Values!Commit(p)
  PROVE  Values!ValueInv'
<1> DEFINE c == [Values!Idle EXCEPT !.pc = "release", !.id = call[p].id]
<1>1. /\ call[p].pc = "commit" /\ files' = Values!Written(Values!Loaded(p), call[p].value)
      /\ call' = [call EXCEPT ![p] = c] /\ Values!Disturb(p)
      /\ UNCHANGED <<manifest, registered, plans, now>>
  BY DEF Values!Commit, Values!At, Values!Leave
<1>2. Values!Working(p) /\ call[p].value \in Value /\ manifest.stamp \in Nat
  BY <1>1, InWindow DEF Values!Window
<1>3. c \in Values!CallRecord /\ c.pc = "release" /\ c.id = call[p].id /\ c.plan = Values!NoPlan
  BY <1>2, IdleTyped DEF Values!Working, Values!Idle, Values!CallRecord
<1> HIDE DEF c
<1>4. call'[p] = c /\ \A r \in Process : r # p => call'[r] = call[r]
  BY <1>1 DEF Values!ValueInv, Values!TypeOK
<1>5. files' \in [Values!File -> [value : Value \cup {Absent}, stamp : Nat]]
  <2>1. \A f \in Values!File : files[f] \in [value : Value \cup {Absent}, stamp : Nat]
    BY DEF Values!ValueInv, Values!TypeOK
  <2>2. QED
    BY <1>1, <1>2, <2>1 DEF Values!Written
<1>6. Values!TypeOK'
  BY <1>1, <1>3, <1>5, DisturbTyped DEF Values!ValueInv, Values!TypeOK
<1>7. Values!OneClaim'
  BY <1>1, <1>3, <1>4 DEF Values!ValueInv, Values!OneClaim, Values!Working
<1>8. \A q \in Plan : Values!PlanBound(q)'
  BY <1>1 DEF Values!ValueInv, Values!PlanBound
<1>9. ProcessOK(p)'
  BY <1>1, <1>2, <1>3, <1>4, NoPlanTyped
     DEF ProcessOK, Values!InTime, Values!WasRegistered, Values!ManifestBound, Values!FilesBound, Values!At,
         Values!Planning, Values!Working, Values!Checking, Values!Window
<1>10. ASSUME NEW r \in Process, r # p
       PROVE  ProcessOK(r)'
  BY <1>1, <1>4, <1>10, Disturbed, DisturbTyped DEF Values!ValueInv
<1>11. QED
  BY <1>6, <1>7, <1>8, <1>9, <1>10 DEF Values!ValueInv, ProcessOK

\* A plan that is taken out of the directory, whoever did it, was the one p had claimed.
LEMMA RemoveStep ==
  ASSUME Values!ValueInv, NEW p \in Process, Values!Return(p), NEW status \in {"gone", "left"},
         \/ plans' = plans
         \/ plans' = [plans EXCEPT ![call[p].id] = [status |-> status, plan |-> Values!NoPlan]],
         UNCHANGED <<files, manifest, registered, now>>
  PROVE  Values!ValueInv'
<1>1. plans' \in [Plan -> [status : {"unused", "open", "claimed", "left", "gone"}, plan : Values!PlanRecord]]
  BY NoPlanTyped DEF Values!ValueInv, Values!TypeOK
<1>2. \A q \in Plan : q # call[p].id => plans'[q] = plans[q]
  BY DEF Values!ValueInv, Values!TypeOK
<1>3. ASSUME NEW q \in Plan
      PROVE  Values!PlanBound(q)'
  <2>1. plans'[q] = plans[q] \/ plans'[q] = [status |-> status, plan |-> Values!NoPlan]
    BY DEF Values!ValueInv, Values!TypeOK
  <2>2. QED
    BY <2>1, NoPlanTyped DEF Values!ValueInv, Values!TypeOK, Values!PlanBound
<1>4. QED
  BY <1>1, <1>2, <1>3, IdleStep

LEMMA ReleaseOrDieStep ==
  ASSUME Values!ValueInv, NEW p \in Process, Values!Release(p) \/ Values!Die(p)
  PROVE  Values!ValueInv'
<1>1. CASE Values!Release(p)
  BY <1>1, RemoveStep DEF Values!Release
<1>2. CASE Values!Die(p)
  BY <1>2, RemoveStep DEF Values!Die
<1>3. QED
  BY <1>1, <1>2

\* Somebody else writes a file or the manifest.
LEMMA WriteStep ==
  ASSUME Values!ValueInv, Values!Disturb(Absent), UNCHANGED <<registered, plans, now, call>>,
         files' \in [Values!File -> [value : Value \cup {Absent}, stamp : Nat]],
         manifest' \in [members : SUBSET Values!File, stamp : Nat],
         manifest' = manifest \/ manifest'.stamp = manifest.stamp + 1
  PROVE  Values!ValueInv'
<1>1. Values!TypeOK'
  BY DisturbTyped DEF Values!ValueInv, Values!TypeOK
<1>2. Values!OneClaim'
  BY DEF Values!ValueInv, Values!OneClaim, Values!Working
<1>3. ASSUME NEW q \in Plan
      PROVE  Values!PlanBound(q)'
  <2>1. plans[q].plan.manifest \in Nat /\ manifest.stamp \in Nat
    BY DEF Values!ValueInv, Values!TypeOK, Values!PlanRecord
  <2>2. QED
    BY <2>1 DEF Values!ValueInv, Values!PlanBound
<1>4. ASSUME NEW r \in Process
      PROVE  ProcessOK(r)'
  BY AbsentFacts, Disturbed, DisturbTyped DEF Values!ValueInv
<1>5. QED
  BY <1>1, <1>2, <1>3, <1>4 DEF Values!ValueInv, ProcessOK

LEMMA EditStep ==
  ASSUME Values!ValueInv, NEW f \in Values!File, NEW content \in Value \cup {Absent}, Values!Edit(f, content)
  PROVE  Values!ValueInv'
<1>1. files' \in [Values!File -> [value : Value \cup {Absent}, stamp : Nat]]
  BY DEF Values!Edit, Values!ValueInv, Values!TypeOK
<1>2. QED
  BY <1>1, WriteStep DEF Values!Edit, Values!ValueInv, Values!TypeOK

LEMMA SaveManifestStep ==
  ASSUME Values!ValueInv, NEW members \in SUBSET Values!File, Values!SaveManifest(members)
  PROVE  Values!ValueInv'
BY WriteStep DEF Values!SaveManifest, Values!ValueInv, Values!TypeOK

\* A project that is removed or registered again: who has its value has seen it registered.
LEMMA RegisterStep ==
  ASSUME Values!ValueInv, NEW yes \in BOOLEAN, Values!Register(yes)
  PROVE  Values!ValueInv'
<1>1. /\ registered' = yes /\ UNCHANGED <<files, manifest, plans, now, call>>
      /\ since' = [p \in Process |-> IF call[p].value \in Value
                     THEN [since[p] EXCEPT !.registered = @ \/ yes] ELSE since[p]]
  BY DEF Values!Register
<1>2. ASSUME NEW p \in Process
      PROVE  /\ since'[p] \in [late : BOOLEAN, written : BOOLEAN, registered : BOOLEAN]
             /\ since[p].late => since'[p].late
             /\ since'[p].late => since[p].late
             /\ since[p].written => since'[p].written
             /\ since[p].registered => since'[p].registered
             /\ call[p].value \in Value /\ yes => since'[p].registered
  <2>1. since[p] \in [late : BOOLEAN, written : BOOLEAN, registered : BOOLEAN]
    BY DEF Values!ValueInv, Values!TypeOK
  <2>2. CASE call[p].value \in Value
    <3>1. since'[p] = [since[p] EXCEPT !.registered = @ \/ yes]
      BY <1>1, <2>2
    <3>2. QED
      BY <2>1, <3>1
  <2>3. CASE call[p].value \notin Value
    BY <1>1, <2>1, <2>3
  <2>4. QED
    BY <2>2, <2>3
<1>3. since' \in [Process -> [late : BOOLEAN, written : BOOLEAN, registered : BOOLEAN]]
  BY <1>1, <1>2
<1>4. Values!TypeOK'
  BY <1>1, <1>3 DEF Values!ValueInv, Values!TypeOK
<1>5. Values!OneClaim'
  BY <1>1 DEF Values!ValueInv, Values!OneClaim, Values!Working
<1>6. \A q \in Plan : Values!PlanBound(q)'
  BY <1>1 DEF Values!ValueInv, Values!PlanBound
<1>7. ASSUME NEW p \in Process
      PROVE  ProcessOK(p)'
  <2> USE DEF Values!At, Values!Planning, Values!Working, Values!Checking, Values!Window
  <2>1. ProcessOK(p) /\ call'[p] = call[p]
    BY <1>1 DEF Values!ValueInv, ProcessOK
  <2>2. Values!InTime(p)'
    BY <1>1, <1>2, <2>1 DEF ProcessOK, Values!InTime, Values!Expired
  <2>3. Values!WasRegistered(p)'
    BY <1>1, <1>2, <2>1 DEF ProcessOK, Values!WasRegistered
  <2>4. Values!ManifestBound(p)'
    BY <1>1, <2>1 DEF ProcessOK, Values!ManifestBound, Values!Targets
  <2>5. Values!Loaded(p)' = Values!Loaded(p) /\ Values!Compared(p)' = Values!Compared(p)
    BY <2>1 DEF Values!Loaded, Values!Compared
  <2>6. Values!FilesBound(p)'
    BY <1>1, <1>2, <2>1, <2>5 DEF ProcessOK, Values!FilesBound, Values!Targets
  <2>7. QED
    BY <2>2, <2>3, <2>4, <2>6 DEF ProcessOK
<1>8. QED
  BY <1>4, <1>5, <1>6, <1>7 DEF Values!ValueInv, ProcessOK

\* What has expired stays expired.
LEMMA TickStep ==
  ASSUME Values!ValueInv, Values!Tick
  PROVE  Values!ValueInv'
<1>1. now \in Nat /\ now' = now + 1 /\ UNCHANGED <<files, manifest, registered, plans, call, since>>
  BY DEF Values!ValueInv, Values!TypeOK, Values!Tick
<1>2. Values!TypeOK'
  BY <1>1 DEF Values!ValueInv, Values!TypeOK
<1>3. Values!OneClaim' /\ \A q \in Plan : Values!PlanBound(q)'
  BY <1>1 DEF Values!ValueInv, Values!OneClaim, Values!Working, Values!PlanBound
<1>4. ASSUME NEW p \in Process
      PROVE  ProcessOK(p)'
  <2> USE DEF Values!At, Values!Planning, Values!Working, Values!Checking, Values!Window
  <2>1. ProcessOK(p)
    BY DEF Values!ValueInv, ProcessOK
  <2>2. Values!InTime(p)'
    <3>1. Values!Working(p) /\ Values!Expired(plans[call[p].id].plan) => Values!Expired(plans[call[p].id].plan)'
      <4>1. TTL \in Nat /\ (Values!Working(p) => plans[call[p].id].plan.created \in Nat)
        BY ValuesAssumption DEF Values!StdinAssumption, Values!ValueInv, Values!TypeOK, Values!PlanRecord
      <4>2. QED
        BY <1>1, <4>1 DEF Values!Expired
    <3>2. QED
      BY <1>1, <2>1, <3>1 DEF ProcessOK, Values!InTime
  <2>3. Values!WasRegistered(p)' /\ Values!ManifestBound(p)'
    BY <1>1, <2>1 DEF ProcessOK, Values!WasRegistered, Values!ManifestBound, Values!Targets
  <2>4. Values!Loaded(p)' = Values!Loaded(p) /\ Values!Compared(p)' = Values!Compared(p)
    BY <1>1 DEF Values!Loaded, Values!Compared
  <2>5. Values!FilesBound(p)'
    BY <1>1, <2>1, <2>4 DEF ProcessOK, Values!FilesBound, Values!Targets
  <2>6. QED
    BY <2>2, <2>3, <2>5 DEF ProcessOK
<1>5. QED
  BY <1>2, <1>3, <1>4 DEF Values!ValueInv, ProcessOK

LEMMA IdleValue ==
  ASSUME Values!ValueInv, UNCHANGED valueVars
  PROVE  Values!ValueInv'
<1>1. Values!TypeOK' /\ Values!OneClaim' /\ \A q \in Plan : Values!PlanBound(q)'
  BY DEF valueVars, Values!ValueInv, Values!TypeOK, Values!OneClaim, Values!Working, Values!PlanBound
<1>2. ASSUME NEW p \in Process
      PROVE  ProcessOK(p)'
  BY Bystander DEF valueVars
<1>3. QED
  BY <1>1, <1>2 DEF Values!ValueInv, ProcessOK

LEMMA StepValue ==
  ASSUME Values!ValueInv, [Values!Next]_valueVars
  PROVE  Values!ValueInv'
<1>1. ASSUME NEW p \in Process, Values!Begin(p)
      PROVE  Values!ValueInv'
  BY <1>1, CreatePlanStep, ClaimStep DEF Values!Begin
<1>2. ASSUME NEW p \in Process, Values!Step(p)
      PROVE  Values!ValueInv'
  <2>1. CASE Values!CommitFails(p)
    BY <2>1, Works, LeaveStep DEF Values!CommitFails, Values!At
  <2>2. CASE Values!Release(p)
    BY <2>2, ReleaseOrDieStep
  <2>3. QED
    BY <1>2, <2>1, <2>2, StatStep, StatManifestStep, StoreStep, ReadPlanStep, CheckRegistryStep, CheckTargetsStep,
       CheckManifestStep, CheckStateStep, ResolveStep, LoadStep, CommitStep DEF Values!Step
<1>3. ASSUME NEW p \in Process, Values!Producer(p)
      PROVE  Values!ValueInv'
  <2>1. CASE Values!RefuseStdin(p)
    BY <2>1, Works, LeaveStep DEF Values!RefuseStdin, Values!At
  <2>2. QED
    BY <1>3, <2>1, ReadStdinStep DEF Values!Producer
<1>4. ASSUME NEW p \in Process, Values!Die(p)
      PROVE  Values!ValueInv'
  BY <1>4, ReleaseOrDieStep
<1>5. CASE Values!Others
  BY <1>5, EditStep, SaveManifestStep, RegisterStep, TickStep DEF Values!Others
<1>6. CASE UNCHANGED valueVars
  BY <1>6, IdleValue
<1>7. QED
  BY <1>1, <1>2, <1>3, <1>4, <1>5, <1>6 DEF Values!Next

----------------------------------------------------------------------------
\* What the step that saves a value promises.
Bound(p) ==
  /\ ~since[p].late /\ since[p].registered
  /\ ~since[p].written =>
       /\ { f \in Values!File : files'[f] # files[f] } = call[p].plan.targets
       /\ \A f \in call[p].plan.targets : files[f].stamp = call[p].plan.states[f]
       /\ manifest.stamp = call[p].plan.manifest

\* Only the commit of p itself writes files and takes p on.
LEMMA SavesByCommit ==
  ASSUME Values!ValueInv, Values!Next, NEW p \in Process, Values!Saves(p)
  PROVE  Values!Commit(p)
<1>1. files' # files /\ call'[p] # call[p]
  BY DEF Values!Saves
<1>2. ASSUME NEW r \in Process, Values!Commit(r), r # p
      PROVE  FALSE
  BY <1>1, <1>2 DEF Values!Commit, Values!Leave, Values!ValueInv, Values!TypeOK
<1>3. ASSUME NEW r \in Process, ~Values!Commit(r), Values!Begin(r) \/ Values!Step(r) \/ Values!Producer(r) \/ Values!Die(r)
      PROVE  FALSE
  BY <1>1, <1>3
     DEF Values!Begin, Values!CreatePlan, Values!Claim, Values!Step, Values!Stat, Values!StatManifest,
         Values!StorePlan, Values!ReadPlan, Values!CheckRegistry, Values!CheckTargets, Values!CheckManifest,
         Values!CheckState, Values!Resolve, Values!Load, Values!CommitFails, Values!Release, Values!Producer,
         Values!RefuseStdin, Values!ReadStdin, Values!Die
<1>4. ~Values!Others
  BY <1>1 DEF Values!Others, Values!Edit, Values!SaveManifest, Values!Register, Values!Tick
<1>5. QED
  BY <1>2, <1>3, <1>4 DEF Values!Next

LEMMA CommitBound ==
  ASSUME Values!ValueInv, NEW p \in Process, Values!Commit(p)
  PROVE  Bound(p)
<1>1. call[p].pc = "commit" /\ files' = Values!Written(Values!Loaded(p), call[p].value)
  BY DEF Values!Commit, Values!At
<1>2. ~since[p].late /\ since[p].registered /\ Values!FilesBound(p) /\ call[p].plan \in Values!PlanRecord
  BY <1>1, InWindow DEF Values!Window
<1>3. \A f \in Values!File : files'[f] # files[f] <=> f \in Values!Loaded(p)
  <2>1. \A f \in Values!File : files[f].stamp \in Nat
    BY DEF Values!ValueInv, Values!TypeOK
  <2>2. QED
    BY <1>1, <2>1 DEF Values!Written
<1>4. Values!Loaded(p) = { f \in Values!File : files'[f] # files[f] }
  BY <1>3 DEF Values!Loaded
<1>5. Values!Compared(p) = call[p].plan.targets
  BY <1>1 DEF Values!Compared, Values!At
<1>6. QED
  BY <1>1, <1>2, <1>4, <1>5 DEF Bound, Values!FilesBound, Values!At, Values!Window

LEMMA StepBound ==
  ASSUME Values!ValueInv, [Values!Next]_valueVars, NEW p \in Process, Values!Saves(p)
  PROVE  Bound(p)
<1>1. Values!Next
  BY DEF Values!Saves, valueVars
<1>2. QED
  BY <1>1, SavesByCommit, CommitBound

----------------------------------------------------------------------------
\* The conjunction behind the next two holds whatever the processes, the desktop app and editors do:
\* what is bound to a plan when it is made is what is compared, loaded and committed, unless somebody
\* wrote meanwhile (prepare_opaque_value_write, apply_prepared_opaque_value, save_value_inner).
THEOREM ValueInvariant == Values!Spec => []Values!ValueInv
<1>1. Values!Init => Values!ValueInv
  BY InitValue
<1>2. Values!ValueInv /\ [Values!Next]_Values!vars => Values!ValueInv'
  BY StepValue DEF valueVars, Values!vars
<1>3. QED
  BY <1>1, <1>2, PTL DEF Values!Spec

\* "can be claimed only once" (stdin-value-ingest.md:15), for every number of processes and plans:
\* the rename in apply_plan leaves a plan to one of them, also when processes die at any step.
THEOREM OneClaimEver == Values!Spec => []Values!OneClaim
<1>1. Values!ValueInv => Values!OneClaim
  BY DEF Values!ValueInv
<1>2. QED
  BY <1>1, ValueInvariant, PTL

\* "Every linked member and the link manifest are bound to the plan" (service/values.rs:36), for every
\* number of files, of processes and of writes by others, and every lifetime of a plan.
THEOREM BoundToPlanEver == Values!Spec => Values!BoundToPlan
<1>1. ASSUME Values!ValueInv, [Values!Next]_Values!vars
      PROVE  [\A p \in Process : Values!Saves(p) => Bound(p)]_Values!vars
  BY <1>1, StepBound DEF valueVars, Values!vars
<1>2. QED
  BY <1>1, ValueInvariant, PTL DEF Values!Spec, Values!BoundToPlan, Bound

\* A run of one of the two programs is a behaviour of each.
LEMMA BothPrograms == AllSpec => Values!Spec /\ Spec
<1>1. AllInit => Values!Init /\ Init
  BY DEF AllInit
<1>2. [AllNext]_allVars => [Values!Next]_Values!vars /\ [Next]_vars
  BY DEF AllNext, allVars, valueVars, vars, Values!vars
<1>3. QED
  BY <1>1, <1>2, PTL DEF AllSpec, Values!Spec, Spec

\* So nothing is claimed twice when the two are run one at a time.
THEOREM ProgramsClaimOnce == AllSpec => []OneClaim
BY BothPrograms, OneClaimEver, PTL DEF OneClaim

\* And what is saved is what the plan was bound to.
THEOREM ProgramsKeepToThePlan == AllSpec => BoundToPlan
BY BothPrograms, BoundToPlanEver, PTL DEF BoundToPlan

\* Nor does the verifier let a request through twice.
THEOREM ProgramsNoReplay == AllSpec => []NoReplay
BY BothPrograms, NoReplayEver, PTL
=============================================================================
