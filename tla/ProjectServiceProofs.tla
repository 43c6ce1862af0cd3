------------------------ MODULE ProjectServiceProofs ------------------------
(***************************************************************************)
(* Theorems about ProjectService, for every set of files, keys and values, *)
(* all operations and all faults, with one caller at a time.  With two     *)
(* callers they are false: the manifest is loaded, changed in memory and   *)
(* saved under no lock.                                                    *)
(***************************************************************************)
EXTENDS ProjectService, FiniteSetTheorems, TLAPS

\* What is proved of commits in TransactionProofs, for the commits of the service.
TP == INSTANCE TransactionProofs WITH Writer <- Process, Fault <- Fault \ {"manifest"}

OneCaller == \E p : Process = {p}

----------------------------------------------------------------------------
\* TransactionProofs extends the module that ProjectService instantiates, so that its definitions
\* are those of T under another name.
LEMMA SameOrder == T!Order = TP!Order
BY DEF T!Order, TP!Order, T!Cardinality, TP!Cardinality

LEMMA SameTypes == T!TypeOK <=> TP!TypeOK
BY SameOrder
  DEF T!TypeOK, TP!TypeOK, T!Call, TP!Call, T!CallOK, TP!CallOK, T!Snapshot, TP!Snapshot,
      T!Content, TP!Content, T!Mode, TP!Mode, T!Result, TP!Result, T!Members, TP!Members

LEMMA SameTypesNext == T!TypeOK' <=> TP!TypeOK'
BY SameOrder
  DEF T!TypeOK, TP!TypeOK, T!Call, TP!Call, T!CallOK, TP!CallOK, T!Snapshot, TP!Snapshot,
      T!Content, TP!Content, T!Mode, TP!Mode, T!Result, TP!Result, T!Members, TP!Members

LEMMA SameCommitInv == T!CommitInv <=> TP!CommitInv
BY SameTypes
  DEF T!CommitInv, TP!CommitInv, T!Checked, TP!Checked, T!Holds, TP!Holds, T!CheckHolds,
      TP!CheckHolds, T!PersistHolds, TP!PersistHolds, T!UndoHolds, TP!UndoHolds

LEMMA SameCommitInvNext == T!CommitInv' <=> TP!CommitInv'
BY SameTypesNext
  DEF T!CommitInv, TP!CommitInv, T!Checked, TP!Checked, T!Holds, TP!Holds, T!CheckHolds,
      TP!CheckHolds, T!PersistHolds, TP!PersistHolds, T!UndoHolds, TP!UndoHolds

LEMMA SameStep ==
  ASSUME NEW p \in Process, T!Step(p)
  PROVE  TP!Step(p)
BY DEF T!Step, TP!Step, T!CheckMatches, TP!CheckMatches, T!CheckStale, TP!CheckStale,
       T!CheckFails, TP!CheckFails, T!Persist, TP!Persist, T!PersistFails, TP!PersistFails,
       T!Undo, TP!Undo, T!UndoFails, TP!UndoFails, T!Crash, TP!Crash, T!Return, TP!Return,
       T!Idle, TP!Idle, T!NoBytes, TP!NoBytes, T!Here, TP!Here, T!Last, TP!Last, T!Alone,
       TP!Alone, T!InWindow, TP!InWindow, T!Committing, TP!Committing, T!Disturb, TP!Disturb,
       T!Members, TP!Members

\* The steps of a commit, and a commit that begins with what the files hold, keep its invariant.
LEMMA CommitInvKept ==
  ASSUME T!CommitInv, [TP!Next]_(TP!vars)
  PROVE  T!CommitInv'
<1>1. Fault \ {"manifest"} \subseteq TP!AllFaults
  BY ServiceFaultAssumption DEF TP!AllFaults, AllFaults
<1>2. Interference \in BOOLEAN
  BY ServiceInterferenceAssumption
<1>3. TP!CommitInv
  BY SameCommitInv
<1>4. TP!CommitInv'
  BY <1>1, <1>2, <1>3, TP!CommitInvStep
<1>5. QED
  BY <1>4, SameCommitInvNext

LEMMA StepKeepsCommitInv ==
  ASSUME T!CommitInv, NEW p \in Process, T!Step(p)
  PROVE  T!CommitInv'
<1>1. TP!Next
  BY SameStep DEF TP!Next
<1>2. QED
  BY <1>1, CommitInvKept

LEMMA BeginKeepsCommitInv ==
  ASSUME T!CommitInv, NEW p \in Process, NEW order \in T!Order, NEW expected, NEW proposed,
         expected \in T!Snapshot, DOMAIN expected = T!Members(order),
         \A f \in DOMAIN expected : expected[f] = disk[f].bytes,
         proposed \in [T!Members(order) -> Bytes],
         T!Begin(p, order, expected, proposed)
  PROVE  T!CommitInv'
<1>1. T!Members(order) = TP!Members(order) /\ order \in TP!Order
  BY SameOrder DEF T!Members, TP!Members
<1>2. expected = [f \in TP!Members(order) |-> disk[f].bytes]
  BY <1>1 DEF T!Snapshot
<1>3. TP!Begin(p, order, expected, proposed)
  BY DEF T!Begin, TP!Begin, T!Committing, TP!Committing
<1>4. TP!Start(p)
  BY <1>1, <1>2, <1>3 DEF TP!Start
<1>5. QED
  BY <1>4, CommitInvKept DEF TP!Next

----------------------------------------------------------------------------
\* What a step of a commit does to the files and to what the caller learns.

\* The plan of a commit that is under way.
LEMMA PlanFacts ==
  ASSUME T!TypeOK, NEW p \in Process, T!Committing(p)
  PROVE  /\ txn[p].order \in T!Order
         /\ Len(txn[p].order) \in Nat /\ Len(txn[p].order) >= 1
         /\ DOMAIN txn[p].order = 1..Len(txn[p].order)
         /\ txn[p].at \in 1..Len(txn[p].order)
         /\ \A i \in 1..Len(txn[p].order) : txn[p].order[i] \in DOMAIN txn[p].expected
         /\ \A f \in DOMAIN txn[p].expected : \E i \in 1..Len(txn[p].order) : txn[p].order[i] = f
         /\ \A i, j \in 1..Len(txn[p].order) : txn[p].order[i] = txn[p].order[j] => i = j
         /\ DOMAIN txn[p].expected \subseteq File
         /\ DOMAIN txn[p].proposed = DOMAIN txn[p].expected
         /\ T!Here(p) \in DOMAIN txn[p].expected
<1>1. txn[p] \in T!Call /\ T!CallOK(txn[p])
  BY DEF T!TypeOK
<1>2. /\ txn[p].order \in T!Order /\ txn[p].at \in 1..Len(txn[p].order)
      /\ DOMAIN txn[p].expected = T!Members(txn[p].order)
      /\ DOMAIN txn[p].proposed = T!Members(txn[p].order)
  BY <1>1 DEF T!CallOK, T!Committing
<1>3. PICK n \in Nat : n >= 1 /\ txn[p].order \in [1..n -> File]
  BY <1>2 DEF T!Order
<1>4. txn[p].order \in Seq(File)
  BY <1>1 DEF T!Call
<1>5. Len(txn[p].order) = n /\ DOMAIN txn[p].order = 1..n
  BY <1>3, <1>4
<1>6. \A i, j \in DOMAIN txn[p].order : txn[p].order[i] = txn[p].order[j] => i = j
  BY <1>2 DEF T!Order
<1>7. QED
  BY <1>2, <1>3, <1>5, <1>6 DEF T!Members, T!Here

\* Where an undisturbed commit leaves the files of its plan.
LEMMA Undisturbed ==
  ASSUME T!CommitInv, NEW p \in Process, T!Committing(p), ~disturbed[p]
  PROVE  /\ Len(txn[p].original) = IF txn[p].pc = "check" THEN txn[p].at - 1
                                                          ELSE Len(txn[p].order)
         /\ \A i \in 1..Len(txn[p].original) :
              txn[p].original[i].bytes = txn[p].expected[txn[p].order[i]]
         /\ T!Holds(txn[p], disk)
         /\ txn[p].pc \in {"check", "persist", "undo"}
BY DEF T!CommitInv, T!TypeOK, T!CallOK, T!Checked, T!Committing, T!Call

LEMMA Mixture ==
  ASSUME T!CommitInv, NEW p \in Process, T!Committing(p), ~disturbed[p],
         NEW f \in DOMAIN txn[p].expected
  PROVE  disk[f].bytes \in {txn[p].expected[f], txn[p].proposed[f]}
<1>1. T!TypeOK
  BY DEF T!CommitInv
<1>2. PICK i \in 1..Len(txn[p].order) : txn[p].order[i] = f
  BY <1>1, PlanFacts
<1>3. txn[p].at \in Nat /\ Len(txn[p].order) \in Nat
  BY <1>1, PlanFacts
<1>4. CASE txn[p].pc = "check"
  BY <1>2, <1>4, Undisturbed DEF T!Holds, T!CheckHolds
<1>5. CASE txn[p].pc = "persist"
  <2>1. txn[p].original[i].bytes = txn[p].expected[f]
    BY <1>2, <1>5, Undisturbed
  <2>2. disk[f] = IF i < txn[p].at
                    THEN [bytes |-> txn[p].proposed[f], mode |-> txn[p].original[i].mode]
                    ELSE txn[p].original[i]
    BY <1>2, <1>5, Undisturbed DEF T!Holds, T!PersistHolds
  <2>3. QED
    BY <2>1, <2>2
<1>6. CASE txn[p].pc = "undo"
  <2>1. txn[p].original[i].bytes = txn[p].expected[f]
    BY <1>2, <1>6, Undisturbed
  <2>2. QED
    BY <1>2, <1>6, <2>1, Undisturbed DEF T!Holds, T!UndoHolds
<1>7. QED
  BY <1>4, <1>5, <1>6, Undisturbed

\* The commit of p goes on with the same plan, or it is over.
GoesOn(p) ==
  /\ T!Committing(p)'
  /\ txn'[p].expected = txn[p].expected
  /\ txn'[p].proposed = txn[p].proposed

Ends(p) ==
  \E result \in T!Result :
    /\ txn'[p] = T!Idle(result)
    /\ result = "ok" => \A f \in DOMAIN txn[p].expected : disk'[f].bytes = txn[p].proposed[f]
    /\ result \in {"none", "io", "changed"} =>
         \A f \in DOMAIN txn[p].expected : disk'[f].bytes = txn[p].expected[f]

LEMMA CheckOutcome ==
  ASSUME T!CommitInv, NEW p \in Process, ~disturbed[p],
         T!CheckMatches(p) \/ T!CheckStale(p) \/ T!CheckFails(p)
  PROVE  (GoesOn(p) \/ Ends(p)) /\ UNCHANGED <<disk, disturbed>>
<1>1. T!TypeOK /\ txn[p].pc = "check" /\ T!Committing(p)
  BY DEF T!CommitInv, T!CheckMatches, T!CheckStale, T!CheckFails, T!Committing
<1>2. \A f \in DOMAIN txn[p].expected : disk[f].bytes = txn[p].expected[f]
  <2>1. T!CheckHolds(txn[p], disk)
    BY <1>1, Undisturbed DEF T!Holds
  <2>2. SUFFICES ASSUME NEW f \in DOMAIN txn[p].expected
                 PROVE  disk[f].bytes = txn[p].expected[f]
    OBVIOUS
  <2>3. PICK i \in 1..Len(txn[p].order) : txn[p].order[i] = f
    BY <1>1, PlanFacts
  <2>4. QED
    BY <2>1, <2>3 DEF T!CheckHolds
<1>3. CASE T!CheckMatches(p)
  <2>1. txn'[p].pc = IF T!Last(p) THEN "persist" ELSE "check"
    BY <1>1, <1>3 DEF T!CheckMatches, T!TypeOK, T!Call
  <2>2. txn'[p].expected = txn[p].expected /\ txn'[p].proposed = txn[p].proposed
    BY <1>1, <1>3 DEF T!CheckMatches, T!TypeOK, T!Call
  <2>3. QED
    BY <1>3, <2>1, <2>2 DEF GoesOn, T!Committing, T!CheckMatches
<1>4. CASE T!CheckStale(p) \/ T!CheckFails(p)
  <2>1. PICK result \in {"io", "changed"} : T!Return(p, result) /\ UNCHANGED <<disk, disturbed>>
    BY <1>4 DEF T!CheckStale, T!CheckFails
  <2>2. txn'[p] = T!Idle(result) /\ result \in T!Result
    BY <1>1, <2>1 DEF T!Return, T!TypeOK, T!Result
  <2>3. Ends(p)
    BY <1>2, <2>1, <2>2 DEF Ends
  <2>4. QED
    BY <2>1, <2>3
<1>5. QED
  BY <1>3, <1>4

LEMMA PersistOutcome ==
  ASSUME OneCaller, T!CommitInv, NEW p \in Process, ~disturbed[p], T!Persist(p)
  PROVE  /\ GoesOn(p) \/ Ends(p)
         /\ \A f \in File \ DOMAIN txn[p].expected : disk'[f] = disk[f]
         /\ \A f \in DOMAIN txn[p].expected :
              disk'[f].bytes \in {disk[f].bytes, txn[p].expected[f], txn[p].proposed[f]}
         /\ ~disturbed'[p]
<1>1. T!TypeOK /\ txn[p].pc = "persist" /\ T!Committing(p)
  BY DEF T!CommitInv, T!Persist, T!Committing
<1>2. ~disturbed'[p]
  BY <1>1 DEF T!Persist, T!Disturb, T!TypeOK
<1>3. /\ disk'[T!Here(p)].bytes = txn[p].proposed[T!Here(p)]
      /\ \A f \in File \ {T!Here(p)} : disk'[f] = disk[f]
  BY <1>1, PlanFacts DEF T!Persist, T!TypeOK
<1>4. /\ \A f \in File \ DOMAIN txn[p].expected : disk'[f] = disk[f]
      /\ \A f \in DOMAIN txn[p].expected :
           disk'[f].bytes \in {disk[f].bytes, txn[p].expected[f], txn[p].proposed[f]}
  <2>1. T!Here(p) \in DOMAIN txn[p].expected /\ DOMAIN txn[p].expected \subseteq File
    BY <1>1, PlanFacts
  <2>2. QED
    BY <1>3, <2>1
<1>5. CASE T!Last(p)
  <2>1. txn'[p] = T!Idle("ok") /\ "ok" \in T!Result
    BY <1>1, <1>5 DEF T!Persist, T!Return, T!TypeOK, T!Result
  <2>2. ASSUME NEW i \in 1..Len(txn[p].order)
        PROVE  disk'[txn[p].order[i]].bytes = txn[p].proposed[txn[p].order[i]]
    <3>1. CASE i = txn[p].at
      BY <1>3, <3>1 DEF T!Here
    <3>2. CASE i # txn[p].at
      <4>1. i < txn[p].at
        BY <1>1, <1>5, <3>2, PlanFacts DEF T!Last
      <4>2. T!PersistHolds(txn[p], disk)
        BY <1>1, Undisturbed DEF T!Holds
      <4>3. disk[txn[p].order[i]] =
              [bytes |-> txn[p].proposed[txn[p].order[i]], mode |-> txn[p].original[i].mode]
        BY <4>1, <4>2 DEF T!PersistHolds
      <4>4. txn[p].order[i] \in File \ {T!Here(p)}
        BY <1>1, <3>2, PlanFacts DEF T!Here
      <4>5. disk'[txn[p].order[i]] = disk[txn[p].order[i]]
        BY <1>3, <4>4
      <4>6. QED
        BY <4>3, <4>5
    <3>3. QED
      BY <3>1, <3>2
  <2>3. ASSUME NEW f \in DOMAIN txn[p].expected
        PROVE  disk'[f].bytes = txn[p].proposed[f]
    <3>1. PICK i \in 1..Len(txn[p].order) : txn[p].order[i] = f
      BY <1>1, PlanFacts
    <3>2. QED
      BY <2>2, <3>1
  <2>4. Ends(p)
    BY <2>1, <2>3 DEF Ends
  <2>5. QED
    BY <1>2, <1>4, <2>4
<1>6. CASE ~T!Last(p)
  <2>1. txn' = [txn EXCEPT ![p].at = txn[p].at + 1] /\ txn \in [Process -> T!Call]
    BY <1>1, <1>6 DEF T!Persist, T!TypeOK
  <2>2. /\ txn'[p].pc = txn[p].pc
        /\ txn'[p].expected = txn[p].expected /\ txn'[p].proposed = txn[p].proposed
    BY <2>1 DEF T!Call
  <2>3. GoesOn(p)
    BY <1>1, <2>2 DEF GoesOn, T!Committing
  <2>4. QED
    BY <1>2, <1>4, <2>3
<1>7. QED
  BY <1>5, <1>6

LEMMA PersistFailsOutcome ==
  ASSUME T!CommitInv, NEW p \in Process, ~disturbed[p], T!PersistFails(p)
  PROVE  (GoesOn(p) \/ Ends(p)) /\ UNCHANGED <<disk, disturbed>>
<1>1. T!TypeOK /\ txn[p].pc = "persist" /\ T!Committing(p)
  BY DEF T!CommitInv, T!PersistFails, T!Committing
<1>2. UNCHANGED <<disk, disturbed>>
  BY DEF T!PersistFails
<1>3. CASE txn[p].at = 1
  <2>1. txn'[p] = T!Idle("io") /\ "io" \in T!Result
    BY <1>1, <1>3 DEF T!PersistFails, T!Return, T!TypeOK, T!Result
  <2>2. ASSUME NEW i \in 1..Len(txn[p].order)
        PROVE  disk[txn[p].order[i]].bytes = txn[p].expected[txn[p].order[i]]
    <3>1. T!PersistHolds(txn[p], disk)
      BY <1>1, Undisturbed DEF T!Holds
    <3>2. ~(i < txn[p].at)
      BY <1>1, <1>3, PlanFacts
    <3>3. disk[txn[p].order[i]] = txn[p].original[i]
      BY <3>1, <3>2 DEF T!PersistHolds
    <3>4. QED
      BY <1>1, <3>3, Undisturbed
  <2>3. ASSUME NEW f \in DOMAIN txn[p].expected
        PROVE  disk'[f].bytes = txn[p].expected[f]
    <3>1. PICK i \in 1..Len(txn[p].order) : txn[p].order[i] = f
      BY <1>1, PlanFacts
    <3>2. QED
      BY <1>2, <2>2, <3>1
  <2>4. Ends(p)
    BY <2>1, <2>3 DEF Ends
  <2>5. QED
    BY <1>2, <2>4
<1>4. CASE txn[p].at # 1
  <2>1. txn' = [txn EXCEPT ![p].pc = "undo", ![p].at = txn[p].at - 1] /\ txn \in [Process -> T!Call]
    BY <1>1, <1>4 DEF T!PersistFails, T!TypeOK
  <2>2. /\ txn'[p].pc = "undo"
        /\ txn'[p].expected = txn[p].expected /\ txn'[p].proposed = txn[p].proposed
    BY <2>1 DEF T!Call
  <2>3. GoesOn(p)
    BY <2>2 DEF GoesOn, T!Committing
  <2>4. QED
    BY <1>2, <2>3
<1>5. QED
  BY <1>3, <1>4

LEMMA UndoOutcome ==
  ASSUME OneCaller, T!CommitInv, NEW p \in Process, ~disturbed[p], T!Undo(p)
  PROVE  /\ GoesOn(p) \/ Ends(p)
         /\ \A f \in File \ DOMAIN txn[p].expected : disk'[f] = disk[f]
         /\ \A f \in DOMAIN txn[p].expected :
              disk'[f].bytes \in {disk[f].bytes, txn[p].expected[f], txn[p].proposed[f]}
         /\ ~disturbed'[p]
<1>1. T!TypeOK /\ txn[p].pc = "undo" /\ T!Committing(p)
  BY DEF T!CommitInv, T!Undo, T!Committing
<1>2. ~disturbed'[p]
  BY <1>1 DEF T!Undo, T!Disturb, T!TypeOK
<1>3. /\ disk'[T!Here(p)].bytes = txn[p].original[txn[p].at].bytes
      /\ \A f \in File \ {T!Here(p)} : disk'[f] = disk[f]
  BY <1>1, PlanFacts DEF T!Undo, T!TypeOK
<1>4. /\ \A f \in File \ DOMAIN txn[p].expected : disk'[f] = disk[f]
      /\ \A f \in DOMAIN txn[p].expected :
           disk'[f].bytes \in {disk[f].bytes, txn[p].expected[f], txn[p].proposed[f]}
  <2>1. T!Here(p) \in DOMAIN txn[p].expected /\ DOMAIN txn[p].expected \subseteq File
    BY <1>1, PlanFacts
  <2>2. txn[p].at \in 1..Len(txn[p].original)
    BY <1>1, PlanFacts, Undisturbed
  <2>3. disk'[T!Here(p)].bytes = txn[p].expected[T!Here(p)]
    BY <1>1, <1>3, <2>2, Undisturbed DEF T!Here
  <2>4. QED
    BY <1>3, <2>1, <2>3
<1>5. CASE txn[p].at = 1
  <2>1. txn'[p] = T!Idle("io") /\ "io" \in T!Result
    BY <1>1, <1>5 DEF T!Undo, T!Return, T!TypeOK, T!Result
  <2>2. ASSUME NEW i \in 1..Len(txn[p].order)
        PROVE  disk'[txn[p].order[i]].bytes = txn[p].expected[txn[p].order[i]]
    <3>1. txn[p].original[i].bytes = txn[p].expected[txn[p].order[i]]
      BY <1>1, Undisturbed
    <3>2. CASE i = txn[p].at
      BY <1>3, <3>1, <3>2 DEF T!Here
    <3>3. CASE i # txn[p].at
      <4>1. ~(i <= txn[p].at)
        BY <1>1, <1>5, <3>3, PlanFacts
      <4>2. T!UndoHolds(txn[p], disk)
        BY <1>1, Undisturbed DEF T!Holds
      <4>3. disk[txn[p].order[i]].bytes = txn[p].expected[txn[p].order[i]]
        BY <3>1, <4>1, <4>2 DEF T!UndoHolds
      <4>4. txn[p].order[i] \in File \ {T!Here(p)}
        BY <1>1, <3>3, PlanFacts DEF T!Here
      <4>5. QED
        BY <1>3, <4>3, <4>4
    <3>4. QED
      BY <3>2, <3>3
  <2>3. ASSUME NEW f \in DOMAIN txn[p].expected
        PROVE  disk'[f].bytes = txn[p].expected[f]
    <3>1. PICK i \in 1..Len(txn[p].order) : txn[p].order[i] = f
      BY <1>1, PlanFacts
    <3>2. QED
      BY <2>2, <3>1
  <2>4. Ends(p)
    BY <2>1, <2>3 DEF Ends
  <2>5. QED
    BY <1>2, <1>4, <2>4
<1>6. CASE txn[p].at # 1
  <2>1. txn' = [txn EXCEPT ![p].at = txn[p].at - 1] /\ txn \in [Process -> T!Call]
    BY <1>1, <1>6 DEF T!Undo, T!TypeOK
  <2>2. /\ txn'[p].pc = txn[p].pc
        /\ txn'[p].expected = txn[p].expected /\ txn'[p].proposed = txn[p].proposed
    BY <2>1 DEF T!Call
  <2>3. GoesOn(p)
    BY <1>1, <2>2 DEF GoesOn, T!Committing
  <2>4. QED
    BY <1>2, <1>4, <2>3
<1>7. QED
  BY <1>5, <1>6

\* The result of a step: the commit goes on, or has returned what its plan says; nobody else has
\* written, and files outside the plan are as they were.
LEMMA CommitStep ==
  ASSUME OneCaller, T!CommitInv, NEW p \in Process, ~disturbed[p], T!Step(p)
  PROVE  /\ T!Committing(p)
         /\ GoesOn(p) \/ Ends(p)
         /\ T!CommitInv'
         /\ ~disturbed'[p]
         /\ \A f \in File \ DOMAIN txn[p].expected : disk'[f] = disk[f]
         /\ \A f \in DOMAIN txn[p].expected :
              disk'[f].bytes \in {txn[p].expected[f], txn[p].proposed[f]}
<1>1. T!TypeOK /\ T!CommitInv'
  BY StepKeepsCommitInv DEF T!CommitInv
<1>2. T!Committing(p)
  BY DEF T!Step, T!CheckMatches, T!CheckStale, T!CheckFails, T!Persist, T!PersistFails, T!Undo,
         T!UndoFails, T!Crash, T!Committing
<1>3. \A f \in DOMAIN txn[p].expected : disk[f].bytes \in {txn[p].expected[f], txn[p].proposed[f]}
  BY <1>2, Mixture
<1>4. CASE T!UndoFails(p) \/ T!Crash(p)
  <2>1. PICK result \in {"incomplete", "crashed"} :
          T!Return(p, result) /\ UNCHANGED <<disk, disturbed>>
    BY <1>4 DEF T!UndoFails, T!Crash
  <2>2. txn'[p] = T!Idle(result) /\ result \in T!Result
    BY <1>1, <2>1 DEF T!Return, T!TypeOK, T!Result
  <2>3. Ends(p)
    BY <2>1, <2>2 DEF Ends
  <2>4. QED
    BY <1>1, <1>2, <1>3, <2>1, <2>3
<1>5. CASE T!CheckMatches(p) \/ T!CheckStale(p) \/ T!CheckFails(p) \/ T!PersistFails(p)
  BY <1>1, <1>2, <1>3, <1>5, CheckOutcome, PersistFailsOutcome
<1>6. CASE T!Persist(p) \/ T!Undo(p)
  BY <1>1, <1>2, <1>3, <1>6, PersistOutcome, UndoOutcome
<1>7. QED
  BY <1>4, <1>5, <1>6 DEF T!Step

----------------------------------------------------------------------------
\* Steps that change only the operation's own locals.

LEMMA IdleCommits ==
  ASSUME T!CommitInv, UNCHANGED <<disk, txn, disturbed>>
  PROVE  T!CommitInv'
BY CommitInvKept DEF TP!vars

\* What the invariant says of one operation.
OwnInv(p) ==
  /\ <<call[p].pc, Op(p)>> \in Stage
  /\ ReadInv(p) /\ LinkInv(p) /\ WriteInv(p) /\ HeldInv(p)

LEMMA WholeInv ==
  ASSUME OneCaller, NEW p \in Process,
         T!CommitInv', manifest' \in Manifest, Valid(manifest)', call' \in [Process -> CallRecord],
         broken' \in BOOLEAN, ~disturbed'[p], AgreeInv(p)', OwnInv(p)'
  PROVE  ServiceInv'
<1>1. \A q \in Process : q = p
  BY DEF OneCaller
<1>2. T!TypeOK'
  BY DEF T!CommitInv
<1>3. TypeOK'
  BY <1>1, <1>2 DEF TypeOK, OwnInv
<1>4. \A q \in Process : ~disturbed'[q]
  BY <1>1
<1>5. (\A q \in Process : AgreeInv(q) /\ ReadInv(q) /\ LinkInv(q) /\ WriteInv(q) /\ HeldInv(q))'
  BY <1>1 DEF OwnInv
<1>6. QED
  BY <1>3, <1>4, <1>5 DEF ServiceInv

\* A commit is under way only at the two points that wait for one.
LEMMA NotCommitting ==
  ASSUME ServiceInv, NEW p \in Process, call[p].pc \notin {"commit", "restoring"}
  PROVE  ~T!Committing(p)
BY DEF ServiceInv, AgreeInv

LEMMA LocalStep ==
  ASSUME OneCaller, ServiceInv, NEW p \in Process, ~T!Committing(p),
         UNCHANGED <<disk, txn, disturbed, manifest>>,
         NEW c \in CallRecord, call' = [call EXCEPT ![p] = c],
         broken' \in BOOLEAN, broken => broken', OwnInv(p)'
  PROVE  ServiceInv'
<1>1. T!CommitInv'
  BY IdleCommits DEF ServiceInv
<1>2. manifest' \in Manifest /\ Valid(manifest)'
  BY DEF ServiceInv, TypeOK, Valid
<1>3. call' \in [Process -> CallRecord]
  BY DEF ServiceInv, TypeOK
<1>4. ~disturbed'[p]
  BY DEF ServiceInv
<1>5. Overlay(Nothing)' = Overlay(Nothing)
  BY DEF Overlay, Nothing
<1>6. AgreeInv(p)'
  <2>1. ~T!Committing(p)'
    BY DEF T!Committing
  <2>2. ~broken => Agrees(manifest, Overlay(Nothing))
    BY DEF ServiceInv, AgreeInv
  <2>3. ~broken' => Agrees(manifest, Overlay(Nothing))'
    BY <1>5, <2>2 DEF Agrees
  <2>4. QED
    BY <2>1, <2>3 DEF AgreeInv
<1>7. QED
  BY <1>1, <1>2, <1>3, <1>4, <1>6, WholeInv

\* An operation that returns owes nothing.
LEMMA IdleOwn ==
  ASSUME NEW p \in Process, NEW result, call'[p] = Idle(result)
  PROVE  OwnInv(p)'
<1>1. call'[p].pc = "idle" /\ call'[p].req.op = "none"
  BY DEF Idle, NoRequest
<1>2. ReadInv(p)'
  BY <1>1 DEF ReadInv, Op
<1>3. LinkInv(p)'
  BY <1>1 DEF LinkInv, Op
<1>4. WriteInv(p)' /\ HeldInv(p)'
  BY <1>1 DEF WriteInv, HeldInv
<1>5. QED
  BY <1>1, <1>2, <1>3, <1>4 DEF OwnInv, Stage, Op

LEMMA IdleTyped ==
  ASSUME NEW result \in Result
  PROVE  Idle(result) \in CallRecord
<1>1. Nothing \in T!Snapshot
  BY DEF Nothing, T!Snapshot
<1>2. QED
  BY <1>1 DEF Idle, CallRecord

LEMMA ReturnStep ==
  ASSUME OneCaller, ServiceInv, NEW p \in Process, ~T!Committing(p),
         UNCHANGED <<disk, txn, disturbed, manifest>>,
         NEW result \in Result, Return(p, result),
         broken' \in BOOLEAN, broken => broken'
  PROVE  ServiceInv'
<1>1. Idle(result) \in CallRecord
  BY IdleTyped
<1>2. call'[p] = Idle(result)
  BY DEF Return, ServiceInv, TypeOK
<1>3. OwnInv(p)'
  BY <1>2, IdleOwn
<1>4. QED
  BY <1>1, <1>3, LocalStep DEF Return

\* The steps that return without having changed anything.
LEMMA RefusalStep ==
  ASSUME OneCaller, ServiceInv, NEW p \in Process, broken' \in BOOLEAN, broken => broken',
         \/ CheckTargetFails(p) \/ RefuseLink(p) \/ RefuseDelete(p) \/ RefuseDetach(p)
         \/ LoadFails(p) \/ RefuseSource(p) \/ RereadFails(p) \/ ReadFails(p) \/ Die(p)
  PROVE  ServiceInv'
<1>1. /\ call[p].pc \notin {"commit", "restoring"}
      /\ UNCHANGED <<disk, txn, disturbed, manifest>>
      /\ \E result \in Result : Return(p, result)
  <2>1. CASE CheckTargetFails(p)
    BY <2>1 DEF CheckTargetFails, At, Result
  <2>2. CASE RefuseLink(p) \/ RefuseDelete(p) \/ RefuseDetach(p)
    BY <2>2 DEF RefuseLink, RefuseDelete, RefuseDetach, LoadManifest, At, Result
  <2>3. CASE LoadFails(p)
    BY <2>3 DEF LoadFails, At, Result
  <2>4. CASE RefuseSource(p)
    BY <2>4 DEF RefuseSource, At, Result
  <2>5. CASE RereadFails(p) \/ ReadFails(p) \/ Die(p)
    BY <2>5 DEF RereadFails, ReadFails, Die, At, Result, T!Result
  <2>6. QED
    BY <2>1, <2>2, <2>3, <2>4, <2>5
<1>2. QED
  BY <1>1, NotCommitting, ReturnStep

\* The end of a commit that failed, and of a rollback of create_link.
LEMMA CommitFailedStep ==
  ASSUME OneCaller, ServiceInv, NEW p \in Process, broken' \in BOOLEAN, broken => broken',
         CommitFailed(p) \/ Restored(p)
  PROVE  ServiceInv'
<1>1. CASE CommitFailed(p)
  <2>1. txn[p].result \in Result
    BY DEF ServiceInv, TypeOK, T!TypeOK, T!Call, Result
  <2>2. QED
    BY <1>1, <2>1, ReturnStep DEF CommitFailed
<1>2. CASE Restored(p)
  <2>1. /\ ~T!Committing(p) /\ UNCHANGED <<disk, txn, disturbed, manifest>>
        /\ \E result \in Result : Return(p, result)
    BY <1>2 DEF Restored, Result, T!Result
  <2>2. QED
    BY <2>1, ReturnStep
<1>3. QED
  BY <1>1, <1>2

----------------------------------------------------------------------------
\* Requests, maps and manifests.

LEMMA RequestFields ==
  ASSUME NEW r \in Request
  PROVE  /\ r.op \in AllOps
         /\ r.op # "initialize" => r.key \in Key
         /\ r.op \in {"save_value", "add_variable"} => r.value \in Value
         /\ r.op \in {"save_value", "add_variable", "delete_variable", "detach_link_member"} =>
              r.file \in File
         /\ r.op = "create_link" => r.files \in SUBSET File /\ r.source \in File \cup {Absent}
         /\ r.op = "detach_link_member" => r.id \in SUBSET File
         /\ r.op = "set_codex_access" => r.access \in Access /\ r.by \in {"user", "codex"}
BY DEF Request, AllOps

\* The request of an operation that is going on.
LEMMA CallFacts ==
  ASSUME ServiceInv, NEW p \in Process
  PROVE  /\ call[p] \in CallRecord
         /\ <<call[p].pc, Op(p)>> \in Stage
         /\ call[p].pc # "idle" => call[p].req \in Request
         /\ call[p].todo \subseteq File /\ call[p].files \subseteq File
         /\ call[p].seen \in T!Snapshot /\ call[p].copies \in T!Snapshot
         /\ ReadInv(p) /\ LinkInv(p) /\ WriteInv(p) /\ HeldInv(p) /\ AgreeInv(p)
<1>1. call[p] \in CallRecord /\ <<call[p].pc, Op(p)>> \in Stage
  BY DEF ServiceInv, TypeOK
<1>2. call[p].pc # "idle" => Op(p) # "none"
  BY <1>1 DEF Stage, AllOps
<1>3. call[p].pc # "idle" => call[p].req \in Request
  BY <1>1, <1>2 DEF CallRecord, NoRequest, Op
<1>4. QED
  BY <1>1, <1>3 DEF CallRecord, ServiceInv

LEMMA WithSnapshot ==
  ASSUME NEW map \in T!Snapshot, NEW f \in File, NEW bytes \in Bytes
  PROVE  /\ With(map, f, bytes) \in T!Snapshot
         /\ DOMAIN With(map, f, bytes) = DOMAIN map \cup {f}
         /\ With(map, f, bytes)[f] = bytes
         /\ \A g \in DOMAIN map : g # f => With(map, f, bytes)[g] = map[g]
<1>1. DOMAIN map \subseteq File /\ map \in [DOMAIN map -> Bytes]
  BY DEF T!Snapshot
<1>2. DOMAIN With(map, f, bytes) = DOMAIN map \cup {f}
  BY DEF With
<1>3. With(map, f, bytes) \in [DOMAIN map \cup {f} -> Bytes]
  BY <1>1 DEF With
<1>4. With(map, f, bytes) \in T!Snapshot
  BY <1>1, <1>3 DEF T!Snapshot
<1>5. QED
  BY <1>2, <1>4 DEF With

LEMMA TargetsAreFiles ==
  ASSUME NEW m \in Manifest, NEW f \in File, NEW k \in Key
  PROVE  Targets(m, f, k) \subseteq File /\ f \in Targets(m, f, k)
BY DEF Manifest, Link, LinksOf, Targets

\* The step begins with a call record that differs from the old one in these fields.
LEMMA InvokeStep ==
  ASSUME OneCaller, ServiceInv, NEW p \in Process, NEW req \in Request, Invoke(p, req),
         UNCHANGED broken
  PROVE  ServiceInv'
<1> DEFINE c == [Idle("none") EXCEPT !.req = req,
                   !.pc = IF req.op = "add_variable" THEN "load" ELSE "manifest",
                   !.todo = IF req.op = "add_variable" THEN {req.file} ELSE {}]
<1>1. ~T!Committing(p)
  BY NotCommitting DEF Invoke, At
<1>2. Idle("none") \in CallRecord
  BY IdleTyped DEF Result, T!Result
<1>3. c \in CallRecord
  BY <1>2, RequestFields DEF CallRecord
<1>4. /\ c.req = req /\ c.seen = Nothing /\ c.copies = Nothing
      /\ c.pc = IF req.op = "add_variable" THEN "load" ELSE "manifest"
      /\ c.todo = IF req.op = "add_variable" THEN {req.file} ELSE {}
  BY <1>2 DEF CallRecord, Idle
<1>5. /\ UNCHANGED <<disk, txn, disturbed, manifest>>
      /\ broken' \in BOOLEAN /\ (broken => broken')
      /\ call' = [call EXCEPT ![p] = c]
  BY DEF Invoke, ServiceInv, TypeOK
<1> HIDE DEF c
<1>6. call'[p] = c /\ req.op \in AllOps
  BY <1>5, RequestFields DEF ServiceInv, TypeOK
<1>7. DOMAIN Nothing = {}
  BY DEF Nothing
<1>8. OwnInv(p)'
  <2>1. (<<call[p].pc, Op(p)>> \in Stage)'
    BY <1>4, <1>6 DEF Op, Stage, AllOps
  <2>2. ReadInv(p)'
    BY <1>4, <1>6, <1>7 DEF ReadInv, Op, Planned
  <2>3. LinkInv(p)'
    BY <1>4, <1>6 DEF LinkInv, Op
  <2>4. WriteInv(p)' /\ HeldInv(p)'
    BY <1>4, <1>6 DEF WriteInv, HeldInv, Op
  <2>5. QED
    BY <2>1, <2>2, <2>3, <2>4 DEF OwnInv
<1>9. QED
  BY <1>1, <1>3, <1>5, <1>8, LocalStep

----------------------------------------------------------------------------
\* The steps that begin with the manifest.

LEMMA ResolveTargetsStep ==
  ASSUME OneCaller, ServiceInv, NEW p \in Process, broken' \in BOOLEAN, broken => broken',
         ResolveTargets(p)
  PROVE  ServiceInv'
<1> DEFINE targets == Targets(manifest, call[p].req.file, call[p].req.key)
           c == [call[p] EXCEPT !.todo = targets, !.files = targets, !.pc = "check"]
<1>1. /\ call[p].pc = "manifest" /\ Op(p) = "save_value" /\ ~T!Committing(p)
      /\ UNCHANGED <<disk, txn, disturbed, manifest>>
  BY NotCommitting DEF ResolveTargets, LoadManifest, At
<1>2. call[p] \in CallRecord /\ call[p].req \in Request /\ ReadInv(p)
  BY <1>1, CallFacts
<1>3. targets \subseteq File
  BY <1>1, <1>2, RequestFields, TargetsAreFiles DEF ServiceInv, TypeOK, Op
<1>4. c \in CallRecord
  BY <1>2, <1>3 DEF CallRecord
<1>5. /\ c.req = call[p].req /\ c.seen = call[p].seen /\ c.copies = call[p].copies
      /\ c.pc = "check" /\ c.files = targets
  BY <1>2 DEF CallRecord
<1>6. call' = [call EXCEPT ![p] = c]
  BY DEF ResolveTargets, ServiceInv, TypeOK
<1> HIDE DEF c
<1>7. call'[p] = c
  BY <1>6 DEF ServiceInv, TypeOK
<1>8. OwnInv(p)'
  <2>1. (<<call[p].pc, Op(p)>> \in Stage)'
    BY <1>1, <1>5, <1>7 DEF Op, Stage
  <2>2. ReadInv(p)'
    BY <1>1, <1>2, <1>5, <1>7 DEF ReadInv, Op
  <2>3. LinkInv(p)'
    BY <1>1, <1>5, <1>7 DEF LinkInv, Op
  <2>4. WriteInv(p)' /\ HeldInv(p)'
    BY <1>5, <1>7 DEF WriteInv, HeldInv
  <2>5. QED
    BY <2>1, <2>2, <2>3, <2>4 DEF OwnInv
<1>9. QED
  BY <1>1, <1>4, <1>6, <1>8, LocalStep

LEMMA CheckTargetStep ==
  ASSUME OneCaller, ServiceInv, NEW p \in Process, broken' \in BOOLEAN, broken => broken',
         CheckTarget(p)
  PROVE  ServiceInv'
<1>1. /\ call[p].pc = "check" /\ Op(p) = "save_value" /\ ~T!Committing(p)
      /\ UNCHANGED <<disk, txn, disturbed, manifest>>
  BY NotCommitting, CallFacts DEF CheckTarget, At, Stage
<1>2. call[p] \in CallRecord /\ call[p].req \in Request /\ ReadInv(p) /\ LinkInv(p)
  BY <1>1, CallFacts
<1>3. PICK c \in CallRecord :
        /\ call' = [call EXCEPT ![p] = c]
        /\ c.req = call[p].req /\ c.seen = call[p].seen /\ c.copies = call[p].copies
        /\ c.files = call[p].files
        /\ \/ c.pc = "check"
           \/ c.pc = "load" /\ c.todo = call[p].files
  <2>1. PICK f \in Next1(p) : call' = IF LastOf(p, f)
                   THEN [call EXCEPT ![p].todo = call[p].files, ![p].pc = "load"]
                   ELSE [call EXCEPT ![p].todo = call[p].todo \ {f}]
    BY DEF CheckTarget
  <2>2. CASE LastOf(p, f)
    <3> DEFINE c == [call[p] EXCEPT !.todo = call[p].files, !.pc = "load"]
    <3>1. c \in CallRecord
      BY <1>2 DEF CallRecord
    <3>2. call' = [call EXCEPT ![p] = c]
      BY <2>1, <2>2 DEF ServiceInv, TypeOK
    <3>3. QED
      BY <1>2, <3>1, <3>2 DEF CallRecord
  <2>3. CASE ~LastOf(p, f)
    <3> DEFINE c == [call[p] EXCEPT !.todo = call[p].todo \ {f}]
    <3>1. c \in CallRecord
      BY <1>2 DEF CallRecord
    <3>2. call' = [call EXCEPT ![p] = c]
      BY <2>1, <2>3 DEF ServiceInv, TypeOK
    <3>3. QED
      BY <1>1, <1>2, <3>1, <3>2 DEF CallRecord
  <2>4. QED
    BY <2>2, <2>3
<1>4. call'[p] = c
  BY <1>3 DEF ServiceInv, TypeOK
<1>5. OwnInv(p)'
  <2>1. (<<call[p].pc, Op(p)>> \in Stage)'
    BY <1>1, <1>3, <1>4 DEF Op, Stage, AllOps
  <2>2. ReadInv(p)'
    BY <1>1, <1>2, <1>3, <1>4 DEF ReadInv, Op, Planned
  <2>3. LinkInv(p)'
    BY <1>1, <1>2, <1>3, <1>4 DEF LinkInv, Op
  <2>4. WriteInv(p)' /\ HeldInv(p)'
    BY <1>1, <1>3, <1>4 DEF WriteInv, HeldInv, Op
  <2>5. QED
    BY <2>1, <2>2, <2>3, <2>4 DEF OwnInv
<1>6. QED
  BY <1>1, <1>3, <1>5, LocalStep

\* An operation that has loaded the manifest goes on to load its files.
LEMMA EnterStep ==
  ASSUME OneCaller, ServiceInv, NEW p \in Process, broken' \in BOOLEAN, broken => broken',
         NEW op \in {"create_link", "delete_variable", "initialize"}, LoadManifest(p, op),
         NEW files \in SUBSET File, Enter(p, "load", files),
         op # "initialize" => \A f \in files : LinksOf(manifest, f, call[p].req.key) = {},
         op = "create_link" => files = call[p].req.files
  PROVE  ServiceInv'
<1> DEFINE c == [call[p] EXCEPT !.held = manifest, !.files = files, !.todo = files, !.pc = "load"]
<1>1. /\ call[p].pc = "manifest" /\ Op(p) = op /\ ~T!Committing(p)
      /\ UNCHANGED <<disk, txn, disturbed, manifest>>
  BY NotCommitting DEF LoadManifest, At
<1>2. call[p] \in CallRecord /\ call[p].req \in Request /\ ReadInv(p)
  BY <1>1, CallFacts
<1>3. c \in CallRecord
  BY <1>2 DEF CallRecord, ServiceInv, TypeOK
<1>4. /\ c.req = call[p].req /\ c.seen = call[p].seen /\ c.copies = call[p].copies
      /\ c.pc = "load" /\ c.files = files /\ c.todo = files /\ c.held = manifest
  BY <1>2 DEF CallRecord
<1>5. call' = [call EXCEPT ![p] = c]
  BY DEF Enter, ServiceInv, TypeOK
<1> HIDE DEF c
<1>6. call'[p] = c
  BY <1>5 DEF ServiceInv, TypeOK
<1>7. OwnInv(p)'
  <2>1. (<<call[p].pc, Op(p)>> \in Stage)'
    BY <1>1, <1>4, <1>6 DEF Op, Stage, AllOps
  <2>2. ReadInv(p)'
    BY <1>1, <1>2, <1>4, <1>6 DEF ReadInv, Op, Planned
  <2>3. LinkInv(p)'
    BY <1>1, <1>4, <1>6 DEF LinkInv, Op, LinksOf
  <2>4. WriteInv(p)' /\ HeldInv(p)'
    BY <1>1, <1>4, <1>6 DEF WriteInv, HeldInv, Op
  <2>5. QED
    BY <2>1, <2>2, <2>3, <2>4 DEF OwnInv
<1>8. QED
  BY <1>1, <1>3, <1>5, <1>7, LocalStep

LEMMA EnterSteps ==
  ASSUME OneCaller, ServiceInv, NEW p \in Process, broken' \in BOOLEAN, broken => broken',
         EnterLink(p) \/ EnterDelete(p) \/ EnterScan(p)
  PROVE  ServiceInv'
<1>1. call[p].req \in Request
  BY CallFacts DEF EnterLink, EnterDelete, EnterScan, LoadManifest, At
<1>2. CASE EnterLink(p)
  <2>1. call[p].req.files \in SUBSET File
    BY <1>1, <1>2, RequestFields DEF EnterLink, LoadManifest, Op
  <2>2. QED
    BY <1>2, <2>1, EnterStep DEF EnterLink
<1>3. CASE EnterDelete(p)
  <2>1. {call[p].req.file} \in SUBSET File
    BY <1>1, <1>3, RequestFields DEF EnterDelete, LoadManifest, Op
  <2>2. QED
    BY <1>3, <2>1, EnterStep DEF EnterDelete
<1>4. CASE EnterScan(p)
  BY <1>4, EnterStep DEF EnterScan
<1>5. QED
  BY <1>2, <1>3, <1>4

----------------------------------------------------------------------------
\* The steps after which an operation other than create_link has a manifest to save.

\* Links within links that agree do.
LEMMA AgreesWithin ==
  ASSUME NEW m, NEW n, NEW contents, Agrees(m, contents),
         \A link \in n.links : \E whole \in m.links :
            link.key = whole.key /\ link.members \subseteq whole.members
  PROVE  Agrees(n, contents)
BY DEF Agrees

LEMMA AgreesNow ==
  ASSUME ServiceInv, NEW p \in Process, ~T!Committing(p), ~broken
  PROVE  Agrees(manifest, Overlay(Nothing))
BY CallFacts DEF AgreeInv

LEMMA SavingStep ==
  ASSUME OneCaller, ServiceInv, NEW p \in Process, broken' \in BOOLEAN, broken => broken',
         ~T!Committing(p), UNCHANGED <<disk, txn, disturbed, manifest>>,
         Op(p) \in AllOps \ {"save_value", "delete_variable", "create_link"},
         NEW held \in Manifest,
         call' = [call EXCEPT ![p].pc = "save", ![p].held = held],
         \A link \in held.links : \E whole \in manifest.links :
            link.key = whole.key /\ link.members \subseteq whole.members,
         \A k \in Key : held.policy[k].access = "read-write" =>
            \/ manifest.policy[k].access = "read-write"
            \/ /\ Op(p) = "set_codex_access"
               /\ call[p].req.key = k /\ call[p].req.access = "read-write"
  PROVE  ServiceInv'
<1> DEFINE c == [call[p] EXCEPT !.pc = "save", !.held = held]
<1>1. call[p] \in CallRecord
  BY CallFacts
<1>2. c \in CallRecord
  BY <1>1 DEF CallRecord
<1>3. c.req = call[p].req /\ c.pc = "save" /\ c.held = held
  BY <1>1 DEF CallRecord
<1>4. call' = [call EXCEPT ![p] = c]
  BY DEF ServiceInv, TypeOK
<1> HIDE DEF c
<1>5. call'[p] = c
  BY <1>4 DEF ServiceInv, TypeOK
<1>6. ~broken' => Agrees(held, Overlay(Nothing))'
  <2>1. SUFFICES ASSUME ~broken PROVE Agrees(held, Overlay(Nothing))'
    OBVIOUS
  <2>2. Agrees(held, Overlay(Nothing))
    BY <2>1, AgreesNow, AgreesWithin
  <2>3. QED
    BY <2>2 DEF Agrees, Overlay, Nothing
<1>7. OwnInv(p)'
  <2>1. (<<call[p].pc, Op(p)>> \in Stage)'
    BY <1>3, <1>5 DEF Op, Stage
  <2>2. ReadInv(p)'
    BY <1>3, <1>5 DEF ReadInv, Op
  <2>3. LinkInv(p)'
    BY <1>3, <1>5 DEF LinkInv, Op
  <2>4. WriteInv(p)'
    BY <1>3, <1>5 DEF WriteInv
  <2>5. HeldInv(p)'
    BY <1>3, <1>5, <1>6 DEF HeldInv, Op
  <2>6. QED
    BY <2>1, <2>2, <2>3, <2>4, <2>5 DEF OwnInv
<1>8. QED
  BY <1>2, <1>4, <1>7, LocalStep

LEMMA WithoutMemberFacts ==
  ASSUME NEW m \in Manifest, NEW id, NEW key, NEW file
  PROVE  /\ WithoutMember(m, id, key, file) \in Manifest
         /\ WithoutMember(m, id, key, file).policy = m.policy
         /\ \A link \in WithoutMember(m, id, key, file).links : \E whole \in m.links :
              link.key = whole.key /\ link.members \subseteq whole.members
<1> DEFINE touched == { link \in m.links : link.id = id /\ link.key = key }
           rest == { [link EXCEPT !.members = @ \ {file}] : link \in touched }
           links == (m.links \ touched) \cup { link \in rest : Cardinality(link.members) >= 2 }
<1>1. m.links \subseteq Link
  BY DEF Manifest
<1>2. ASSUME NEW link \in touched
      PROVE  LET less == [link EXCEPT !.members = @ \ {file}] IN
               less \in Link /\ less.key = link.key /\ less.members \subseteq link.members
  BY <1>1 DEF Link
<1>3. ASSUME NEW link \in links
      PROVE  /\ link \in Link
             /\ \E whole \in m.links : link.key = whole.key /\ link.members \subseteq whole.members
  <2>1. CASE link \in m.links \ touched
    BY <1>1, <2>1
  <2>2. CASE link \in rest
    <3>1. PICK whole \in touched : link = [whole EXCEPT !.members = @ \ {file}]
      BY <2>2
    <3>2. QED
      BY <1>2, <3>1
  <2>3. QED
    BY <2>1, <2>2
<1>4. WithoutMember(m, id, key, file) = [m EXCEPT !.links = links]
  BY DEF WithoutMember
<1> HIDE DEF touched, rest, links
<1>5. links \subseteq Link
  BY <1>3
<1>6. QED
  BY <1>3, <1>4, <1>5 DEF Manifest

LEMMA DetachStep ==
  ASSUME OneCaller, ServiceInv, NEW p \in Process, broken' \in BOOLEAN, broken => broken',
         Detach(p)
  PROVE  ServiceInv'
<1> DEFINE held == WithoutMember(manifest, call[p].req.id, call[p].req.key, call[p].req.file)
<1>1. /\ call[p].pc = "manifest" /\ Op(p) = "detach_link_member" /\ ~T!Committing(p)
      /\ UNCHANGED <<disk, txn, disturbed, manifest>>
      /\ call' = [call EXCEPT ![p].pc = "save", ![p].held = held]
  BY NotCommitting DEF Detach, LoadManifest, At
<1>2. manifest \in Manifest
  BY DEF ServiceInv, TypeOK
<1>3. /\ held \in Manifest /\ held.policy = manifest.policy
      /\ \A link \in held.links : \E whole \in manifest.links :
           link.key = whole.key /\ link.members \subseteq whole.members
  BY <1>2, WithoutMemberFacts
<1> HIDE DEF held
<1>4. QED
  BY <1>1, <1>3, SavingStep DEF AllOps

LEMMA SetAccessStep ==
  ASSUME OneCaller, ServiceInv, NEW p \in Process, broken' \in BOOLEAN, broken => broken',
         SetAccess(p)
  PROVE  ServiceInv'
<1> DEFINE held == [manifest EXCEPT !.policy[call[p].req.key] =
                      [access |-> call[p].req.access, by |-> call[p].req.by]]
<1>1. /\ call[p].pc = "manifest" /\ Op(p) = "set_codex_access" /\ ~T!Committing(p)
      /\ UNCHANGED <<disk, txn, disturbed, manifest>>
      /\ call' = [call EXCEPT ![p].pc = "save", ![p].held = held]
  BY NotCommitting DEF SetAccess, LoadManifest, At
<1>2. manifest \in Manifest
  BY DEF ServiceInv, TypeOK
<1>3. call[p].req \in Request
  BY <1>1, CallFacts
<1>4. /\ call[p].req.key \in Key
      /\ [access |-> call[p].req.access, by |-> call[p].req.by] \in Policy
  BY <1>1, <1>3, RequestFields DEF Op, Policy, Source
<1>5. /\ held \in Manifest /\ held.links = manifest.links
      /\ \A k \in Key : held.policy[k] =
           IF k = call[p].req.key THEN [access |-> call[p].req.access, by |-> call[p].req.by]
                                  ELSE manifest.policy[k]
  BY <1>2, <1>4 DEF Manifest
<1>6. \A k \in Key : held.policy[k].access = "read-write" =>
        \/ manifest.policy[k].access = "read-write"
        \/ call[p].req.key = k /\ call[p].req.access = "read-write"
  BY <1>5
<1> HIDE DEF held
<1>7. QED
  BY <1>1, <1>5, <1>6, SavingStep DEF AllOps

LEMMA DefaultNeverOpens ==
  ASSUME NEW k
  PROVE  DefaultPolicy(k) \in Policy /\ DefaultPolicy(k).access # "read-write"
BY DEF DefaultPolicy, DefaultAccess, Policy, Access, Source

LEMMA ClassifiedFacts ==
  ASSUME NEW m \in Manifest, NEW contents
  PROVE  /\ Classified(m, contents) \in Manifest
         /\ Classified(m, contents).links = m.links
         /\ \A k \in Key : Classified(m, contents).policy[k].access = "read-write" =>
              m.policy[k].access = "read-write"
<1> DEFINE policy == Classified(m, contents).policy
<1>1. /\ Classified(m, contents) = [m EXCEPT !.policy = policy]
      /\ \A k \in Key : policy[k] \in {m.policy[k], DefaultPolicy(k), [access |-> "unclassified", by |-> "heuristic"]}
      /\ DOMAIN policy = Key /\ policy = [k \in Key |-> policy[k]]
  BY DEF Classified, Manifest
<1>2. [access |-> "unclassified", by |-> "heuristic"] \in Policy
  BY DEF Policy, Access, Source
<1> HIDE DEF policy
<1>3. policy \in [Key -> Policy \cup {NoPolicy}]
  BY <1>1, <1>2, DefaultNeverOpens DEF Manifest
<1>4. [m EXCEPT !.policy = policy] \in Manifest /\ [m EXCEPT !.policy = policy].links = m.links
  BY <1>3 DEF Manifest
<1>5. \A k \in Key : policy[k].access = "read-write" => m.policy[k].access = "read-write"
  BY <1>1, DefaultNeverOpens
<1>6. QED
  BY <1>1, <1>4, <1>5 DEF policy

LEMMA EnsurePolicyStep ==
  ASSUME OneCaller, ServiceInv, NEW p \in Process, broken' \in BOOLEAN, broken => broken',
         EnsurePolicy(p)
  PROVE  ServiceInv'
<1> DEFINE held == [manifest EXCEPT !.policy[call[p].req.key] = DefaultPolicy(call[p].req.key)]
<1>1. /\ call[p].pc = "policy" /\ Op(p) = "add_variable" /\ ~T!Committing(p)
      /\ UNCHANGED <<disk, txn, disturbed, manifest>>
  BY NotCommitting, CallFacts DEF EnsurePolicy, At, Stage
<1>2. CASE Return(p, "ok")
  BY <1>1, <1>2, ReturnStep DEF Result, T!Result
<1>3. CASE call' = [call EXCEPT ![p].pc = "save", ![p].held = held]
  <2>1. manifest \in Manifest
    BY DEF ServiceInv, TypeOK
  <2>2. call[p].req.key \in Key
    BY <1>1, CallFacts, RequestFields DEF Op
  <2>3. /\ held \in Manifest /\ held.links = manifest.links
        /\ \A k \in Key : held.policy[k] =
             IF k = call[p].req.key THEN DefaultPolicy(k) ELSE manifest.policy[k]
    BY <2>1, <2>2, DefaultNeverOpens DEF Manifest
  <2>4. \A k \in Key : held.policy[k].access = "read-write" =>
          manifest.policy[k].access = "read-write"
    BY <2>3, DefaultNeverOpens
  <2> HIDE DEF held
  <2>5. QED
    BY <1>1, <1>3, <2>3, <2>4, SavingStep DEF AllOps
<1>4. QED
  BY <1>2, <1>3 DEF EnsurePolicy

LEMMA ClassifyStep ==
  ASSUME OneCaller, ServiceInv, NEW p \in Process, broken' \in BOOLEAN, broken => broken',
         Classify(p)
  PROVE  ServiceInv'
<1> DEFINE held == Classified(call[p].held, call[p].seen)
<1>1. /\ call[p].pc = "plan" /\ Op(p) = "initialize" /\ ~T!Committing(p)
      /\ UNCHANGED <<disk, txn, disturbed, manifest>>
  BY NotCommitting DEF Classify, At
<1>2. CASE Return(p, "ok")
  BY <1>1, <1>2, ReturnStep DEF Result, T!Result
<1>3. CASE call' = [call EXCEPT ![p].pc = "save", ![p].held = held]
  <2>1. manifest \in Manifest /\ call[p].held = manifest
    BY <1>1, CallFacts DEF ServiceInv, TypeOK, HeldInv
  <2>2. /\ held \in Manifest /\ held.links = manifest.links
        /\ \A k \in Key : held.policy[k].access = "read-write" =>
             manifest.policy[k].access = "read-write"
    BY <2>1, ClassifiedFacts
  <2> HIDE DEF held
  <2>3. QED
    BY <1>1, <1>3, <2>2, SavingStep DEF AllOps
<1>4. QED
  BY <1>2, <1>3 DEF Classify

----------------------------------------------------------------------------
\* The steps that read files.

\* What is read of a file that is next, into a map of files read before.
LEMMA NextFile ==
  ASSUME ServiceInv, NEW p \in Process, NEW f \in Next1(p), NEW map \in T!Snapshot
  PROVE  /\ f \in File /\ f \in call[p].todo
         /\ With(map, f, disk[f].bytes) \in T!Snapshot
         /\ DOMAIN With(map, f, disk[f].bytes) = DOMAIN map \cup {f}
         /\ With(map, f, disk[f].bytes)[f] = disk[f].bytes
         /\ \A g \in DOMAIN map : g # f => With(map, f, disk[f].bytes)[g] = map[g]
<1>1. f \in call[p].todo /\ f \in File
  BY CallFacts DEF Next1, Earliest
<1>2. disk[f].bytes \in Bytes
  BY <1>1 DEF ServiceInv, TypeOK, T!TypeOK, T!Content
<1>3. QED
  BY <1>1, <1>2, WithSnapshot

LEMMA LoadStep ==
  ASSUME OneCaller, ServiceInv, NEW p \in Process, broken' \in BOOLEAN, broken => broken',
         Load(p)
  PROVE  ServiceInv'
<1>1. /\ call[p].pc = "load" /\ ~T!Committing(p)
      /\ UNCHANGED <<disk, txn, disturbed, manifest>>
  BY NotCommitting DEF Load, At
<1>2. /\ call[p] \in CallRecord /\ call[p].req \in Request /\ ReadInv(p) /\ LinkInv(p)
      /\ HeldInv(p) /\ call[p].seen \in T!Snapshot
      /\ Op(p) \in AllOps \ {"detach_link_member", "set_codex_access"}
  BY <1>1, CallFacts DEF Stage
<1>3. PICK f \in Next1(p) : /\ Loadable(p, f)
        /\ call' = [call EXCEPT ![p].seen = With(@, f, disk[f].bytes), ![p].todo = @ \ {f},
                                ![p].pc = IF LastOf(p, f) THEN "plan" ELSE @]
  BY DEF Load
<1> DEFINE seen == With(call[p].seen, f, disk[f].bytes)
           c == [call[p] EXCEPT !.seen = seen, !.todo = @ \ {f},
                                !.pc = IF LastOf(p, f) THEN "plan" ELSE @]
<1>4. /\ f \in File /\ f \in call[p].todo /\ seen \in T!Snapshot
      /\ DOMAIN seen = DOMAIN call[p].seen \cup {f} /\ seen[f] = disk[f].bytes
      /\ \A g \in DOMAIN call[p].seen : g # f => seen[g] = call[p].seen[g]
  BY <1>2, NextFile
<1> HIDE DEF seen
<1>5. c \in CallRecord
  BY <1>1, <1>2, <1>4 DEF CallRecord
<1>6. /\ c.req = call[p].req /\ c.seen = seen /\ c.copies = call[p].copies
      /\ c.files = call[p].files /\ c.held = call[p].held
      /\ c.todo = call[p].todo \ {f}
      /\ c.pc = IF LastOf(p, f) THEN "plan" ELSE "load"
  BY <1>1, <1>2 DEF CallRecord
<1>7. call' = [call EXCEPT ![p] = c]
  BY <1>3 DEF ServiceInv, TypeOK, seen
<1> HIDE DEF c
<1>8. call'[p] = c
  BY <1>7 DEF ServiceInv, TypeOK
<1>9. OwnInv(p)'
  <2>1. (<<call[p].pc, Op(p)>> \in Stage)'
    BY <1>2, <1>6, <1>8 DEF Op, Stage
  <2>2. \A g \in DOMAIN seen : seen[g] = disk'[g].bytes
    BY <1>1, <1>2, <1>4 DEF ReadInv
  <2>3. Op(p) \in {"save_value", "create_link"} =>
          \A g \in DOMAIN seen : seen[g][call[p].req.key] # Absent
    BY <1>1, <1>2, <1>3, <1>4 DEF ReadInv, Loadable
  <2>4. Op(p) = "add_variable" =>
          \A g \in DOMAIN seen : seen[g][call[p].req.key] = Absent
    BY <1>1, <1>2, <1>3, <1>4 DEF ReadInv, Loadable
  <2>5. /\ DOMAIN seen \cup (call[p].todo \ {f}) = Planned(p)
        /\ call[p].todo = {f} => DOMAIN seen = Planned(p)
    BY <1>1, <1>2, <1>4 DEF ReadInv
  <2>6. Planned(p)' = Planned(p)
    BY <1>6, <1>8 DEF Planned, Op
  <2>7. ReadInv(p)'
    BY <1>1, <1>2, <1>6, <1>8, <2>2, <2>3, <2>4, <2>5, <2>6 DEF ReadInv, Op, LastOf
  <2>8. LinkInv(p)'
    BY <1>1, <1>2, <1>6, <1>8 DEF LinkInv, Op
  <2>9. WriteInv(p)' /\ HeldInv(p)'
    BY <1>1, <1>2, <1>6, <1>8 DEF WriteInv, HeldInv, Op
  <2>10. QED
    BY <2>1, <2>7, <2>8, <2>9 DEF OwnInv
<1>10. QED
  BY <1>1, <1>5, <1>7, <1>9, LocalStep

\* The value that create_link copies: every file it has loaded has one under the key.
LEMMA SourceIsValue ==
  ASSUME ServiceInv, NEW p \in Process, call[p].pc = "plan", Op(p) = "create_link",
         SourceChosen(p) => call[p].req.source \in call[p].req.files
  PROVE  SourceValue(p) \in Value
<1>1. /\ call[p].req \in Request /\ ReadInv(p) /\ LinkInv(p) /\ call[p].seen \in T!Snapshot
  BY CallFacts
<1>2. call[p].req.key \in Key
  BY <1>1, RequestFields DEF Op
<1>3. DOMAIN call[p].seen = call[p].req.files
  BY <1>1 DEF ReadInv, LinkInv, Planned
<1>4. \A f \in call[p].req.files : call[p].seen[f] \in Bytes
  BY <1>1, <1>3 DEF T!Snapshot
<1>5. \A f \in call[p].req.files : call[p].seen[f][call[p].req.key] # Absent
  BY <1>1, <1>3 DEF ReadInv
<1>6. \A f \in call[p].req.files : call[p].seen[f][call[p].req.key] \in Value
  BY <1>2, <1>4, <1>5 DEF Bytes
<1>7. CASE SourceChosen(p)
  BY <1>6, <1>7 DEF SourceValue
<1>8. CASE ~SourceChosen(p)
  <2>1. Distinct(p) \subseteq Value
    BY <1>6 DEF Distinct
  <2>2. Distinct(p) # {} => (CHOOSE v \in Distinct(p) : TRUE) \in Distinct(p)
    OBVIOUS
  <2>3. QED
    BY <1>8, <2>1, <2>2, ValuesAssumption DEF SourceValue
<1>9. QED
  BY <1>7, <1>8

\* It depends on nothing that later steps of the operation change.
LEMMA SourceStays ==
  ASSUME NEW p \in Process, call'[p].req = call[p].req, call'[p].seen = call[p].seen
  PROVE  SourceValue(p)' = SourceValue(p)
<1>1. SourceChosen(p)' <=> SourceChosen(p)
  BY DEF SourceChosen
<1>2. Distinct(p)' = Distinct(p)
  BY DEF Distinct
<1>3. QED
  BY <1>1, <1>2 DEF SourceValue

\* The link of a create_link, and the manifest with it.
NewLink(p) == [id |-> call[p].req.files, key |-> call[p].req.key, members |-> call[p].req.files]

LEMMA NewLinkFacts ==
  ASSUME NEW p \in Process, call[p].req \in Request, Op(p) = "create_link", NEW m \in Manifest
  PROVE  /\ NewLink(p) \in Link
         /\ [m EXCEPT !.links = @ \cup {NewLink(p)}] \in Manifest
         /\ [m EXCEPT !.links = @ \cup {NewLink(p)}].links = m.links \cup {NewLink(p)}
         /\ [m EXCEPT !.links = @ \cup {NewLink(p)}].policy = m.policy
<1>1. NewLink(p) \in Link
  BY RequestFields DEF NewLink, Link, Op
<1>2. QED
  BY <1>1 DEF Manifest

LEMMA AddLinkStep ==
  ASSUME OneCaller, ServiceInv, NEW p \in Process, broken' \in BOOLEAN, broken => broken',
         AddLink(p)
  PROVE  ServiceInv'
<1> DEFINE held == [manifest EXCEPT !.links = @ \cup {NewLink(p)}]
           c == [call[p] EXCEPT !.held = held, !.todo = call[p].req.files, !.pc = "copy"]
<1>1. /\ call[p].pc = "plan" /\ Op(p) = "create_link" /\ ~T!Committing(p)
      /\ UNCHANGED <<disk, txn, disturbed, manifest>>
  BY NotCommitting DEF AddLink, At
<1>2. /\ call[p] \in CallRecord /\ call[p].req \in Request /\ ReadInv(p) /\ LinkInv(p)
      /\ HeldInv(p) /\ manifest \in Manifest
  BY <1>1, CallFacts DEF ServiceInv, TypeOK
<1>3. call[p].held = manifest /\ call[p].files = call[p].req.files
  BY <1>1, <1>2 DEF HeldInv, LinkInv
<1>4. held \in Manifest /\ call[p].req.files \subseteq File
  BY <1>1, <1>2, NewLinkFacts, RequestFields DEF Op
<1>5. call' = [call EXCEPT ![p].held.links = @ \cup {NewLink(p)},
                           ![p].todo = call[p].req.files, ![p].pc = "copy"]
  BY DEF AddLink, NewLink
<1>6. c = [call[p] EXCEPT !.held.links = @ \cup {NewLink(p)},
                          !.todo = call[p].req.files, !.pc = "copy"]
  BY <1>2, <1>3 DEF CallRecord
<1>7. call' = [call EXCEPT ![p] = c]
  BY <1>5, <1>6 DEF ServiceInv, TypeOK
<1> HIDE DEF held
<1>8. c \in CallRecord
  BY <1>2, <1>4 DEF CallRecord
<1>9. /\ c.req = call[p].req /\ c.seen = call[p].seen /\ c.copies = call[p].copies
      /\ c.files = call[p].files /\ c.held = held
      /\ c.todo = call[p].req.files /\ c.pc = "copy"
  BY <1>2 DEF CallRecord
<1> HIDE DEF c
<1>10. call'[p] = c
  BY <1>7 DEF ServiceInv, TypeOK
<1>11. OwnInv(p)'
  <2>1. (<<call[p].pc, Op(p)>> \in Stage)'
    BY <1>1, <1>9, <1>10 DEF Op, Stage
  <2>2. ReadInv(p)'
    BY <1>1, <1>2, <1>3, <1>9, <1>10 DEF ReadInv, Op, Planned
  <2>3. SourceValue(p)' \in Value
    <3>1. SourceChosen(p) => call[p].req.source \in call[p].req.files
      BY DEF AddLink
    <3>2. SourceValue(p) \in Value
      BY <1>1, <3>1, SourceIsValue
    <3>3. QED
      BY <1>9, <1>10, <3>2, SourceStays
  <2>4. LinkInv(p)'
    <3>1. DOMAIN call[p].copies = {}
      BY <1>1, <1>2 DEF ReadInv
    <3>2. QED
      BY <1>1, <1>2, <1>9, <1>10, <2>3, <3>1 DEF LinkInv, Op
  <2>5. WriteInv(p)'
    BY <1>9, <1>10 DEF WriteInv
  <2>6. HeldInv(p)'
    BY <1>1, <1>9, <1>10 DEF HeldInv, Op, held, NewLink
  <2>7. QED
    BY <2>1, <2>2, <2>4, <2>5, <2>6 DEF OwnInv
<1>12. QED
  BY <1>1, <1>7, <1>8, <1>11, LocalStep

LEMMA CopyStep ==
  ASSUME OneCaller, ServiceInv, NEW p \in Process, broken' \in BOOLEAN, broken => broken',
         Copy(p)
  PROVE  ServiceInv'
<1>1. /\ call[p].pc = "copy" /\ Op(p) = "create_link" /\ ~T!Committing(p)
      /\ UNCHANGED <<disk, txn, disturbed, manifest>>
  BY NotCommitting, CallFacts DEF Copy, At, Stage
<1>2. /\ call[p] \in CallRecord /\ call[p].req \in Request /\ ReadInv(p) /\ LinkInv(p)
      /\ HeldInv(p) /\ call[p].copies \in T!Snapshot
  BY CallFacts, <1>1
<1>3. PICK f \in Next1(p) :
        call' = [call EXCEPT ![p].copies = With(@, f, disk[f].bytes), ![p].todo = @ \ {f},
                             ![p].pc = IF LastOf(p, f) THEN "files" ELSE @]
  BY DEF Copy
<1> DEFINE copies == With(call[p].copies, f, disk[f].bytes)
           c == [call[p] EXCEPT !.copies = copies, !.todo = @ \ {f},
                                !.pc = IF LastOf(p, f) THEN "files" ELSE @]
<1>4. /\ f \in File /\ f \in call[p].todo /\ copies \in T!Snapshot
      /\ DOMAIN copies = DOMAIN call[p].copies \cup {f} /\ copies[f] = disk[f].bytes
      /\ \A g \in DOMAIN call[p].copies : g # f => copies[g] = call[p].copies[g]
  BY <1>2, NextFile
<1> HIDE DEF copies
<1>5. c \in CallRecord
  BY <1>1, <1>2, <1>4 DEF CallRecord
<1>6. /\ c.req = call[p].req /\ c.seen = call[p].seen /\ c.copies = copies
      /\ c.files = call[p].files /\ c.held = call[p].held
      /\ c.todo = call[p].todo \ {f}
      /\ c.pc = IF LastOf(p, f) THEN "files" ELSE "copy"
  BY <1>1, <1>2 DEF CallRecord
<1>7. call' = [call EXCEPT ![p] = c]
  BY <1>3 DEF ServiceInv, TypeOK, copies
<1> HIDE DEF c
<1>8. call'[p] = c
  BY <1>7 DEF ServiceInv, TypeOK
<1>9. OwnInv(p)'
  <2>1. (<<call[p].pc, Op(p)>> \in Stage)'
    BY <1>1, <1>6, <1>8 DEF Op, Stage
  <2>2. /\ DOMAIN copies \cup (call[p].todo \ {f}) = call[p].files
        /\ call[p].todo = {f} => DOMAIN copies = call[p].files
    BY <1>1, <1>2, <1>4 DEF ReadInv
  <2>3. ReadInv(p)'
    BY <1>1, <1>2, <1>6, <1>8, <2>2 DEF ReadInv, Op, LastOf, Planned
  <2>4. \A g \in DOMAIN copies, k \in Key :
          k # call[p].req.key => copies[g][k] = disk'[g].bytes[k]
    BY <1>1, <1>2, <1>4 DEF LinkInv
  <2>5. SourceValue(p)' = SourceValue(p)
    BY <1>6, <1>8, SourceStays
  <2>6. LinkInv(p)'
    BY <1>1, <1>2, <1>6, <1>8, <2>4, <2>5 DEF LinkInv, Op
  <2>7. WriteInv(p)'
    BY <1>6, <1>8 DEF WriteInv
  <2>8. HeldInv(p)'
    BY <1>1, <1>2, <1>6, <1>8 DEF HeldInv, Op
  <2>9. QED
    BY <2>1, <2>3, <2>6, <2>7, <2>8 DEF OwnInv
<1>10. QED
  BY <1>1, <1>5, <1>7, <1>9, LocalStep

LEMMA RereadStep ==
  ASSUME OneCaller, ServiceInv, NEW p \in Process, broken' \in BOOLEAN, broken => broken',
         Reread(p)
  PROVE  ServiceInv'
<1>1. /\ call[p].pc = "reread" /\ Op(p) = "create_link" /\ ~T!Committing(p)
      /\ UNCHANGED <<disk, txn, disturbed, manifest>>
  BY NotCommitting, CallFacts DEF Reread, At, Stage
<1>2. /\ call[p] \in CallRecord /\ ReadInv(p) /\ LinkInv(p) /\ call[p].seen \in T!Snapshot
  BY CallFacts, <1>1
<1>3. PICK f \in Next1(p) :
        call' = [call EXCEPT ![p].seen = With(@, f, disk[f].bytes), ![p].todo = @ \ {f},
                             ![p].pc = IF LastOf(p, f) THEN "restore" ELSE @]
  BY DEF Reread
<1> DEFINE seen == With(call[p].seen, f, disk[f].bytes)
           c == [call[p] EXCEPT !.seen = seen, !.todo = @ \ {f},
                                !.pc = IF LastOf(p, f) THEN "restore" ELSE @]
<1>4. /\ f \in File /\ f \in call[p].todo /\ seen \in T!Snapshot
      /\ DOMAIN seen = DOMAIN call[p].seen \cup {f} /\ seen[f] = disk[f].bytes
      /\ \A g \in DOMAIN call[p].seen : g # f => seen[g] = call[p].seen[g]
  BY <1>2, NextFile
<1> HIDE DEF seen
<1>5. c \in CallRecord
  BY <1>1, <1>2, <1>4 DEF CallRecord
<1>6. /\ c.req = call[p].req /\ c.seen = seen /\ c.copies = call[p].copies
      /\ c.files = call[p].files /\ c.todo = call[p].todo \ {f}
      /\ c.pc = IF LastOf(p, f) THEN "restore" ELSE "reread"
  BY <1>1, <1>2 DEF CallRecord
<1>7. call' = [call EXCEPT ![p] = c]
  BY <1>3 DEF ServiceInv, TypeOK, seen
<1> HIDE DEF c
<1>8. call'[p] = c
  BY <1>7 DEF ServiceInv, TypeOK
<1>9. OwnInv(p)'
  <2>1. (<<call[p].pc, Op(p)>> \in Stage)'
    BY <1>1, <1>6, <1>8 DEF Op, Stage
  <2>2. /\ DOMAIN seen \cup (call[p].todo \ {f}) = call[p].files
        /\ call[p].todo = {f} => DOMAIN seen = call[p].files
        /\ \A g \in DOMAIN seen : seen[g] = disk'[g].bytes
    BY <1>1, <1>2, <1>4 DEF ReadInv, Planned
  <2>3. ReadInv(p)'
    BY <1>1, <1>2, <1>6, <1>8, <2>2 DEF ReadInv, Op, LastOf, Planned
  <2>4. LinkInv(p)'
    BY <1>1, <1>2, <1>6, <1>8 DEF LinkInv, Op
  <2>5. WriteInv(p)' /\ HeldInv(p)'
    BY <1>6, <1>8 DEF WriteInv, HeldInv
  <2>6. QED
    BY <2>1, <2>3, <2>4, <2>5 DEF OwnInv
<1>10. QED
  BY <1>1, <1>5, <1>7, <1>9, LocalStep

----------------------------------------------------------------------------
\* The save of the manifest.

LEMMA SaveManifestStep ==
  ASSUME OneCaller, ServiceInv, NEW p \in Process, broken' \in BOOLEAN, broken => broken',
         SaveManifest(p)
  PROVE  ServiceInv'
<1>1. /\ call[p].pc = "save" /\ ~T!Committing(p) /\ Valid(call[p].held)
      /\ manifest' = call[p].held /\ UNCHANGED <<disk, txn, disturbed>>
      /\ call' = [call EXCEPT ![p] = Idle("ok")]
  BY NotCommitting DEF SaveManifest, At, Return
<1>2. /\ call[p].held \in Manifest
      /\ ~broken => Agrees(call[p].held, Overlay(Nothing))
  BY <1>1, CallFacts DEF HeldInv
<1>3. T!CommitInv' /\ ~disturbed'[p]
  BY <1>1, IdleCommits DEF ServiceInv
<1>4. manifest' \in Manifest /\ Valid(manifest)'
  BY <1>1, <1>2 DEF Valid
<1>5. Idle("ok") \in CallRecord
  BY IdleTyped DEF Result, T!Result
<1>6. call' \in [Process -> CallRecord] /\ call'[p] = Idle("ok")
  BY <1>1, <1>5 DEF ServiceInv, TypeOK
<1>7. OwnInv(p)'
  BY <1>6, IdleOwn
<1>8. AgreeInv(p)'
  <2>1. ~T!Committing(p)'
    BY <1>1 DEF T!Committing
  <2>2. Overlay(Nothing)' = Overlay(Nothing)
    BY <1>1 DEF Overlay, Nothing
  <2>3. ~broken' => Agrees(manifest, Overlay(Nothing))'
    BY <1>1, <1>2, <2>2 DEF Agrees
  <2>4. QED
    BY <2>1, <2>3 DEF AgreeInv
<1>9. QED
  BY <1>3, <1>4, <1>6, <1>7, <1>8, WholeInv

LEMMA SaveManifestFailsStep ==
  ASSUME OneCaller, ServiceInv, NEW p \in Process, broken' \in BOOLEAN, broken => broken',
         SaveManifestFails(p)
  PROVE  ServiceInv'
<1>1. /\ call[p].pc = "save" /\ ~T!Committing(p)
      /\ UNCHANGED <<disk, txn, disturbed, manifest>>
  BY NotCommitting DEF SaveManifestFails, At
<1>2. CASE Op(p) # "create_link"
  BY <1>1, <1>2, ReturnStep DEF SaveManifestFails, Result, T!Result
<1>3. CASE Op(p) = "create_link"
  <2> DEFINE c == [call[p] EXCEPT !.pc = "reread", !.todo = DOMAIN call[p].copies, !.seen = Nothing]
  <2>1. /\ call[p] \in CallRecord /\ ReadInv(p) /\ LinkInv(p) /\ call[p].copies \in T!Snapshot
    BY CallFacts
  <2>2. Nothing \in T!Snapshot /\ DOMAIN Nothing = {}
    BY DEF Nothing, T!Snapshot
  <2>3. DOMAIN call[p].copies = call[p].files /\ call[p].files \subseteq File
    BY <1>1, <1>3, <2>1, CallFacts DEF ReadInv
  <2>4. c \in CallRecord
    BY <2>1, <2>2, <2>3 DEF CallRecord
  <2>5. /\ c.req = call[p].req /\ c.seen = Nothing /\ c.copies = call[p].copies
        /\ c.files = call[p].files /\ c.todo = call[p].files /\ c.pc = "reread"
    BY <2>1, <2>3 DEF CallRecord
  <2>6. call' = [call EXCEPT ![p] = c]
    BY <1>3 DEF SaveManifestFails, ServiceInv, TypeOK
  <2> HIDE DEF c
  <2>7. call'[p] = c
    BY <2>6 DEF ServiceInv, TypeOK
  <2>8. OwnInv(p)'
    <3>1. (<<call[p].pc, Op(p)>> \in Stage)'
      BY <1>3, <2>5, <2>7 DEF Op, Stage
    <3>2. ReadInv(p)'
      BY <1>1, <1>3, <2>2, <2>3, <2>5, <2>7 DEF ReadInv, Op, Planned
    <3>3. LinkInv(p)'
      BY <1>1, <1>3, <2>1, <2>5, <2>7 DEF LinkInv, Op
    <3>4. WriteInv(p)' /\ HeldInv(p)'
      BY <2>5, <2>7 DEF WriteInv, HeldInv
    <3>5. QED
      BY <3>1, <3>2, <3>3, <3>4 DEF OwnInv
  <2>9. QED
    BY <1>1, <2>4, <2>6, <2>8, LocalStep
<1>4. QED
  BY <1>2, <1>3

----------------------------------------------------------------------------
\* The commits: where they begin, the links agree in what they write.

LEMMA WithKeyFacts ==
  ASSUME NEW contents \in T!Snapshot, NEW key \in Key, NEW value \in Value \cup {Absent}
  PROVE  /\ WithKey(contents, key, value) \in [DOMAIN contents -> Bytes]
         /\ \A f \in DOMAIN contents, k \in Key :
              WithKey(contents, key, value)[f][k] = IF k = key THEN value ELSE contents[f][k]
<1>1. \A f \in DOMAIN contents : contents[f] \in [Key -> Value \cup {Absent}]
  BY DEF T!Snapshot, Bytes
<1>2. QED
  BY <1>1 DEF WithKey, Bytes

\* Files that differ only under a key by which no link holds them agree as before.
LEMMA AgreesUnlinked ==
  \A m \in Manifest, key \in Key : \A before, after :
    (/\ Agrees(m, before)
     /\ \A f \in File, k \in Key :
          after[f][k] # before[f][k] => k = key /\ LinksOf(m, f, key) = {})
    => Agrees(m, after)
<1> SUFFICES ASSUME NEW m \in Manifest, NEW key \in Key, NEW before, NEW after, Agrees(m, before),
                    \A f \in File, k \in Key :
                       after[f][k] # before[f][k] => k = key /\ LinksOf(m, f, key) = {}
             PROVE  Agrees(m, after)
  OBVIOUS
<1> SUFFICES ASSUME NEW link \in m.links
             PROVE  \E v \in Value : \A f \in link.members : after[f][link.key] = v
  BY DEF Agrees
<1>1. link.members \subseteq File /\ link.key \in Key
  BY DEF Manifest, Link
<1>2. PICK v \in Value : \A f \in link.members : before[f][link.key] = v
  BY DEF Agrees
<1>3. ASSUME NEW f \in link.members
      PROVE  after[f][link.key] = v
  <2>1. LinksOf(m, f, link.key) # {}
    BY DEF LinksOf
  <2>2. QED
    BY <1>1, <1>2, <2>1
<1>4. QED
  BY <1>3

\* A value that is written to all targets of a file is written to all members of a link or to none.
LEMMA AgreesSaved ==
  \A m \in Manifest, file \in File, key \in Key, value \in Value : \A before, after :
    (/\ Valid(m) /\ Agrees(m, before)
     /\ \A f \in Targets(m, file, key) : after[f][key] = value
     /\ \A f \in File, k \in Key :
          after[f][k] # before[f][k] => k = key /\ f \in Targets(m, file, key))
    => Agrees(m, after)
<1> SUFFICES ASSUME NEW m \in Manifest, Valid(m), NEW file \in File, NEW key \in Key,
                    NEW value \in Value, NEW before, NEW after, Agrees(m, before),
                    \A f \in Targets(m, file, key) : after[f][key] = value,
                    \A f \in File, k \in Key :
                       after[f][k] # before[f][k] => k = key /\ f \in Targets(m, file, key)
             PROVE  Agrees(m, after)
  OBVIOUS
<1> SUFFICES ASSUME NEW link \in m.links
             PROVE  \E v \in Value : \A f \in link.members : after[f][link.key] = v
  BY DEF Agrees
<1>1. link.members \subseteq File /\ link.key \in Key
  BY DEF Manifest, Link
<1>2. PICK v \in Value : \A f \in link.members : before[f][link.key] = v
  BY DEF Agrees
<1>3. CASE link.key # key \/ link.members \cap Targets(m, file, key) = {}
  BY <1>1, <1>2, <1>3
<1>4. CASE link.key = key /\ link.members \cap Targets(m, file, key) # {}
  <2>1. link.members \subseteq Targets(m, file, key)
    <3>1. PICK g \in link.members : g \in Targets(m, file, key)
      BY <1>4
    <3>2. CASE g = file
      BY <1>4, <3>1, <3>2 DEF Targets, LinksOf
    <3>3. CASE g # file
      <4>1. PICK other \in LinksOf(m, file, key) : g \in other.members
        BY <3>1, <3>3 DEF Targets
      <4>2. other = link
        BY <1>4, <3>1, <4>1 DEF Valid, LinksOf
      <4>3. QED
        BY <4>1, <4>2 DEF Targets
    <3>4. QED
      BY <3>2, <3>3
  <2>2. QED
    BY <1>4, <2>1
<1>5. QED
  BY <1>3, <1>4

LEMMA CommitBegins ==
  ASSUME ServiceInv, NEW p \in Process, NEW expected \in T!Snapshot,
         NEW proposed \in [DOMAIN expected -> Bytes],
         \A f \in DOMAIN expected : expected[f] = disk[f].bytes,
         Commit(p, expected, proposed)
  PROVE  /\ T!CommitInv' /\ ~disturbed'[p] /\ disk' = disk
         /\ T!Committing(p)'
         /\ txn'[p].expected = expected /\ txn'[p].proposed = proposed
<1>1. PICK order \in InPathOrder(DOMAIN expected) : T!Begin(p, order, expected, proposed)
  BY DEF Commit
<1>2. order \in T!Order /\ T!Members(order) = DOMAIN expected
  BY DEF InPathOrder
<1>3. T!CommitInv /\ p \in DOMAIN txn /\ p \in DOMAIN disturbed
  BY DEF ServiceInv, TypeOK, T!TypeOK
<1>4. T!CommitInv'
  BY <1>1, <1>2, <1>3, BeginKeepsCommitInv
<1>5. QED
  BY <1>1, <1>3, <1>4 DEF T!Begin, T!Committing

\* A commit of what an operation has loaded begins: the links have to agree in what it proposes.
LEMMA BeginStep ==
  ASSUME OneCaller, ServiceInv, NEW p \in Process, broken' \in BOOLEAN, broken => broken',
         ~T!Committing(p), call[p].pc \in {"plan", "files", "restore"}, UNCHANGED manifest,
         NEW pc \in {"commit", "restoring"}, call' = [call EXCEPT ![p].pc = pc],
         NEW proposed \in [DOMAIN call[p].seen -> Bytes], Commit(p, call[p].seen, proposed),
         ~broken => Agrees(manifest, Overlay(proposed)),
         OwnInv(p)'
  PROVE  ServiceInv'
<1>1. /\ call[p] \in CallRecord /\ call[p].seen \in T!Snapshot
      /\ \A f \in DOMAIN call[p].seen : call[p].seen[f] = disk[f].bytes
  BY CallFacts DEF ReadInv
<1>2. /\ T!CommitInv' /\ ~disturbed'[p] /\ disk' = disk /\ T!Committing(p)'
      /\ txn'[p].expected = call[p].seen /\ txn'[p].proposed = proposed
  BY <1>1, CommitBegins
<1>3. [call[p] EXCEPT !.pc = pc] \in CallRecord
  BY <1>1 DEF CallRecord
<1>4. call' = [call EXCEPT ![p] = [call[p] EXCEPT !.pc = pc]]
  BY DEF ServiceInv, TypeOK
<1>5. call' \in [Process -> CallRecord] /\ call'[p].pc = pc
  <2>1. call'[p] = [call[p] EXCEPT !.pc = pc]
    BY <1>4 DEF ServiceInv, TypeOK
  <2>2. call'[p].pc = pc
    BY <1>1, <2>1 DEF CallRecord
  <2>3. QED
    BY <1>3, <1>4, <2>2 DEF ServiceInv, TypeOK
<1>6. manifest' \in Manifest /\ Valid(manifest)'
  BY DEF ServiceInv, TypeOK, Valid
<1>7. ASSUME ~broken'
      PROVE  /\ Agrees(manifest, Overlay(txn[p].expected))'
             /\ Agrees(manifest, Overlay(txn[p].proposed))'
  <2>1. Agrees(manifest, Overlay(Nothing))
    BY <1>7, AgreesNow
  <2>2. Overlay(txn[p].expected)' = Overlay(Nothing)
    BY <1>1, <1>2 DEF Overlay, Nothing
  <2>3. Overlay(txn[p].proposed)' = Overlay(proposed)
    BY <1>2 DEF Overlay
  <2>4. Agrees(manifest, Overlay(proposed))
    BY <1>7
  <2>5. QED
    BY <2>1, <2>2, <2>3, <2>4 DEF Agrees
<1>8. AgreeInv(p)'
  BY <1>2, <1>5, <1>7 DEF AgreeInv
<1>9. QED
  BY <1>2, <1>5, <1>6, <1>8, WholeInv

\* The value that an operation writes into each of its files.
LEMMA WrittenFacts ==
  ASSUME ServiceInv, NEW p \in Process,
         \/ call[p].pc = "plan" /\ Op(p) \in {"save_value", "add_variable", "delete_variable"}
         \/ call[p].pc \in {"files", "commit"},
         NEW value, value = CASE Op(p) = "delete_variable" -> Absent
                              [] Op(p) = "create_link" -> SourceValue(p)
                              [] OTHER -> call[p].req.value
  PROVE  /\ value \in Value \cup {Absent} /\ call[p].req.key \in Key
         /\ Op(p) \in {"save_value", "add_variable", "create_link"} => value \in Value
         /\ Written(p) = WithKey(call[p].seen, call[p].req.key, value)
         /\ Written(p) \in [DOMAIN call[p].seen -> Bytes]
         /\ \A f \in DOMAIN call[p].seen, k \in Key :
              Written(p)[f][k] = IF k = call[p].req.key THEN value ELSE call[p].seen[f][k]
<1>1. /\ call[p].req \in Request /\ LinkInv(p) /\ call[p].seen \in T!Snapshot
      /\ Op(p) \in {"save_value", "add_variable", "delete_variable", "create_link"}
  BY CallFacts DEF Stage
<1>2. call[p].req.key \in Key
  BY <1>1, RequestFields DEF Op
<1>3. Op(p) = "create_link" => SourceValue(p) \in Value
  BY <1>1, CallFacts DEF LinkInv, Stage
<1>4. Op(p) \in {"save_value", "add_variable"} => call[p].req.value \in Value
  BY <1>1, RequestFields DEF Op
<1>5. /\ value \in Value \cup {Absent}
      /\ Op(p) \in {"save_value", "add_variable", "create_link"} => value \in Value
  BY <1>1, <1>3, <1>4
<1>6. Written(p) = WithKey(call[p].seen, call[p].req.key, value)
  BY DEF Written
<1>7. QED
  BY <1>1, <1>2, <1>5, <1>6, WithKeyFacts

\* The operation's own part of the invariant when its commit begins.
LEMMA CommitOwn ==
  ASSUME ServiceInv, NEW p \in Process,
         \/ call[p].pc = "plan" /\ Op(p) \in {"save_value", "add_variable", "delete_variable"}
         \/ call[p].pc = "files",
         call' = [call EXCEPT ![p].pc = "commit"], UNCHANGED <<disk, manifest>>,
         T!Committing(p)', txn'[p].expected = call[p].seen, txn'[p].proposed = Written(p)
  PROVE  OwnInv(p)'
<1> DEFINE c == [call[p] EXCEPT !.pc = "commit"]
<1>1. /\ call[p] \in CallRecord /\ ReadInv(p) /\ LinkInv(p) /\ HeldInv(p)
      /\ Op(p) \in {"save_value", "add_variable", "delete_variable", "create_link"}
      /\ call[p].pc = "files" => Op(p) = "create_link"
  BY CallFacts DEF Stage
<1>2. /\ c.req = call[p].req /\ c.seen = call[p].seen /\ c.copies = call[p].copies
      /\ c.files = call[p].files /\ c.held = call[p].held /\ c.pc = "commit"
  BY <1>1 DEF CallRecord
<1>3. call'[p] = c
  BY DEF ServiceInv, TypeOK
<1> HIDE DEF c
<1>4. SourceValue(p)' = SourceValue(p)
  BY <1>2, <1>3, SourceStays
<1>5. (<<call[p].pc, Op(p)>> \in Stage)'
  BY <1>1, <1>2, <1>3 DEF Op, Stage
<1>6. ReadInv(p)'
  BY <1>1, <1>2, <1>3 DEF ReadInv, Op, Planned
<1>7. LinkInv(p)'
  BY <1>1, <1>2, <1>3, <1>4 DEF LinkInv, Op
<1>8. WriteInv(p)'
  <2>1. Written(p)' = Written(p)
    BY <1>2, <1>3, <1>4 DEF Written, Op
  <2>2. QED
    BY <1>2, <1>3, <2>1 DEF WriteInv
<1>9. HeldInv(p)'
  BY <1>1, <1>2, <1>3 DEF HeldInv, Op
<1>10. QED
  BY <1>5, <1>6, <1>7, <1>8, <1>9 DEF OwnInv

\* The links agree in what an operation writes.
LEMMA WrittenAgrees ==
  ASSUME ServiceInv, NEW p \in Process, ~T!Committing(p), ~broken,
         \/ call[p].pc = "plan" /\ Op(p) \in {"save_value", "add_variable", "delete_variable"}
         \/ call[p].pc = "files"
  PROVE  Agrees(manifest, Overlay(Written(p)))
<1>1. /\ call[p] \in CallRecord /\ call[p].req \in Request /\ ReadInv(p) /\ LinkInv(p)
      /\ call[p].seen \in T!Snapshot
      /\ Op(p) \in {"save_value", "add_variable", "delete_variable", "create_link"}
      /\ call[p].pc = "files" => Op(p) = "create_link"
  BY CallFacts DEF Stage
<1>2. PICK value : value = CASE Op(p) = "delete_variable" -> Absent
                             [] Op(p) = "create_link" -> SourceValue(p)
                             [] OTHER -> call[p].req.value
  OBVIOUS
<1>3. PICK before, after, key :
         before = Overlay(Nothing) /\ after = Overlay(Written(p)) /\ key = call[p].req.key
  OBVIOUS
<1>4. /\ key \in Key
      /\ Op(p) \in {"save_value", "add_variable", "create_link"} => value \in Value
      /\ DOMAIN Written(p) = DOMAIN call[p].seen
      /\ \A f \in DOMAIN call[p].seen, k \in Key :
           Written(p)[f][k] = IF k = key THEN value ELSE call[p].seen[f][k]
  BY <1>2, <1>3, WrittenFacts
<1>5. DOMAIN call[p].seen = Planned(p) /\ DOMAIN call[p].seen \subseteq File
  BY <1>1 DEF ReadInv, T!Snapshot
<1>6. \A f \in File : before[f] = disk[f].bytes
  BY <1>3 DEF Overlay, Nothing
<1>7. \A f \in File : after[f] = IF f \in Planned(p) THEN Written(p)[f] ELSE disk[f].bytes
  BY <1>4, <1>5, <1>3 DEF Overlay
<1>8. \A f \in Planned(p) : call[p].seen[f] = disk[f].bytes
  BY <1>1, <1>5 DEF ReadInv
<1>9. \A f \in File, k \in Key : after[f][k] # before[f][k] => k = key /\ f \in Planned(p)
  BY <1>4, <1>5, <1>6, <1>7, <1>8
<1>10. Agrees(manifest, before) /\ manifest \in Manifest /\ Valid(manifest)
  BY <1>3, AgreesNow DEF ServiceInv, TypeOK
<1>11. CASE Op(p) = "save_value"
  <2>1. PICK file \in File : Planned(p) = Targets(manifest, file, key)
    BY <1>1, <1>3, <1>11, RequestFields DEF LinkInv, Planned, Op
  <2>2. value \in Value /\ key \in Key
    BY <1>4, <1>11
  <2>3. \A f \in Targets(manifest, file, key) : after[f][key] = value
    BY <1>4, <1>5, <1>7, <2>1
  <2>4. \A f \in File, k \in Key : after[f][k] # before[f][k] =>
          k = key /\ f \in Targets(manifest, file, key)
    BY <1>9, <2>1
  <2>5. Agrees(manifest, after)
    BY <1>10, <2>2, <2>3, <2>4, AgreesSaved
  <2>6. QED
    BY <1>3, <2>5
<1>12. CASE Op(p) \in {"create_link", "delete_variable"}
  <2>1. \A f \in Planned(p) : LinksOf(manifest, f, key) = {}
    BY <1>1, <1>12, <1>3 DEF LinkInv, Planned
  <2>2. \A f \in File, k \in Key :
          after[f][k] # before[f][k] => k = key /\ LinksOf(manifest, f, key) = {}
    BY <1>9, <2>1
  <2>3. Agrees(manifest, after)
     BY <1>4, <1>10, <2>2, AgreesUnlinked
  <2>4. QED
    BY <1>3, <2>3
<1>13. CASE Op(p) = "add_variable"
  <2>1. ASSUME NEW f \in Planned(p)
        PROVE  LinksOf(manifest, f, key) = {}
    <3>1. f \in File /\ disk[f].bytes[key] = Absent
      BY <1>1, <1>5, <1>8, <1>13, <1>3 DEF ReadInv
    <3>2. \A link \in LinksOf(manifest, f, key) : disk[f].bytes[key] \in Value
      BY <1>6, <1>10, <3>1 DEF Agrees, LinksOf
    <3>3. QED
      BY <3>1, <3>2, ValuesAssumption
  <2>2. \A f \in File, k \in Key :
          after[f][k] # before[f][k] => k = key /\ LinksOf(manifest, f, key) = {}
    BY <1>9, <2>1
  <2>3. Agrees(manifest, after)
    BY <1>4, <1>10, <2>2, AgreesUnlinked
  <2>4. QED
    BY <1>3, <2>3
<1>14. QED
  BY <1>1, <1>11, <1>12, <1>13

LEMMA CommitWritten ==
  ASSUME OneCaller, ServiceInv, NEW p \in Process, broken' \in BOOLEAN, broken => broken',
         \/ call[p].pc = "plan" /\ Op(p) \in {"save_value", "add_variable", "delete_variable"}
         \/ call[p].pc = "files",
         Commit(p, call[p].seen, Written(p)),
         call' = [call EXCEPT ![p].pc = "commit"], UNCHANGED manifest
  PROVE  ServiceInv'
<1>1. ~T!Committing(p)
  BY NotCommitting
<1>2. PICK value : value = CASE Op(p) = "delete_variable" -> Absent
                             [] Op(p) = "create_link" -> SourceValue(p)
                             [] OTHER -> call[p].req.value
  OBVIOUS
<1>3. Written(p) \in [DOMAIN call[p].seen -> Bytes]
  BY <1>2, WrittenFacts
<1>4. /\ call[p].seen \in T!Snapshot
      /\ \A f \in DOMAIN call[p].seen : call[p].seen[f] = disk[f].bytes
  BY CallFacts DEF ReadInv
<1>5. /\ disk' = disk /\ T!Committing(p)'
      /\ txn'[p].expected = call[p].seen /\ txn'[p].proposed = Written(p)
  BY <1>3, <1>4, CommitBegins
<1>6. ~broken => Agrees(manifest, Overlay(Written(p)))
  BY <1>1, WrittenAgrees
<1>7. OwnInv(p)'
  BY <1>5, CommitOwn
<1>8. QED
  BY <1>1, <1>3, <1>6, <1>7, BeginStep

LEMMA CommitFilesStep ==
  ASSUME OneCaller, ServiceInv, NEW p \in Process, broken' \in BOOLEAN, broken => broken',
         CommitFiles(p) \/ CommitLinkedFiles(p)
  PROVE  ServiceInv'
<1>1. CASE CommitFiles(p)
  <2>1. /\ call[p].pc = "plan" /\ Op(p) \in {"save_value", "add_variable", "delete_variable"}
        /\ call' = [call EXCEPT ![p].pc = "commit"] /\ UNCHANGED manifest
    BY <1>1 DEF CommitFiles, At
  <2>2. Commit(p, call[p].seen, Written(p))
    BY <1>1, <2>1 DEF CommitFiles, Written
  <2>3. QED
    BY <2>1, <2>2, CommitWritten
<1>2. CASE CommitLinkedFiles(p)
  <2>1. /\ call[p].pc = "files" /\ Op(p) = "create_link"
        /\ call' = [call EXCEPT ![p].pc = "commit"] /\ UNCHANGED manifest
    BY <1>2, CallFacts DEF CommitLinkedFiles, At, Stage
  <2>2. Commit(p, call[p].seen, Written(p))
    BY <1>2, <2>1 DEF CommitLinkedFiles, Written
  <2>3. QED
    BY <2>1, <2>2, CommitWritten
<1>3. QED
  BY <1>1, <1>2

LEMMA CommitCopiesStep ==
  ASSUME OneCaller, ServiceInv, NEW p \in Process, broken' \in BOOLEAN, broken => broken',
         CommitCopies(p)
  PROVE  ServiceInv'
<1>1. /\ call[p].pc = "restore" /\ Op(p) = "create_link" /\ ~T!Committing(p)
      /\ UNCHANGED manifest /\ call' = [call EXCEPT ![p].pc = "restoring"]
      /\ Commit(p, call[p].seen, call[p].copies)
  BY NotCommitting, CallFacts DEF CommitCopies, At, Stage
<1>2. /\ call[p] \in CallRecord /\ call[p].req \in Request /\ ReadInv(p) /\ LinkInv(p)
      /\ call[p].copies \in T!Snapshot /\ call[p].seen \in T!Snapshot
  BY <1>1, CallFacts
<1>3. DOMAIN call[p].seen = call[p].files /\ DOMAIN call[p].copies = call[p].files
  BY <1>1, <1>2 DEF ReadInv, Planned
<1>4. call[p].copies \in [DOMAIN call[p].seen -> Bytes]
  BY <1>2, <1>3 DEF T!Snapshot
<1>5. ASSUME ~broken
      PROVE  Agrees(manifest, Overlay(call[p].copies))
  <2>1. PICK before, after, key :
          /\ before = Overlay(Nothing) /\ after = Overlay(call[p].copies)
          /\ key = call[p].req.key
    OBVIOUS
  <2>2. Agrees(manifest, before) /\ manifest \in Manifest /\ key \in Key
    BY <1>1, <1>2, <1>5, <2>1, AgreesNow, RequestFields DEF ServiceInv, TypeOK, Op
  <2>3. \A f \in File : before[f] = disk[f].bytes
    BY <2>1 DEF Overlay, Nothing
  <2>4. \A f \in File : after[f] = IF f \in call[p].files THEN call[p].copies[f] ELSE disk[f].bytes
    BY <1>3, <2>1 DEF Overlay
  <2>5. \A f \in call[p].files : LinksOf(manifest, f, key) = {}
    BY <1>1, <1>2, <2>1 DEF LinkInv
  <2>6. \A f \in call[p].files, k \in Key : k # key => call[p].copies[f][k] = disk[f].bytes[k]
    BY <1>1, <1>2, <1>3, <2>1 DEF LinkInv
  <2>7. \A f \in File, k \in Key :
          after[f][k] # before[f][k] => k = key /\ LinksOf(manifest, f, key) = {}
    BY <2>3, <2>4, <2>5, <2>6
  <2>8. Agrees(manifest, after)
    BY <2>2, <2>7, AgreesUnlinked
  <2>9. QED
    BY <2>1, <2>8
<1>6. OwnInv(p)'
  <2> DEFINE c == [call[p] EXCEPT !.pc = "restoring"]
  <2>1. /\ c.req = call[p].req /\ c.copies = call[p].copies
        /\ c.files = call[p].files /\ c.pc = "restoring"
    BY <1>2 DEF CallRecord
  <2>2. call'[p] = c
    BY <1>1 DEF ServiceInv, TypeOK
  <2> HIDE DEF c
  <2>3. (<<call[p].pc, Op(p)>> \in Stage)'
    BY <1>1, <2>1, <2>2 DEF Op, Stage
  <2>4. ReadInv(p)' /\ WriteInv(p)' /\ HeldInv(p)'
    BY <2>1, <2>2 DEF ReadInv, WriteInv, HeldInv
  <2>5. LinkInv(p)'
    BY <1>1, <1>2, <2>1, <2>2 DEF LinkInv, Op
  <2>6. QED
    BY <2>3, <2>4, <2>5 DEF OwnInv
<1>7. QED
  BY <1>1, <1>4, <1>5, <1>6, BeginStep

----------------------------------------------------------------------------
\* A commit under way, and what the operation does when it has returned.

LEMMA CommitGoesOnStep ==
  ASSUME OneCaller, ServiceInv, NEW p \in Process, T!Step(p), UNCHANGED <<manifest, call>>,
         broken' = (broken \/ Breaks)
  PROVE  ServiceInv'
<1>1. /\ T!CommitInv /\ ~disturbed[p] /\ T!TypeOK /\ manifest \in Manifest /\ Valid(manifest)
      /\ call \in [Process -> CallRecord] /\ broken \in BOOLEAN
  BY DEF ServiceInv, TypeOK
<1>2. /\ T!Committing(p)
      /\ GoesOn(p) \/ Ends(p)
      /\ T!CommitInv' /\ ~disturbed'[p]
      /\ \A f \in File \ DOMAIN txn[p].expected : disk'[f] = disk[f]
      /\ \A f \in DOMAIN txn[p].expected :
           disk'[f].bytes \in {txn[p].expected[f], txn[p].proposed[f]}
  BY <1>1, CommitStep
<1>3. /\ DOMAIN txn[p].expected \subseteq File
      /\ DOMAIN txn[p].proposed = DOMAIN txn[p].expected
  BY <1>1, <1>2, PlanFacts
<1>4. /\ call[p] \in CallRecord /\ <<call[p].pc, Op(p)>> \in Stage
      /\ AgreeInv(p) /\ ReadInv(p) /\ LinkInv(p) /\ WriteInv(p) /\ HeldInv(p)
  BY CallFacts
<1>5. call[p].pc \in {"commit", "restoring"}
  BY <1>2, <1>4 DEF AgreeInv
<1>6. broken' \in BOOLEAN /\ (broken => broken')
  BY <1>1
<1>7. AgreeInv(p)'
  <2>1. CASE GoesOn(p)
    <3>1. ASSUME ~broken'
          PROVE  /\ Agrees(manifest, Overlay(txn[p].expected))'
                 /\ Agrees(manifest, Overlay(txn[p].proposed))'
      <4>1. /\ Agrees(manifest, Overlay(txn[p].expected))
            /\ Agrees(manifest, Overlay(txn[p].proposed))
        BY <1>2, <1>4, <1>6, <3>1 DEF AgreeInv
      <4>2. Overlay(txn[p].expected)' = Overlay(txn[p].expected)
        BY <1>2, <2>1 DEF Overlay, GoesOn
      <4>3. Overlay(txn[p].proposed)' = Overlay(txn[p].proposed)
        BY <1>2, <1>3, <2>1 DEF Overlay, GoesOn
      <4>4. QED
        BY <4>1, <4>2, <4>3 DEF Agrees
    <3>2. QED
      BY <1>5, <2>1, <3>1 DEF AgreeInv, GoesOn
  <2>2. CASE Ends(p)
    <3>1. PICK result \in T!Result :
            /\ txn'[p] = T!Idle(result)
            /\ result = "ok" =>
                 \A f \in DOMAIN txn[p].expected : disk'[f].bytes = txn[p].proposed[f]
            /\ result \in {"none", "io", "changed"} =>
                 \A f \in DOMAIN txn[p].expected : disk'[f].bytes = txn[p].expected[f]
      BY <2>2 DEF Ends
    <3>2. txn'[p].result = result /\ ~T!Committing(p)'
      BY <3>1 DEF T!Idle, T!Committing
    <3>3. ASSUME ~broken'
          PROVE  Agrees(manifest, Overlay(Nothing))'
      <4>1. /\ Agrees(manifest, Overlay(txn[p].expected))
            /\ Agrees(manifest, Overlay(txn[p].proposed))
        BY <1>2, <1>4, <1>6, <3>3 DEF AgreeInv
      <4>2. result \in {"ok", "none", "io", "changed"}
        BY <3>2, <3>3 DEF Breaks, T!Result
      <4>3. CASE result = "ok"
        <5>1. Overlay(Nothing)' = Overlay(txn[p].proposed)
          BY <1>2, <1>3, <3>1, <4>3 DEF Overlay, Nothing
        <5>2. QED
          BY <4>1, <5>1 DEF Agrees
      <4>4. CASE result \in {"none", "io", "changed"}
        <5>1. Overlay(Nothing)' = Overlay(txn[p].expected)
          BY <1>2, <3>1, <4>4 DEF Overlay, Nothing
        <5>2. QED
          BY <4>1, <5>1 DEF Agrees
      <4>5. QED
        BY <4>2, <4>3, <4>4
    <3>4. QED
      BY <3>2, <3>3 DEF AgreeInv
  <2>3. QED
    BY <1>2, <2>1, <2>2
<1>8. SourceValue(p)' = SourceValue(p)
  BY SourceStays
<1>9. Written(p)' = Written(p)
  BY <1>8 DEF Written, Op
<1>10. WriteInv(p)'
  <2>1. SUFFICES ASSUME call[p].pc = "commit" PROVE WriteInv(p)'
    BY DEF WriteInv
  <2>2. txn[p].expected = call[p].seen /\ txn[p].proposed = Written(p)
    BY <1>2, <1>4, <2>1 DEF WriteInv
  <2>3. CASE GoesOn(p)
    BY <1>9, <2>2, <2>3 DEF WriteInv, GoesOn
  <2>4. CASE Ends(p)
    <3>1. /\ ~T!Committing(p)'
          /\ txn'[p].result = "ok" =>
               \A f \in DOMAIN txn[p].expected : disk'[f].bytes = txn[p].proposed[f]
      BY <2>4 DEF Ends, T!Idle, T!Committing
    <3>2. QED
      BY <1>9, <2>2, <3>1 DEF WriteInv
  <2>5. QED
    BY <1>2, <2>3, <2>4
<1>11. LinkInv(p)'
  <2>1. ASSUME Op(p) = "create_link", call[p].pc = "commit",
               NEW f \in DOMAIN call[p].copies, NEW k \in Key, k # call[p].req.key
        PROVE  call[p].copies[f][k] = disk'[f].bytes[k]
    <3>1. /\ txn[p].expected = call[p].seen /\ txn[p].proposed = Written(p)
          /\ DOMAIN call[p].copies = DOMAIN call[p].seen
      BY <1>2, <1>4, <2>1 DEF WriteInv, ReadInv, Planned
    <3>2. \A g \in DOMAIN call[p].seen : Written(p)[g][k] = call[p].seen[g][k]
      BY <2>1, WrittenFacts
    <3>3. disk[f].bytes \in {txn[p].expected[f], txn[p].proposed[f]}
      BY <1>1, <1>2, <2>1, <3>1, Mixture
    <3>4. call[p].copies[f][k] = disk[f].bytes[k]
      BY <1>4, <2>1 DEF LinkInv
    <3>5. QED
      BY <1>2, <2>1, <3>1, <3>2, <3>3, <3>4
  <2>2. QED
    BY <1>4, <1>5, <1>8, <2>1 DEF LinkInv, Op
<1>12. ReadInv(p)'
  BY <1>4, <1>5 DEF ReadInv, Op, Planned
<1>13. HeldInv(p)'
  BY <1>4, <1>5 DEF HeldInv, Op
<1>14. OwnInv(p)'
  BY <1>4, <1>10, <1>11, <1>12, <1>13 DEF OwnInv, Op
<1>15. manifest' \in Manifest /\ Valid(manifest)' /\ call' \in [Process -> CallRecord]
  BY <1>1 DEF Valid
<1>16. QED
  BY <1>2, <1>6, <1>7, <1>14, <1>15, WholeInv

\* What a commit that succeeded has left in the files of the operation.
LEMMA CommittedFacts ==
  ASSUME ServiceInv, NEW p \in Process, Committed(p)
  PROVE  /\ call[p].pc = "commit" /\ ~T!Committing(p)
         /\ UNCHANGED <<disk, txn, disturbed, manifest>>
         /\ \A f \in DOMAIN call[p].seen : disk[f].bytes = Written(p)[f]
         /\ DOMAIN call[p].seen = Planned(p)
BY CallFacts DEF Committed, At, WriteInv, ReadInv

LEMMA LinkCommittedStep ==
  ASSUME OneCaller, ServiceInv, NEW p \in Process, broken' \in BOOLEAN, broken => broken',
         Committed(p), Op(p) = "create_link", call' = [call EXCEPT ![p].pc = "save"]
  PROVE  ServiceInv'
<1> DEFINE c == [call[p] EXCEPT !.pc = "save"]
<1>1. /\ call[p].pc = "commit" /\ ~T!Committing(p)
      /\ UNCHANGED <<disk, txn, disturbed, manifest>>
      /\ \A f \in DOMAIN call[p].seen : disk[f].bytes = Written(p)[f]
      /\ DOMAIN call[p].seen = Planned(p)
  BY CommittedFacts
<1>2. /\ call[p] \in CallRecord /\ call[p].req \in Request
      /\ ReadInv(p) /\ LinkInv(p) /\ HeldInv(p) /\ manifest \in Manifest
  BY <1>1, CallFacts DEF ServiceInv, TypeOK
<1>3. /\ c.req = call[p].req /\ c.copies = call[p].copies /\ c.files = call[p].files
      /\ c.held = call[p].held /\ c.pc = "save" /\ c \in CallRecord
  BY <1>2 DEF CallRecord
<1>4. call' = [call EXCEPT ![p] = c]
  BY DEF ServiceInv, TypeOK
<1> HIDE DEF c
<1>5. call'[p] = c
  BY <1>4 DEF ServiceInv, TypeOK
<1>6. call[p].held = [manifest EXCEPT !.links = @ \cup {NewLink(p)}]
  BY <1>1, <1>2 DEF HeldInv, NewLink
<1>7. /\ call[p].held \in Manifest
      /\ call[p].held.links = manifest.links \cup {NewLink(p)}
      /\ call[p].held.policy = manifest.policy
  BY <1>2, <1>6, NewLinkFacts
<1>8. \A f \in NewLink(p).members : disk[f].bytes[NewLink(p).key] = SourceValue(p)
  <2>1. call[p].req.key \in Key
    BY <1>2, RequestFields DEF Op
  <2>2. \A f \in DOMAIN call[p].seen : Written(p)[f][call[p].req.key] = SourceValue(p)
    BY <1>1, <2>1, WrittenFacts
  <2>3. DOMAIN call[p].seen = call[p].req.files
    BY <1>1, <1>2 DEF Planned, LinkInv
  <2>4. QED
    BY <1>1, <2>2, <2>3 DEF NewLink
<1>9. ~broken' => Agrees(call[p].held, Overlay(Nothing))'
  <2>1. SUFFICES ASSUME ~broken PROVE Agrees(call[p].held, Overlay(Nothing))'
    OBVIOUS
  <2>2. Agrees(manifest, Overlay(Nothing))
    BY <1>1, <2>1, AgreesNow
  <2>3. SourceValue(p) \in Value
    BY <1>1, <1>2 DEF LinkInv
  <2>4. NewLink(p).members \subseteq File
    BY <1>2, NewLinkFacts DEF Link
  <2>5. \A f \in File : Overlay(Nothing)[f] = disk[f].bytes
    BY DEF Overlay, Nothing
  <2>6. \A f \in NewLink(p).members : Overlay(Nothing)[f][NewLink(p).key] = SourceValue(p)
    BY <1>8, <2>4, <2>5
  <2>7. Agrees(call[p].held, Overlay(Nothing))
    BY <1>7, <2>2, <2>3, <2>6 DEF Agrees
  <2>8. Overlay(Nothing)' = Overlay(Nothing) /\ call'[p].held = call[p].held
    BY <1>1, <1>3, <1>5 DEF Overlay, Nothing
  <2>9. QED
    BY <2>7, <2>8 DEF Agrees
<1>10. OwnInv(p)'
  <2>1. (<<call[p].pc, Op(p)>> \in Stage)'
    BY <1>3, <1>5 DEF Op, Stage, AllOps
  <2>2. ReadInv(p)'
    BY <1>1, <1>2, <1>3, <1>5 DEF ReadInv, Op
  <2>3. LinkInv(p)'
    BY <1>1, <1>2, <1>3, <1>5 DEF LinkInv, Op
  <2>4. WriteInv(p)'
    BY <1>3, <1>5 DEF WriteInv
  <2>5. HeldInv(p)'
    BY <1>1, <1>3, <1>5, <1>7, <1>9 DEF HeldInv
  <2>6. QED
    BY <2>1, <2>2, <2>3, <2>4, <2>5 DEF OwnInv
<1>11. QED
  BY <1>1, <1>3, <1>4, <1>10, LocalStep

LEMMA CommittedStep ==
  ASSUME OneCaller, ServiceInv, NEW p \in Process, broken' \in BOOLEAN, broken => broken',
         Committed(p)
  PROVE  ServiceInv'
<1>1. /\ call[p].pc = "commit" /\ ~T!Committing(p)
      /\ UNCHANGED <<disk, txn, disturbed, manifest>>
  BY CommittedFacts
<1>2. CASE Op(p) = "create_link"
  BY <1>2, LinkCommittedStep DEF Committed
<1>3. CASE Op(p) = "add_variable"
  <2> DEFINE c == [call[p] EXCEPT !.pc = "policy"]
  <2>1. call' = [call EXCEPT ![p].pc = "policy"]
    BY <1>3 DEF Committed
  <2>2. call[p] \in CallRecord
    BY CallFacts
  <2>3. c.req = call[p].req /\ c.pc = "policy" /\ c \in CallRecord
    BY <2>2 DEF CallRecord
  <2>4. call' = [call EXCEPT ![p] = c]
    BY <2>1 DEF ServiceInv, TypeOK
  <2> HIDE DEF c
  <2>5. call'[p] = c
    BY <2>4 DEF ServiceInv, TypeOK
  <2>6. OwnInv(p)'
    <3>1. (<<call[p].pc, Op(p)>> \in Stage)'
      BY <1>3, <2>3, <2>5 DEF Op, Stage
    <3>2. ReadInv(p)' /\ LinkInv(p)'
      BY <1>3, <2>3, <2>5 DEF ReadInv, LinkInv, Op
    <3>3. WriteInv(p)' /\ HeldInv(p)'
      BY <2>3, <2>5 DEF WriteInv, HeldInv
    <3>4. QED
      BY <3>1, <3>2, <3>3 DEF OwnInv
  <2>7. QED
    BY <1>1, <2>3, <2>4, <2>6, LocalStep
<1>4. CASE Op(p) \notin {"create_link", "add_variable"}
  <2>1. Return(p, "ok")
    BY <1>4 DEF Committed
  <2>2. QED
    BY <1>1, <2>1, ReturnStep DEF Result, T!Result
<1>5. QED
  BY <1>2, <1>3, <1>4

----------------------------------------------------------------------------
\* The theorems.

LEMMA RunStep ==
  ASSUME OneCaller, ServiceInv, NEW p \in Process, Run(p)
  PROVE  ServiceInv'
<1>1. broken' \in BOOLEAN /\ (broken => broken') /\ broken' = (broken \/ Breaks)
  BY DEF Run, ServiceInv, TypeOK
<1>2. CASE FirstStep(p)
  BY <1>1, <1>2, ResolveTargetsStep, CheckTargetStep, EnterSteps, DetachStep, SetAccessStep,
     RefusalStep DEF FirstStep
<1>3. CASE FileStep(p)
  <2>1. CASE Load(p) \/ CommitFiles(p) \/ AddLink(p) \/ Copy(p) \/ CommitLinkedFiles(p)
    BY <1>1, <2>1, LoadStep, CommitFilesStep, AddLinkStep, CopyStep
  <2>2. CASE LoadFails(p) \/ RefuseSource(p)
    BY <1>1, <2>2, RefusalStep
  <2>3. CASE CommitFailed(p)
    BY <1>1, <2>3, CommitFailedStep
  <2>4. CASE Committed(p)
    BY <1>1, <2>4, CommittedStep
  <2>5. CASE T!Step(p) /\ UNCHANGED <<manifest, call>>
    BY <1>1, <2>5, CommitGoesOnStep
  <2>6. QED
    BY <1>3, <2>1, <2>2, <2>3, <2>4, <2>5 DEF FileStep
<1>4. CASE ManifestStep(p)
  <2>1. CASE EnsurePolicy(p) \/ Classify(p) \/ SaveManifest(p) \/ SaveManifestFails(p)
    BY <1>1, <2>1, EnsurePolicyStep, ClassifyStep, SaveManifestStep, SaveManifestFailsStep
  <2>2. CASE Reread(p) \/ CommitCopies(p)
    BY <1>1, <2>2, RereadStep, CommitCopiesStep
  <2>3. CASE RereadFails(p) \/ ReadFails(p) \/ Die(p)
    BY <1>1, <2>3, RefusalStep
  <2>4. CASE Restored(p)
    BY <1>1, <2>4, CommitFailedStep
  <2>5. QED
    BY <1>4, <2>1, <2>2, <2>3, <2>4 DEF ManifestStep
<1>5. QED
  BY <1>2, <1>3, <1>4 DEF Run, Step

LEMMA ServiceStep ==
  ASSUME OneCaller, ServiceInv, [Next]_vars
  PROVE  ServiceInv'
<1>1. CASE \E p \in Process : Call(p) /\ UNCHANGED broken
  BY <1>1, InvokeStep DEF Call
<1>2. CASE \E p \in Process : Run(p)
  BY <1>2, RunStep
<1>3. CASE UNCHANGED vars
  <2>1. T!CommitInv'
    BY <1>3, IdleCommits DEF vars, ServiceInv
  <2>2. T!TypeOK'
    BY <2>1 DEF T!CommitInv
  <2>3. TypeOK'
    BY <1>3, <2>2 DEF vars, ServiceInv, TypeOK, Op, Valid
  <2>4. ASSUME NEW p \in Process
        PROVE  /\ ~disturbed'[p]
               /\ (AgreeInv(p) /\ ReadInv(p) /\ LinkInv(p) /\ WriteInv(p) /\ HeldInv(p))'
    <3>1. UNCHANGED <<disk, txn, disturbed, manifest, call, broken>>
      BY <1>3 DEF vars
    <3>2. SourceValue(p)' = SourceValue(p) /\ Written(p)' = Written(p) /\ Planned(p)' = Planned(p)
      BY <3>1, SourceStays DEF Written, Planned, Op
    <3>3. AgreeInv(p)'
      BY <3>1 DEF ServiceInv, AgreeInv, Agrees, Overlay, T!Committing
    <3>4. ReadInv(p)' /\ LinkInv(p)'
      BY <3>1, <3>2 DEF ServiceInv, ReadInv, LinkInv, Op
    <3>5. WriteInv(p)'
      BY <3>1, <3>2 DEF ServiceInv, WriteInv, T!Committing
    <3>6. HeldInv(p)'
      BY <3>1 DEF ServiceInv, HeldInv, Op, Agrees, Overlay
    <3>7. QED
      BY <3>1, <3>3, <3>4, <3>5, <3>6 DEF ServiceInv
  <2>5. QED
    BY <2>1, <2>3, <2>4 DEF ServiceInv
<1>4. QED
  BY <1>1, <1>2, <1>3 DEF Next

LEMMA ServiceInit == Init => ServiceInv
<1> SUFFICES ASSUME Init PROVE ServiceInv
  OBVIOUS
<1> DEFINE empty == [links |-> {}, policy |-> [k \in Key |-> NoPolicy]]
           contents == [f \in File |-> disk[f].bytes]
<1>1. T!CommitInv
  <2>1. TP!Init
    BY DEF Init, T!Init, TP!Init, T!Idle, TP!Idle, T!NoBytes, TP!NoBytes
  <2>2. TP!CommitInv
    BY <2>1, TP!CommitInvInit, ServiceInterferenceAssumption, ServiceFaultAssumption
      DEF TP!AllFaults, AllFaults
  <2>3. QED
    BY <2>2, SameCommitInv
<1>2. manifest \in Manifest /\ manifest.links = {}
  <2>1. empty \in Manifest /\ empty.links = {}
    BY DEF Manifest
  <2>2. manifest = Classified(empty, contents)
    BY DEF Init
  <2> HIDE DEF empty, contents
  <2>3. QED
    BY <2>1, <2>2, ClassifiedFacts
<1>3. \A p \in Process : call[p] = Idle("none") /\ ~T!Committing(p)
  BY DEF Init, T!Init, T!Committing, T!Idle
<1>4. Idle("none").pc = "idle" /\ Idle("none").req.op = "none"
  BY DEF Idle, NoRequest
<1>5. Idle("none") \in CallRecord
  BY IdleTyped DEF Result, T!Result
<1>6. TypeOK
  <2>1. Valid(manifest)
    BY <1>2 DEF Valid
  <2>2. call \in [Process -> CallRecord] /\ broken \in BOOLEAN
    BY <1>5 DEF Init
  <2>3. \A p \in Process : <<call[p].pc, Op(p)>> \in Stage
    BY <1>3, <1>4 DEF Op, Stage
  <2>4. QED
    BY <1>1, <1>2, <2>1, <2>2, <2>3 DEF TypeOK, T!CommitInv
<1>7. \A p \in Process : ~disturbed[p]
  BY DEF Init, T!Init
<1>8. ASSUME NEW p \in Process
      PROVE  AgreeInv(p) /\ ReadInv(p) /\ LinkInv(p) /\ WriteInv(p) /\ HeldInv(p)
  <2>1. call[p].pc = "idle" /\ Op(p) = "none"
    BY <1>3, <1>4 DEF Op
  <2>2. AgreeInv(p)
    BY <1>2, <1>3 DEF AgreeInv, Agrees
  <2>3. QED
    BY <2>1, <2>2 DEF ReadInv, LinkInv, WriteInv, HeldInv
<1>9. QED
  BY <1>1, <1>6, <1>7, <1>8 DEF ServiceInv

\* The invariant of the service: what every operation has read is what the files hold until it
\* commits, and the links agree before, during and after each commit.
THEOREM ServiceInvariant ==
  ASSUME OneCaller
  PROVE  Spec => []ServiceInv
BY ServiceInit, ServiceStep, PTL DEF Spec

\* Between operations every member of a link has the same value, as long as no operation was
\* broken off by a crash or by a rollback that failed: whatever sequence of saves, links,
\* detachments and deletions ran, with whatever faults.
THEOREM LinkedFilesAgree ==
  ASSUME OneCaller
  PROVE  Spec => []LinksAgree
<1>1. ServiceInv => LinksAgree
  <2> SUFFICES ASSUME ServiceInv, Quiet, ~broken
               PROVE  Agrees(manifest, [f \in File |-> disk[f].bytes])
    <3>1. ASSUME ServiceInv, Agrees(manifest, [f \in File |-> disk[f].bytes])
          PROVE  \A link \in manifest.links :
                   \E v \in Value : \A f \in link.members : disk[f].bytes[link.key] = v
      BY <3>1 DEF Agrees, ServiceInv, TypeOK, Manifest, Link
    <3>2. QED
      BY <3>1 DEF LinksAgree
  <2>1. PICK p \in Process : TRUE
    BY DEF OneCaller
  <2>2. ~T!Committing(p)
    BY NotCommitting DEF Quiet, At
  <2>3. Agrees(manifest, Overlay(Nothing))
    BY <2>2 DEF ServiceInv, AgreeInv
  <2>4. Overlay(Nothing) = [f \in File |-> disk[f].bytes]
    BY DEF Overlay, Nothing
  <2>5. QED
    BY <2>3, <2>4
<1>2. QED
  BY <1>1, ServiceInvariant, PTL

\* The one step that returns success from save_value.
LEMMA SaveReturnsBy ==
  ASSUME OneCaller, ServiceInv, [Next]_vars, NEW p \in Process, Op(p) = "save_value",
         call'[p] = Idle("ok")
  PROVE  Committed(p)
<1>1. /\ call \in [Process -> CallRecord] /\ <<call[p].pc, Op(p)>> \in Stage
      /\ \A q \in Process : q = p
  BY DEF ServiceInv, TypeOK, OneCaller
<1>2. /\ call[p].pc \in {"manifest", "check", "load", "plan", "commit"}
      /\ call'[p].pc = "idle" /\ call'[p].result = "ok" /\ call' # call
  BY <1>1 DEF Stage, Op, AllOps, Idle
<1>3. \A result : Return(p, result) => result = "ok"
  BY <1>1, <1>2 DEF Return, Idle
<1>4. Step(p)
  <2>1. ~\E req \in Request : Invoke(p, req)
    BY <1>2 DEF Invoke, At
  <2>2. QED
    BY <1>1, <1>2, <2>1 DEF Next, Run, Call, vars
<1>5. ~FirstStep(p)
  <2>1. ~ResolveTargets(p)
    BY <1>1, <1>2 DEF ResolveTargets, CallRecord
  <2>2. ASSUME NEW f, CheckTarget(p),
               \/ call' = [call EXCEPT ![p].todo = call[p].files, ![p].pc = "load"]
               \/ call' = [call EXCEPT ![p].todo = @ \ {f}]
        PROVE  FALSE
    <3>1. call[p].pc = "check" /\ call[p] \in CallRecord
      BY <1>1, <2>2 DEF CheckTarget, At
    <3>2. call'[p].pc \in {"check", "load"}
      BY <1>1, <2>2, <3>1 DEF CallRecord
    <3>3. QED
      BY <1>2, <3>2
  <2>3. ~CheckTargetFails(p)
    BY <1>3 DEF CheckTargetFails
  <2>4. /\ ~EnterLink(p) /\ ~RefuseLink(p) /\ ~EnterDelete(p) /\ ~RefuseDelete(p) /\ ~Detach(p)
        /\ ~RefuseDetach(p) /\ ~SetAccess(p) /\ ~EnterScan(p)
    BY DEF EnterLink, RefuseLink, EnterDelete, RefuseDelete, Detach, RefuseDetach, SetAccess,
           EnterScan, LoadManifest
  <2>5. ~CheckTarget(p)
    BY <2>2 DEF CheckTarget
  <2>6. QED
    BY <2>1, <2>3, <2>4, <2>5 DEF FirstStep
<1>6. ~ManifestStep(p)
  <2>1. /\ ~EnsurePolicy(p) /\ ~SaveManifest(p) /\ ~SaveManifestFails(p) /\ ~Reread(p)
        /\ ~RereadFails(p) /\ ~CommitCopies(p) /\ ~Restored(p)
    BY <1>2 DEF EnsurePolicy, SaveManifest, SaveManifestFails, Reread, RereadFails, CommitCopies,
                Restored, At
  <2>2. ~Classify(p)
    BY DEF Classify
  <2>3. ~ReadFails(p) /\ ~Die(p)
    BY <1>3 DEF ReadFails, Die
  <2>4. QED
    BY <2>1, <2>2, <2>3 DEF ManifestStep
<1>7. ASSUME FileStep(p)
      PROVE  Committed(p)
  <2>1. ~CommitFiles(p) /\ ~CommitLinkedFiles(p)
    BY <1>1, <1>2 DEF CommitFiles, CommitLinkedFiles, CallRecord
  <2>2. ~Load(p)
    <3>1. SUFFICES ASSUME NEW f, At(p, "load"),
                          call' = [call EXCEPT ![p].seen = With(@, f, disk[f].bytes),
                                               ![p].todo = @ \ {f},
                                               ![p].pc = IF LastOf(p, f) THEN "plan" ELSE @]
                   PROVE  FALSE
      BY DEF Load
    <3>2. call[p].pc = "load" /\ call[p] \in CallRecord
      BY <1>1, <3>1 DEF At
    <3>3. call'[p].pc \in {"load", "plan"}
      BY <1>1, <3>1, <3>2 DEF CallRecord
    <3>4. QED
      BY <1>2, <3>3
  <2>3. ~LoadFails(p) /\ ~CommitFailed(p)
    BY <1>3 DEF LoadFails, CommitFailed
  <2>4. ~RefuseSource(p) /\ ~AddLink(p)
    BY DEF RefuseSource, AddLink
  <2>5. ~Copy(p)
    BY <1>2 DEF Copy, At
  <2>6. QED
    BY <1>2, <1>7, <2>1, <2>2, <2>3, <2>4, <2>5 DEF FileStep
<1>8. QED
  BY <1>4, <1>5, <1>6, <1>7 DEF Step

\* A save that reports success has put its value into every occurrence linked with the one it was
\* asked for, also after operations that were broken off.
THEOREM SavesReachAll ==
  ASSUME OneCaller
  PROVE  Spec => LinkedSaveReachesAll
<1>1. ASSUME ServiceInv, [Next]_vars, NEW p \in Process, Op(p) = "save_value",
             call'[p] = Idle("ok"),
             NEW f \in Targets(manifest, call[p].req.file, call[p].req.key)
      PROVE  disk[f].bytes[call[p].req.key] = call[p].req.value
  <2>1. Committed(p)
    BY <1>1, SaveReturnsBy
  <2>2. /\ call[p].pc = "commit" /\ call[p].req \in Request /\ LinkInv(p)
        /\ \A g \in DOMAIN call[p].seen : disk[g].bytes = Written(p)[g]
        /\ DOMAIN call[p].seen = call[p].files
    BY <1>1, <2>1, CommittedFacts, CallFacts DEF Planned
  <2>3. f \in DOMAIN call[p].seen
    BY <1>1, <2>2 DEF LinkInv
  <2>4. call[p].req.key \in Key
    BY <1>1, <2>2, RequestFields DEF Op
  <2>5. \A g \in DOMAIN call[p].seen : Written(p)[g][call[p].req.key] = call[p].req.value
    BY <1>1, <2>2, <2>4, WrittenFacts
  <2>6. QED
    BY <2>2, <2>3, <2>5
<1>2. ServiceInv /\ [Next]_vars =>
        [ \A p \in Process :
            Op(p) = "save_value" /\ call'[p] = Idle("ok") =>
              \A f \in Targets(manifest, call[p].req.file, call[p].req.key) :
                disk[f].bytes[call[p].req.key] = call[p].req.value ]_vars
  BY <1>1
<1>3. QED
  BY <1>2, ServiceInvariant, PTL DEF Spec, LinkedSaveReachesAll

\* No step opens a key to the agent but the save of a set_codex_access that asks for it: the scan,
\* ensure_policy and the operations on links never do, whatever an older heuristic granted.
THEOREM AccessOpensOnRequest ==
  ASSUME OneCaller
  PROVE  Spec => AccessOnRequest
<1>1. ASSUME ServiceInv, [Next]_vars, manifest' # manifest
      PROVE  \E p \in Process : SaveManifest(p)
  <2>1. PICK p \in Process : Step(p)
    BY <1>1 DEF Next, Run, Call, Invoke, vars
  <2>2. ~FirstStep(p)
    BY <1>1 DEF FirstStep, ResolveTargets, CheckTarget, CheckTargetFails, EnterLink, RefuseLink,
                EnterDelete, RefuseDelete, Detach, RefuseDetach, SetAccess, EnterScan, LoadManifest
  <2>3. ~FileStep(p)
    BY <1>1 DEF FileStep, Load, LoadFails, CommitFiles, RefuseSource, AddLink, Copy,
                CommitLinkedFiles, CommitFailed, Committed
  <2>4. ManifestStep(p) => SaveManifest(p)
    BY <1>1 DEF ManifestStep, EnsurePolicy, Classify, SaveManifestFails, Reread, RereadFails,
                CommitCopies, Restored, ReadFails, Die
  <2>5. QED
    BY <2>1, <2>2, <2>3, <2>4 DEF Step
<1>2. ASSUME ServiceInv, [Next]_vars, NEW k \in Key,
             manifest'.policy[k].access = "read-write", manifest.policy[k].access # "read-write"
      PROVE  \E p \in Process :
               /\ At(p, "save") /\ call'[p] # call[p]
               /\ Op(p) = "set_codex_access"
               /\ call[p].req.key = k /\ call[p].req.access = "read-write"
  <2>1. PICK p \in Process : SaveManifest(p)
    BY <1>1, <1>2
  <2>2. At(p, "save") /\ manifest' = call[p].held
    BY <2>1 DEF SaveManifest
  <2>3. call'[p] # call[p]
    BY <1>2, <2>1 DEF SaveManifest, At, Return, Idle, ServiceInv, TypeOK
  <2>4. Op(p) = "set_codex_access" /\ call[p].req.key = k /\ call[p].req.access = "read-write"
    BY <1>2, <2>2 DEF At, ServiceInv, HeldInv
  <2>5. QED
    BY <2>2, <2>3, <2>4
<1>3. ServiceInv /\ [Next]_vars =>
        [ \A k \in Key :
            manifest'.policy[k].access = "read-write" /\ manifest.policy[k].access # "read-write" =>
              \E p \in Process :
                /\ At(p, "save") /\ call'[p] # call[p]
                /\ Op(p) = "set_codex_access"
                /\ call[p].req.key = k /\ call[p].req.access = "read-write" ]_vars
  BY <1>2
<1>4. QED
  BY <1>3, ServiceInvariant, PTL DEF Spec, AccessOnRequest

----------------------------------------------------------------------------
\* What the refinement needs beyond ServiceInv.

StoreOwn(p) == FoundInv(p) /\ CopiesInv(p) /\ SavesLinks(p)

LEMMA WholeStore ==
  ASSUME OneCaller, NEW p \in Process, IdsOf(manifest)', StoreOwn(p)'
  PROVE  StoreInv'
<1>1. \A q \in Process : q = p
  BY DEF OneCaller
<1>2. (\A q \in Process : FoundInv(q) /\ CopiesInv(q) /\ SavesLinks(q))'
  BY <1>1 DEF StoreOwn
<1>3. QED
  BY <1>2 DEF StoreInv

LEMMA IdsStay ==
  ASSUME StoreInv, manifest' = manifest
  PROVE  IdsOf(manifest)'
BY DEF StoreInv, IdsOf

LEMMA IdleStore ==
  ASSUME NEW p \in Process, NEW result, call'[p] = Idle(result)
  PROVE  StoreOwn(p)'
<1>1. call'[p].pc = "idle" /\ call'[p].req.op = "none"
  BY DEF Idle, NoRequest
<1>2. FoundInv(p)'
  BY <1>1 DEF FoundInv, Op
<1>3. CopiesInv(p)' /\ SavesLinks(p)'
  BY <1>1 DEF CopiesInv, SavesLinks, Op
<1>4. QED
  BY <1>2, <1>3 DEF StoreOwn

LEMMA ReturnStore ==
  ASSUME OneCaller, ServiceInv, StoreInv, NEW p \in Process, manifest' = manifest,
         NEW result, Return(p, result)
  PROVE  StoreInv'
<1>1. call'[p] = Idle(result)
  BY DEF Return, ServiceInv, TypeOK
<1>2. QED
  BY <1>1, IdleStore, IdsStay, WholeStore

\* As long as an operation has nothing planned, there is little to know.
LEMMA EarlyStore ==
  ASSUME OneCaller, StoreInv, NEW p \in Process, manifest' = manifest,
         call'[p].pc \in {"manifest", "check", "load", "plan", "policy"},
         call'[p].result = "none",
         call'[p].req.op = "delete_variable" =>
           \A f \in DOMAIN call'[p].seen : call'[p].seen[f][call'[p].req.key] # Absent,
         call'[p].req.op = "delete_variable" /\ call'[p].pc # "manifest" =>
           call'[p].files = {call'[p].req.file},
         call'[p].req.op = "create_link" /\ call'[p].pc # "manifest" =>
           Cardinality(call'[p].files) >= 2
  PROVE  StoreInv'
<1>1. FoundInv(p)'
  BY DEF FoundInv, Op
<1>2. CopiesInv(p)'
  BY DEF CopiesInv, Linking, Op
<1>3. SavesLinks(p)'
  BY DEF SavesLinks
<1>4. QED
  BY <1>1, <1>2, <1>3, IdsStay, WholeStore DEF StoreOwn

LEMMA StoreFacts ==
  ASSUME StoreInv, NEW p \in Process
  PROVE  /\ FoundInv(p) /\ CopiesInv(p) /\ SavesLinks(p) /\ IdsOf(manifest)
         /\ call[p].pc # "idle" => call[p].result = "none"
BY DEF StoreInv, FoundInv

LEMMA EarlySteps ==
  ASSUME OneCaller, ServiceInv, StoreInv, NEW p \in Process,
         \/ \E req \in Request : Invoke(p, req)
         \/ ResolveTargets(p) \/ CheckTarget(p) \/ EnterLink(p) \/ EnterDelete(p) \/ EnterScan(p)
  PROVE  StoreInv'
<1>1. call \in [Process -> CallRecord] /\ call[p] \in CallRecord /\ manifest' = manifest
  BY DEF ServiceInv, TypeOK, Invoke, ResolveTargets, CheckTarget, EnterLink, EnterDelete, EnterScan,
         LoadManifest
<1>2. <<call[p].pc, Op(p)>> \in Stage /\ ReadInv(p)
  BY CallFacts
<1>3. ASSUME NEW req \in Request, Invoke(p, req)
      PROVE  StoreInv'
  <2> DEFINE c == [Idle("none") EXCEPT !.req = req,
                     !.pc = IF req.op = "add_variable" THEN "load" ELSE "manifest",
                     !.todo = IF req.op = "add_variable" THEN {req.file} ELSE {}]
  <2>1. call'[p] = c
    BY <1>1, <1>3 DEF Invoke
  <2>2. /\ c.req = req /\ c.seen = Nothing /\ c.result = "none"
        /\ c.pc = IF req.op = "add_variable" THEN "load" ELSE "manifest"
    BY DEF Idle
  <2> HIDE DEF c
  <2>3. DOMAIN Nothing = {}
    BY DEF Nothing
  <2>4. QED
    BY <1>1, <2>1, <2>2, <2>3, EarlyStore
<1>4. CASE ResolveTargets(p)
  <2>1. call[p].pc = "manifest" /\ Op(p) = "save_value"
    BY <1>4 DEF ResolveTargets, LoadManifest, At
  <2>2. call'[p].pc = "check" /\ call'[p].req = call[p].req /\ call'[p].result = call[p].result
    BY <1>1, <1>4 DEF ResolveTargets, CallRecord
  <2>3. QED
    BY <1>1, <2>1, <2>2, StoreFacts, EarlyStore DEF Op
<1>5. CASE CheckTarget(p)
  <2>1. call[p].pc = "check" /\ Op(p) = "save_value"
    BY <1>2, <1>5 DEF CheckTarget, At, Stage
  <2>2. PICK f : call' = IF LastOf(p, f)
                   THEN [call EXCEPT ![p].todo = call[p].files, ![p].pc = "load"]
                   ELSE [call EXCEPT ![p].todo = @ \ {f}]
    BY <1>5 DEF CheckTarget
  <2>3. /\ call'[p].pc \in {"check", "load"} /\ call'[p].req = call[p].req
        /\ call'[p].result = call[p].result
    BY <1>1, <2>1, <2>2 DEF CallRecord
  <2>4. QED
    BY <1>1, <2>1, <2>3, StoreFacts, EarlyStore DEF Op
<1>6. ASSUME NEW op \in {"create_link", "delete_variable", "initialize"}, LoadManifest(p, op),
             NEW files, Enter(p, "load", files),
             op = "create_link" => Cardinality(files) >= 2,
             op = "delete_variable" => files = {call[p].req.file}
      PROVE  StoreInv'
  <2>1. call[p].pc = "manifest" /\ Op(p) = op
    BY <1>6 DEF LoadManifest, At
  <2>2. /\ call'[p].pc = "load" /\ call'[p].req = call[p].req /\ call'[p].result = call[p].result
        /\ call'[p].seen = call[p].seen /\ call'[p].files = files
    BY <1>1, <1>6 DEF Enter, CallRecord
  <2>3. DOMAIN call[p].seen = {}
    BY <1>2, <2>1 DEF ReadInv
  <2>4. QED
    BY <1>1, <1>6, <2>1, <2>2, <2>3, StoreFacts, EarlyStore DEF Op
<1>7. CASE EnterLink(p) \/ EnterDelete(p) \/ EnterScan(p)
  BY <1>6, <1>7 DEF EnterLink, EnterDelete, EnterScan
<1>8. QED
  BY <1>3, <1>4, <1>5, <1>7

LEMMA LoadStore ==
  ASSUME OneCaller, ServiceInv, StoreInv, NEW p \in Process, Load(p)
  PROVE  StoreInv'
<1>1. /\ call \in [Process -> CallRecord] /\ call[p] \in CallRecord /\ call[p].pc = "load"
      /\ manifest' = manifest /\ call[p].seen \in T!Snapshot
  BY CallFacts DEF ServiceInv, TypeOK, Load, At
<1>2. PICK f \in Next1(p) : /\ Loadable(p, f)
        /\ call' = [call EXCEPT ![p].seen = With(@, f, disk[f].bytes), ![p].todo = @ \ {f},
                                ![p].pc = IF LastOf(p, f) THEN "plan" ELSE @]
  BY DEF Load
<1> DEFINE seen == With(call[p].seen, f, disk[f].bytes)
<1>3. /\ DOMAIN seen = DOMAIN call[p].seen \cup {f} /\ seen[f] = disk[f].bytes
      /\ \A g \in DOMAIN call[p].seen : g # f => seen[g] = call[p].seen[g]
  BY <1>1, <1>2, NextFile
<1>4. /\ call'[p].seen = seen /\ call'[p].pc \in {"load", "plan"} /\ call'[p].req = call[p].req
      /\ call'[p].files = call[p].files /\ call'[p].result = call[p].result
  BY <1>1, <1>2 DEF CallRecord
<1> HIDE DEF seen
<1>5. Op(p) = "delete_variable" => \A g \in DOMAIN seen : seen[g][call[p].req.key] # Absent
  BY <1>1, <1>2, <1>3, StoreFacts DEF FoundInv, Loadable
<1>6. Op(p) = "create_link" => Cardinality(call[p].files) >= 2
  BY <1>1, StoreFacts DEF FoundInv
<1>7. Op(p) = "delete_variable" => call'[p].files = {call'[p].req.file}
  BY <1>1, <1>4, StoreFacts DEF FoundInv
<1>8. QED
  BY <1>1, <1>4, <1>5, <1>6, <1>7, StoreFacts, EarlyStore DEF Op

----------------------------------------------------------------------------
\* Links and their ids.

LEMMA WithoutMemberIds ==
  ASSUME NEW m \in Manifest, IdsOf(m), NEW id, NEW key, NEW file
  PROVE  IdsOf(WithoutMember(m, id, key, file))
<1> DEFINE touched == { link \in m.links : link.id = id /\ link.key = key }
           rest == { [link EXCEPT !.members = @ \ {file}] : link \in touched }
           links == (m.links \ touched) \cup { link \in rest : Cardinality(link.members) >= 2 }
<1>1. m.links \subseteq Link
  BY DEF Manifest
<1>2. ASSUME NEW link \in links
      PROVE  \E whole \in m.links :
               /\ link.key = whole.key /\ link.id = whole.id /\ link.members \subseteq whole.members
               /\ link = IF whole \in touched THEN [whole EXCEPT !.members = @ \ {file}] ELSE whole
  <2>1. CASE link \in m.links \ touched
    BY <2>1
  <2>2. CASE link \in rest
    <3>1. PICK whole \in touched : link = [whole EXCEPT !.members = @ \ {file}]
      BY <2>2
    <3>2. link.key = whole.key /\ link.id = whole.id /\ link.members \subseteq whole.members
      BY <1>1, <3>1 DEF Link
    <3>3. QED
      BY <3>1, <3>2
  <2>3. QED
    BY <2>1, <2>2
<1>3. WithoutMember(m, id, key, file).links = links
  BY DEF WithoutMember, Manifest
<1> HIDE DEF touched, rest, links
<1>4. \A link \in links : link.members \subseteq link.id
  BY <1>2 DEF IdsOf
<1>5. ASSUME NEW a \in links, NEW b \in links, a.id = b.id, a.key = b.key
      PROVE  a = b
  BY <1>2, <1>5 DEF IdsOf
<1>6. QED
  BY <1>3, <1>4, <1>5 DEF IdsOf

LEMMA NewLinkIds ==
  ASSUME NEW m \in Manifest, Valid(m), IdsOf(m), NEW p \in Process,
         \A f \in call[p].req.files : LinksOf(m, f, call[p].req.key) = {}
  PROVE  IdsOf([m EXCEPT !.links = @ \cup {NewLink(p)}])
<1>1. [m EXCEPT !.links = @ \cup {NewLink(p)}].links = m.links \cup {NewLink(p)}
  BY DEF Manifest
<1>2. ASSUME NEW link \in m.links, link.id = call[p].req.files, link.key = call[p].req.key
      PROVE  FALSE
  <2>1. link.members # {}
    <3>1. Cardinality(link.members) >= 2
      BY DEF Valid
    <3>2. Cardinality({}) = 0
      BY FS_EmptySet
    <3>3. QED
      BY <3>1, <3>2
  <2>2. PICK f \in link.members : TRUE
    BY <2>1
  <2>3. f \in call[p].req.files
    BY <1>2 DEF IdsOf
  <2>4. link \in LinksOf(m, f, call[p].req.key)
    BY <1>2 DEF LinksOf
  <2>5. QED
    BY <2>3, <2>4
<1>3. \A link \in m.links \cup {NewLink(p)} : link.members \subseteq link.id
  BY DEF IdsOf, NewLink
<1>4. \A a, b \in m.links \cup {NewLink(p)} : a.id = b.id /\ a.key = b.key => a = b
  BY <1>2 DEF IdsOf, NewLink
<1>5. QED
  BY <1>1, <1>3, <1>4 DEF IdsOf

\* A manifest with the same links.
LEMMA SameIds ==
  ASSUME NEW m, NEW n, n.links = m.links, IdsOf(m)
  PROVE  IdsOf(n)
BY DEF IdsOf

LEMMA SavingStore ==
  ASSUME OneCaller, ServiceInv, StoreInv, NEW p \in Process, manifest' = manifest,
         NEW held, call' = [call EXCEPT ![p].pc = "save", ![p].held = held],
         Op(p) \in AllOps \ {"save_value", "delete_variable", "create_link"},
         call[p].pc # "idle", IdsOf(held),
         Op(p) = "detach_link_member" =>
           /\ \E link \in manifest.links : link.id = call[p].req.id /\ link.key = call[p].req.key
           /\ held = WithoutMember(manifest, call[p].req.id, call[p].req.key, call[p].req.file),
         Op(p) # "detach_link_member" => held.links = manifest.links
  PROVE  StoreInv'
<1>1. /\ call'[p].pc = "save" /\ call'[p].req = call[p].req /\ call'[p].result = call[p].result
      /\ call'[p].held = held
  BY DEF ServiceInv, TypeOK, CallRecord
<1>2. Op(p)' = Op(p)
  BY <1>1 DEF Op
<1>3. FoundInv(p)'
  BY <1>1, <1>2, StoreFacts DEF FoundInv
<1>4. CopiesInv(p)'
  BY <1>2 DEF CopiesInv
<1>5. IdsOf(call[p].held)'
  BY <1>1 DEF IdsOf
<1>6. SavesLinks(p)'
  BY <1>1, <1>2, <1>5 DEF SavesLinks
<1>7. QED
  BY <1>3, <1>4, <1>6, IdsStay, WholeStore DEF StoreOwn

LEMMA SavingSteps ==
  ASSUME OneCaller, ServiceInv, StoreInv, NEW p \in Process,
         Detach(p) \/ SetAccess(p) \/ EnsurePolicy(p) \/ Classify(p)
  PROVE  StoreInv'
<1>1. /\ call[p] \in CallRecord /\ <<call[p].pc, Op(p)>> \in Stage /\ manifest \in Manifest
      /\ IdsOf(manifest)
  BY CallFacts, StoreFacts DEF ServiceInv, TypeOK
<1>2. CASE Detach(p)
  <2>1. IdsOf(WithoutMember(manifest, call[p].req.id, call[p].req.key, call[p].req.file))
    BY <1>1, WithoutMemberIds
  <2>2. /\ Op(p) = "detach_link_member" /\ call[p].pc # "idle" /\ manifest' = manifest
        /\ \E link \in manifest.links : link.id = call[p].req.id /\ link.key = call[p].req.key
    BY <1>2 DEF Detach, LoadManifest, At
  <2>3. QED
    BY <1>2, <2>1, <2>2, SavingStore DEF Detach, AllOps
<1>3. CASE SetAccess(p)
  <2> DEFINE held == [manifest EXCEPT !.policy[call[p].req.key] =
                        [access |-> call[p].req.access, by |-> call[p].req.by]]
  <2>1. held.links = manifest.links
    BY <1>1 DEF Manifest
  <2>2. Op(p) = "set_codex_access" /\ call[p].pc # "idle" /\ manifest' = manifest
    BY <1>3 DEF SetAccess, LoadManifest, At
  <2>3. call' = [call EXCEPT ![p].pc = "save", ![p].held = held]
    BY <1>3 DEF SetAccess
  <2> HIDE DEF held
  <2>4. QED
    BY <1>1, <2>1, <2>2, <2>3, SameIds, SavingStore DEF AllOps
<1>4. CASE EnsurePolicy(p)
  <2> DEFINE held == [manifest EXCEPT !.policy[call[p].req.key] = DefaultPolicy(call[p].req.key)]
  <2>1. held.links = manifest.links
    BY <1>1 DEF Manifest
  <2>2. Op(p) = "add_variable" /\ call[p].pc # "idle" /\ manifest' = manifest
    BY <1>1, <1>4 DEF EnsurePolicy, At, Stage
  <2>3. Return(p, "ok") \/ call' = [call EXCEPT ![p].pc = "save", ![p].held = held]
    BY <1>4 DEF EnsurePolicy
  <2> HIDE DEF held
  <2>4. QED
    BY <1>1, <2>1, <2>2, <2>3, SameIds, SavingStore, ReturnStore DEF AllOps
<1>5. CASE Classify(p)
  <2> DEFINE held == Classified(call[p].held, call[p].seen)
  <2>1. /\ Op(p) = "initialize" /\ call[p].pc = "plan" /\ manifest' = manifest
        /\ Return(p, "ok") \/ call' = [call EXCEPT ![p].pc = "save", ![p].held = held]
    BY <1>5 DEF Classify, At
  <2>2. call[p].held = manifest
    BY <2>1, CallFacts DEF HeldInv
  <2>3. held.links = manifest.links
    BY <1>1, <2>2, ClassifiedFacts
  <2> HIDE DEF held
  <2>4. QED
    BY <1>1, <2>1, <2>3, SameIds, SavingStore, ReturnStore DEF AllOps
<1>6. QED
  BY <1>2, <1>3, <1>4, <1>5

LEMMA SaveStore ==
  ASSUME OneCaller, ServiceInv, StoreInv, NEW p \in Process, SaveManifest(p)
  PROVE  StoreInv'
<1>1. call[p].pc = "save" /\ manifest' = call[p].held /\ Return(p, "ok")
  BY DEF SaveManifest, At
<1>2. IdsOf(manifest)'
  BY <1>1, StoreFacts DEF SavesLinks, IdsOf
<1>3. call'[p] = Idle("ok")
  BY <1>1 DEF Return, ServiceInv, TypeOK
<1>4. QED
  BY <1>2, <1>3, IdleStore, WholeStore

----------------------------------------------------------------------------
\* create_link, from the values it has read to what it can take back.

LEMMA PlainCommitStore ==
  ASSUME OneCaller, ServiceInv, StoreInv, NEW p \in Process, CommitFiles(p)
  PROVE  StoreInv'
<1>1. /\ call[p].pc = "plan" /\ Op(p) \in {"save_value", "add_variable", "delete_variable"}
      /\ call' = [call EXCEPT ![p].pc = "commit"] /\ manifest' = manifest
  BY DEF CommitFiles, At
<1>2. /\ call'[p].pc = "commit" /\ call'[p].req = call[p].req /\ call'[p].seen = call[p].seen
      /\ call'[p].result = call[p].result
  BY <1>1 DEF ServiceInv, TypeOK, CallRecord
<1>3. Op(p)' = Op(p)
  BY <1>2 DEF Op
<1>4. ReadInv(p)
  BY CallFacts
<1>5. FoundInv(p)'
  BY <1>1, <1>2, <1>3, <1>4, StoreFacts DEF FoundInv, ReadInv
<1>6. CopiesInv(p)' /\ SavesLinks(p)'
  BY <1>1, <1>2, <1>3 DEF CopiesInv, SavesLinks
<1>7. QED
  BY <1>1, <1>5, <1>6, IdsStay, WholeStore DEF StoreOwn

\* The value of a create_link is that of one of its files.
LEMMA SourceIsThere ==
  ASSUME ServiceInv, StoreInv, NEW p \in Process, call[p].pc = "plan", Op(p) = "create_link",
         SourceChosen(p) => call[p].req.source \in call[p].req.files
  PROVE  \E f \in call[p].req.files : call[p].seen[f][call[p].req.key] = SourceValue(p)
<1>1. CASE SourceChosen(p)
  BY <1>1 DEF SourceValue
<1>2. CASE ~SourceChosen(p) /\ Distinct(p) # {}
  <2>1. SourceValue(p) \in Distinct(p)
    BY <1>2 DEF SourceValue
  <2>2. QED
    BY <2>1 DEF Distinct
<1>3. CASE ~SourceChosen(p) /\ Distinct(p) = {}
  <2>1. Cardinality(call[p].files) >= 2 /\ call[p].files = call[p].req.files
    BY StoreFacts, CallFacts DEF FoundInv, LinkInv
  <2>2. Cardinality({}) = 0
    BY FS_EmptySet
  <2>3. PICK f \in call[p].req.files : TRUE
    BY <2>1, <2>2
  <2>4. call[p].seen[f][call[p].req.key] = Empty
    BY <1>3 DEF Distinct
  <2>5. QED
    BY <1>3, <2>4 DEF SourceValue
<1>4. QED
  BY <1>1, <1>2, <1>3

LEMMA AddLinkStore ==
  ASSUME OneCaller, ServiceInv, StoreInv, NEW p \in Process, AddLink(p)
  PROVE  StoreInv'
<1>1. /\ call[p].pc = "plan" /\ Op(p) = "create_link" /\ manifest' = manifest
      /\ SourceChosen(p) => call[p].req.source \in call[p].req.files
      /\ call' = [call EXCEPT ![p].held.links = @ \cup {NewLink(p)},
                              ![p].todo = call[p].req.files, ![p].pc = "copy"]
  BY DEF AddLink, At, NewLink
<1>2. /\ call'[p].pc = "copy" /\ call'[p].req = call[p].req /\ call'[p].seen = call[p].seen
      /\ call'[p].files = call[p].files /\ call'[p].copies = call[p].copies
      /\ call'[p].result = call[p].result
  BY <1>1 DEF ServiceInv, TypeOK, CallRecord
<1>3. SourceValue(p)' = SourceValue(p) /\ Op(p)' = Op(p)
  BY <1>2, SourceStays DEF Op
<1>4. \E f \in call[p].files : call[p].seen[f][call[p].req.key] = SourceValue(p)
  BY <1>1, SourceIsThere, CallFacts DEF LinkInv
<1>5. FoundInv(p)'
  BY <1>1, <1>2, <1>3, <1>4, StoreFacts DEF FoundInv
<1>6. DOMAIN call[p].copies = {}
  BY <1>1, CallFacts DEF ReadInv
<1>7. CopiesInv(p)' /\ SavesLinks(p)'
  BY <1>2, <1>6 DEF CopiesInv, SavesLinks, Linking
<1>8. QED
  BY <1>1, <1>5, <1>7, IdsStay, WholeStore DEF StoreOwn

LEMMA CopyStore ==
  ASSUME OneCaller, ServiceInv, StoreInv, NEW p \in Process, Copy(p)
  PROVE  StoreInv'
<1>1. /\ call[p].pc = "copy" /\ Op(p) = "create_link" /\ UNCHANGED <<disk, manifest>>
      /\ call[p].copies \in T!Snapshot
  BY CallFacts DEF Copy, At, Stage
<1>2. PICK f \in Next1(p) :
        call' = [call EXCEPT ![p].copies = With(@, f, disk[f].bytes), ![p].todo = @ \ {f},
                             ![p].pc = IF LastOf(p, f) THEN "files" ELSE @]
  BY DEF Copy
<1> DEFINE copies == With(call[p].copies, f, disk[f].bytes)
<1>3. /\ DOMAIN copies = DOMAIN call[p].copies \cup {f} /\ copies[f] = disk[f].bytes
      /\ \A g \in DOMAIN call[p].copies : g # f => copies[g] = call[p].copies[g]
  BY <1>1, NextFile
<1>4. /\ call'[p].pc \in {"copy", "files"} /\ call'[p].req = call[p].req
      /\ call'[p].seen = call[p].seen /\ call'[p].files = call[p].files
      /\ call'[p].copies = copies /\ call'[p].result = call[p].result
  BY <1>1, <1>2 DEF ServiceInv, TypeOK, CallRecord
<1> HIDE DEF copies
<1>5. SourceValue(p)' = SourceValue(p) /\ Op(p)' = Op(p)
  BY <1>4, SourceStays DEF Op
<1>6. FoundInv(p)'
  BY <1>1, <1>4, <1>5, StoreFacts DEF FoundInv
<1>7. \A g \in DOMAIN copies : copies[g] = disk'[g].bytes
  BY <1>1, <1>3, StoreFacts DEF CopiesInv
<1>8. CopiesInv(p)' /\ SavesLinks(p)'
  BY <1>4, <1>7 DEF CopiesInv, SavesLinks, Linking
<1>9. QED
  BY <1>1, <1>6, <1>8, IdsStay, WholeStore DEF StoreOwn

\* When it commits, its copies are what it has loaded.
LEMMA CopiesAreSeen ==
  ASSUME ServiceInv, StoreInv, NEW p \in Process, call[p].pc = "files"
  PROVE  /\ call[p].copies = call[p].seen /\ DOMAIN call[p].copies = call[p].files
         /\ Op(p) = "create_link" /\ call[p].req.key \in Key
         /\ \A f \in call[p].files :
              call[p].copies[f] = disk[f].bytes /\ call[p].copies[f][call[p].req.key] # Absent
<1>1. /\ Op(p) = "create_link" /\ call[p].req.key \in Key
      /\ call[p].copies \in T!Snapshot /\ call[p].seen \in T!Snapshot /\ ReadInv(p)
  BY CallFacts, RequestFields DEF Stage, Op
<1>2. DOMAIN call[p].copies = call[p].files /\ DOMAIN call[p].seen = call[p].files
  BY <1>1 DEF ReadInv, Planned
<1>3. \A f \in call[p].files : call[p].copies[f] = disk[f].bytes /\ call[p].seen[f] = disk[f].bytes
  BY <1>1, <1>2, StoreFacts DEF ReadInv, CopiesInv
<1>4. call[p].copies = call[p].seen
  <2>1. /\ call[p].copies \in [call[p].files -> Bytes] /\ call[p].seen \in [call[p].files -> Bytes]
    BY <1>1, <1>2 DEF T!Snapshot
  <2>2. QED
    BY <1>3, <2>1
<1>5. \A f \in call[p].files : call[p].copies[f][call[p].req.key] # Absent
  BY <1>1, <1>2, <1>4 DEF ReadInv
<1>6. QED
  BY <1>1, <1>2, <1>3, <1>4, <1>5

LEMMA LinkCommitStore ==
  ASSUME OneCaller, ServiceInv, StoreInv, NEW p \in Process, CommitLinkedFiles(p)
  PROVE  StoreInv'
<1>1. /\ call[p].pc = "files" /\ Op(p) = "create_link" /\ manifest' = manifest
      /\ call' = [call EXCEPT ![p].pc = "commit"]
      /\ Commit(p, call[p].seen, Written(p))
  <2>1. call[p].pc = "files" /\ Op(p) = "create_link"
    BY CallFacts DEF CommitLinkedFiles, At, Stage
  <2>2. QED
    BY <2>1 DEF CommitLinkedFiles, Written
<1>2. T!Committing(p)'
  <2>1. PICK value : value = CASE Op(p) = "delete_variable" -> Absent
                               [] Op(p) = "create_link" -> SourceValue(p)
                               [] OTHER -> call[p].req.value
    OBVIOUS
  <2>2. Written(p) \in [DOMAIN call[p].seen -> Bytes]
    BY <1>1, <2>1, WrittenFacts
  <2>3. /\ call[p].seen \in T!Snapshot
        /\ \A f \in DOMAIN call[p].seen : call[p].seen[f] = disk[f].bytes
    BY <1>1, CallFacts DEF ReadInv
  <2>4. QED
    BY <1>1, <2>2, <2>3, CommitBegins
<1>3. /\ call'[p].pc = "commit" /\ call'[p].req = call[p].req /\ call'[p].seen = call[p].seen
      /\ call'[p].files = call[p].files /\ call'[p].copies = call[p].copies
      /\ call'[p].result = call[p].result
  BY <1>1 DEF ServiceInv, TypeOK, CallRecord
<1>4. SourceValue(p)' = SourceValue(p) /\ Op(p)' = Op(p)
  BY <1>3, SourceStays DEF Op
<1>5. FoundInv(p)'
  BY <1>1, <1>3, <1>4, StoreFacts DEF FoundInv
<1>6. CopiesInv(p)' /\ SavesLinks(p)'
  BY <1>1, <1>2, <1>3, CopiesAreSeen DEF CopiesInv, SavesLinks, Linking
<1>7. QED
  BY <1>1, <1>5, <1>6, IdsStay, WholeStore DEF StoreOwn

----------------------------------------------------------------------------
\* A step of a commit, and its return.

LEMMA CommitGoesOnStore ==
  ASSUME OneCaller, ServiceInv, StoreInv, NEW p \in Process, T!Step(p),
         UNCHANGED <<manifest, call>>, broken' = (broken \/ Breaks)
  PROVE  StoreInv'
<1>1. /\ T!Committing(p)
      /\ GoesOn(p) \/ Ends(p)
      /\ \A f \in File \ DOMAIN txn[p].expected : disk'[f] = disk[f]
  BY CommitStep DEF ServiceInv
<1>2. /\ call[p].pc \in {"commit", "restoring"} /\ WriteInv(p) /\ LinkInv(p) /\ ReadInv(p)
      /\ broken \in BOOLEAN /\ call[p].files \subseteq File
  BY <1>1, CallFacts DEF AgreeInv, ServiceInv, TypeOK
<1>3. SourceValue(p)' = SourceValue(p) /\ Op(p)' = Op(p)
  BY SourceStays DEF Op
<1>4. FoundInv(p)' /\ SavesLinks(p)'
  BY <1>2, <1>3, StoreFacts DEF FoundInv, SavesLinks
<1>5. ASSUME Op(p) = "create_link" PROVE CopiesInv(p)'
  <2>1. /\ call[p].pc = "commit" => call[p].copies = call[p].seen
        /\ DOMAIN call[p].copies = call[p].files
        /\ \A f \in call[p].files : call[p].copies[f][call[p].req.key] # Absent
        /\ call[p].pc = "restoring" =>
             Unified(p, txn[p].expected) /\ txn[p].proposed = call[p].copies
    BY <1>1, <1>2, <1>5, StoreFacts DEF CopiesInv, Linking
  <2>2. CASE GoesOn(p)
    <3>1. Unified(p, txn[p].expected) => Unified(p, txn[p].expected)'
      BY <2>2 DEF Unified, GoesOn
    <3>2. QED
      BY <1>2, <1>5, <2>1, <2>2, <3>1 DEF CopiesInv, Linking, GoesOn
  <2>3. CASE Ends(p)
    <3>1. PICK result \in T!Result :
            /\ txn'[p] = T!Idle(result)
            /\ result = "ok" =>
                 \A f \in DOMAIN txn[p].expected : disk'[f].bytes = txn[p].proposed[f]
            /\ result \in {"none", "io", "changed"} =>
                 \A f \in DOMAIN txn[p].expected : disk'[f].bytes = txn[p].expected[f]
      BY <2>3 DEF Ends
    <3>2. txn'[p].result = result /\ ~T!Committing(p)'
      BY <3>1 DEF T!Idle, T!Committing
    <3>3. ~broken' => result \in {"ok", "none", "io", "changed"}
      BY <1>2, <3>2 DEF Breaks, T!Result
    <3>4. DOMAIN txn[p].expected = call[p].files
      <4>1. CASE call[p].pc = "commit"
        BY <1>1, <1>2, <2>1, <4>1 DEF WriteInv
      <4>2. CASE call[p].pc = "restoring"
        <5>1. DOMAIN txn[p].proposed = DOMAIN txn[p].expected
          BY <1>1, PlanFacts DEF ServiceInv, TypeOK
        <5>2. QED
          BY <2>1, <4>2, <5>1
      <4>3. QED
        BY <1>2, <4>1, <4>2
    <3>5. CASE call[p].pc = "commit"
      <4>1. txn[p].expected = call[p].copies
        BY <1>1, <1>2, <2>1, <3>5 DEF WriteInv
      <4>2. txn'[p].result # "ok" /\ ~broken' => \A f \in call[p].files : disk'[f].bytes = call[p].copies[f]
        BY <3>1, <3>2, <3>3, <3>4, <4>1
      <4>3. QED
        BY <2>1, <3>5, <4>2 DEF CopiesInv, Linking
    <3>6. CASE call[p].pc = "restoring"
      <4>1. txn'[p].result = "ok" => \A f \in call[p].files : disk'[f].bytes = call[p].copies[f]
        BY <2>1, <3>1, <3>2, <3>4, <3>6
      <4>2. ASSUME txn'[p].result # "ok", ~broken'
            PROVE  Unified(p, Overlay(Nothing))'
        <5>1. \A f \in call[p].files : Overlay(Nothing)'[f] = txn[p].expected[f]
          BY <1>2, <3>1, <3>2, <3>3, <3>4, <4>2 DEF Overlay, Nothing
        <5>2. Unified(p, txn[p].expected)
          BY <2>1, <3>6
        <5>3. QED
          BY <5>1, <5>2 DEF Unified
      <4>3. QED
        BY <2>1, <3>2, <3>6, <4>1, <4>2 DEF CopiesInv, Linking
    <3>7. QED
      BY <1>2, <3>5, <3>6
  <2>4. QED
    BY <1>1, <2>2, <2>3
<1>6. CopiesInv(p)'
  BY <1>3, <1>5 DEF CopiesInv
<1>7. QED
  BY <1>4, <1>6, IdsStay, WholeStore DEF StoreOwn

LEMMA LinkCommittedStore ==
  ASSUME OneCaller, ServiceInv, StoreInv, NEW p \in Process, Committed(p), Op(p) = "create_link"
  PROVE  StoreInv'
<1>1. /\ call[p].pc = "commit" /\ ~T!Committing(p)
      /\ UNCHANGED <<disk, txn, disturbed, manifest>>
      /\ \A f \in DOMAIN call[p].seen : disk[f].bytes = Written(p)[f]
      /\ DOMAIN call[p].seen = Planned(p)
  BY CommittedFacts
<1>2. call' = [call EXCEPT ![p].pc = "save"]
  BY DEF Committed
<1>3. /\ call'[p].pc = "save" /\ call'[p].req = call[p].req /\ call'[p].files = call[p].files
      /\ call'[p].copies = call[p].copies /\ call'[p].held = call[p].held
      /\ call'[p].result = call[p].result
  BY <1>2 DEF ServiceInv, TypeOK, CallRecord
<1>4. /\ Op(p)' = Op(p) /\ call[p].files \subseteq File /\ HeldInv(p) /\ LinkInv(p)
      /\ manifest \in Manifest /\ Valid(manifest) /\ DOMAIN call[p].seen = call[p].files
  BY <1>1, <1>3, CallFacts DEF Op, ServiceInv, TypeOK, Planned
<1>5. FoundInv(p)'
  BY <1>1, <1>3, <1>4, StoreFacts DEF FoundInv
<1>6. Unified(p, Overlay(Nothing))'
  <2>1. SourceValue(p) \in Value
    BY <1>1, <1>4 DEF LinkInv
  <2>2. \E f \in call[p].files : call[p].copies[f][call[p].req.key] = SourceValue(p)
    BY <1>1, StoreFacts DEF FoundInv, CopiesInv
  <2>3. \A f \in call[p].files :
          Written(p)[f] = [call[p].copies[f] EXCEPT ![call[p].req.key] = SourceValue(p)]
    BY <1>1, <1>4, StoreFacts DEF Written, WithKey, CopiesInv
  <2>4. \A f \in call[p].files : Overlay(Nothing)'[f] = Written(p)[f]
    BY <1>1, <1>4 DEF Overlay, Nothing
  <2>5. QED
    BY <1>3, <2>1, <2>2, <2>3, <2>4 DEF Unified
<1>7. CopiesInv(p)'
  BY <1>1, <1>3, <1>4, <1>6, StoreFacts DEF CopiesInv, Linking
<1>8. SavesLinks(p)'
  <2>1. call[p].held = [manifest EXCEPT !.links = @ \cup {NewLink(p)}]
    BY <1>1, <1>4 DEF HeldInv, NewLink
  <2>2. call[p].held.links = manifest.links \cup {NewLink(p)}
    BY <1>4, <2>1 DEF Manifest
  <2>3. \A f \in call[p].req.files : LinksOf(manifest, f, call[p].req.key) = {}
    BY <1>1, <1>4 DEF LinkInv
  <2>4. IdsOf(call[p].held)
    BY <1>4, <2>1, <2>3, NewLinkIds, StoreFacts
  <2>5. QED
    BY <1>1, <1>3, <1>4, <2>2, <2>4 DEF SavesLinks, IdsOf, NewLink
<1>9. QED
  BY <1>1, <1>5, <1>7, <1>8, IdsStay, WholeStore DEF StoreOwn

LEMMA CommittedStore ==
  ASSUME OneCaller, ServiceInv, StoreInv, NEW p \in Process, Committed(p)
  PROVE  StoreInv'
<1>1. manifest' = manifest /\ call[p].pc = "commit"
  BY DEF Committed, At
<1>2. CASE Op(p) = "create_link"
  BY <1>2, LinkCommittedStore
<1>3. CASE Op(p) = "add_variable"
  <2>1. call' = [call EXCEPT ![p].pc = "policy"]
    BY <1>3 DEF Committed
  <2>2. call'[p].pc = "policy" /\ call'[p].req = call[p].req /\ call'[p].result = call[p].result
    BY <2>1 DEF ServiceInv, TypeOK, CallRecord
  <2>3. QED
    BY <1>1, <1>3, <2>2, StoreFacts, EarlyStore DEF Op
<1>4. CASE Op(p) \notin {"create_link", "add_variable"}
  <2>1. Return(p, "ok")
    BY <1>4 DEF Committed
  <2>2. QED
    BY <1>1, <2>1, ReturnStore
<1>5. QED
  BY <1>2, <1>3, <1>4

----------------------------------------------------------------------------
\* create_link takes its files back.

LEMMA BackStore ==
  ASSUME OneCaller, ServiceInv, StoreInv, NEW p \in Process, SaveManifestFails(p) \/ Reread(p)
  PROVE  StoreInv'
<1>1. CASE SaveManifestFails(p) /\ Op(p) # "create_link"
  BY <1>1, ReturnStore DEF SaveManifestFails
<1>2. CASE Reread(p) \/ (SaveManifestFails(p) /\ Op(p) = "create_link")
  <2>1. /\ call[p].pc \in {"save", "reread"} /\ Op(p) = "create_link"
        /\ UNCHANGED <<disk, manifest>>
    BY <1>2, CallFacts DEF SaveManifestFails, Reread, At, Stage
  <2>2. /\ call'[p].pc \in {"reread", "restore"} /\ call'[p].req = call[p].req
        /\ call'[p].files = call[p].files /\ call'[p].copies = call[p].copies
        /\ call'[p].result = call[p].result
    <3>1. CASE SaveManifestFails(p)
      BY <2>1, <3>1 DEF SaveManifestFails, ServiceInv, TypeOK, CallRecord
    <3>2. CASE Reread(p)
      <4>1. call[p].pc = "reread"
        BY <3>2 DEF Reread, At
      <4>2. PICK f :
              call' = [call EXCEPT ![p].seen = With(@, f, disk[f].bytes), ![p].todo = @ \ {f},
                                   ![p].pc = IF LastOf(p, f) THEN "restore" ELSE @]
        BY <3>2 DEF Reread
      <4>3. QED
        BY <4>1, <4>2 DEF ServiceInv, TypeOK, CallRecord
    <3>3. QED
      BY <1>2, <3>1, <3>2
  <2>3. Op(p)' = Op(p) /\ Overlay(Nothing)' = Overlay(Nothing)
    BY <2>1, <2>2 DEF Op, Overlay, Nothing
  <2>4. FoundInv(p)'
    BY <2>1, <2>2, <2>3, StoreFacts DEF FoundInv
  <2>5. Unified(p, Overlay(Nothing))'
    <3>1. Unified(p, Overlay(Nothing))
      BY <2>1, StoreFacts DEF CopiesInv
    <3>2. QED
      BY <2>2, <2>3, <3>1 DEF Unified
  <2>6. CopiesInv(p)' /\ SavesLinks(p)'
    BY <2>1, <2>2, <2>3, <2>5, StoreFacts DEF CopiesInv, SavesLinks, Linking
  <2>7. QED
    BY <2>1, <2>4, <2>6, IdsStay, WholeStore DEF StoreOwn
<1>3. QED
  BY <1>1, <1>2

\* The commit of the copies begins.
LEMMA RestoreBegins ==
  ASSUME ServiceInv, StoreInv, NEW p \in Process, CommitCopies(p)
  PROVE  /\ call[p].pc = "restore" /\ Op(p) = "create_link" /\ UNCHANGED <<disk, manifest>>
         /\ DOMAIN call[p].copies = call[p].files /\ DOMAIN call[p].seen = call[p].files
         /\ T!Committing(p)' /\ txn'[p].expected = call[p].seen /\ txn'[p].proposed = call[p].copies
         /\ \A f \in call[p].files : call[p].seen[f] = disk[f].bytes
         /\ call'[p].pc = "restoring" /\ call'[p].req = call[p].req
         /\ call'[p].files = call[p].files /\ call'[p].copies = call[p].copies
         /\ call'[p].result = call[p].result
<1>1. /\ call[p].pc = "restore" /\ Op(p) = "create_link" /\ manifest' = manifest
      /\ call' = [call EXCEPT ![p].pc = "restoring"]
      /\ Commit(p, call[p].seen, call[p].copies)
  BY CallFacts DEF CommitCopies, At, Stage
<1>2. /\ call[p].copies \in T!Snapshot /\ call[p].seen \in T!Snapshot
      /\ DOMAIN call[p].seen = call[p].files /\ DOMAIN call[p].copies = call[p].files
      /\ \A f \in DOMAIN call[p].seen : call[p].seen[f] = disk[f].bytes
  BY <1>1, CallFacts DEF ReadInv, Planned
<1>3. call[p].copies \in [DOMAIN call[p].seen -> Bytes]
  BY <1>2 DEF T!Snapshot
<1>4. /\ disk' = disk /\ T!Committing(p)'
      /\ txn'[p].expected = call[p].seen /\ txn'[p].proposed = call[p].copies
  BY <1>1, <1>2, <1>3, CommitBegins
<1>5. /\ call'[p].pc = "restoring" /\ call'[p].req = call[p].req
      /\ call'[p].files = call[p].files /\ call'[p].copies = call[p].copies
      /\ call'[p].result = call[p].result
  BY <1>1 DEF ServiceInv, TypeOK, CallRecord
<1>6. QED
  BY <1>1, <1>2, <1>4, <1>5

LEMMA RestoreStore ==
  ASSUME OneCaller, ServiceInv, StoreInv, NEW p \in Process, CommitCopies(p)
  PROVE  StoreInv'
<1>1. call[p].files \subseteq File
  BY CallFacts
<1>2. Op(p)' = Op(p) /\ Op(p) = "create_link"
  BY RestoreBegins DEF Op
<1>3. FoundInv(p)'
  BY <1>2, RestoreBegins, StoreFacts DEF FoundInv
<1>4. \A f \in call[p].files : txn'[p].expected[f] = Overlay(Nothing)[f]
  BY <1>1, RestoreBegins DEF Overlay, Nothing
<1>5. Unified(p, Overlay(Nothing))
  BY RestoreBegins, StoreFacts DEF CopiesInv
<1>6. Unified(p, txn[p].expected)'
  BY <1>4, <1>5, RestoreBegins DEF Unified
<1>7. CopiesInv(p)' /\ SavesLinks(p)'
  BY <1>2, <1>6, RestoreBegins, StoreFacts DEF CopiesInv, SavesLinks, Linking
<1>8. QED
  BY <1>3, <1>7, RestoreBegins, IdsStay, WholeStore DEF StoreOwn

\* The steps that return an error.
LEMMA ErrorReturns ==
  ASSUME NEW p \in Process,
         \/ CheckTargetFails(p) \/ RefuseLink(p) \/ RefuseDelete(p) \/ RefuseDetach(p)
         \/ LoadFails(p) \/ RefuseSource(p) \/ RereadFails(p) \/ ReadFails(p) \/ Die(p)
         \/ CommitFailed(p) \/ Restored(p)
  PROVE  UNCHANGED <<disk, txn, disturbed, manifest>> /\ \E result : Return(p, result)
BY DEF CheckTargetFails, RefuseLink, RefuseDelete, RefuseDetach, LoadManifest, LoadFails,
       RefuseSource, RereadFails, ReadFails, Die, CommitFailed, Restored

LEMMA RunStore ==
  ASSUME OneCaller, ServiceInv, StoreInv, NEW p \in Process, Run(p)
  PROVE  StoreInv'
<1>1. CASE \/ CheckTargetFails(p) \/ RefuseLink(p) \/ RefuseDelete(p) \/ RefuseDetach(p)
           \/ LoadFails(p) \/ RefuseSource(p) \/ RereadFails(p) \/ ReadFails(p) \/ Die(p)
           \/ CommitFailed(p) \/ Restored(p)
  BY <1>1, ErrorReturns, ReturnStore
<1>2. CASE \/ ResolveTargets(p) \/ CheckTarget(p) \/ EnterLink(p) \/ EnterDelete(p)
           \/ EnterScan(p) \/ Detach(p) \/ SetAccess(p) \/ EnsurePolicy(p) \/ Classify(p)
  BY <1>2, EarlySteps, SavingSteps
<1>3. CASE Load(p) \/ CommitFiles(p) \/ AddLink(p) \/ Copy(p) \/ CommitLinkedFiles(p)
  BY <1>3, LoadStore, PlainCommitStore, AddLinkStore, CopyStore, LinkCommitStore
<1>4. CASE Committed(p)
  BY <1>4, CommittedStore
<1>5. CASE SaveManifest(p) \/ SaveManifestFails(p) \/ Reread(p) \/ CommitCopies(p)
  BY <1>5, SaveStore, BackStore, RestoreStore
<1>6. CASE T!Step(p) /\ UNCHANGED <<manifest, call>>
  BY <1>6, CommitGoesOnStore DEF Run
<1>7. QED
  BY <1>1, <1>2, <1>3, <1>4, <1>5, <1>6 DEF Run, Step, FirstStep, FileStep, ManifestStep

LEMMA StoreStep ==
  ASSUME OneCaller, ServiceInv, StoreInv, [Next]_vars
  PROVE  StoreInv'
<1>1. CASE \E p \in Process : Call(p) /\ UNCHANGED broken
  BY <1>1, EarlySteps DEF Call
<1>2. CASE \E p \in Process : Run(p)
  BY <1>2, RunStore
<1>3. CASE UNCHANGED vars
  <2>1. UNCHANGED <<disk, txn, disturbed, manifest, call, broken>>
    BY <1>3 DEF vars
  <2>2. ASSUME NEW p \in Process
        PROVE  FoundInv(p)' /\ CopiesInv(p)' /\ SavesLinks(p)'
    <3>1. SourceValue(p)' = SourceValue(p) /\ Op(p)' = Op(p) /\ Overlay(Nothing)' = Overlay(Nothing)
      BY <2>1, SourceStays DEF Op, Overlay, Nothing
    <3>2. FoundInv(p)' /\ SavesLinks(p)'
      BY <2>1, <3>1, StoreFacts DEF FoundInv, SavesLinks
    <3>3. /\ Unified(p, Overlay(Nothing)) => Unified(p, Overlay(Nothing))'
          /\ Unified(p, txn[p].expected) => Unified(p, txn[p].expected)'
      BY <2>1, <3>1 DEF Unified
    <3>4. CopiesInv(p)'
      BY <2>1, <3>1, <3>3, StoreFacts DEF CopiesInv, Linking, T!Committing
    <3>5. QED
      BY <3>2, <3>4
  <2>3. QED
    BY <2>1, <2>2, IdsStay DEF StoreInv
<1>4. QED
  BY <1>1, <1>2, <1>3 DEF Next

LEMMA StoreInit == Init => StoreInv
<1> SUFFICES ASSUME Init PROVE StoreInv
  OBVIOUS
<1>1. \A p \in Process : call[p].pc = "idle" /\ Op(p) = "none"
  BY DEF Init, Idle, NoRequest, Op
<1>2. manifest.links = {}
  BY DEF Init, Classified
<1>3. \A p \in Process : FoundInv(p) /\ CopiesInv(p) /\ SavesLinks(p)
  BY <1>1 DEF FoundInv, CopiesInv, SavesLinks
<1>4. QED
  BY <1>2, <1>3 DEF StoreInv, IdsOf

----------------------------------------------------------------------------
\* The simulation.  With one caller, the files count as holding the copies of its create_link, or
\* else what its commit expects, or else what they hold.
View(p) ==
  [f \in File |->
     IF Linking(p) /\ f \in DOMAIN call[p].copies THEN call[p].copies[f]
     ELSE IF T!Committing(p) /\ f \in DOMAIN txn[p].expected THEN txn[p].expected[f]
     ELSE disk[f].bytes]

Shown == \A p \in Process : LinkedFiles = View(p)

LEMMA CommitShows ==
  ASSUME OneCaller, T!CommitInv, NEW p \in Process, ~disturbed[p], NEW f \in File
  PROVE  T!AbstractFiles[f] = IF T!Committing(p) /\ f \in DOMAIN txn[p].expected
                                THEN txn[p].expected[f] ELSE disk[f].bytes
<1>1. \A w \in Process : w = p
  BY DEF OneCaller
<1>2. T!TypeOK
  BY DEF T!CommitInv
<1>3. CASE ~T!Committing(p)
  <2>1. T!Renamed(p) = {}
    BY <1>3 DEF T!Committing, T!Renamed
  <2>2. ~\E w \in Process : \E i \in T!Renamed(w) : txn[w].order[i] = f
    BY <1>1, <2>1
  <2>3. QED
    BY <1>3, <2>2 DEF T!AbstractFiles
<1>4. CASE T!Committing(p)
  <2>1. /\ Len(txn[p].order) \in Nat /\ txn[p].at \in 1..Len(txn[p].order)
        /\ \A i \in 1..Len(txn[p].order) : txn[p].order[i] \in DOMAIN txn[p].expected
        /\ \A g \in DOMAIN txn[p].expected : \E i \in 1..Len(txn[p].order) : txn[p].order[i] = g
    BY <1>2, <1>4, PlanFacts
  <2>2. /\ txn[p].pc \in {"check", "persist", "undo"} /\ T!Holds(txn[p], disk)
        /\ txn[p].pc # "check" =>
             \A i \in 1..Len(txn[p].order) :
               txn[p].original[i].bytes = txn[p].expected[txn[p].order[i]]
    BY <1>4, Undisturbed
  <2>3. T!Renamed(p) = CASE txn[p].pc = "check" -> {}
                         [] txn[p].pc = "persist" -> 1..(txn[p].at - 1)
                         [] OTHER -> 1..txn[p].at
    BY <2>2 DEF T!Renamed
  <2>4. T!Renamed(p) \subseteq 1..Len(txn[p].order) /\ (txn[p].pc = "check" => T!Renamed(p) = {})
    BY <2>1, <2>2, <2>3
  <2>5. CASE \E i \in T!Renamed(p) : txn[p].order[i] = f
    <3>1. \E w \in Process : \E i \in T!Renamed(w) : txn[w].order[i] = f
      BY <2>5
    <3>2. (CHOOSE w \in Process : \E i \in T!Renamed(w) : txn[w].order[i] = f) = p
      BY <1>1, <2>5
    <3>3. PICK i \in T!Renamed(p) :
            /\ txn[p].order[i] = f
            /\ i = CHOOSE j \in T!Renamed(p) : txn[p].order[j] = f
      BY <2>5
    <3>4. T!AbstractFiles[f] = txn[p].original[i].bytes
      BY <3>1, <3>2, <3>3 DEF T!AbstractFiles
    <3>5. QED
      BY <1>4, <2>1, <2>2, <2>4, <3>3, <3>4
  <2>6. CASE ~\E i \in T!Renamed(p) : txn[p].order[i] = f
    <3>1. T!AbstractFiles[f] = disk[f].bytes
      <4>1. ~\E w \in Process : \E i \in T!Renamed(w) : txn[w].order[i] = f
        BY <1>1, <2>6
      <4>2. QED
        BY <4>1 DEF T!AbstractFiles
    <3>2. ASSUME f \in DOMAIN txn[p].expected
          PROVE  disk[f].bytes = txn[p].expected[f]
      <4>1. PICK i \in 1..Len(txn[p].order) : txn[p].order[i] = f
        BY <2>1, <3>2
      <4>2. i \notin T!Renamed(p)
        BY <2>6, <4>1
      <4>3. CASE txn[p].pc = "check"
        BY <2>2, <4>1, <4>3 DEF T!Holds, T!CheckHolds
      <4>4. CASE txn[p].pc = "persist"
        <5>1. ~(i < txn[p].at)
          BY <2>1, <2>3, <4>2, <4>4
        <5>2. disk[f] = txn[p].original[i]
          BY <2>2, <4>1, <4>4, <5>1 DEF T!Holds, T!PersistHolds
        <5>3. QED
          BY <2>2, <4>1, <4>4, <5>2
      <4>5. CASE txn[p].pc = "undo"
        BY <2>1, <2>2, <2>3, <4>1, <4>2, <4>5 DEF T!Holds, T!UndoHolds
      <4>6. QED
        BY <2>2, <4>3, <4>4, <4>5
    <3>3. QED
      BY <1>4, <3>1, <3>2
  <2>7. QED
    BY <2>5, <2>6
<1>5. QED
  BY <1>3, <1>4

LEMMA ServiceShows ==
  ASSUME OneCaller, ServiceInv
  PROVE  Shown
<1> SUFFICES ASSUME NEW p \in Process PROVE LinkedFiles = View(p)
  BY DEF Shown
<1>1. \A q \in Process : q = p
  BY DEF OneCaller
<1>2. \A f \in File : T!AbstractFiles[f] = IF T!Committing(p) /\ f \in DOMAIN txn[p].expected
                                             THEN txn[p].expected[f] ELSE disk[f].bytes
  BY CommitShows DEF ServiceInv
<1>3. ASSUME NEW f \in File
      PROVE  LinkedFiles[f] = View(p)[f]
  <2>1. CASE Linking(p) /\ f \in DOMAIN call[p].copies
    <3>1. \E q \in Process : Linking(q) /\ f \in DOMAIN call[q].copies
      BY <2>1
    <3>2. (CHOOSE q \in Process : Linking(q) /\ f \in DOMAIN call[q].copies) = p
      BY <1>1, <2>1
    <3>3. QED
      BY <2>1, <3>1, <3>2 DEF LinkedFiles, View
  <2>2. CASE ~(Linking(p) /\ f \in DOMAIN call[p].copies)
    <3>1. ~\E q \in Process : Linking(q) /\ f \in DOMAIN call[q].copies
      BY <1>1, <2>2
    <3>2. QED
      BY <1>2, <2>2, <3>1 DEF LinkedFiles, View
  <2>3. QED
    BY <2>1, <2>2
<1>4. LinkedFiles = [f \in File |-> LinkedFiles[f]] /\ View(p) = [f \in File |-> View(p)[f]]
  BY DEF LinkedFiles, View
<1>5. QED
  BY <1>3, <1>4

\* A step that shows nothing, and one that only ends or begins an operation.
LEMMA Stutters ==
  ASSUME OneCaller, Shown, Shown', NEW p \in Process, View(p)' = View(p),
         manifest' = manifest, call'[p].result = call[p].result, call'[p].req = call[p].req
  PROVE  UNCHANGED L!vars
<1>1. \A q \in Process : q = p
  BY DEF OneCaller
<1>2. LinkedFiles' = LinkedFiles
  BY DEF Shown
<1>3. (\E q \in Process : call'[q].result = "incomplete") <=> \E q \in Process : call[q].result = "incomplete"
  BY <1>1
<1>4. (\E q \in Process : Op(q) = "create_link")' <=> \E q \in Process : Op(q) = "create_link"
  BY <1>1 DEF Op
<1>5. QED
  BY <1>2, <1>3, <1>4 DEF L!vars

LEMMA Forgets ==
  ASSUME OneCaller, Shown, Shown', NEW p \in Process, View(p)' = View(p),
         manifest'.links = manifest.links, call'[p].result # "incomplete"
  PROVE  L!Next
<1>1. \A q \in Process : q = p
  BY DEF OneCaller
<1>2. LinkedFiles' = LinkedFiles
  BY DEF Shown
<1>3. ~\E q \in Process : call'[q].result = "incomplete"
  BY <1>1
<1>4. L!Forget
  BY <1>2, <1>3 DEF L!Forget
<1>5. QED
  BY <1>4 DEF L!Next

\* What a step has to do for the refinement, a break aside.
Simulated == broken' \/ L!Next \/ UNCHANGED L!vars

LEMMA LocalStutters ==
  ASSUME OneCaller, Shown, Shown', NEW p \in Process, UNCHANGED <<disk, txn, manifest>>,
         call'[p].req = call[p].req, call'[p].result = call[p].result,
         \/ ~Linking(p) /\ ~Linking(p)'
         \/ Linking(p) /\ Linking(p)' /\ call'[p].copies = call[p].copies
  PROVE  Simulated
<1>1. View(p)' = View(p)
  BY DEF View, T!Committing
<1>2. QED
  BY <1>1, Stutters DEF Simulated

LEMMA LocalForgets ==
  ASSUME OneCaller, Shown, Shown', NEW p \in Process, UNCHANGED <<disk, txn>>,
         manifest'.links = manifest.links, call'[p].result # "incomplete",
         ~Linking(p), ~Linking(p)'
  PROVE  Simulated
<1>1. View(p)' = View(p)
  BY DEF View, T!Committing
<1>2. QED
  BY <1>1, Forgets DEF Simulated

\* An operation that returns.
LEMMA Returned ==
  ASSUME ServiceInv, NEW p \in Process, NEW result, Return(p, result)
  PROVE  call'[p].result = result /\ Op(p)' = "none" /\ ~Linking(p)'
<1>1. call'[p] = Idle(result)
  BY DEF Return, ServiceInv, TypeOK
<1>2. QED
  BY <1>1 DEF Idle, NoRequest, Op, Linking

\* The steps before an operation writes: into it, through it and out of it with an error.
LEMMA EarlyShows ==
  ASSUME OneCaller, ServiceInv, Shown, Shown', NEW p \in Process,
         \/ \E req \in Request : Invoke(p, req)
         \/ ResolveTargets(p) \/ CheckTarget(p) \/ EnterLink(p) \/ EnterDelete(p) \/ EnterScan(p)
         \/ Detach(p) \/ SetAccess(p)
  PROVE  Simulated
<1>1. call \in [Process -> CallRecord] /\ call[p] \in CallRecord /\ UNCHANGED <<disk, txn, manifest>>
  BY DEF ServiceInv, TypeOK, Invoke, ResolveTargets, CheckTarget, EnterLink, EnterDelete, EnterScan,
         Detach, SetAccess, LoadManifest
<1>2. <<call[p].pc, Op(p)>> \in Stage
  BY CallFacts
<1>3. ~Linking(p)
  BY DEF Linking, Invoke, ResolveTargets, CheckTarget, EnterLink, EnterDelete, EnterScan, Detach,
         SetAccess, LoadManifest, At
<1>4. ASSUME NEW req \in Request, Invoke(p, req)
      PROVE  Simulated
  <2> DEFINE c == [Idle("none") EXCEPT !.req = req,
                     !.pc = IF req.op = "add_variable" THEN "load" ELSE "manifest",
                     !.todo = IF req.op = "add_variable" THEN {req.file} ELSE {}]
  <2>1. call'[p] = c
    BY <1>1, <1>4 DEF Invoke
  <2>2. c.result = "none" /\ c.pc \in {"load", "manifest"}
    BY DEF Idle
  <2> HIDE DEF c
  <2>3. ~Linking(p)'
    BY <2>1, <2>2 DEF Linking
  <2>4. QED
    BY <1>1, <1>3, <2>1, <2>2, <2>3, LocalForgets
<1>5. ASSUME NEW pc \in {"check", "load", "save"}, call'[p].pc = pc,
             pc = "save" => Op(p) # "create_link",
             call'[p].req = call[p].req, call'[p].result = call[p].result
      PROVE  Simulated
  <2>1. ~Linking(p)'
    BY <1>5 DEF Linking, Op
  <2>2. QED
    BY <1>1, <1>3, <1>5, <2>1, LocalStutters
<1>6. CASE ResolveTargets(p)
  <2>1. call'[p].pc = "check" /\ call'[p].req = call[p].req /\ call'[p].result = call[p].result
    BY <1>1, <1>6 DEF ResolveTargets, CallRecord
  <2>2. QED
    BY <1>5, <2>1
<1>7. CASE CheckTarget(p)
  <2>1. call[p].pc = "check" /\ Op(p) = "save_value"
    BY <1>2, <1>7 DEF CheckTarget, At, Stage
  <2>2. PICK f : call' = IF LastOf(p, f)
                   THEN [call EXCEPT ![p].todo = call[p].files, ![p].pc = "load"]
                   ELSE [call EXCEPT ![p].todo = @ \ {f}]
    BY <1>7 DEF CheckTarget
  <2>3. /\ call'[p].pc \in {"check", "load"} /\ call'[p].req = call[p].req
        /\ call'[p].result = call[p].result
    BY <1>1, <2>1, <2>2 DEF CallRecord
  <2>4. QED
    BY <1>5, <2>3
<1>8. CASE EnterLink(p) \/ EnterDelete(p) \/ EnterScan(p)
  <2>1. PICK files : Enter(p, "load", files)
    BY <1>8 DEF EnterLink, EnterDelete, EnterScan
  <2>2. call'[p].pc = "load" /\ call'[p].req = call[p].req /\ call'[p].result = call[p].result
    BY <1>1, <2>1 DEF Enter, CallRecord
  <2>3. QED
    BY <1>5, <2>2
<1>9. CASE Detach(p) \/ SetAccess(p)
  <2>1. Op(p) # "create_link"
    BY <1>9 DEF Detach, SetAccess, LoadManifest
  <2>2. PICK held : call' = [call EXCEPT ![p].pc = "save", ![p].held = held]
    BY <1>9 DEF Detach, SetAccess
  <2>3. call'[p].pc = "save" /\ call'[p].req = call[p].req /\ call'[p].result = call[p].result
    BY <1>1, <2>2 DEF CallRecord
  <2>4. QED
    BY <1>5, <2>1, <2>3
<1>10. QED
  BY <1>4, <1>6, <1>7, <1>8, <1>9

LEMMA ReadShows ==
  ASSUME OneCaller, ServiceInv, StoreInv, Shown, Shown', NEW p \in Process,
         Load(p) \/ AddLink(p) \/ Copy(p)
  PROVE  Simulated
<1>1. /\ call[p] \in CallRecord /\ UNCHANGED <<disk, txn, manifest>>
      /\ call[p].pc \in {"load", "plan", "copy"}
  BY CallFacts DEF Load, AddLink, Copy, At
<1>2. ~Linking(p)
  BY <1>1 DEF Linking
<1>3. /\ call'[p].pc \in {"load", "plan", "copy", "files"}
      /\ call'[p].req = call[p].req /\ call'[p].result = call[p].result
  <2>1. CASE Load(p)
    <3>1. PICK f : call' = [call EXCEPT ![p].seen = With(@, f, disk[f].bytes), ![p].todo = @ \ {f},
                                        ![p].pc = IF LastOf(p, f) THEN "plan" ELSE @]
      BY <2>1 DEF Load
    <3>2. QED
      BY <1>1, <3>1 DEF ServiceInv, TypeOK, CallRecord
  <2>2. CASE AddLink(p)
    BY <2>2 DEF AddLink, ServiceInv, TypeOK, CallRecord
  <2>3. CASE Copy(p)
    <3>1. PICK f : call' = [call EXCEPT ![p].copies = With(@, f, disk[f].bytes), ![p].todo = @ \ {f},
                                        ![p].pc = IF LastOf(p, f) THEN "files" ELSE @]
      BY <2>3 DEF Copy
    <3>2. QED
      BY <1>1, <3>1 DEF ServiceInv, TypeOK, CallRecord
  <2>4. QED
    BY <2>1, <2>2, <2>3
<1>4. ~Linking(p)'
  BY <1>3 DEF Linking
<1>5. QED
  BY <1>1, <1>2, <1>3, <1>4, LocalStutters

LEMMA SavingShows ==
  ASSUME OneCaller, ServiceInv, StoreInv, Shown, Shown', NEW p \in Process,
         EnsurePolicy(p) \/ Classify(p)
  PROVE  Simulated
<1>1. /\ UNCHANGED <<disk, txn, manifest>> /\ ~Linking(p)
      /\ Op(p) # "create_link"
  BY CallFacts DEF EnsurePolicy, Classify, At, Linking, Stage
<1>2. CASE Return(p, "ok")
  BY <1>1, <1>2, Returned, LocalForgets
<1>3. CASE ~Return(p, "ok")
  <2>1. PICK held : call' = [call EXCEPT ![p].pc = "save", ![p].held = held]
    BY <1>3 DEF EnsurePolicy, Classify
  <2>2. call'[p].req = call[p].req /\ call'[p].result = call[p].result
    BY <2>1 DEF ServiceInv, TypeOK, CallRecord
  <2>3. ~Linking(p)'
    BY <1>1, <2>2 DEF Linking, Op
  <2>4. QED
    BY <1>1, <2>2, <2>3, LocalStutters
<1>4. QED
  BY <1>2, <1>3

\* The errors of an operation that has written nothing.
LEMMA RefusalShows ==
  ASSUME OneCaller, ServiceInv, Shown, Shown', NEW p \in Process,
         \/ CheckTargetFails(p) \/ RefuseLink(p) \/ RefuseDelete(p) \/ RefuseDetach(p)
         \/ LoadFails(p) \/ RefuseSource(p) \/ ReadFails(p)
  PROVE  Simulated
<1>1. /\ UNCHANGED <<disk, txn, manifest>>
      /\ call[p].pc \in {"manifest", "check", "load", "plan", "copy", "policy"}
      /\ \E result : Return(p, result) /\ result # "incomplete"
  <2>1. CASE CheckTargetFails(p) \/ RefuseLink(p) \/ RefuseDelete(p) \/ RefuseDetach(p)
    BY <2>1 DEF CheckTargetFails, RefuseLink, RefuseDelete, RefuseDetach, LoadManifest, At
  <2>2. CASE LoadFails(p)
    BY <2>2 DEF LoadFails, At
  <2>3. CASE RefuseSource(p)
    BY <2>3 DEF RefuseSource, At
  <2>4. CASE ReadFails(p)
    BY <2>4 DEF ReadFails
  <2>5. QED
    BY <2>1, <2>2, <2>3, <2>4
<1>2. ~Linking(p)
  BY <1>1 DEF Linking
<1>3. QED
  BY <1>1, <1>2, Returned, LocalForgets

\* A process that dies breaks the operation off.
LEMMA DeathBreaks ==
  ASSUME ServiceInv, NEW p \in Process, broken' = (broken \/ Breaks),
         \/ Return(p, "crashed")
         \/ txn'[p].result \in {"crashed", "incomplete"}
  PROVE  Simulated
<1>1. call'[p].result = "crashed" \/ txn'[p].result \in {"crashed", "incomplete"}
  BY Returned
<1>2. QED
  BY <1>1 DEF Breaks, Simulated

----------------------------------------------------------------------------
\* Between a commit's first step and its last, what its files count for does not change.

LEMMA BeginShows ==
  ASSUME OneCaller, ServiceInv, StoreInv, Shown, Shown', NEW p \in Process,
         CommitFiles(p) \/ CommitLinkedFiles(p)
  PROVE  Simulated
<1>1. /\ \/ call[p].pc = "plan" /\ Op(p) \in {"save_value", "add_variable", "delete_variable"}
         \/ call[p].pc = "files" /\ Op(p) = "create_link"
      /\ call' = [call EXCEPT ![p].pc = "commit"] /\ manifest' = manifest
      /\ Commit(p, call[p].seen, Written(p))
  <2>1. CASE CommitFiles(p)
    BY <2>1 DEF CommitFiles, At, Written
  <2>2. CASE CommitLinkedFiles(p)
    <3>1. call[p].pc = "files" /\ Op(p) = "create_link"
      BY <2>2, CallFacts DEF CommitLinkedFiles, At, Stage
    <3>2. QED
      BY <2>2, <3>1 DEF CommitLinkedFiles, Written
  <2>3. QED
    BY <2>1, <2>2
<1>2. /\ disk' = disk /\ T!Committing(p)' /\ txn'[p].expected = call[p].seen
      /\ \A f \in DOMAIN call[p].seen : call[p].seen[f] = disk[f].bytes
  <2>1. PICK value : value = CASE Op(p) = "delete_variable" -> Absent
                               [] Op(p) = "create_link" -> SourceValue(p)
                               [] OTHER -> call[p].req.value
    OBVIOUS
  <2>2. Written(p) \in [DOMAIN call[p].seen -> Bytes]
    BY <1>1, <2>1, WrittenFacts
  <2>3. /\ call[p].seen \in T!Snapshot
        /\ \A f \in DOMAIN call[p].seen : call[p].seen[f] = disk[f].bytes
    BY <1>1, CallFacts DEF ReadInv
  <2>4. QED
    BY <1>1, <2>2, <2>3, CommitBegins
<1>3. /\ call'[p].pc = "commit" /\ call'[p].req = call[p].req /\ call'[p].copies = call[p].copies
      /\ call'[p].result = call[p].result
  BY <1>1 DEF ServiceInv, TypeOK, CallRecord
<1>4. View(p) = [f \in File |-> disk[f].bytes]
  <2>1. ~Linking(p) /\ ~T!Committing(p)
    BY <1>1, NotCommitting DEF Linking
  <2>2. QED
    BY <2>1 DEF View
<1>5. ASSUME NEW f \in DOMAIN call[p].copies, Op(p) = "create_link"
      PROVE  call[p].copies[f] = disk[f].bytes
  BY <1>1, <1>5, CopiesAreSeen
<1>6. View(p)' = [f \in File |-> disk[f].bytes]
  <2>1. \A f \in File : View(p)'[f] = disk[f].bytes
    BY <1>2, <1>3, <1>5 DEF View, Linking, Op
  <2>2. View(p)' = [f \in File |-> View(p)'[f]]
    BY DEF View
  <2>3. QED
    BY <2>1, <2>2
<1>7. QED
  BY <1>1, <1>3, <1>4, <1>6, Stutters DEF Simulated

LEMMA RestoreShows ==
  ASSUME OneCaller, ServiceInv, StoreInv, Shown, Shown', NEW p \in Process, CommitCopies(p)
  PROVE  Simulated
<1>1. Linking(p) /\ ~T!Committing(p)
  BY RestoreBegins, NotCommitting DEF Linking
<1>2. Linking(p)'
  BY RestoreBegins DEF Linking, Op
<1>3. View(p)' = View(p)
  <2>1. ASSUME NEW f \in File
        PROVE  View(p)'[f] = View(p)[f]
    BY <1>1, <1>2, RestoreBegins DEF View
  <2>2. View(p)' = [f \in File |-> View(p)'[f]] /\ View(p) = [f \in File |-> View(p)[f]]
    BY DEF View
  <2>3. QED
    BY <2>1, <2>2
<1>4. QED
  BY <1>3, RestoreBegins, Stutters DEF Simulated

\* create_link goes on to the manifest, and from there back to its files.
LEMMA LinkGoesOn ==
  ASSUME OneCaller, ServiceInv, StoreInv, Shown, Shown', NEW p \in Process,
         \/ Committed(p)
         \/ SaveManifestFails(p) \/ Reread(p),
         Op(p) = "create_link"
  PROVE  Simulated
<1>1. call[p] \in CallRecord /\ UNCHANGED <<disk, txn, manifest>> /\ Linking(p)
  BY CallFacts DEF Committed, SaveManifestFails, Reread, Linking, At
<1>2. /\ call'[p].pc \in {"save", "reread", "restore"} /\ call'[p].req = call[p].req
      /\ call'[p].copies = call[p].copies /\ call'[p].result = call[p].result
  <2>1. CASE Committed(p)
    <3>1. call' = [call EXCEPT ![p].pc = "save"]
      BY <2>1 DEF Committed
    <3>2. QED
      BY <3>1 DEF ServiceInv, TypeOK, CallRecord
  <2>2. CASE SaveManifestFails(p)
    BY <2>2 DEF SaveManifestFails, ServiceInv, TypeOK, CallRecord
  <2>3. CASE Reread(p)
    <3>1. call[p].pc = "reread"
      BY <2>3 DEF Reread, At
    <3>2. PICK f :
            call' = [call EXCEPT ![p].seen = With(@, f, disk[f].bytes), ![p].todo = @ \ {f},
                                 ![p].pc = IF LastOf(p, f) THEN "restore" ELSE @]
      BY <2>3 DEF Reread
    <3>3. QED
      BY <3>1, <3>2 DEF ServiceInv, TypeOK, CallRecord
  <2>4. QED
    BY <2>1, <2>2, <2>3
<1>3. Linking(p)'
  BY <1>2 DEF Linking, Op
<1>4. QED
  BY <1>1, <1>2, <1>3, LocalStutters

LEMMA CommittedShows ==
  ASSUME OneCaller, ServiceInv, StoreInv, Shown, Shown', NEW p \in Process, Committed(p)
  PROVE  Simulated
<1>1. UNCHANGED <<disk, txn, manifest>>
  BY DEF Committed
<1>2. CASE Op(p) = "create_link"
  BY <1>2, LinkGoesOn
<1>3. CASE Op(p) = "add_variable"
  <2>1. call' = [call EXCEPT ![p].pc = "policy"]
    BY <1>3 DEF Committed
  <2>2. call'[p].req = call[p].req /\ call'[p].result = call[p].result
    BY <2>1 DEF ServiceInv, TypeOK, CallRecord
  <2>3. ~Linking(p) /\ ~Linking(p)'
    BY <1>3, <2>2 DEF Linking, Op
  <2>4. QED
    BY <1>1, <2>2, <2>3, LocalStutters
<1>4. CASE Op(p) \notin {"create_link", "add_variable"}
  <2>1. Return(p, "ok") /\ ~Linking(p)
    BY <1>4 DEF Committed, Linking
  <2>2. QED
    BY <1>1, <2>1, Returned, LocalForgets
<1>5. QED
  BY <1>2, <1>3, <1>4

----------------------------------------------------------------------------
\* The steps of a commit.

\* One that changes nothing to be seen: it goes on, or it fails, or create_link has more to do.
LEMMA CommitHides ==
  ASSUME OneCaller, ServiceInv, StoreInv, Shown, Shown', NEW p \in Process, T!Step(p),
         UNCHANGED <<manifest, call>>,
         \/ GoesOn(p)
         \/ Linking(p) /\ Ends(p)
         \/ /\ ~T!Committing(p)'
            /\ \A f \in DOMAIN txn[p].expected : disk'[f].bytes = txn[p].expected[f]
  PROVE  Simulated
<1>1. /\ T!Committing(p)
      /\ \A f \in File \ DOMAIN txn[p].expected : disk'[f] = disk[f]
  BY CommitStep DEF ServiceInv
<1>2. Linking(p)' <=> Linking(p)
  BY DEF Linking, Op
<1>3. Linking(p) => DOMAIN txn[p].expected = DOMAIN call[p].copies
  <2>1. call[p].pc \in {"commit", "restoring"} /\ WriteInv(p)
    BY <1>1, CallFacts DEF AgreeInv
  <2>2. Linking(p) => Op(p) = "create_link"
    BY DEF Linking
  <2>3. CASE call[p].pc = "commit"
    BY <1>1, <2>1, <2>2, <2>3, StoreFacts DEF WriteInv, CopiesInv
  <2>4. CASE call[p].pc = "restoring"
    <3>1. DOMAIN txn[p].proposed = DOMAIN txn[p].expected
      BY <1>1, PlanFacts DEF ServiceInv, TypeOK
    <3>2. QED
      BY <1>1, <2>2, <2>4, <3>1, StoreFacts DEF CopiesInv
  <2>5. QED
    BY <2>1, <2>3, <2>4
<1>4. ASSUME NEW f \in File
      PROVE  View(p)'[f] = View(p)[f]
  <2>1. CASE f \notin DOMAIN txn[p].expected
    <3>1. ~(T!Committing(p)' /\ f \in DOMAIN txn'[p].expected) \/ GoesOn(p)
      <4>1. ASSUME Ends(p)
            PROVE  ~T!Committing(p)'
        BY <4>1 DEF Ends, T!Idle, T!Committing
      <4>2. QED
        BY <4>1
    <3>2. QED
      BY <1>1, <1>2, <2>1, <3>1 DEF View, GoesOn
  <2>2. CASE f \in DOMAIN txn[p].expected /\ Linking(p)
    BY <1>2, <1>3, <2>2 DEF View
  <2>3. CASE f \in DOMAIN txn[p].expected /\ ~Linking(p)
    BY <1>1, <1>2, <2>3 DEF View, GoesOn
  <2>4. QED
    BY <2>1, <2>2, <2>3
<1>5. View(p)' = View(p)
  <2>1. View(p)' = [f \in File |-> View(p)'[f]] /\ View(p) = [f \in File |-> View(p)[f]]
    BY DEF View
  <2>2. QED
    BY <1>4, <2>1
<1>6. QED
  BY <1>5, Stutters DEF Simulated

\* The last rename of a plain operation: all of its files take the value at once.
LEMMA CommitPuts ==
  ASSUME OneCaller, ServiceInv, StoreInv, Shown, Shown', NEW p \in Process, T!Step(p),
         UNCHANGED <<manifest, call>>, ~Linking(p), txn'[p] = T!Idle("ok"),
         \A f \in DOMAIN txn[p].expected : disk'[f].bytes = txn[p].proposed[f]
  PROVE  /\ call[p].pc = "commit" /\ call[p].req.key \in Key
         /\ Op(p) \in {"save_value", "add_variable", "delete_variable"}
         /\ L!Put(Planned(p), call[p].req.key,
                  IF Op(p) = "delete_variable" THEN Absent ELSE call[p].req.value)
         /\ \A f \in Planned(p) : f \in File /\ LinkedFiles[f] = call[p].seen[f]
<1> DEFINE value == IF Op(p) = "delete_variable" THEN Absent ELSE call[p].req.value
           key == call[p].req.key
<1>1. /\ T!Committing(p)
      /\ \A f \in File \ DOMAIN txn[p].expected : disk'[f] = disk[f]
  BY CommitStep DEF ServiceInv
<1>2. /\ call[p].pc \in {"commit", "restoring"} /\ WriteInv(p) /\ ReadInv(p)
      /\ <<call[p].pc, Op(p)>> \in Stage /\ call[p].seen \in T!Snapshot
  BY <1>1, CallFacts DEF AgreeInv
<1>3. call[p].pc = "commit" /\ Op(p) \in {"save_value", "add_variable", "delete_variable"}
  BY <1>2 DEF Stage, Linking
<1>4. /\ txn[p].expected = call[p].seen /\ txn[p].proposed = Written(p)
      /\ DOMAIN call[p].seen = Planned(p) /\ Planned(p) \subseteq File
  BY <1>1, <1>2, <1>3 DEF WriteInv, ReadInv, T!Snapshot
<1>5. key \in Key
  BY <1>3, WrittenFacts
<1>6. \A f \in Planned(p) : Written(p)[f] = [call[p].seen[f] EXCEPT ![key] = value]
  BY <1>3, <1>4 DEF Written, WithKey
<1>7. \A f \in File : View(p)[f] = IF f \in Planned(p) THEN call[p].seen[f] ELSE disk[f].bytes
  BY <1>1, <1>4 DEF View
<1>8. ~T!Committing(p)' /\ ~Linking(p)'
  BY DEF T!Committing, T!Idle, Linking, Op
<1>9. \A f \in File : View(p)'[f] = IF f \in Planned(p) THEN Written(p)[f] ELSE disk[f].bytes
  BY <1>1, <1>4, <1>8 DEF View
<1>10. LinkedFiles' = View(p)' /\ LinkedFiles = View(p)
  BY DEF Shown
<1>11. View(p)' = [f \in File |-> IF f \in Planned(p) THEN [View(p)[f] EXCEPT ![key] = value]
                                                      ELSE View(p)[f]]
  <2>1. View(p)' = [f \in File |-> View(p)'[f]]
    BY DEF View
  <2>2. \A f \in File : View(p)'[f] = IF f \in Planned(p) THEN [View(p)[f] EXCEPT ![key] = value]
                                                          ELSE View(p)[f]
    BY <1>6, <1>7, <1>9
  <2>3. QED
    BY <2>1, <2>2
<1>12. L!Put(Planned(p), key, value)
  BY <1>10, <1>11 DEF L!Put
<1>13. QED
  BY <1>3, <1>4, <1>5, <1>7, <1>10, <1>12

LEMMA CommitTakesEffect ==
  ASSUME OneCaller, ServiceInv, StoreInv, Shown, Shown', NEW p \in Process, T!Step(p),
         UNCHANGED <<manifest, call>>, ~Linking(p), txn'[p] = T!Idle("ok"),
         \A f \in DOMAIN txn[p].expected : disk'[f].bytes = txn[p].proposed[f]
  PROVE  L!Next
<1> DEFINE c == call[p]
<1>1. \A q \in Process : q = p
  BY DEF OneCaller
<1>2. /\ c.pc = "commit" /\ c.req.key \in Key
      /\ Op(p) \in {"save_value", "add_variable", "delete_variable"}
      /\ L!Put(Planned(p), c.req.key, IF Op(p) = "delete_variable" THEN Absent ELSE c.req.value)
      /\ \A f \in Planned(p) : f \in File /\ LinkedFiles[f] = c.seen[f]
  BY CommitPuts
<1>3. /\ ReadInv(p) /\ LinkInv(p) /\ FoundInv(p) /\ c.req \in Request
      /\ DOMAIN c.seen = Planned(p)
  BY <1>2, CallFacts, StoreFacts DEF ReadInv
<1>4. /\ c.req.file \in File
      /\ Op(p) \in {"save_value", "add_variable"} => c.req.value \in Value
  BY <1>2, <1>3, RequestFields DEF Op
<1>5. /\ manifest'.links = manifest.links
      /\ (\E q \in Process : call'[q].result = "incomplete") <=>
         (\E q \in Process : call[q].result = "incomplete")
  OBVIOUS
<1>6. /\ ~\E q \in Process : Op(q) = "create_link"
      /\ (\E q \in Process : Op(q) = "create_link")' \in BOOLEAN
  BY <1>1, <1>2 DEF Op
<1>7. CASE Op(p) = "save_value"
  <2>1. /\ Planned(p) = Targets(manifest, c.req.file, c.req.key)
        /\ \A f \in Planned(p) : c.seen[f][c.req.key] # Absent
    BY <1>2, <1>3, <1>7 DEF LinkInv, ReadInv, Planned
  <2>2. c.req.file \in Planned(p)
    BY <2>1 DEF Targets
  <2>3. L!Assigns(c.req.file, c.req.key)
    BY <1>2, <2>1, <2>2 DEF L!Assigns
  <2>4. L!Save(c.req.file, c.req.key, c.req.value)
    BY <1>2, <1>5, <1>7, <2>1, <2>3 DEF L!Save, Targets, LinksOf
  <2>5. QED
    BY <1>2, <1>4, <1>6, <1>7, <2>4 DEF L!Next
<1>8. CASE Op(p) = "add_variable"
  <2>1. /\ Planned(p) = {c.req.file}
        /\ \A f \in Planned(p) : c.seen[f][c.req.key] = Absent
    BY <1>2, <1>3, <1>8 DEF FoundInv, Planned
  <2>2. ~L!Assigns(c.req.file, c.req.key)
    BY <1>2, <2>1 DEF L!Assigns
  <2>3. L!Add(c.req.file, c.req.key, c.req.value)
    BY <1>2, <1>5, <1>8, <2>1, <2>2 DEF L!Add
  <2>4. QED
    BY <1>2, <1>4, <1>6, <1>8, <2>3 DEF L!Next
<1>9. CASE Op(p) = "delete_variable"
  <2>1. /\ Planned(p) = {c.req.file} /\ Planned(p) = c.files
        /\ \A f \in Planned(p) : c.seen[f][c.req.key] # Absent
    BY <1>2, <1>3, <1>9 DEF FoundInv, Planned
  <2>2. L!Assigns(c.req.file, c.req.key)
    BY <1>2, <2>1 DEF L!Assigns
  <2>3. LinksOf(manifest, c.req.file, c.req.key) = {}
    BY <1>2, <1>3, <1>9, <2>1 DEF LinkInv
  <2>4. ~L!Linked(c.req.file, c.req.key)
    BY <2>3 DEF L!Linked, LinksOf
  <2>5. L!Delete(c.req.file, c.req.key)
    BY <1>2, <1>5, <1>9, <2>1, <2>2, <2>4 DEF L!Delete
  <2>6. QED
    BY <1>2, <1>4, <1>6, <1>9, <2>5 DEF L!Next
<1>10. QED
  BY <1>2, <1>7, <1>8, <1>9

LEMMA CommitShowsStep ==
  ASSUME OneCaller, ServiceInv, StoreInv, Shown, Shown', NEW p \in Process, T!Step(p),
         UNCHANGED <<manifest, call>>, broken' = (broken \/ Breaks)
  PROVE  Simulated
<1>1. GoesOn(p) \/ Ends(p)
  BY CommitStep DEF ServiceInv
<1>2. CASE GoesOn(p) \/ Linking(p)
  BY <1>1, <1>2, CommitHides
<1>3. CASE Ends(p) /\ ~Linking(p)
  <2>1. PICK result \in T!Result :
          /\ txn'[p] = T!Idle(result)
          /\ result = "ok" => \A f \in DOMAIN txn[p].expected : disk'[f].bytes = txn[p].proposed[f]
          /\ result \in {"none", "io", "changed"} =>
               \A f \in DOMAIN txn[p].expected : disk'[f].bytes = txn[p].expected[f]
    BY <1>3 DEF Ends
  <2>2. ~T!Committing(p)' /\ txn'[p].result = result
    BY <2>1 DEF T!Idle, T!Committing
  <2>3. CASE result = "ok"
    BY <1>3, <2>1, <2>3, CommitTakesEffect DEF Simulated
  <2>4. CASE result \in {"none", "io", "changed"}
    BY <2>1, <2>2, <2>4, CommitHides
  <2>5. CASE result \in {"crashed", "incomplete"}
    BY <2>2, <2>5, DeathBreaks
  <2>6. QED
    BY <2>1, <2>3, <2>4, <2>5 DEF T!Result
<1>4. QED
  BY <1>1, <1>2, <1>3

----------------------------------------------------------------------------
\* create_link ends: its files take the value together, with the link or with the warning that
\* there is none, or they are what they were.

LEMMA SameCardinality == \A S : L!Cardinality(S) = Cardinality(S)
BY DEF L!Cardinality, Cardinality

LEMMA Unifies ==
  ASSUME OneCaller, ServiceInv, StoreInv, Shown, Shown', NEW p \in Process, Linking(p),
         ~T!Committing(p), Unified(p, Overlay(Nothing)),
         UNCHANGED <<disk, txn>>, ~Linking(p)'
  PROVE  /\ call[p].files \in SUBSET File /\ call[p].req.key \in Key
         /\ \E v \in Value :
              L!CanUnify(call[p].files, call[p].req.key, v) /\ L!Put(call[p].files, call[p].req.key, v)
<1> DEFINE c == call[p]
<1>1. /\ Op(p) = "create_link" /\ c.req \in Request /\ c.files \in SUBSET File /\ LinkInv(p)
      /\ c.pc \in {"commit", "save", "reread", "restore", "restoring"}
  BY CallFacts DEF Linking
<1>2. c.req.key \in Key
  BY <1>1, RequestFields DEF Op
<1>3. /\ DOMAIN c.copies = c.files /\ \A f \in c.files : c.copies[f][c.req.key] # Absent
      /\ Cardinality(c.files) >= 2
  BY <1>1, StoreFacts DEF CopiesInv, FoundInv
<1>4. PICK v \in Value :
        /\ \E f \in c.files : c.copies[f][c.req.key] = v
        /\ \A f \in c.files : Overlay(Nothing)[f] = [c.copies[f] EXCEPT ![c.req.key] = v]
  BY DEF Unified
<1>5. \A f \in File : Overlay(Nothing)[f] = disk[f].bytes
  BY DEF Overlay, Nothing
<1>6. LinkedFiles = [f \in File |-> IF f \in c.files THEN c.copies[f] ELSE disk[f].bytes]
  BY <1>3 DEF Shown, View
<1>7. LinkedFiles' = [f \in File |-> disk[f].bytes]
  <2>1. View(p)' = [f \in File |-> disk[f].bytes]
    BY DEF View, T!Committing
  <2>2. QED
    BY <2>1 DEF Shown
<1>8. L!Put(c.files, c.req.key, v)
  <2>1. \A f \in File : disk[f].bytes = IF f \in c.files
                                         THEN [LinkedFiles[f] EXCEPT ![c.req.key] = v]
                                         ELSE LinkedFiles[f]
    BY <1>4, <1>5, <1>6
  <2>2. QED
    BY <1>7, <2>1 DEF L!Put
<1>9. L!CanUnify(c.files, c.req.key, v)
  <2>1. \A f \in c.files : L!Assigns(f, c.req.key)
    BY <1>1, <1>3, <1>6 DEF L!Assigns
  <2>2. \A f \in c.files : ~L!Linked(f, c.req.key)
    <3>1. \A f \in c.files : LinksOf(manifest, f, c.req.key) = {}
      BY <1>1 DEF LinkInv
    <3>2. QED
      BY <3>1 DEF LinksOf, L!Linked
  <2>3. \E f \in c.files : LinkedFiles[f][c.req.key] = v
    BY <1>1, <1>4, <1>6
  <2>4. L!Cardinality(c.files) >= 2
    BY <1>3, SameCardinality
  <2>5. QED
    BY <2>1, <2>2, <2>3, <2>4 DEF L!CanUnify
<1>10. QED
  BY <1>1, <1>2, <1>8, <1>9

\* What an operation of the only caller tells of the abstract state.
LEMMA OnlyCaller ==
  ASSUME OneCaller, NEW p \in Process
  PROVE  /\ (\E q \in Process : Op(q) = "create_link") <=> Op(p) = "create_link"
         /\ (\E q \in Process : call[q].result = "incomplete") <=> call[p].result = "incomplete"
         /\ (\E q \in Process : call'[q].result = "incomplete") <=> call'[p].result = "incomplete"
         /\ (\E q \in Process : Op(q) = "create_link")' \in BOOLEAN
BY DEF OneCaller

LEMMA LinkSaved ==
  ASSUME OneCaller, ServiceInv, StoreInv, Shown, Shown', NEW p \in Process, SaveManifest(p),
         Op(p) = "create_link"
  PROVE  Simulated
<1> DEFINE c == call[p]
<1>1. /\ c.pc = "save" /\ Linking(p) /\ ~T!Committing(p) /\ UNCHANGED <<disk, txn>>
      /\ manifest' = c.held /\ Return(p, "ok")
  BY NotCommitting DEF SaveManifest, At, Linking
<1>2. /\ c.held.links = manifest.links \cup
           {[id |-> c.req.files, key |-> c.req.key, members |-> c.req.files]}
      /\ c.files = c.req.files /\ c.result = "none" /\ Unified(p, Overlay(Nothing))
  BY <1>1, CallFacts, StoreFacts DEF SavesLinks, LinkInv, CopiesInv
<1>3. call'[p].result = "ok" /\ ~Linking(p)'
  BY <1>1, Returned
<1>4. PICK v \in Value : L!CanUnify(c.files, c.req.key, v) /\ L!Put(c.files, c.req.key, v)
  BY <1>1, <1>2, <1>3, Unifies
<1>5. c.files \in SUBSET File /\ c.req.key \in Key
  BY <1>1, <1>2, <1>3, Unifies
<1>6. L!Link(c.files, c.req.key, v)
  BY <1>1, <1>2, <1>3, <1>4, OnlyCaller DEF L!Link
<1>7. L!Next
  BY <1>5, <1>6, OnlyCaller DEF L!Next
<1>8. QED
  BY <1>7 DEF Simulated

LEMMA LinkGivenUp ==
  ASSUME OneCaller, ServiceInv, StoreInv, Shown, Shown', NEW p \in Process, Linking(p),
         ~T!Committing(p), Unified(p, Overlay(Nothing)), UNCHANGED <<disk, txn, manifest>>,
         Return(p, "incomplete")
  PROVE  Simulated
<1> DEFINE c == call[p]
<1>1. call'[p].result = "incomplete" /\ ~Linking(p)' /\ Op(p) = "create_link"
  BY Returned DEF Linking
<1>2. PICK v \in Value : L!CanUnify(c.files, c.req.key, v) /\ L!Put(c.files, c.req.key, v)
  BY <1>1, Unifies
<1>3. c.files \in SUBSET File /\ c.req.key \in Key
  BY <1>1, Unifies
<1>4. L!LinkIncomplete(c.files, c.req.key, v)
  BY <1>1, <1>2, OnlyCaller DEF L!LinkIncomplete
<1>5. L!Next
  BY <1>1, <1>3, <1>4, OnlyCaller DEF L!Next
<1>6. QED
  BY <1>5 DEF Simulated

\* The files are back, or were never written.
LEMMA LinkUndone ==
  ASSUME OneCaller, ServiceInv, StoreInv, Shown, Shown', NEW p \in Process,
         ~T!Committing(p), UNCHANGED <<disk, txn, manifest>>,
         Linking(p) => \A f \in call[p].files : disk[f].bytes = call[p].copies[f],
         NEW result, result # "incomplete", Return(p, result)
  PROVE  Simulated
<1>1. call'[p].result = result /\ ~Linking(p)'
  BY Returned
<1>2. Linking(p) => DOMAIN call[p].copies = call[p].files
  BY StoreFacts DEF CopiesInv, Linking
<1>3. View(p) = [f \in File |-> disk[f].bytes]
  BY <1>2 DEF View
<1>4. View(p)' = [f \in File |-> disk[f].bytes]
  BY <1>1 DEF View, T!Committing
<1>5. QED
  BY <1>1, <1>3, <1>4, Forgets DEF Simulated

LEMMA FailureShows ==
  ASSUME OneCaller, ServiceInv, StoreInv, Shown, Shown', NEW p \in Process,
         CommitFailed(p) \/ RereadFails(p) \/ Restored(p), broken' = (broken \/ Breaks)
  PROVE  Simulated
<1>1. UNCHANGED <<disk, txn, manifest>> /\ ~T!Committing(p)
  BY NotCommitting DEF CommitFailed, RereadFails, Restored, At
<1>2. CASE broken
  BY <1>2 DEF Simulated
<1>3. CASE CommitFailed(p) /\ ~broken
  <2>1. call[p].pc = "commit" /\ txn[p].result # "ok" /\ Return(p, txn[p].result)
    BY <1>3 DEF CommitFailed, At
  <2>2. CASE txn[p].result \in {"crashed", "incomplete"}
    BY <1>1, <2>2, DeathBreaks
  <2>3. CASE txn[p].result \notin {"crashed", "incomplete"}
    <3>1. Linking(p) => \A f \in call[p].files : disk[f].bytes = call[p].copies[f]
      BY <1>1, <1>3, <2>1, StoreFacts DEF CopiesInv, Linking
    <3>2. QED
      BY <1>1, <2>1, <2>3, <3>1, LinkUndone
  <2>4. QED
    BY <2>2, <2>3
<1>4. CASE RereadFails(p)
  <2>1. call[p].pc = "reread" /\ Op(p) = "create_link" /\ Return(p, "incomplete")
    BY <1>4, CallFacts DEF RereadFails, At, Stage
  <2>2. Linking(p) /\ Unified(p, Overlay(Nothing))
    BY <2>1, StoreFacts DEF CopiesInv, Linking
  <2>3. QED
    BY <1>1, <2>1, <2>2, LinkGivenUp
<1>5. CASE Restored(p) /\ ~broken
  <2>1. call[p].pc = "restoring" /\ Op(p) = "create_link"
    BY <1>5, CallFacts DEF Restored, At, Stage
  <2>2. Linking(p) /\ CopiesInv(p)
    BY <2>1, StoreFacts DEF Linking
  <2>3. CASE txn[p].result = "ok"
    <3>1. Return(p, "io")
      BY <1>5, <2>3 DEF Restored
    <3>2. \A f \in call[p].files : disk[f].bytes = call[p].copies[f]
      BY <1>1, <2>1, <2>2, <2>3 DEF CopiesInv
    <3>3. QED
      BY <1>1, <3>1, <3>2, LinkUndone
  <2>4. CASE txn[p].result = "crashed"
    BY <1>1, <2>4, DeathBreaks
  <2>5. CASE txn[p].result \notin {"ok", "crashed"}
    <3>1. Return(p, "incomplete")
      BY <1>5, <2>5 DEF Restored
    <3>2. Unified(p, Overlay(Nothing))
      BY <1>1, <1>5, <2>1, <2>2, <2>5 DEF CopiesInv
    <3>3. QED
      BY <1>1, <2>2, <3>1, <3>2, LinkGivenUp
  <2>6. QED
    BY <2>3, <2>4, <2>5
<1>6. QED
  BY <1>2, <1>3, <1>4, <1>5

----------------------------------------------------------------------------
\* The manifest is saved.

LEMMA Detached ==
  ASSUME OneCaller, ServiceInv, StoreInv, Shown, Shown', NEW p \in Process, SaveManifest(p),
         Op(p) = "detach_link_member"
  PROVE  Simulated
<1> DEFINE c == call[p]
<1>1. /\ c.pc = "save" /\ ~Linking(p) /\ ~T!Committing(p) /\ UNCHANGED <<disk, txn>>
      /\ manifest' = c.held /\ Return(p, "ok")
  BY NotCommitting DEF SaveManifest, At, Linking
<1>2. /\ c.held = WithoutMember(manifest, c.req.id, c.req.key, c.req.file)
      /\ c.result = "none" /\ c.req \in Request /\ manifest \in Manifest
  BY <1>1, CallFacts, StoreFacts DEF SavesLinks, ServiceInv, TypeOK
<1>3. PICK link \in manifest.links : link.id = c.req.id /\ link.key = c.req.key
  BY <1>1, StoreFacts DEF SavesLinks
<1>4. { l \in manifest.links : l.id = c.req.id /\ l.key = c.req.key } = {link}
  BY <1>3, StoreFacts DEF IdsOf
<1>5. c.req.file \in File
  BY <1>2, RequestFields DEF Op
<1> DEFINE rest == [link EXCEPT !.members = @ \ {c.req.file}]
<1>6. manifest'.links = (manifest.links \ {link}) \cup IF Cardinality(rest.members) >= 2 THEN {rest} ELSE {}
  <2>1. WithoutMember(manifest, c.req.id, c.req.key, c.req.file).links =
          (manifest.links \ {link}) \cup { l \in {rest} : Cardinality(l.members) >= 2 }
    BY <1>2, <1>4 DEF WithoutMember, Manifest
  <2>2. { l \in {rest} : Cardinality(l.members) >= 2 } =
          IF Cardinality(rest.members) >= 2 THEN {rest} ELSE {}
    OBVIOUS
  <2>3. QED
    BY <1>1, <1>2, <2>1, <2>2
<1>7. call'[p].result = "ok" /\ ~Linking(p)'
  BY <1>1, Returned
<1>8. LinkedFiles' = LinkedFiles
  <2>1. View(p)' = View(p)
    BY <1>1, <1>7 DEF View, T!Committing
  <2>2. QED
    BY <2>1 DEF Shown
<1>9. L!Detach(link, c.req.file)
  <2>1. L!Cardinality(rest.members) = Cardinality(rest.members)
    BY SameCardinality
  <2>2. (\E q \in Process : call[q].result = "incomplete")' <=>
        \E q \in Process : call[q].result = "incomplete"
    BY <1>2, <1>7, OnlyCaller
  <2> HIDE DEF c
  <2>3. QED
    BY <1>6, <1>8, <2>1, <2>2 DEF L!Detach
<1>10. L!Next
  BY <1>3, <1>5, <1>9, OnlyCaller DEF L!Next
<1>11. QED
  BY <1>10 DEF Simulated

LEMMA SaveShows ==
  ASSUME OneCaller, ServiceInv, StoreInv, Shown, Shown', NEW p \in Process, SaveManifest(p)
  PROVE  Simulated
<1>1. CASE Op(p) = "create_link"
  BY <1>1, LinkSaved
<1>2. CASE Op(p) = "detach_link_member"
  BY <1>2, Detached
<1>3. CASE Op(p) \notin {"create_link", "detach_link_member"}
  <2>1. /\ call[p].pc = "save" /\ UNCHANGED <<disk, txn>> /\ manifest' = call[p].held
        /\ Return(p, "ok") /\ ~Linking(p)
    BY <1>3 DEF SaveManifest, At, Linking
  <2>2. call[p].held.links = manifest.links
    BY <1>3, <2>1, StoreFacts DEF SavesLinks
  <2>3. QED
    BY <2>1, <2>2, Returned, LocalForgets
<1>4. QED
  BY <1>1, <1>2, <1>3

LEMMA SaveFailsShows ==
  ASSUME OneCaller, ServiceInv, StoreInv, Shown, Shown', NEW p \in Process, SaveManifestFails(p)
  PROVE  Simulated
<1>1. CASE Op(p) = "create_link"
  BY <1>1, LinkGoesOn
<1>2. CASE Op(p) # "create_link"
  BY <1>2, Returned, LocalForgets DEF SaveManifestFails, Linking
<1>3. QED
  BY <1>1, <1>2

----------------------------------------------------------------------------
\* The simulation as a whole.

LEMMA RunShows ==
  ASSUME OneCaller, ServiceInv, StoreInv, Shown, Shown', NEW p \in Process, Run(p)
  PROVE  Simulated
<1>1. broken' = (broken \/ Breaks) /\ Step(p)
  BY DEF Run
<1>2. CASE FirstStep(p)
  BY <1>2, EarlyShows, RefusalShows DEF FirstStep
<1>3. CASE FileStep(p)
  <2>1. CASE Load(p) \/ AddLink(p) \/ Copy(p)
    BY <2>1, ReadShows
  <2>2. CASE LoadFails(p) \/ RefuseSource(p)
    BY <2>2, RefusalShows
  <2>3. CASE CommitFiles(p) \/ CommitLinkedFiles(p)
    BY <2>3, BeginShows
  <2>4. CASE CommitFailed(p) \/ Committed(p)
    BY <1>1, <2>4, FailureShows, CommittedShows
  <2>5. CASE T!Step(p) /\ UNCHANGED <<manifest, call>>
    BY <1>1, <2>5, CommitShowsStep
  <2>6. QED
    BY <1>3, <2>1, <2>2, <2>3, <2>4, <2>5 DEF FileStep
<1>4. CASE ManifestStep(p)
  <2>1. CASE EnsurePolicy(p) \/ Classify(p)
    BY <2>1, SavingShows
  <2>2. CASE SaveManifest(p) \/ SaveManifestFails(p)
    BY <2>2, SaveShows, SaveFailsShows
  <2>3. CASE Reread(p)
    <3>1. Op(p) = "create_link"
      BY <2>3, CallFacts DEF Reread, At, Stage
    <3>2. QED
      BY <2>3, <3>1, LinkGoesOn
  <2>4. CASE RereadFails(p) \/ Restored(p)
    BY <1>1, <2>4, FailureShows
  <2>5. CASE CommitCopies(p)
    BY <2>5, RestoreShows
  <2>6. CASE ReadFails(p)
    BY <2>6, RefusalShows
  <2>7. CASE Die(p)
    BY <1>1, <2>7, DeathBreaks DEF Die
  <2>8. QED
    BY <1>4, <2>1, <2>2, <2>3, <2>4, <2>5, <2>6, <2>7 DEF ManifestStep
<1>5. QED
  BY <1>1, <1>2, <1>3, <1>4 DEF Step

LEMMA ServiceSimulates ==
  ASSUME OneCaller, ServiceInv, StoreInv, Shown, Shown', [Next]_vars
  PROVE  [broken' \/ L!Next]_(L!vars)
<1>1. CASE \E p \in Process : Call(p) /\ UNCHANGED broken
  BY <1>1, EarlyShows DEF Call, Simulated
<1>2. CASE \E p \in Process : Run(p)
  BY <1>2, RunShows DEF Simulated
<1>3. CASE UNCHANGED vars
  <2>1. PICK p \in Process : TRUE
    BY DEF OneCaller
  <2>2. View(p)' = View(p)
    BY <1>3 DEF vars, View, Linking, Op, T!Committing
  <2>3. QED
    BY <1>3, <2>2, Stutters DEF vars
<1>4. QED
  BY <1>1, <1>2, <1>3 DEF Next

LEMMA StoreBegins ==
  ASSUME OneCaller
  PROVE  Init => L!Init
<1> SUFFICES ASSUME Init PROVE L!Init
  OBVIOUS
<1>1. PICK p \in Process : TRUE
  BY DEF OneCaller
<1>2. call[p] = Idle("none") /\ ~T!Committing(p)
  BY <1>1 DEF Init, T!Init, T!Committing, T!Idle
<1>3. call[p].result = "none" /\ Op(p) = "none" /\ ~Linking(p)
  BY <1>2 DEF Idle, NoRequest, Op, Linking
<1>4. LinkedFiles = [f \in File |-> disk[f].bytes]
  <2>1. LinkedFiles = View(p)
    BY <1>1, ServiceInit, ServiceShows DEF Shown
  <2>2. QED
    BY <1>2, <1>3, <2>1 DEF View
<1>5. LinkedFiles \in [File -> [Key -> Value \cup {Absent}]]
  BY <1>4 DEF Init, T!Init, Bytes
<1>6. manifest.links = {}
  BY DEF Init, Classified
<1>7. QED
  BY <1>1, <1>3, <1>5, <1>6, OnlyCaller DEF L!Init

\* What an operation has found out of the files it works on stays true until it is done: what a
\* create_link can take its files back to, and how the links it saves differ from those there are.
THEOREM StoreInvariant ==
  ASSUME OneCaller
  PROVE  Spec => []StoreInv
BY ServiceInvariant, StoreInit, StoreStep, PTL DEF Spec

\* The service implements LinkedStore: every operation takes effect on its files and on the links
\* in one step, or not at all, or is a create_link that warns its caller; only the death of a
\* process or a rollback that fails half way breaks this.
THEOREM ServiceIsLinkedStore ==
  ASSUME OneCaller
  PROVE  Spec => Linked
<1>1. ServiceInv => Shown
  BY ServiceShows
<1>2. QED
  BY <1>1, ServiceInvariant, StoreInvariant, StoreBegins, ServiceSimulates, PTL DEF Spec, Linked
=============================================================================
