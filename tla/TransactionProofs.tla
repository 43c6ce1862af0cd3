------------------------- MODULE TransactionProofs -------------------------
(***************************************************************************)
(* Theorems about Transaction, for every set of writers, files and bytes   *)
(* and every subset of the faults.                                         *)
(***************************************************************************)
EXTENDS Transaction, SequenceTheorems, TLAPS

\* A plan's order is a sequence of files that names each file once.
LEMMA OrderIsSeq ==
  ASSUME NEW s \in Order
  PROVE  /\ s \in Seq(File)
         /\ Len(s) \in Nat
         /\ Len(s) >= 1
         /\ DOMAIN s = 1..Len(s)
         /\ \A i \in 1..Len(s) : s[i] \in File
         /\ \A i, j \in 1..Len(s) : s[i] = s[j] => i = j
<1>1. PICK n \in 1..Cardinality(File) : s \in [1..n -> File]
  BY DEF Order
<1>2. n \in Nat /\ n >= 1
  BY <1>1
<1>3. s \in Seq(File)
  BY <1>1, <1>2, SeqDef
<1>4. Len(s) = n /\ DOMAIN s = 1..Len(s)
  BY <1>1, <1>2, <1>3, LenProperties
<1>5. QED
  BY <1>1, <1>2, <1>3, <1>4 DEF Order

\* The locals of a commit that has returned are well typed.
LEMMA IdleTyped ==
  ASSUME NEW result \in Result
  PROVE  Idle(result) \in Call /\ CallOK(Idle(result))
<1>1. NoBytes \in Snapshot
  BY DEF NoBytes, Snapshot
<1>2. << >> \in Seq(File) /\ << >> \in Seq(Content)
  OBVIOUS
<1>3. QED
  BY <1>1, <1>2 DEF Idle, Call, CallOK

\* Replacing the locals of one writer by well-typed ones keeps txn well typed.
LEMMA TxnTyped ==
  ASSUME TypeOK, NEW w \in Writer, NEW t \in Call, CallOK(t), txn' = [txn EXCEPT ![w] = t]
  PROVE  txn' \in [Writer -> Call] /\ \A v \in Writer : CallOK(txn'[v])
BY DEF TypeOK

\* What TypeOK says of a commit that is under way, at the file its loop stands at.
LEMMA CommittingTyped ==
  ASSUME TypeOK, NEW w \in Writer, Committing(w)
  PROVE  /\ txn[w] \in Call
         /\ txn[w].order \in Order
         /\ txn[w].at \in 1..Len(txn[w].order)
         /\ Len(txn[w].order) \in Nat
         /\ Here(w) \in File
         /\ Here(w) \in Members(txn[w].order)
         /\ txn[w].expected \in [Members(txn[w].order) -> Bytes]
         /\ txn[w].proposed \in [Members(txn[w].order) -> Bytes]
<1>1. txn[w] \in Call /\ CallOK(txn[w])
  BY DEF TypeOK
<1>2. txn[w].order \in Order /\ txn[w].at \in 1..Len(txn[w].order)
  BY <1>1 DEF CallOK, Committing
<1>3. /\ DOMAIN txn[w].order = 1..Len(txn[w].order)
      /\ Len(txn[w].order) \in Nat
      /\ txn[w].order[txn[w].at] \in File
  BY <1>2, OrderIsSeq
<1>4. Here(w) \in File /\ Here(w) \in Members(txn[w].order)
  BY <1>2, <1>3 DEF Here, Members
<1>5. ASSUME NEW s \in Snapshot
      PROVE  s \in [DOMAIN s -> Bytes]
  BY DEF Snapshot
<1>6. txn[w].expected \in Snapshot /\ txn[w].proposed \in Snapshot
  BY <1>1 DEF Call
<1>7. DOMAIN txn[w].expected = Members(txn[w].order) /\ DOMAIN txn[w].proposed = Members(txn[w].order)
  BY <1>1 DEF CallOK, Committing
<1>8. QED
  BY <1>1, <1>2, <1>3, <1>4, <1>5, <1>6, <1>7

\* A step that only returns a result keeps the types.
LEMMA ReturnTyped ==
  ASSUME TypeOK, NEW w \in Writer, NEW result \in Result, Return(w, result)
  PROVE  txn' \in [Writer -> Call] /\ \A v \in Writer : CallOK(txn'[v])
BY IdleTyped, TxnTyped DEF Return

LEMMA DisturbTyped ==
  ASSUME TypeOK, NEW f \in File, NEW w \in Writer, Disturb(f, w)
  PROVE  disturbed' \in [Writer -> BOOLEAN]
BY DEF TypeOK, Disturb

----------------------------------------------------------------------------
\* One lemma for each way a step keeps the types.
LEMMA BeginTyped ==
  ASSUME TypeOK, NEW w \in Writer, NEW order \in Order,
         NEW expected \in [Members(order) -> Bytes], NEW proposed \in [Members(order) -> Bytes],
         Begin(w, order, expected, proposed)
  PROVE  TypeOK'
<1> DEFINE t == [pc |-> "check", at |-> 1, order |-> order, expected |-> expected,
                 proposed |-> proposed, original |-> << >>, result |-> "none"]
<1>1. order \in Seq(File) /\ Len(order) \in Nat /\ Len(order) >= 1
  BY OrderIsSeq
<1>2. Members(order) \in SUBSET File
  BY OrderIsSeq DEF Members
<1>3. expected \in Snapshot /\ proposed \in Snapshot
  BY <1>2 DEF Snapshot
<1>4. << >> \in Seq(Content) /\ Len(<< >>) = 0
  OBVIOUS
<1>5. t \in Call
  BY <1>1, <1>3, <1>4 DEF Call, Result
<1>6. CallOK(t)
  BY <1>1, <1>4 DEF CallOK
<1>7. txn' = [txn EXCEPT ![w] = t] /\ UNCHANGED disk
  BY DEF Begin
<1>8. txn' \in [Writer -> Call] /\ \A v \in Writer : CallOK(txn'[v])
  <2> HIDE DEF t
  <2> QED BY <1>5, <1>6, <1>7, TxnTyped
<1>9. disturbed' \in [Writer -> BOOLEAN]
  BY DEF TypeOK, Begin
<1>10. QED
  BY <1>7, <1>8, <1>9 DEF TypeOK

LEMMA CheckMatchesTyped ==
  ASSUME TypeOK, NEW w \in Writer, CheckMatches(w)
  PROVE  TypeOK'
<1> DEFINE t == [txn[w] EXCEPT !.original = Append(@, disk[Here(w)]),
                               !.pc = IF Last(w) THEN "persist" ELSE "check",
                               !.at = IF Last(w) THEN 1 ELSE @ + 1]
<1>1. Committing(w) /\ txn[w].pc = "check"
  BY DEF CheckMatches, Committing
<1>2. /\ txn[w] \in Call /\ CallOK(txn[w])
      /\ txn[w].at \in 1..Len(txn[w].order) /\ Len(txn[w].order) \in Nat
      /\ disk[Here(w)] \in Content
  BY <1>1, CommittingTyped DEF TypeOK
<1>3. /\ txn[w].original \in Seq(Content)
      /\ Len(txn[w].original) = txn[w].at - 1
  BY <1>1, <1>2 DEF CallOK, Call
<1>4. /\ Append(txn[w].original, disk[Here(w)]) \in Seq(Content)
      /\ Len(Append(txn[w].original, disk[Here(w)])) = txn[w].at
  BY <1>2, <1>3, AppendProperties
<1>5. t \in Call
  <2>1. /\ (IF Last(w) THEN 1 ELSE txn[w].at + 1) \in Nat
        /\ (IF Last(w) THEN "persist" ELSE "check") \in {"idle", "check", "persist", "undo"}
    BY <1>2
  <2>2. QED
    BY <1>2, <1>4, <2>1, Zenon DEF Call
<1>6. CallOK(t)
  BY <1>1, <1>2, <1>4 DEF CallOK, Call, Last
<1>7. txn' = [txn EXCEPT ![w] = t] /\ UNCHANGED <<disk, disturbed>>
  BY <1>1, <1>2 DEF CheckMatches, TypeOK
<1>8. txn' \in [Writer -> Call] /\ \A v \in Writer : CallOK(txn'[v])
  <2> HIDE DEF t
  <2> QED BY <1>5, <1>6, <1>7, TxnTyped
<1>9. QED
  BY <1>7, <1>8 DEF TypeOK

\* Stepping the loop of the second pass or of the rollback keeps the types.
LEMMA MoveTyped ==
  ASSUME TypeOK, NEW w \in Writer, txn[w].pc \in {"persist", "undo"},
         NEW pc \in {"persist", "undo"}, NEW at \in 1..Len(txn[w].order),
         txn' = [txn EXCEPT ![w].pc = pc, ![w].at = at]
  PROVE  txn' \in [Writer -> Call] /\ \A v \in Writer : CallOK(txn'[v])
<1> DEFINE t == [txn[w] EXCEPT !.pc = pc, !.at = at]
<1>1. Committing(w)
  BY DEF Committing
<1>2. txn[w] \in Call /\ CallOK(txn[w]) /\ Len(txn[w].order) \in Nat
  BY <1>1, CommittingTyped DEF TypeOK
<1>3. t \in Call
  <2>1. at \in Nat
    BY <1>2
  <2>2. QED
    BY <1>2, <2>1, Zenon DEF Call
<1>4. CallOK(t)
  BY <1>2 DEF CallOK, Call
<1>5. txn' = [txn EXCEPT ![w] = t]
  BY <1>2 DEF TypeOK
<1>6. QED
  <2> HIDE DEF t
  <2> QED BY <1>3, <1>4, <1>5, TxnTyped

LEMMA PersistTyped ==
  ASSUME TypeOK, NEW w \in Writer, Persist(w)
  PROVE  TypeOK'
<1>1. Committing(w) /\ txn[w].pc = "persist"
  BY DEF Persist, Committing
<1>2. /\ txn[w] \in Call /\ CallOK(txn[w])
      /\ txn[w].at \in 1..Len(txn[w].order) /\ Len(txn[w].order) \in Nat
      /\ Here(w) \in File /\ txn[w].proposed[Here(w)] \in Bytes
  BY <1>1, CommittingTyped DEF TypeOK
<1>3. txn[w].original[txn[w].at] \in Content
  BY <1>1, <1>2, ElementOfSeq DEF Call, CallOK
<1>4. disk' \in [File -> Content]
  BY <1>2, <1>3 DEF Persist, TypeOK, Content
<1>5. txn' \in [Writer -> Call] /\ \A v \in Writer : CallOK(txn'[v])
  <2>1. CASE Last(w)
    BY <2>1, ReturnTyped DEF Persist, Result
  <2>2. CASE ~Last(w)
    <3>1. txn[w].at + 1 \in 1..Len(txn[w].order)
      BY <1>2, <2>2 DEF Last
    <3>2. txn' = [txn EXCEPT ![w].pc = "persist", ![w].at = txn[w].at + 1]
      BY <1>1, <1>2, <2>2 DEF Persist, TypeOK, Call
    <3>3. QED
      BY <1>1, <3>1, <3>2, MoveTyped
  <2>3. QED
    BY <2>1, <2>2
<1>6. disturbed' \in [Writer -> BOOLEAN]
  BY <1>2, DisturbTyped DEF Persist
<1>7. QED
  BY <1>4, <1>5, <1>6 DEF TypeOK

LEMMA PersistFailsTyped ==
  ASSUME TypeOK, NEW w \in Writer, PersistFails(w)
  PROVE  TypeOK'
<1>1. Committing(w) /\ txn[w].pc = "persist"
  BY DEF PersistFails, Committing
<1>2. txn[w] \in Call /\ txn[w].at \in 1..Len(txn[w].order) /\ Len(txn[w].order) \in Nat
  BY <1>1, CommittingTyped
<1>3. txn' \in [Writer -> Call] /\ \A v \in Writer : CallOK(txn'[v])
  <2>1. CASE txn[w].at = 1
    BY <2>1, ReturnTyped DEF PersistFails, Result
  <2>2. CASE txn[w].at # 1
    <3>1. txn[w].at - 1 \in 1..Len(txn[w].order)
      BY <1>2, <2>2
    <3>2. txn' = [txn EXCEPT ![w].pc = "undo", ![w].at = txn[w].at - 1]
      BY <2>2 DEF PersistFails, TypeOK, Call
    <3>3. QED
      BY <1>1, <3>1, <3>2, MoveTyped
  <2>3. QED
    BY <2>1, <2>2
<1>4. QED
  BY <1>3 DEF TypeOK, PersistFails

LEMMA UndoTyped ==
  ASSUME TypeOK, NEW w \in Writer, Undo(w)
  PROVE  TypeOK'
<1>1. Committing(w) /\ txn[w].pc = "undo"
  BY DEF Undo, Committing
<1>2. /\ txn[w] \in Call /\ CallOK(txn[w])
      /\ txn[w].at \in 1..Len(txn[w].order) /\ Len(txn[w].order) \in Nat
      /\ Here(w) \in File
  BY <1>1, CommittingTyped DEF TypeOK
<1>3. txn[w].original[txn[w].at] \in Content
  BY <1>1, <1>2, ElementOfSeq DEF Call, CallOK
<1>4. disk' \in [File -> Content]
  BY <1>2, <1>3 DEF Undo, TypeOK, Content, Mode
<1>5. txn' \in [Writer -> Call] /\ \A v \in Writer : CallOK(txn'[v])
  <2>1. CASE txn[w].at = 1
    BY <2>1, ReturnTyped DEF Undo, Result
  <2>2. CASE txn[w].at # 1
    <3>1. txn[w].at - 1 \in 1..Len(txn[w].order)
      BY <1>2, <2>2
    <3>2. txn' = [txn EXCEPT ![w].pc = "undo", ![w].at = txn[w].at - 1]
      <4>1. txn' = [txn EXCEPT ![w].at = txn[w].at - 1] /\ txn \in [Writer -> Call]
        BY <2>2 DEF Undo, TypeOK
      <4>2. QED
        BY <1>1, <1>2, <4>1 DEF Call
    <3>3. QED
      BY <1>1, <3>1, <3>2, MoveTyped
  <2>3. QED
    BY <2>1, <2>2
<1>6. disturbed' \in [Writer -> BOOLEAN]
  BY <1>2, DisturbTyped DEF Undo
<1>7. QED
  BY <1>4, <1>5, <1>6 DEF TypeOK

\* The steps that end a commit and change no file.
LEMMA EndTyped ==
  ASSUME TypeOK, NEW w \in Writer,
         CheckStale(w) \/ CheckFails(w) \/ UndoFails(w) \/ Crash(w)
  PROVE  TypeOK'
<1>1. PICK result \in Result : Return(w, result)
  BY DEF CheckStale, CheckFails, UndoFails, Crash, Result
<1>2. txn' \in [Writer -> Call] /\ \A v \in Writer : CallOK(txn'[v])
  BY <1>1, ReturnTyped
<1>3. QED
  BY <1>2 DEF TypeOK, CheckStale, CheckFails, UndoFails, Crash

LEMMA StartTyped ==
  ASSUME TypeOK, NEW w \in Writer, Start(w)
  PROVE  TypeOK'
<1>1. PICK order \in Order : \E proposed \in [Members(order) -> Bytes] :
        Begin(w, order, [f \in Members(order) |-> disk[f].bytes], proposed)
  BY DEF Start
<1>2. PICK proposed \in [Members(order) -> Bytes] :
        Begin(w, order, [f \in Members(order) |-> disk[f].bytes], proposed)
  BY <1>1
<1>3. Members(order) \subseteq File
  BY OrderIsSeq DEF Members
<1>4. [f \in Members(order) |-> disk[f].bytes] \in [Members(order) -> Bytes]
  BY <1>3 DEF TypeOK, Content
<1>5. QED
  BY <1>2, <1>4, BeginTyped

LEMMA EditTyped ==
  ASSUME TypeOK, NEW f \in File, NEW bytes \in Bytes, Edit(f, bytes)
  PROVE  TypeOK'
BY DEF TypeOK, Edit, Content

LEMMA TypeInit == Init => TypeOK
<1> SUFFICES ASSUME Init PROVE TypeOK
  OBVIOUS
<1>1. disk \in [File -> Content]
  BY DEF Init, Content, Mode
<1>2. "none" \in Result
  BY DEF Result
<1>3. txn \in [Writer -> Call] /\ \A w \in Writer : CallOK(txn[w])
  BY <1>2, IdleTyped DEF Init
<1>4. QED
  BY <1>1, <1>3 DEF Init, TypeOK

LEMMA TypeStep ==
  ASSUME TypeOK, [Next]_vars
  PROVE  TypeOK'
<1>1. ASSUME NEW w \in Writer, Start(w) \/ Step(w) PROVE TypeOK'
  BY <1>1, StartTyped, CheckMatchesTyped, PersistTyped, PersistFailsTyped, UndoTyped, EndTyped
    DEF Step
<1>2. CASE EditorWrites
  BY <1>2, EditTyped DEF EditorWrites
<1>3. CASE UNCHANGED vars
  BY <1>3 DEF vars, TypeOK
<1>4. QED
  BY <1>1, <1>2, <1>3 DEF Next

\* commit's locals and the files are well typed in every reachable state: the loop never
\* stands outside its plan, and as many originals are kept as files were checked.
THEOREM TypeCorrect == Spec => []TypeOK
BY TypeInit, TypeStep, PTL DEF Spec

----------------------------------------------------------------------------
\* A step of somebody else: it leaves w's locals alone, and if it leaves w undisturbed it
\* leaves the files of w's plan alone too.
LEMMA SomebodyElse ==
  ASSUME CommitInv, NEW w \in Writer,
         txn'[w] = txn[w],
         Committing(w) => /\ disturbed[w] => disturbed'[w]
                          /\ ~disturbed'[w] =>
                               \A f \in Members(txn[w].order) : disk'[f] = disk[f]
  PROVE  Checked(w)' /\ (~disturbed'[w] => Holds(txn'[w], disk'))
<1>1. Checked(w)'
  BY DEF CommitInv, Checked
<1>2. CASE ~Committing(w)
  BY <1>1, <1>2 DEF Holds, Committing
<1>3. CASE Committing(w)
  <2> SUFFICES ASSUME ~disturbed'[w] PROVE Holds(txn[w], disk')
    BY <1>1
  <2>1. TypeOK /\ Holds(txn[w], disk)
    BY <1>3 DEF CommitInv
  <2>2. txn[w].order \in Order
    BY <2>1, <1>3, CommittingTyped
  <2>3. \A i \in 1..Len(txn[w].order) : disk'[txn[w].order[i]] = disk[txn[w].order[i]]
    BY <2>2, <1>3, OrderIsSeq DEF Members
  <2>4. QED
    BY <2>1, <2>3 DEF Holds, CheckHolds, PersistHolds, UndoHolds
<1>4. QED
  BY <1>2, <1>3

\* A writer's step changes only its own locals, and disturbs whom it writes under.
LEMMA StepElsewhere ==
  ASSUME TypeOK, NEW v \in Writer, Start(v) \/ Step(v), NEW w \in Writer \ {v}
  PROVE  /\ txn'[w] = txn[w]
         /\ Committing(w) => /\ disturbed[w] => disturbed'[w]
                             /\ ~disturbed'[w] =>
                                  \A f \in Members(txn[w].order) : disk'[f] = disk[f]
<1>1. CASE Start(v)
  <2>1. PICK order \in Order : \E proposed \in [Members(order) -> Bytes] :
          Begin(v, order, [f \in Members(order) |-> disk[f].bytes], proposed)
    BY <1>1 DEF Start
  <2>2. QED
    BY <2>1 DEF Begin, TypeOK
<1>2. CASE CheckMatches(v)
  BY <1>2 DEF CheckMatches, TypeOK
<1>3. CASE CheckStale(v) \/ CheckFails(v) \/ UndoFails(v) \/ Crash(v)
  BY <1>3 DEF CheckStale, CheckFails, UndoFails, Crash, Return, TypeOK
<1>4. CASE PersistFails(v)
  BY <1>4 DEF PersistFails, Return, TypeOK
<1>5. CASE Persist(v)
  BY <1>5 DEF Persist, Return, Disturb, TypeOK
<1>6. CASE Undo(v)
  BY <1>6 DEF Undo, Return, Disturb, TypeOK
<1>7. QED
  BY <1>1, <1>2, <1>3, <1>4, <1>5, <1>6 DEF Step

LEMMA EditElsewhere ==
  ASSUME TypeOK, NEW f \in File, NEW bytes \in Bytes, Edit(f, bytes), NEW w \in Writer
  PROVE  /\ txn'[w] = txn[w]
         /\ Committing(w) => /\ disturbed[w] => disturbed'[w]
                             /\ ~disturbed'[w] =>
                                  \A g \in Members(txn[w].order) : disk'[g] = disk[g]
BY DEF Edit, TypeOK

\* The invariant for the writer that takes the step, one lemma for each kind of step.
LEMMA StartHolds ==
  ASSUME CommitInv, NEW w \in Writer, Start(w)
  PROVE  Checked(w)' /\ (~disturbed'[w] => Holds(txn'[w], disk'))
<1>1. PICK order \in Order : \E proposed \in [Members(order) -> Bytes] :
        Begin(w, order, [f \in Members(order) |-> disk[f].bytes], proposed)
  BY DEF Start
<1>2. PICK proposed \in [Members(order) -> Bytes] :
        Begin(w, order, [f \in Members(order) |-> disk[f].bytes], proposed)
  BY <1>1
<1>3. /\ txn'[w].pc = "check" /\ txn'[w].at = 1 /\ txn'[w].order = order
      /\ txn'[w].expected = [f \in Members(order) |-> disk[f].bytes]
      /\ txn'[w].original = << >>
      /\ disk' = disk
  BY <1>2 DEF Begin, CommitInv, TypeOK
<1>4. \A i \in 1..Len(order) : order[i] \in Members(order)
  BY OrderIsSeq DEF Members
<1>5. Len(order) \in Nat
  BY OrderIsSeq
<1>6. CheckHolds(txn'[w], disk')
  BY <1>3, <1>4, <1>5 DEF CheckHolds
<1>7. Checked(w)'
  BY <1>3 DEF Checked
<1>8. QED
  BY <1>3, <1>6, <1>7 DEF Holds

LEMMA CheckMatchesHolds ==
  ASSUME CommitInv, NEW w \in Writer, CheckMatches(w)
  PROVE  Checked(w)' /\ (~disturbed'[w] => Holds(txn'[w], disk'))
<1>1. TypeOK /\ Committing(w) /\ txn[w].pc = "check"
  BY DEF CheckMatches, Committing, CommitInv
<1>2. /\ txn[w] \in Call /\ CallOK(txn[w])
      /\ txn[w].order \in Order
      /\ txn[w].at \in 1..Len(txn[w].order) /\ Len(txn[w].order) \in Nat
      /\ disk[Here(w)] \in Content
  BY <1>1, CommittingTyped DEF TypeOK
<1>3. /\ txn[w].original \in Seq(Content)
      /\ Len(txn[w].original) = txn[w].at - 1
  BY <1>1, <1>2 DEF CallOK, Call
<1> DEFINE o == Append(txn[w].original, disk[Here(w)])
<1>4. /\ Len(o) = txn[w].at
      /\ \A i \in 1..(txn[w].at - 1) : o[i] = txn[w].original[i]
      /\ o[txn[w].at] = disk[Here(w)]
  BY <1>2, <1>3, AppendProperties
<1>5. /\ txn'[w].original = o
      /\ txn'[w].pc = IF Last(w) THEN "persist" ELSE "check"
      /\ txn'[w].at = IF Last(w) THEN 1 ELSE txn[w].at + 1
      /\ txn'[w].order = txn[w].order
      /\ txn'[w].expected = txn[w].expected
      /\ txn'[w].proposed = txn[w].proposed
      /\ UNCHANGED <<disk, disturbed>>
  BY <1>1, <1>2 DEF CheckMatches, TypeOK, Call
<1>6. /\ disk[Here(w)].bytes = txn[w].expected[Here(w)]
      /\ Here(w) = txn[w].order[txn[w].at]
  BY DEF CheckMatches, Here
<1> HIDE DEF o
<1>7. Checked(w)'
  <2>1. \A i \in 1..(txn[w].at - 1) : txn[w].original[i].bytes = txn[w].expected[txn[w].order[i]]
    BY <1>3 DEF CommitInv, Checked
  <2>2. \A i \in 1..txn[w].at : o[i].bytes = txn[w].expected[txn[w].order[i]]
    BY <1>2, <1>4, <1>6, <2>1
  <2>3. QED
    BY <1>4, <1>5, <2>2 DEF Checked
<1>8. ASSUME ~disturbed'[w] PROVE Holds(txn'[w], disk')
  <2>1. CheckHolds(txn[w], disk)
    BY <1>1, <1>5, <1>8 DEF CommitInv, Holds
  <2>2. \A i \in 1..txn[w].at : disk[txn[w].order[i]] = o[i]
    BY <1>2, <1>4, <1>6, <2>1 DEF CheckHolds
  <2>3. CASE Last(w)
    <3>1. PersistHolds(txn'[w], disk')
      BY <1>2, <1>5, <2>2, <2>3 DEF PersistHolds, Last
    <3>2. QED
      BY <1>5, <2>3, <3>1 DEF Holds
  <2>4. CASE ~Last(w)
    <3>1. CheckHolds(txn'[w], disk')
      BY <1>2, <1>5, <2>1, <2>2, <2>4 DEF CheckHolds
    <3>2. QED
      BY <1>5, <2>4, <3>1 DEF Holds
  <2>5. QED
    BY <2>3, <2>4
<1>9. QED
  BY <1>7, <1>8

\* A commit that has returned owes nothing.
LEMMA EndHolds ==
  ASSUME CommitInv, NEW w \in Writer, NEW result \in Result, Return(w, result)
  PROVE  Checked(w)' /\ Holds(txn'[w], disk')
<1>1. txn'[w] = Idle(result)
  BY DEF Return, CommitInv, TypeOK
<1>2. QED
  BY <1>1 DEF Checked, Holds, Idle

LEMMA PersistHoldsOn ==
  ASSUME CommitInv, NEW w \in Writer, Persist(w)
  PROVE  Checked(w)' /\ (~disturbed'[w] => Holds(txn'[w], disk'))
<1>1. TypeOK /\ Committing(w) /\ txn[w].pc = "persist"
  BY DEF Persist, Committing, CommitInv
<1>2. /\ txn[w] \in Call /\ txn[w].order \in Order
      /\ txn[w].at \in 1..Len(txn[w].order) /\ Len(txn[w].order) \in Nat
      /\ Here(w) \in File
  BY <1>1, CommittingTyped
<1>3. CASE Last(w)
  BY <1>3, EndHolds DEF Persist, Result
<1>4. CASE ~Last(w)
  <2>1. txn' = [txn EXCEPT ![w].at = txn[w].at + 1] /\ txn \in [Writer -> Call]
    BY <1>1, <1>4 DEF Persist, TypeOK
  <2>2. /\ txn'[w].at = txn[w].at + 1 /\ txn'[w].pc = "persist"
        /\ txn'[w].order = txn[w].order /\ txn'[w].original = txn[w].original
        /\ txn'[w].proposed = txn[w].proposed /\ txn'[w].expected = txn[w].expected
    BY <1>1, <2>1 DEF Call
  <2>3. Checked(w)'
    BY <2>2 DEF CommitInv, Checked
  <2>4. ASSUME ~disturbed'[w] PROVE PersistHolds(txn'[w], disk')
    <3>1. ~disturbed[w]
      BY <2>4 DEF Persist, Disturb
    <3>2. PersistHolds(txn[w], disk)
      BY <1>1, <3>1 DEF CommitInv, Holds
    <3>3. /\ disk'[Here(w)] = [bytes |-> txn[w].proposed[Here(w)],
                               mode |-> txn[w].original[txn[w].at].mode]
          /\ \A f \in File \ {Here(w)} : disk'[f] = disk[f]
      BY <1>1, <1>2 DEF Persist, TypeOK
    <3>4. \A i \in 1..Len(txn[w].order) :
            /\ txn[w].order[i] \in File
            /\ i # txn[w].at => txn[w].order[i] # Here(w)
      BY <1>2, OrderIsSeq DEF Here
    <3>5. QED
      BY <1>2, <2>2, <3>2, <3>3, <3>4 DEF PersistHolds, Here
  <2>5. QED
    BY <2>2, <2>3, <2>4 DEF Holds
<1>5. QED
  BY <1>3, <1>4

LEMMA PersistFailsHolds ==
  ASSUME CommitInv, NEW w \in Writer, PersistFails(w)
  PROVE  Checked(w)' /\ (~disturbed'[w] => Holds(txn'[w], disk'))
<1>1. TypeOK /\ Committing(w) /\ txn[w].pc = "persist"
  BY DEF PersistFails, Committing, CommitInv
<1>2. /\ txn[w] \in Call /\ txn[w].order \in Order
      /\ txn[w].at \in 1..Len(txn[w].order) /\ Len(txn[w].order) \in Nat
  BY <1>1, CommittingTyped
<1>3. CASE txn[w].at = 1
  BY <1>3, EndHolds DEF PersistFails, Result
<1>4. CASE txn[w].at # 1
  <2>1. txn' = [txn EXCEPT ![w].pc = "undo", ![w].at = txn[w].at - 1] /\ txn \in [Writer -> Call]
    BY <1>1, <1>4 DEF PersistFails, TypeOK
  <2>2. /\ txn'[w].at = txn[w].at - 1 /\ txn'[w].pc = "undo"
        /\ txn'[w].order = txn[w].order /\ txn'[w].original = txn[w].original
        /\ txn'[w].proposed = txn[w].proposed /\ txn'[w].expected = txn[w].expected
    BY <2>1 DEF Call
  <2>3. Checked(w)'
    BY <2>2 DEF CommitInv, Checked
  <2>4. ASSUME ~disturbed'[w] PROVE UndoHolds(txn'[w], disk')
    <3>1. PersistHolds(txn[w], disk) /\ UNCHANGED disk
      BY <1>1, <2>4 DEF CommitInv, Holds, PersistFails
    <3>2. ASSUME NEW i \in 1..Len(txn[w].order)
          PROVE  disk[txn[w].order[i]].bytes =
                   IF i <= txn[w].at - 1 THEN txn[w].proposed[txn[w].order[i]]
                                         ELSE txn[w].original[i].bytes
      <4>1. i < txn[w].at <=> i <= txn[w].at - 1
        BY <1>2
      <4>2. CASE i < txn[w].at
        <5>1. disk[txn[w].order[i]] = [bytes |-> txn[w].proposed[txn[w].order[i]],
                                       mode |-> txn[w].original[i].mode]
          BY <3>1, <4>2 DEF PersistHolds
        <5>2. disk[txn[w].order[i]].bytes = txn[w].proposed[txn[w].order[i]]
          BY <5>1
        <5>3. QED
          BY <4>1, <4>2, <5>2
      <4>3. CASE ~(i < txn[w].at)
        BY <3>1, <4>1, <4>3 DEF PersistHolds
      <4>4. QED
        BY <4>2, <4>3
    <3>3. QED
      BY <2>2, <3>1, <3>2 DEF UndoHolds
  <2>5. QED
    BY <2>2, <2>3, <2>4 DEF Holds
<1>5. QED
  BY <1>3, <1>4

LEMMA UndoHoldsOn ==
  ASSUME CommitInv, NEW w \in Writer, Undo(w)
  PROVE  Checked(w)' /\ (~disturbed'[w] => Holds(txn'[w], disk'))
<1>1. TypeOK /\ Committing(w) /\ txn[w].pc = "undo"
  BY DEF Undo, Committing, CommitInv
<1>2. /\ txn[w] \in Call /\ txn[w].order \in Order
      /\ txn[w].at \in 1..Len(txn[w].order) /\ Len(txn[w].order) \in Nat
      /\ Here(w) \in File
  BY <1>1, CommittingTyped
<1>3. CASE txn[w].at = 1
  BY <1>3, EndHolds DEF Undo, Result
<1>4. CASE txn[w].at # 1
  <2>1. txn' = [txn EXCEPT ![w].at = txn[w].at - 1] /\ txn \in [Writer -> Call]
    BY <1>1, <1>4 DEF Undo, TypeOK
  <2>2. /\ txn'[w].at = txn[w].at - 1 /\ txn'[w].pc = "undo"
        /\ txn'[w].order = txn[w].order /\ txn'[w].original = txn[w].original
        /\ txn'[w].proposed = txn[w].proposed /\ txn'[w].expected = txn[w].expected
    BY <1>1, <2>1 DEF Call
  <2>3. Checked(w)'
    BY <2>2 DEF CommitInv, Checked
  <2>4. ASSUME ~disturbed'[w] PROVE UndoHolds(txn'[w], disk')
    <3>1. ~disturbed[w]
      BY <2>4 DEF Undo, Disturb
    <3>2. UndoHolds(txn[w], disk)
      BY <1>1, <3>1 DEF CommitInv, Holds
    <3>3. /\ disk'[Here(w)].bytes = txn[w].original[txn[w].at].bytes
          /\ \A f \in File \ {Here(w)} : disk'[f] = disk[f]
      BY <1>1, <1>2 DEF Undo, TypeOK
    <3>4. \A i \in 1..Len(txn[w].order) :
            /\ txn[w].order[i] \in File
            /\ i # txn[w].at => txn[w].order[i] # Here(w)
      BY <1>2, OrderIsSeq DEF Here
    <3>5. ASSUME NEW i \in 1..Len(txn[w].order)
          PROVE  disk'[txn[w].order[i]].bytes =
                   IF i <= txn[w].at - 1 THEN txn[w].proposed[txn[w].order[i]]
                                         ELSE txn[w].original[i].bytes
      <4>1. CASE i = txn[w].at
        BY <1>2, <3>3, <4>1 DEF Here
      <4>2. CASE i # txn[w].at
        <5>1. disk'[txn[w].order[i]] = disk[txn[w].order[i]]
          BY <3>3, <3>4, <4>2
        <5>2. i <= txn[w].at <=> i <= txn[w].at - 1
          BY <1>2, <4>2
        <5>3. QED
          BY <3>2, <5>1, <5>2 DEF UndoHolds
      <4>3. QED
        BY <4>1, <4>2
    <3>6. QED
      BY <2>2, <3>5 DEF UndoHolds
  <2>5. QED
    BY <2>2, <2>3, <2>4 DEF Holds
<1>5. QED
  BY <1>3, <1>4

LEMMA OwnStep ==
  ASSUME CommitInv, NEW w \in Writer, Start(w) \/ Step(w)
  PROVE  Checked(w)' /\ (~disturbed'[w] => Holds(txn'[w], disk'))
<1>1. CASE Start(w) \/ CheckMatches(w) \/ Persist(w) \/ PersistFails(w) \/ Undo(w)
  BY <1>1, StartHolds, CheckMatchesHolds, PersistHoldsOn, PersistFailsHolds, UndoHoldsOn
<1>2. CASE CheckStale(w) \/ CheckFails(w) \/ UndoFails(w) \/ Crash(w)
  <2>1. PICK result \in Result : Return(w, result)
    BY <1>2 DEF CheckStale, CheckFails, UndoFails, Crash, Result
  <2>2. QED
    BY <2>1, EndHolds
<1>3. QED
  BY <1>1, <1>2 DEF Step

LEMMA CommitInvStep ==
  ASSUME CommitInv, [Next]_vars
  PROVE  CommitInv'
<1>1. TypeOK /\ TypeOK'
  BY TypeStep DEF CommitInv
<1>2. \A w \in Writer : Checked(w)' /\ (~disturbed'[w] => Holds(txn'[w], disk'))
  <2>1. ASSUME NEW v \in Writer, Start(v) \/ Step(v), NEW w \in Writer
        PROVE  Checked(w)' /\ (~disturbed'[w] => Holds(txn'[w], disk'))
    <3>1. CASE w = v
      BY <2>1, <3>1, OwnStep
    <3>2. CASE w # v
      BY <1>1, <2>1, <3>2, StepElsewhere, SomebodyElse
    <3>3. QED
      BY <3>1, <3>2
  <2>2. ASSUME EditorWrites, NEW w \in Writer
        PROVE  Checked(w)' /\ (~disturbed'[w] => Holds(txn'[w], disk'))
    BY <1>1, <2>2, EditElsewhere, SomebodyElse DEF EditorWrites
  <2>3. ASSUME UNCHANGED vars, NEW w \in Writer
        PROVE  Checked(w)' /\ (~disturbed'[w] => Holds(txn'[w], disk'))
    BY <2>3, SomebodyElse DEF vars
  <2>4. QED
    BY <2>1, <2>2, <2>3 DEF Next
<1>3. QED
  BY <1>1, <1>2 DEF CommitInv

LEMMA CommitInvInit == Init => CommitInv
<1> SUFFICES ASSUME Init PROVE CommitInv
  OBVIOUS
<1>1. \A w \in Writer : txn[w] = Idle("none")
  BY DEF Init
<1>2. \A w \in Writer : Checked(w) /\ Holds(txn[w], disk)
  BY <1>1 DEF Checked, Holds, Idle
<1>3. QED
  BY <1>2, TypeInit DEF CommitInv

\* The invariant itself: what the check pass kept is what the plan was computed from, and an
\* undisturbed commit knows what every file of its plan holds at every moment.
THEOREM CommitInvariant == Spec => []CommitInv
BY CommitInvInit, CommitInvStep, PTL DEF Spec

----------------------------------------------------------------------------
\* Which step returns what.
LEMMA ReturnsBy ==
  ASSUME TypeOK, [Next]_vars, NEW w \in Writer, NEW result \in Result, Returns(w, result)
  PROVE  /\ Step(w)
         /\ result = "ok" => Persist(w) /\ Last(w)
         /\ result = "changed" => CheckStale(w)
         /\ result = "io" =>
              CheckFails(w) \/ (PersistFails(w) /\ txn[w].at = 1) \/ (Undo(w) /\ txn[w].at = 1)
         /\ result = "crashed" => Crash(w)
         /\ result = "incomplete" => UndoFails(w)
<1>1. Committing(w) /\ txn'[w].pc = "idle" /\ txn'[w].result = result
  BY DEF Returns, Idle
<1>2. txn'[w] # txn[w]
  BY <1>1 DEF Committing
<1>3. Start(w) \/ Step(w)
  BY <1>2, StepElsewhere, EditElsewhere DEF Next, EditorWrites, vars
<1>4. ~Start(w)
  BY <1>1 DEF Start, Begin
<1>5. /\ ~CheckMatches(w)
      /\ Persist(w) => Last(w) /\ result = "ok"
      /\ PersistFails(w) => txn[w].at = 1 /\ result = "io"
      /\ Undo(w) => txn[w].at = 1 /\ result = "io"
      /\ CheckStale(w) => result = "changed"
      /\ CheckFails(w) => result = "io"
      /\ UndoFails(w) => result = "incomplete"
      /\ Crash(w) => result = "crashed"
  <2>1. ~CheckMatches(w)
    BY <1>1 DEF CheckMatches, TypeOK, Call
  <2>2. Persist(w) => Last(w) /\ result = "ok"
    <3> SUFFICES ASSUME Persist(w) PROVE Last(w) /\ result = "ok"
      OBVIOUS
    <3>1. CASE Last(w)
      BY <1>1, <3>1 DEF Persist, Return, Idle, TypeOK
    <3>2. CASE ~Last(w)
      <4>1. txn' = [txn EXCEPT ![w].at = txn[w].at + 1] /\ txn[w].pc = "persist"
        BY <3>2 DEF Persist
      <4>2. txn'[w].pc = "persist"
        BY <4>1 DEF TypeOK, Call
      <4>3. QED
        BY <1>1, <4>2
    <3>3. QED
      BY <3>1, <3>2
  <2>3. PersistFails(w) => txn[w].at = 1 /\ result = "io"
    BY <1>1 DEF PersistFails, Return, Idle, TypeOK, Call
  <2>4. Undo(w) => txn[w].at = 1 /\ result = "io"
    <3> SUFFICES ASSUME Undo(w) PROVE txn[w].at = 1 /\ result = "io"
      OBVIOUS
    <3>1. CASE txn[w].at = 1
      BY <1>1, <3>1 DEF Undo, Return, Idle, TypeOK
    <3>2. CASE txn[w].at # 1
      <4>1. txn' = [txn EXCEPT ![w].at = txn[w].at - 1] /\ txn[w].pc = "undo"
        BY <3>2 DEF Undo
      <4>2. txn'[w].pc = "undo"
        BY <4>1 DEF TypeOK, Call
      <4>3. QED
        BY <1>1, <4>2
    <3>3. QED
      BY <3>1, <3>2
  <2>5. /\ CheckStale(w) => result = "changed"
        /\ CheckFails(w) => result = "io"
        /\ UndoFails(w) => result = "incomplete"
        /\ Crash(w) => result = "crashed"
    BY <1>1 DEF CheckStale, CheckFails, UndoFails, Crash, Return, Idle, TypeOK
  <2>6. QED
    BY <2>1, <2>2, <2>3, <2>4, <2>5
<1>6. QED
  BY <1>3, <1>4, <1>5 DEF Step

\* All or nothing, whatever else goes on: a commit nobody interfered with returns success with
\* every file at its proposal, or an error with every file at the bytes it was planned on.
THEOREM CommitIsAllOrNothing == Spec => AllOrNothing
<1>1. ASSUME CommitInv, [Next]_vars, NEW w \in Writer, ~disturbed[w], Returns(w, "ok"),
             NEW i \in DOMAIN txn[w].order
      PROVE  disk'[txn[w].order[i]] = [bytes |-> txn[w].proposed[txn[w].order[i]],
                                       mode |-> txn[w].original[i].mode]
  <2>1. TypeOK /\ Persist(w) /\ Last(w) /\ Committing(w) /\ txn[w].pc = "persist"
    BY <1>1, ReturnsBy DEF Result, CommitInv, Persist, Returns
  <2>2. /\ txn[w].order \in Order /\ Here(w) \in File
        /\ txn[w].at \in 1..Len(txn[w].order) /\ Len(txn[w].order) \in Nat
    BY <2>1, CommittingTyped
  <2>3. /\ i \in 1..Len(txn[w].order) /\ txn[w].order[i] \in File
        /\ i # txn[w].at => txn[w].order[i] # Here(w)
    BY <1>1, <2>2, OrderIsSeq DEF Here
  <2>4. PersistHolds(txn[w], disk)
    BY <1>1, <2>1 DEF CommitInv, Holds
  <2>5. /\ disk'[Here(w)] = [bytes |-> txn[w].proposed[Here(w)],
                             mode |-> txn[w].original[txn[w].at].mode]
        /\ \A f \in File \ {Here(w)} : disk'[f] = disk[f]
    BY <2>1, <2>2 DEF Persist, TypeOK
  <2>6. CASE i = txn[w].at
    BY <2>5, <2>6 DEF Here
  <2>7. CASE i # txn[w].at
    <3>1. i < txn[w].at
      BY <2>1, <2>2, <2>3, <2>7 DEF Last
    <3>2. disk'[txn[w].order[i]] = disk[txn[w].order[i]]
      BY <2>3, <2>5, <2>7
    <3>3. QED
      BY <2>3, <2>4, <3>1, <3>2 DEF PersistHolds
  <2>8. QED
    BY <2>6, <2>7
<1>2. ASSUME CommitInv, [Next]_vars, NEW w \in Writer, ~disturbed[w],
             Returns(w, "io") \/ Returns(w, "changed"), NEW f \in Members(txn[w].order)
      PROVE  disk'[f].bytes = txn[w].expected[f]
  <2>1. TypeOK /\ Committing(w)
    BY <1>2 DEF CommitInv, Returns
  <2>2. /\ txn[w].order \in Order /\ Here(w) \in File /\ CallOK(txn[w])
        /\ txn[w].at \in 1..Len(txn[w].order) /\ Len(txn[w].order) \in Nat
    BY <2>1, CommittingTyped DEF TypeOK
  <2>3. PICK i \in 1..Len(txn[w].order) : txn[w].order[i] = f
    BY <1>2, <2>2, OrderIsSeq DEF Members
  <2>4. \/ CheckStale(w) \/ CheckFails(w)
        \/ PersistFails(w) /\ txn[w].at = 1
        \/ Undo(w) /\ txn[w].at = 1
    BY <1>2, <2>1, ReturnsBy DEF Result
  <2>5. txn[w].pc # "check" => txn[w].original[i].bytes = txn[w].expected[f]
    BY <1>2, <2>1, <2>2, <2>3 DEF CommitInv, Checked, CallOK, Committing
  <2>6. CASE CheckStale(w) \/ CheckFails(w)
    <3>1. CheckHolds(txn[w], disk) /\ UNCHANGED disk
      BY <1>2, <2>6 DEF CheckStale, CheckFails, CommitInv, Holds
    <3>2. QED
      BY <2>3, <3>1 DEF CheckHolds
  <2>7. CASE PersistFails(w) /\ txn[w].at = 1
    <3>1. PersistHolds(txn[w], disk) /\ UNCHANGED disk /\ txn[w].pc # "check"
      BY <1>2, <2>7 DEF PersistFails, CommitInv, Holds
    <3>2. disk[f] = txn[w].original[i]
      <4>1. ~(i < txn[w].at)
        BY <2>2, <2>3, <2>7
      <4>2. QED
        BY <2>3, <3>1, <4>1 DEF PersistHolds
    <3>3. QED
      BY <2>5, <3>1, <3>2
  <2>8. CASE Undo(w) /\ txn[w].at = 1
    <3>1. UndoHolds(txn[w], disk) /\ txn[w].pc # "check"
      BY <1>2, <2>8 DEF Undo, CommitInv, Holds
    <3>2. /\ disk'[Here(w)].bytes = txn[w].original[1].bytes
          /\ \A g \in File \ {Here(w)} : disk'[g] = disk[g]
      BY <2>1, <2>2, <2>8 DEF Undo, TypeOK
    <3>3. CASE i = 1
      BY <2>3, <2>5, <2>8, <3>1, <3>2, <3>3 DEF Here
    <3>4. CASE i # 1
      <4>1. f # Here(w) /\ f \in File
        BY <2>2, <2>3, <2>8, <3>4, OrderIsSeq DEF Here
      <4>2. disk[f].bytes = txn[w].original[i].bytes
        BY <2>3, <2>8, <3>1, <3>4 DEF UndoHolds
      <4>3. QED
        BY <2>5, <3>1, <3>2, <4>1, <4>2
    <3>5. QED
      BY <3>3, <3>4
  <2>9. QED
    BY <2>4, <2>6, <2>7, <2>8
<1>3. CommitInv /\ [Next]_vars =>
        [ \A w \in Writer : ~disturbed[w] =>
            /\ Returns(w, "ok") =>
                 \A i \in DOMAIN txn[w].order :
                   disk'[txn[w].order[i]] = [bytes |-> txn[w].proposed[txn[w].order[i]],
                                             mode |-> txn[w].original[i].mode]
            /\ Returns(w, "io") \/ Returns(w, "changed") =>
                 \A f \in Members(txn[w].order) : disk'[f].bytes = txn[w].expected[f] ]_vars
  BY <1>1, <1>2
<1>4. QED
  BY <1>3, CommitInvariant, PTL DEF Spec, AllOrNothing

\* No rename before every check: see WritesOnlyCheckedPlans.
THEOREM CommitWritesOnlyCheckedPlans == Spec => WritesOnlyCheckedPlans
<1>1. ASSUME CommitInv, [Next]_vars, NEW w \in Writer, txn'[w] # txn[w], disk' # disk
      PROVE  /\ Len(txn[w].original) = Len(txn[w].order)
             /\ \A i \in DOMAIN txn[w].order :
                  txn[w].original[i].bytes = txn[w].expected[txn[w].order[i]]
  <2>1. TypeOK
    BY <1>1 DEF CommitInv
  <2>2. Start(w) \/ Step(w)
    BY <1>1, <2>1, StepElsewhere, EditElsewhere DEF Next, EditorWrites, vars
  <2>3. Persist(w) \/ Undo(w)
    BY <1>1, <2>2 DEF Start, Begin, Step, CheckMatches, CheckStale, CheckFails, PersistFails,
                      UndoFails, Crash
  <2>4. txn[w].pc \in {"persist", "undo"} /\ Committing(w)
    BY <2>3 DEF Persist, Undo, Committing
  <2>5. CallOK(txn[w]) /\ txn[w].order \in Order
    BY <2>1, <2>4, CommittingTyped DEF TypeOK
  <2>6. Len(txn[w].original) = Len(txn[w].order) /\ DOMAIN txn[w].order = 1..Len(txn[w].order)
    BY <2>4, <2>5, OrderIsSeq DEF CallOK
  <2>7. QED
    BY <1>1, <2>6 DEF CommitInv, Checked
<1>2. CommitInv /\ [Next]_vars =>
        [ \A w \in Writer : txn'[w] # txn[w] /\ disk' # disk =>
            /\ Len(txn[w].original) = Len(txn[w].order)
            /\ \A i \in DOMAIN txn[w].order :
                 txn[w].original[i].bytes = txn[w].expected[txn[w].order[i]] ]_vars
  BY <1>1
<1>3. QED
  BY <1>2, CommitInvariant, PTL DEF Spec, WritesOnlyCheckedPlans

\* A broken commit leaves a prefix of its files at the proposal: see BrokenCommitIsPrefix.
THEOREM BrokenCommitLeavesPrefix == Spec => BrokenCommitIsPrefix
<1> DEFINE Prefix(w, n) ==
      \A i \in DOMAIN txn[w].order :
        disk'[txn[w].order[i]].bytes =
          (IF i <= n THEN txn[w].proposed ELSE txn[w].expected)[txn[w].order[i]]
<1>1. ASSUME CommitInv, [Next]_vars, NEW w \in Writer, ~disturbed[w],
             Returns(w, "crashed") \/ Returns(w, "incomplete")
      PROVE  \E n \in 0..Len(txn[w].order) : Prefix(w, n)
  <2>1. TypeOK /\ Committing(w) /\ UNCHANGED disk
    BY <1>1, ReturnsBy DEF CommitInv, Returns, Result, Crash, UndoFails
  <2>2. /\ txn[w].order \in Order /\ CallOK(txn[w]) /\ txn[w] \in Call
        /\ txn[w].at \in 1..Len(txn[w].order) /\ Len(txn[w].order) \in Nat
        /\ DOMAIN txn[w].order = 1..Len(txn[w].order)
    BY <2>1, CommittingTyped, OrderIsSeq DEF TypeOK
  <2>3. txn[w].pc # "check" => \A i \in 1..Len(txn[w].order) :
          txn[w].original[i].bytes = txn[w].expected[txn[w].order[i]]
    BY <1>1, <2>1, <2>2 DEF CommitInv, Checked, CallOK, Committing
  <2>4. CASE txn[w].pc = "check"
    <3>1. CheckHolds(txn[w], disk)
      BY <1>1, <2>4 DEF CommitInv, Holds
    <3>2. \A i \in 1..Len(txn[w].order) : ~(i <= 0)
      BY <2>2
    <3>3. Prefix(w, 0)
      BY <2>1, <2>2, <3>1, <3>2 DEF CheckHolds
    <3>4. QED
      BY <2>2, <3>3
  <2>5. CASE txn[w].pc = "persist"
    <3>1. PersistHolds(txn[w], disk)
      BY <1>1, <2>5 DEF CommitInv, Holds
    <3>2. ASSUME NEW i \in 1..Len(txn[w].order)
          PROVE  disk[txn[w].order[i]].bytes =
                   (IF i <= txn[w].at - 1 THEN txn[w].proposed
                                          ELSE txn[w].expected)[txn[w].order[i]]
      <4>1. i < txn[w].at <=> i <= txn[w].at - 1
        BY <2>2
      <4>2. CASE i < txn[w].at
        <5>1. disk[txn[w].order[i]] = [bytes |-> txn[w].proposed[txn[w].order[i]],
                                       mode |-> txn[w].original[i].mode]
          BY <3>1, <4>2 DEF PersistHolds
        <5>2. disk[txn[w].order[i]].bytes = txn[w].proposed[txn[w].order[i]]
          BY <5>1
        <5>3. QED
          BY <4>1, <4>2, <5>2
      <4>3. CASE ~(i < txn[w].at)
        <5>1. disk[txn[w].order[i]] = txn[w].original[i]
          BY <3>1, <4>3 DEF PersistHolds
        <5>2. QED
          BY <2>3, <2>5, <4>1, <4>3, <5>1
      <4>4. QED
        BY <4>2, <4>3
    <3>3. Prefix(w, txn[w].at - 1) /\ txn[w].at - 1 \in 0..Len(txn[w].order)
      BY <2>1, <2>2, <3>2
    <3>4. QED
      BY <3>3
  <2>6. CASE txn[w].pc = "undo"
    <3>1. UndoHolds(txn[w], disk)
      BY <1>1, <2>6 DEF CommitInv, Holds
    <3>2. Prefix(w, txn[w].at) /\ txn[w].at \in 0..Len(txn[w].order)
      BY <2>1, <2>2, <2>3, <2>6, <3>1 DEF UndoHolds
    <3>3. QED
      BY <3>2
  <2>7. QED
    BY <2>1, <2>2, <2>4, <2>5, <2>6 DEF Call, Committing
<1>2. CommitInv /\ [Next]_vars =>
        [ \A w \in Writer : ~disturbed[w] /\ (Returns(w, "crashed") \/ Returns(w, "incomplete")) =>
            \E n \in 0..Len(txn[w].order) : \A i \in DOMAIN txn[w].order :
              disk'[txn[w].order[i]].bytes =
                (IF i <= n THEN txn[w].proposed ELSE txn[w].expected)[txn[w].order[i]] ]_vars
  BY <1>1
<1>3. QED
  BY <1>2, CommitInvariant, PTL DEF Spec, BrokenCommitIsPrefix

----------------------------------------------------------------------------
(* commit implements AtomicCommit: if nobody else writes once a commit has *)
(* begun to check, and it is neither killed nor stopped in its rollback,   *)
(* its plan takes effect on all files at once or not at all.               *)

\* The files of w's plan whose bytes are known from where its loop stands.
Passed(w) ==
  IF ~Committing(w) THEN {}
  ELSE IF txn[w].pc = "check" THEN 1..(txn[w].at - 1) ELSE 1..Len(txn[w].order)

Known(w) ==
  \A i \in Passed(w) :
    disk[txn[w].order[i]].bytes =
      (IF i \in Renamed(w) THEN txn[w].proposed ELSE txn[w].expected)[txn[w].order[i]]

\* Only one commit is past its first check, and nobody else touches the files it has passed.
AloneInv ==
  /\ CommitInv
  /\ \A v, w \in Writer : InWindow(v) /\ InWindow(w) => v = w
  /\ \A w \in Writer : Known(w)

Renaming(w) == txn[w].pc \in {"persist", "undo"}

----------------------------------------------------------------------------
LEMMA Window ==
  ASSUME TypeOK, NEW w \in Writer
  PROVE  /\ Renaming(w) => InWindow(w) /\ Committing(w)
         /\ ~Renaming(w) => Renamed(w) = {}
         /\ Passed(w) # {} => InWindow(w)
         /\ Committing(w) => Passed(w) \subseteq 1..Len(txn[w].order)
         /\ Renamed(w) \subseteq Passed(w)
<1>1. txn[w] \in Call /\ txn[w].pc \in {"idle", "check", "persist", "undo"}
  BY DEF TypeOK, Call
<1>2. Committing(w) => /\ txn[w].at \in 1..Len(txn[w].order)
                       /\ Len(txn[w].order) \in Nat
  BY CommittingTyped
<1>3. QED
  BY <1>1, <1>2 DEF Renaming, InWindow, Committing, Renamed, Passed

\* The abstract files, while a commit renames and while none does.
LEMMA WhileRenaming ==
  ASSUME AloneInv, NEW w \in Writer, Renaming(w)
  PROVE  AbstractFiles = [f \in File |-> IF f \in Members(txn[w].order)
                                           THEN txn[w].expected[f] ELSE disk[f].bytes]
<1>1. TypeOK /\ Committing(w) /\ InWindow(w)
  BY Window DEF AloneInv, CommitInv
<1>2. /\ txn[w].order \in Order /\ Len(txn[w].order) \in Nat
      /\ DOMAIN txn[w].order = 1..Len(txn[w].order)
      /\ Len(txn[w].original) = Len(txn[w].order)
  BY <1>1, CommittingTyped, OrderIsSeq DEF TypeOK, CallOK, Committing, Renaming
<1>3. \A v \in Writer : Renamed(v) # {} => v = w
  BY <1>1, Window DEF AloneInv
<1>4. Passed(w) = 1..Len(txn[w].order) /\ Renamed(w) \subseteq 1..Len(txn[w].order)
  BY <1>1, Window DEF Passed, Renaming, Committing
<1>5. \A i \in 1..Len(txn[w].order) :
        txn[w].original[i].bytes = txn[w].expected[txn[w].order[i]]
  BY <1>2 DEF AloneInv, CommitInv, Checked
<1>6. ASSUME NEW f \in File
      PROVE  AbstractFiles[f] = IF f \in Members(txn[w].order)
                                  THEN txn[w].expected[f] ELSE disk[f].bytes
  <2>1. CASE \E v \in Writer : \E i \in Renamed(v) : txn[v].order[i] = f
    <3> DEFINE v == CHOOSE v \in Writer : \E i \in Renamed(v) : txn[v].order[i] = f
               i == CHOOSE i \in Renamed(v) : txn[v].order[i] = f
    <3>1. v \in Writer /\ \E j \in Renamed(v) : txn[v].order[j] = f
      BY <2>1
    <3>2. v = w
      BY <1>3, <3>1
    <3>3. i \in Renamed(w) /\ txn[w].order[i] = f
      BY <3>1, <3>2
    <3>4. AbstractFiles[f] = txn[v].original[i].bytes
      BY <2>1 DEF AbstractFiles
    <3>5. f \in Members(txn[w].order) /\ i \in 1..Len(txn[w].order)
      BY <1>2, <1>4, <3>3 DEF Members
    <3>6. QED
      BY <1>5, <3>2, <3>3, <3>4, <3>5
  <2>2. CASE ~ \E v \in Writer : \E i \in Renamed(v) : txn[v].order[i] = f
    <3>1. AbstractFiles[f] = disk[f].bytes
      BY <2>2 DEF AbstractFiles
    <3>2. ASSUME f \in Members(txn[w].order) PROVE disk[f].bytes = txn[w].expected[f]
      <4>1. PICK i \in 1..Len(txn[w].order) : txn[w].order[i] = f
        BY <1>2, <3>2 DEF Members
      <4>2. i \notin Renamed(w)
        BY <2>2, <4>1
      <4>3. QED
        BY <1>4, <4>1, <4>2 DEF AloneInv, Known
    <3>3. QED
      BY <3>1, <3>2
  <2>3. QED
    BY <2>1, <2>2
<1>7. QED
  BY <1>6 DEF AbstractFiles

LEMMA WhileNotRenaming ==
  ASSUME TypeOK, \A w \in Writer : ~Renaming(w)
  PROVE  AbstractFiles = [f \in File |-> disk[f].bytes]
<1>1. \A w \in Writer : Renamed(w) = {}
  BY Window
<1>2. QED
  BY <1>1 DEF AbstractFiles

\* The same of the next state.
FilesWhileRenaming(w) ==
  AbstractFiles = [f \in File |-> IF f \in Members(txn[w].order)
                                    THEN txn[w].expected[f] ELSE disk[f].bytes]

LEMMA Files ==
  AloneInv => /\ \A w \in Writer : Renaming(w) => FilesWhileRenaming(w)
              /\ (\A w \in Writer : ~Renaming(w)) => AbstractFiles = [f \in File |-> disk[f].bytes]
BY WhileRenaming, WhileNotRenaming DEF AloneInv, CommitInv, FilesWhileRenaming

LEMMA FilesNext ==
  (AloneInv => /\ \A w \in Writer : Renaming(w) => FilesWhileRenaming(w)
               /\ (\A w \in Writer : ~Renaming(w)) => AbstractFiles = [f \in File |-> disk[f].bytes])'
BY Files, PTL

----------------------------------------------------------------------------
\* The invariant: a step of somebody else, and a step of one's own.
LEMMA OthersWait ==
  ASSUME AloneInv, NEW w \in Writer, InWindow(w), NEW v \in Writer \ {w}, Start(v) \/ Step(v)
  PROVE  disk' = disk
<1>1. ~Renaming(v)
  BY Window DEF AloneInv, CommitInv
<1>2. ~Persist(v) /\ ~Undo(v)
  BY <1>1 DEF Persist, Undo, Renaming
<1>3. CASE Start(v)
  BY <1>3 DEF Start, Begin
<1>4. CASE CheckMatches(v) \/ CheckStale(v) \/ CheckFails(v) \/ PersistFails(v) \/ UndoFails(v) \/ Crash(v)
  BY <1>4 DEF CheckMatches, CheckStale, CheckFails, PersistFails, UndoFails, Crash
<1>5. QED
  BY <1>2, <1>3, <1>4 DEF Step

LEMMA KnownElsewhere ==
  ASSUME AloneInv, NEW w \in Writer, txn'[w] = txn[w], InWindow(w) => disk' = disk
  PROVE  Known(w)'
<1>1. Passed(w)' = Passed(w) /\ Renamed(w)' = Renamed(w)
  BY DEF Passed, Renamed, Committing
<1>2. Passed(w) # {} => InWindow(w)
  BY Window DEF AloneInv, CommitInv
<1>3. QED
  BY <1>1, <1>2 DEF AloneInv, Known

LEMMA KnownAfterReturn ==
  ASSUME TypeOK, NEW w \in Writer, NEW result, Return(w, result)
  PROVE  Known(w)'
BY DEF TypeOK, Return, Idle, Known, Passed, Committing

\* What AloneInv says of a commit at the file its loop stands at.
LEMMA CommitFacts ==
  ASSUME AloneInv, NEW w \in Writer, Committing(w)
  PROVE  /\ TypeOK /\ txn[w] \in Call
         /\ Len(txn[w].order) \in Nat /\ txn[w].at \in 1..Len(txn[w].order)
         /\ DOMAIN txn[w].order = 1..Len(txn[w].order)
         /\ \A i \in 1..Len(txn[w].order) : txn[w].order[i] \in File
         /\ \A i, j \in 1..Len(txn[w].order) : txn[w].order[i] = txn[w].order[j] => i = j
         /\ Renaming(w) => \A i \in 1..Len(txn[w].order) :
                             txn[w].original[i].bytes = txn[w].expected[txn[w].order[i]]
<1>1. TypeOK
  BY DEF AloneInv, CommitInv
<1>2. /\ txn[w] \in Call /\ txn[w].order \in Order /\ Len(txn[w].order) \in Nat
      /\ txn[w].at \in 1..Len(txn[w].order)
  BY <1>1, CommittingTyped
<1>3. /\ DOMAIN txn[w].order = 1..Len(txn[w].order)
      /\ \A i \in 1..Len(txn[w].order) : txn[w].order[i] \in File
  BY <1>2, OrderIsSeq
<1>4. \A i, j \in DOMAIN txn[w].order : txn[w].order[i] = txn[w].order[j] => i = j
  BY <1>2 DEF Order
<1>5. Renaming(w) => Len(txn[w].original) = Len(txn[w].order)
  BY <1>1 DEF TypeOK, CallOK, Renaming
<1>6. QED
  BY <1>1, <1>2, <1>3, <1>4, <1>5 DEF AloneInv, CommitInv, Checked

LEMMA KnownAfterCheck ==
  ASSUME AloneInv, NEW w \in Writer, CheckMatches(w)
  PROVE  Known(w)'
<1>1. Committing(w) /\ txn[w].pc = "check"
  BY DEF CheckMatches, Committing
<1>2. /\ TypeOK /\ txn[w] \in Call
      /\ Len(txn[w].order) \in Nat /\ txn[w].at \in 1..Len(txn[w].order)
  BY <1>1, CommitFacts
<1>3. /\ txn'[w].pc = IF Last(w) THEN "persist" ELSE "check"
      /\ txn'[w].at = IF Last(w) THEN 1 ELSE txn[w].at + 1
      /\ txn'[w].order = txn[w].order
      /\ txn'[w].expected = txn[w].expected
      /\ disk' = disk
  BY <1>2 DEF CheckMatches, TypeOK, Call
<1>4. \A i \in 1..(txn[w].at - 1) : disk[txn[w].order[i]].bytes = txn[w].expected[txn[w].order[i]]
  BY <1>1 DEF AloneInv, Known, Passed, Renamed
<1>5. disk[txn[w].order[txn[w].at]].bytes = txn[w].expected[txn[w].order[txn[w].at]]
  BY DEF CheckMatches, Here
<1>6. \A i \in 1..txn[w].at : disk[txn[w].order[i]].bytes = txn[w].expected[txn[w].order[i]]
  BY <1>2, <1>4, <1>5
<1>7. Renamed(w)' = {}
  BY <1>3 DEF Renamed
<1>8. Passed(w)' = 1..txn[w].at
  BY <1>2, <1>3 DEF Passed, Committing, Last
<1>9. QED
  BY <1>3, <1>6, <1>7, <1>8 DEF Known

LEMMA KnownAfterPersist ==
  ASSUME AloneInv, NEW w \in Writer, Persist(w), ~Last(w)
  PROVE  Known(w)'
<1>1. Committing(w) /\ Renaming(w) /\ txn[w].pc = "persist"
  BY DEF Persist, Committing, Renaming
<1>2. /\ TypeOK /\ txn[w] \in Call
      /\ Len(txn[w].order) \in Nat /\ txn[w].at \in 1..Len(txn[w].order)
      /\ \A i \in 1..Len(txn[w].order) : txn[w].order[i] \in File
      /\ \A i, j \in 1..Len(txn[w].order) : txn[w].order[i] = txn[w].order[j] => i = j
  BY <1>1, CommitFacts
<1>3. /\ txn'[w].pc = "persist" /\ txn'[w].at = txn[w].at + 1
      /\ txn'[w].order = txn[w].order
      /\ txn'[w].expected = txn[w].expected /\ txn'[w].proposed = txn[w].proposed
  BY <1>1, <1>2 DEF Persist, TypeOK, Call
<1>4. \A i \in 1..Len(txn[w].order) : disk'[txn[w].order[i]].bytes =
        IF i = txn[w].at THEN txn[w].proposed[txn[w].order[i]] ELSE disk[txn[w].order[i]].bytes
  BY <1>2 DEF Persist, Here, TypeOK
<1>5. /\ Renamed(w) = 1..(txn[w].at - 1) /\ Renamed(w)' = 1..txn[w].at
      /\ Passed(w) = 1..Len(txn[w].order) /\ Passed(w)' = 1..Len(txn[w].order)
  BY <1>1, <1>2, <1>3 DEF Renamed, Passed, Committing
<1>6. \A i \in 1..Len(txn[w].order) : disk[txn[w].order[i]].bytes =
        (IF i \in 1..(txn[w].at - 1) THEN txn[w].proposed ELSE txn[w].expected)[txn[w].order[i]]
  BY <1>5 DEF AloneInv, Known
<1>7. ASSUME NEW i \in 1..Len(txn[w].order)
      PROVE  disk'[txn[w].order[i]].bytes =
               (IF i \in 1..txn[w].at THEN txn[w].proposed ELSE txn[w].expected)[txn[w].order[i]]
  <2>1. i # txn[w].at => (i \in 1..txn[w].at <=> i \in 1..(txn[w].at - 1))
    BY <1>2
  <2>2. QED
    BY <1>2, <1>4, <1>6, <2>1
<1>8. QED
  BY <1>3, <1>5, <1>7 DEF Known

LEMMA KnownAfterPersistFails ==
  ASSUME AloneInv, NEW w \in Writer, PersistFails(w), txn[w].at # 1
  PROVE  Known(w)' /\ txn'[w].pc = "undo"
<1>1. Committing(w) /\ Renaming(w) /\ txn[w].pc = "persist"
  BY DEF PersistFails, Committing, Renaming
<1>2. /\ TypeOK /\ txn[w] \in Call
      /\ Len(txn[w].order) \in Nat /\ txn[w].at \in 1..Len(txn[w].order)
  BY <1>1, CommitFacts
<1>3. /\ txn'[w].pc = "undo" /\ txn'[w].at = txn[w].at - 1
      /\ txn'[w].order = txn[w].order
      /\ txn'[w].expected = txn[w].expected /\ txn'[w].proposed = txn[w].proposed
      /\ disk' = disk
  BY <1>1, <1>2 DEF PersistFails, TypeOK, Call
<1>4. /\ Renamed(w)' = Renamed(w) /\ Passed(w)' = Passed(w)
  BY <1>1, <1>2, <1>3 DEF Renamed, Passed, Committing
<1>5. QED
  BY <1>3, <1>4 DEF AloneInv, Known

LEMMA KnownAfterUndo ==
  ASSUME AloneInv, NEW w \in Writer, Undo(w), txn[w].at # 1
  PROVE  Known(w)'
<1>1. Committing(w) /\ Renaming(w) /\ txn[w].pc = "undo"
  BY DEF Undo, Committing, Renaming
<1>2. /\ TypeOK /\ txn[w] \in Call
      /\ Len(txn[w].order) \in Nat /\ txn[w].at \in 1..Len(txn[w].order)
      /\ \A i \in 1..Len(txn[w].order) : txn[w].order[i] \in File
      /\ \A i, j \in 1..Len(txn[w].order) : txn[w].order[i] = txn[w].order[j] => i = j
      /\ \A i \in 1..Len(txn[w].order) :
           txn[w].original[i].bytes = txn[w].expected[txn[w].order[i]]
  BY <1>1, CommitFacts
<1>3. /\ txn'[w].pc = "undo" /\ txn'[w].at = txn[w].at - 1
      /\ txn'[w].order = txn[w].order
      /\ txn'[w].expected = txn[w].expected /\ txn'[w].proposed = txn[w].proposed
  BY <1>1, <1>2 DEF Undo, TypeOK, Call
<1>4. \A i \in 1..Len(txn[w].order) : disk'[txn[w].order[i]].bytes =
        IF i = txn[w].at THEN txn[w].expected[txn[w].order[i]] ELSE disk[txn[w].order[i]].bytes
  BY <1>2 DEF Undo, Here, TypeOK
<1>5. /\ Renamed(w) = 1..txn[w].at /\ Renamed(w)' = 1..(txn[w].at - 1)
      /\ Passed(w) = 1..Len(txn[w].order) /\ Passed(w)' = 1..Len(txn[w].order)
  BY <1>1, <1>2, <1>3 DEF Renamed, Passed, Committing
<1>6. \A i \in 1..Len(txn[w].order) : disk[txn[w].order[i]].bytes =
        (IF i \in 1..txn[w].at THEN txn[w].proposed ELSE txn[w].expected)[txn[w].order[i]]
  BY <1>5 DEF AloneInv, Known
<1>7. QED
  BY <1>2, <1>3, <1>4, <1>5, <1>6 DEF Known

LEMMA KnownAfterOwn ==
  ASSUME AloneInv, NEW w \in Writer, Start(w) \/ Step(w)
  PROVE  Known(w)'
<1>1. TypeOK
  BY DEF AloneInv, CommitInv
<1>2. CASE Start(w)
  BY <1>1, <1>2 DEF Start, Begin, TypeOK, Known, Passed, Committing
<1>3. CASE CheckMatches(w)
  BY <1>3, KnownAfterCheck
<1>4. CASE Persist(w)
  BY <1>1, <1>4, KnownAfterPersist, KnownAfterReturn DEF Persist
<1>5. CASE PersistFails(w)
  BY <1>1, <1>5, KnownAfterPersistFails, KnownAfterReturn DEF PersistFails
<1>6. CASE Undo(w)
  BY <1>1, <1>6, KnownAfterUndo, KnownAfterReturn DEF Undo
<1>7. CASE CheckStale(w) \/ CheckFails(w) \/ UndoFails(w) \/ Crash(w)
  BY <1>1, <1>7, KnownAfterReturn DEF CheckStale, CheckFails, UndoFails, Crash
<1>8. QED
  BY <1>2, <1>3, <1>4, <1>5, <1>6, <1>7 DEF Step

\* The first check of a commit waits until it is alone; nothing else brings one into its window.
LEMMA WindowEntered ==
  ASSUME AloneInv, Interference = FALSE, NEW w \in Writer, Start(w) \/ Step(w), InWindow(w)'
  PROVE  InWindow(w) \/ \A v \in Writer \ {w} : ~InWindow(v)
<1>1. TypeOK
  BY DEF AloneInv, CommitInv
<1>2. CASE Start(w)
  BY <1>1, <1>2 DEF Start, Begin, TypeOK, InWindow, Committing
<1>3. CASE CheckMatches(w)
  <2>1. txn[w].at = 1 \/ InWindow(w)
    <3>1. Committing(w) /\ txn[w].pc = "check"
      BY <1>3 DEF CheckMatches, Committing
    <3>2. Len(txn[w].order) \in Nat /\ txn[w].at \in 1..Len(txn[w].order)
      BY <3>1, CommitFacts
    <3>3. QED
      BY <3>1, <3>2 DEF InWindow
  <2>2. QED
    BY <1>3, <2>1 DEF CheckMatches, Alone
<1>4. CASE Persist(w) \/ PersistFails(w) \/ Undo(w)
  BY <1>1, <1>4, Window DEF Persist, PersistFails, Undo, Renaming
<1>5. CASE CheckStale(w) \/ CheckFails(w) \/ UndoFails(w) \/ Crash(w)
  BY <1>1, <1>5 DEF CheckStale, CheckFails, UndoFails, Crash, Return, Idle, TypeOK, InWindow, Committing
<1>6. QED
  BY <1>2, <1>3, <1>4, <1>5 DEF Step

LEMMA AloneStep ==
  ASSUME AloneInv, Interference = FALSE, [Next]_vars
  PROVE  AloneInv'
<1>1. CommitInv' /\ TypeOK
  BY CommitInvStep DEF AloneInv, CommitInv
<1>2. ASSUME NEW u \in Writer, Start(u) \/ Step(u) PROVE AloneInv'
  <2>1. ASSUME NEW w \in Writer \ {u} PROVE txn'[w] = txn[w]
    BY <1>1, <1>2, StepElsewhere
  <2>2. ASSUME NEW w \in Writer \ {u} PROVE InWindow(w)' <=> InWindow(w)
    BY <2>1 DEF InWindow, Committing
  <2>3. ASSUME NEW v \in Writer, NEW w \in Writer, InWindow(v)', InWindow(w)' PROVE v = w
    <3>1. CASE v # u /\ w # u
      BY <2>2, <2>3, <3>1 DEF AloneInv
    <3>2. CASE v = u
      BY <1>2, <2>2, <2>3, <3>2, WindowEntered DEF AloneInv
    <3>3. CASE w = u
      BY <1>2, <2>2, <2>3, <3>3, WindowEntered DEF AloneInv
    <3>4. QED
      BY <3>1, <3>2, <3>3
  <2>4. ASSUME NEW w \in Writer PROVE Known(w)'
    <3>1. CASE w = u
      BY <1>2, <3>1, KnownAfterOwn
    <3>2. CASE w # u
      <4>1. InWindow(w) => disk' = disk
        BY <1>2, <3>2, OthersWait
      <4>2. QED
        BY <2>1, <3>2, <4>1, KnownElsewhere
    <3>3. QED
      BY <3>1, <3>2
  <2>5. QED
    BY <1>1, <2>3, <2>4 DEF AloneInv
<1>3. CASE EditorWrites
  <2>1. txn' = txn /\ \A w \in Writer : ~InWindow(w)
    BY <1>3 DEF EditorWrites, Edit
  <2>2. \A w \in Writer : InWindow(w)' <=> InWindow(w)
    BY <2>1 DEF InWindow, Committing
  <2>3. \A w \in Writer : Known(w)'
    BY <2>1, KnownElsewhere
  <2>4. QED
    BY <1>1, <2>1, <2>2, <2>3 DEF AloneInv
<1>4. CASE UNCHANGED vars
  <2>1. txn' = txn /\ disk' = disk
    BY <1>4 DEF vars
  <2>2. \A w \in Writer : InWindow(w)' <=> InWindow(w)
    BY <2>1 DEF InWindow, Committing
  <2>3. \A w \in Writer : Known(w)'
    BY <2>1, KnownElsewhere
  <2>4. QED
    BY <1>1, <2>2, <2>3 DEF AloneInv
<1>5. QED
  BY <1>2, <1>3, <1>4 DEF Next

LEMMA AloneInit == Init => AloneInv
<1> SUFFICES ASSUME Init PROVE AloneInv
  OBVIOUS
<1>1. \A w \in Writer : txn[w].pc = "idle"
  BY DEF Init, Idle
<1>2. QED
  BY <1>1, CommitInvInit DEF AloneInv, InWindow, Committing, Known, Passed

----------------------------------------------------------------------------
\* The simulation.
LEMMA CallAfter ==
  ASSUME TypeOK, NEW w \in Writer, NEW t, txn' = [txn EXCEPT ![w] = t]
  PROVE  AbstractCall' = [AbstractCall EXCEPT ![w] =
           [active |-> t.pc # "idle", expected |-> t.expected, proposed |-> t.proposed,
            result |-> t.result]]
BY DEF TypeOK, AbstractCall, Committing

LEMMA CallAfterReturn ==
  ASSUME TypeOK, NEW w \in Writer, NEW result, Return(w, result)
  PROVE  AbstractCall' = [AbstractCall EXCEPT ![w] = A!Ended(result)]
<1>1. txn' = [txn EXCEPT ![w] = Idle(result)]
  BY DEF Return
<1>2. A!Ended(result) = [active |-> FALSE, expected |-> NoBytes, proposed |-> NoBytes, result |-> result]
  BY DEF A!Ended, A!NoBytes, NoBytes
<1>3. AbstractCall' = [AbstractCall EXCEPT ![w] =
        [active |-> Idle(result).pc # "idle", expected |-> Idle(result).expected,
         proposed |-> Idle(result).proposed, result |-> Idle(result).result]]
  BY <1>1, CallAfter
<1>4. QED
  BY <1>2, <1>3 DEF Idle

\* A step that renames nothing and after which the same commits are renaming.
LEMMA FilesKept ==
  ASSUME AloneInv, AloneInv', disk' = disk,
         \A w \in Writer : /\ Renaming(w)' <=> Renaming(w)
                           /\ Renaming(w) => /\ txn'[w].order = txn[w].order
                                             /\ txn'[w].expected = txn[w].expected
  PROVE  AbstractFiles' = AbstractFiles
<1>1. CASE \A w \in Writer : ~Renaming(w)
  BY <1>1, Files, FilesNext
<1>2. ASSUME NEW w \in Writer, Renaming(w) PROVE AbstractFiles' = AbstractFiles
  <2>1. FilesWhileRenaming(w) /\ FilesWhileRenaming(w)'
    BY <1>2, Files, FilesNext
  <2>2. QED
    BY <1>2, <2>1 DEF FilesWhileRenaming
<1>3. QED
  BY <1>1, <1>2

LEMMA StartSubmits ==
  ASSUME AloneInv, AloneInv', NEW w \in Writer, Start(w)
  PROVE  A!Submit(w)
<1>1. TypeOK
  BY DEF AloneInv, CommitInv
<1>2. PICK order \in Order : \E proposed \in [Members(order) -> Bytes] :
        Begin(w, order, [f \in Members(order) |-> disk[f].bytes], proposed)
  BY DEF Start
<1>3. PICK proposed \in [Members(order) -> Bytes] :
        Begin(w, order, [f \in Members(order) |-> disk[f].bytes], proposed)
  BY <1>2
<1> DEFINE expected == [f \in Members(order) |-> disk[f].bytes]
<1>4. Members(order) \subseteq File
  BY OrderIsSeq DEF Members
<1>5. expected \in [A!Members(order) -> Bytes] /\ proposed \in [A!Members(order) -> Bytes]
  BY <1>1, <1>3, <1>4 DEF Members, A!Members, TypeOK, Content
<1>6. AbstractCall' = [AbstractCall EXCEPT ![w] =
        [active |-> TRUE, expected |-> expected, proposed |-> proposed, result |-> "none"]]
  BY <1>1, <1>3, CallAfter DEF Begin
<1>7. AbstractFiles' = AbstractFiles
  BY <1>1, <1>3, FilesKept DEF Begin, TypeOK, Renaming, Committing
<1>8. ~AbstractCall[w].active
  BY <1>3 DEF Begin, AbstractCall
<1>9. QED
  BY <1>5, <1>6, <1>7, <1>8 DEF A!Submit

\* A step of the loops that does not end the commit is a stutter: the abstract files are what
\* Files says before and after it.
LEMMA CallKept ==
  ASSUME TypeOK, NEW w \in Writer, NEW t, txn' = [txn EXCEPT ![w] = t], Committing(w),
         t.pc # "idle", t.expected = txn[w].expected, t.proposed = txn[w].proposed,
         t.result = txn[w].result
  PROVE  AbstractCall' = AbstractCall
BY DEF TypeOK, AbstractCall, Committing

LEMMA CheckStutters ==
  ASSUME AloneInv, AloneInv', Interference = FALSE, NEW w \in Writer, CheckMatches(w)
  PROVE  UNCHANGED A!vars
<1>1. Committing(w) /\ txn[w].pc = "check"
  BY DEF CheckMatches, Committing
<1>2. TypeOK /\ txn[w] \in Call
  BY <1>1, CommitFacts
<1> DEFINE t == [txn[w] EXCEPT !.original = Append(@, disk[Here(w)]),
                               !.pc = IF Last(w) THEN "persist" ELSE "check",
                               !.at = IF Last(w) THEN 1 ELSE @ + 1]
<1>3. txn' = [txn EXCEPT ![w] = t] /\ disk' = disk
  BY <1>2 DEF CheckMatches, TypeOK, Call
<1>4. /\ t.pc = IF Last(w) THEN "persist" ELSE "check"
      /\ t.at = IF Last(w) THEN 1 ELSE txn[w].at + 1
      /\ t.order = txn[w].order /\ t.expected = txn[w].expected
      /\ t.proposed = txn[w].proposed /\ t.result = txn[w].result
  BY <1>2 DEF Call
<1> HIDE DEF t
<1>5. AbstractCall' = AbstractCall
  BY <1>1, <1>2, <1>3, <1>4, CallKept
<1>6. txn'[w] = t /\ \A v \in Writer \ {w} : txn'[v] = txn[v]
  BY <1>2, <1>3 DEF TypeOK
<1>7. CASE ~Last(w)
  <2>1. AbstractFiles' = AbstractFiles
    BY <1>1, <1>3, <1>4, <1>6, <1>7, FilesKept DEF Renaming
  <2>2. QED
    BY <1>5, <2>1 DEF A!vars
<1>8. CASE Last(w)
  <2>1. Renaming(w)' /\ InWindow(w)'
    BY <1>4, <1>6, <1>8 DEF Renaming, InWindow, Committing
  <2>2. \A v \in Writer : ~Renaming(v)
    <3>1. ~Renaming(w)
      BY <1>1 DEF Renaming
    <3>2. ASSUME NEW v \in Writer \ {w} PROVE ~Renaming(v)
      <4>1. SUFFICES ASSUME Renaming(v) PROVE FALSE
        OBVIOUS
      <4>2. InWindow(v)
        BY <1>2, <4>1, Window
      <4>3. InWindow(v)'
        BY <1>6, <4>2 DEF InWindow, Committing
      <4>4. QED
        BY <2>1, <4>3 DEF AloneInv
    <3>3. QED
      BY <3>1, <3>2
  <2>3. AbstractFiles = [f \in File |-> disk[f].bytes]
    BY <2>2, Files
  <2>4. FilesWhileRenaming(w)'
    BY <2>1, FilesNext
  <2>5. ASSUME NEW f \in Members(txn[w].order) PROVE disk[f].bytes = txn[w].expected[f]
    <3>1. Len(txn[w].order) \in Nat /\ DOMAIN txn[w].order = 1..Len(txn[w].order)
      BY <1>1, CommitFacts
    <3>2. Renamed(w)' = {} /\ Passed(w)' = 1..Len(txn[w].order)
      BY <1>4, <1>6, <1>8, <3>1 DEF Renamed, Passed, Committing
    <3>3. PICK i \in 1..Len(txn[w].order) : txn[w].order[i] = f
      BY <3>1 DEF Members
    <3>4. QED
      BY <1>3, <1>4, <1>6, <3>2, <3>3 DEF AloneInv, Known
  <2>6. AbstractFiles' = AbstractFiles
    BY <1>3, <1>4, <1>6, <2>3, <2>4, <2>5 DEF FilesWhileRenaming
  <2>7. QED
    BY <1>5, <2>6 DEF A!vars
<1>9. QED
  BY <1>7, <1>8

\* A rename inside the plan leaves the files of the plan at what the abstract commit expects, and
\* the others alone.
LEMMA RenameStutters ==
  ASSUME AloneInv, AloneInv', NEW w \in Writer, Renaming(w), Renaming(w)',
         txn'[w].order = txn[w].order, txn'[w].expected = txn[w].expected,
         \A f \in File \ Members(txn[w].order) : disk'[f] = disk[f]
  PROVE  AbstractFiles' = AbstractFiles
<1>1. FilesWhileRenaming(w) /\ FilesWhileRenaming(w)'
  BY Files, FilesNext
<1>2. QED
  BY <1>1 DEF FilesWhileRenaming

LEMMA PersistSimulated ==
  ASSUME AloneInv, AloneInv', NEW w \in Writer, Persist(w)
  PROVE  A!Succeed(w) \/ UNCHANGED A!vars
<1>1. Committing(w) /\ Renaming(w) /\ txn[w].pc = "persist"
  BY DEF Persist, Committing, Renaming
<1>2. /\ TypeOK /\ txn[w] \in Call
      /\ Len(txn[w].order) \in Nat /\ txn[w].at \in 1..Len(txn[w].order)
      /\ DOMAIN txn[w].order = 1..Len(txn[w].order)
      /\ Here(w) \in Members(txn[w].order)
      /\ \A i \in 1..Len(txn[w].order) : txn[w].order[i] \in File
      /\ \A i, j \in 1..Len(txn[w].order) : txn[w].order[i] = txn[w].order[j] => i = j
      /\ txn[w].proposed \in [Members(txn[w].order) -> Bytes]
  BY <1>1, CommitFacts, CommittingTyped
<1>3. \A f \in File : disk'[f] = IF f = Here(w)
                                 THEN [bytes |-> txn[w].proposed[Here(w)],
                                       mode |-> txn[w].original[txn[w].at].mode]
                                 ELSE disk[f]
  BY <1>2 DEF Persist, TypeOK
<1>4. FilesWhileRenaming(w)
  BY <1>1, Files
<1>5. CASE ~Last(w)
  <2> DEFINE t == [txn[w] EXCEPT !.at = @ + 1]
  <2>1. txn' = [txn EXCEPT ![w] = t] /\ txn'[w] = t
    BY <1>2, <1>5 DEF Persist, TypeOK
  <2>2. /\ t.pc = "persist" /\ t.order = txn[w].order /\ t.expected = txn[w].expected
        /\ t.proposed = txn[w].proposed /\ t.result = txn[w].result
    BY <1>1, <1>2 DEF Call
  <2> HIDE DEF t
  <2>3. AbstractCall' = AbstractCall
    BY <1>1, <1>2, <2>1, <2>2, CallKept
  <2>4. AbstractFiles' = AbstractFiles
    BY <1>1, <1>2, <1>3, <2>1, <2>2, RenameStutters DEF Renaming
  <2>5. QED
    BY <2>3, <2>4 DEF A!vars
<1>6. CASE Last(w)
  <2>1. Return(w, "ok") /\ txn'[w] = Idle("ok") /\ \A v \in Writer \ {w} : txn'[v] = txn[v]
    BY <1>2, <1>6 DEF Persist, Return, TypeOK
  <2>2. \A v \in Writer : ~Renaming(v)'
    <3>1. ~Renaming(w)'
      BY <2>1 DEF Renaming, Idle
    <3>2. \A v \in Writer \ {w} : ~Renaming(v)
      BY <1>1, <1>2, Window DEF AloneInv
    <3>3. QED
      BY <2>1, <3>1, <3>2 DEF Renaming
  <2>3. AbstractFiles' = [f \in File |-> disk'[f].bytes]
    BY <2>2, FilesNext
  <2>4. ASSUME NEW f \in Members(txn[w].order) PROVE disk'[f].bytes = txn[w].proposed[f]
    <3>1. PICK i \in 1..Len(txn[w].order) : txn[w].order[i] = f
      BY <1>2 DEF Members
    <3>2. CASE f = Here(w)
      BY <1>2, <1>3, <3>1, <3>2
    <3>3. CASE f # Here(w)
      <4>1. i \in 1..(txn[w].at - 1)
        BY <1>2, <1>6, <3>1, <3>3 DEF Here, Last
      <4>2. i \in Passed(w) /\ i \in Renamed(w)
        BY <1>1, <3>1, <4>1 DEF Passed, Renamed
      <4>3. disk[f].bytes = txn[w].proposed[f]
        BY <3>1, <4>2 DEF AloneInv, Known
      <4>4. QED
        BY <1>2, <1>3, <3>1, <3>3, <4>3
    <3>4. QED
      BY <3>2, <3>3
  <2>5. DOMAIN AbstractCall[w].proposed = Members(txn[w].order)
        /\ AbstractCall[w].active /\ AbstractCall[w].proposed = txn[w].proposed
        /\ AbstractCall[w].expected = txn[w].expected
    BY <1>1, <1>2 DEF AbstractCall
  <2>6. Members(txn[w].order) \subseteq File
    BY <1>2 DEF Members
  <2>7. \A f \in Members(txn[w].order) : AbstractFiles[f] = txn[w].expected[f]
    BY <1>4, <2>6 DEF FilesWhileRenaming
  <2>8. AbstractFiles' = [f \in File |-> IF f \in Members(txn[w].order)
                                           THEN txn[w].proposed[f] ELSE AbstractFiles[f]]
    BY <1>2, <1>3, <1>4, <2>3, <2>4 DEF FilesWhileRenaming
  <2>9. AbstractCall' = [AbstractCall EXCEPT ![w] = A!Ended("ok")]
    BY <1>2, <2>1, CallAfterReturn
  <2>10. QED
    BY <2>5, <2>7, <2>8, <2>9 DEF A!Succeed
<1>7. QED
  BY <1>5, <1>6

\* A commit that ends without renaming anything in this step, and nobody else is renaming files.
LEMMA EndFails ==
  ASSUME AloneInv, AloneInv', NEW w \in Writer, ~Renaming(w), Committing(w),
         NEW result \in {"changed", "io"}, Return(w, result), disk' = disk
  PROVE  A!Fail(w)
<1>1. TypeOK
  BY DEF AloneInv, CommitInv
<1>2. txn'[w] = Idle(result) /\ \A v \in Writer \ {w} : txn'[v] = txn[v]
  BY <1>1 DEF Return, TypeOK
<1>3. AbstractFiles' = AbstractFiles
  BY <1>2, FilesKept DEF Renaming, Idle
<1>4. AbstractCall' = [AbstractCall EXCEPT ![w] = A!Ended(result)]
  BY <1>1, CallAfterReturn
<1>5. AbstractCall[w].active
  BY DEF AbstractCall
<1>6. QED
  BY <1>3, <1>4, <1>5 DEF A!Fail

\* A commit that ends with every file of its plan at the bytes it expects.
LEMMA EndRestored ==
  ASSUME AloneInv, AloneInv', NEW w \in Writer, Renaming(w), Return(w, "io"),
         \A f \in Members(txn[w].order) : disk'[f].bytes = txn[w].expected[f],
         \A f \in File \ Members(txn[w].order) : disk'[f] = disk[f]
  PROVE  A!Fail(w)
<1>1. TypeOK /\ InWindow(w) /\ Committing(w)
  BY Window DEF AloneInv, CommitInv
<1>2. txn'[w] = Idle("io") /\ \A v \in Writer \ {w} : txn'[v] = txn[v]
  BY <1>1 DEF Return, TypeOK
<1>3. \A v \in Writer : ~Renaming(v)'
  <2>1. ~Renaming(w)'
    BY <1>2 DEF Renaming, Idle
  <2>2. \A v \in Writer \ {w} : ~Renaming(v)
    BY <1>1, Window DEF AloneInv
  <2>3. QED
    BY <1>2, <2>1, <2>2 DEF Renaming
<1>4. AbstractFiles' = [f \in File |-> disk'[f].bytes]
  BY <1>3, FilesNext
<1>5. AbstractFiles' = AbstractFiles
  BY <1>4, Files DEF FilesWhileRenaming
<1>6. AbstractCall' = [AbstractCall EXCEPT ![w] = A!Ended("io")]
  BY <1>1, CallAfterReturn
<1>7. AbstractCall[w].active
  BY <1>1 DEF AbstractCall
<1>8. QED
  BY <1>5, <1>6, <1>7 DEF A!Fail

LEMMA PersistFailsSimulated ==
  ASSUME AloneInv, AloneInv', NEW w \in Writer, PersistFails(w)
  PROVE  A!Fail(w) \/ UNCHANGED A!vars
<1>1. Committing(w) /\ Renaming(w) /\ txn[w].pc = "persist" /\ disk' = disk
  BY DEF PersistFails, Committing, Renaming
<1>2. /\ TypeOK /\ txn[w] \in Call
      /\ Len(txn[w].order) \in Nat /\ txn[w].at \in 1..Len(txn[w].order)
      /\ DOMAIN txn[w].order = 1..Len(txn[w].order)
  BY <1>1, CommitFacts
<1>3. CASE txn[w].at = 1
  <2>1. Passed(w) = 1..Len(txn[w].order) /\ Renamed(w) = {}
    BY <1>1, <1>3 DEF Passed, Renamed
  <2>2. ASSUME NEW f \in Members(txn[w].order) PROVE disk'[f].bytes = txn[w].expected[f]
    <3>1. PICK i \in 1..Len(txn[w].order) : txn[w].order[i] = f
      BY <1>2 DEF Members
    <3>2. QED
      BY <1>1, <2>1, <3>1 DEF AloneInv, Known
  <2>3. QED
    BY <1>1, <1>3, <2>2, EndRestored DEF PersistFails
<1>4. CASE txn[w].at # 1
  <2> DEFINE t == [txn[w] EXCEPT !.pc = "undo", !.at = @ - 1]
  <2>1. txn' = [txn EXCEPT ![w] = t] /\ txn'[w] = t
    BY <1>2, <1>4 DEF PersistFails, TypeOK
  <2>2. /\ t.pc = "undo" /\ t.order = txn[w].order /\ t.expected = txn[w].expected
        /\ t.proposed = txn[w].proposed /\ t.result = txn[w].result
    BY <1>1, <1>2 DEF Call
  <2> HIDE DEF t
  <2>3. AbstractCall' = AbstractCall
    BY <1>1, <1>2, <2>1, <2>2, CallKept
  <2>4. AbstractFiles' = AbstractFiles
    BY <1>1, <2>1, <2>2, RenameStutters DEF Renaming
  <2>5. QED
    BY <2>3, <2>4 DEF A!vars
<1>5. QED
  BY <1>3, <1>4

LEMMA UndoSimulated ==
  ASSUME AloneInv, AloneInv', NEW w \in Writer, Undo(w)
  PROVE  A!Fail(w) \/ UNCHANGED A!vars
<1>1. Committing(w) /\ Renaming(w) /\ txn[w].pc = "undo"
  BY DEF Undo, Committing, Renaming
<1>2. /\ TypeOK /\ txn[w] \in Call
      /\ Len(txn[w].order) \in Nat /\ txn[w].at \in 1..Len(txn[w].order)
      /\ DOMAIN txn[w].order = 1..Len(txn[w].order)
      /\ Here(w) \in Members(txn[w].order)
      /\ \A i \in 1..Len(txn[w].order) : txn[w].order[i] \in File
      /\ \A i \in 1..Len(txn[w].order) :
           txn[w].original[i].bytes = txn[w].expected[txn[w].order[i]]
  BY <1>1, CommitFacts, CommittingTyped
<1>3. \A f \in File : /\ f = Here(w) => disk'[f].bytes = txn[w].expected[f]
                      /\ f # Here(w) => disk'[f] = disk[f]
  BY <1>2 DEF Undo, TypeOK, Here
<1>4. CASE txn[w].at = 1
  <2>1. Passed(w) = 1..Len(txn[w].order) /\ Renamed(w) = 1..1
    BY <1>1, <1>4 DEF Passed, Renamed
  <2>2. ASSUME NEW f \in Members(txn[w].order) PROVE disk'[f].bytes = txn[w].expected[f]
    <3>1. PICK i \in 1..Len(txn[w].order) : txn[w].order[i] = f
      BY <1>2 DEF Members
    <3>2. CASE f = Here(w)
      BY <1>2, <1>3, <3>1, <3>2
    <3>3. CASE f # Here(w)
      <4>1. i # 1
        BY <1>4, <3>1, <3>3 DEF Here
      <4>2. disk[f].bytes = txn[w].expected[f]
        BY <2>1, <3>1, <4>1 DEF AloneInv, Known
      <4>3. QED
        BY <1>2, <1>3, <3>1, <3>3, <4>2
    <3>4. QED
      BY <3>2, <3>3
  <2>3. Return(w, "io")
    BY <1>4 DEF Undo
  <2>4. QED
    BY <1>1, <1>2, <1>3, <2>2, <2>3, EndRestored
<1>5. CASE txn[w].at # 1
  <2> DEFINE t == [txn[w] EXCEPT !.at = @ - 1]
  <2>1. txn' = [txn EXCEPT ![w] = t] /\ txn'[w] = t
    BY <1>2, <1>5 DEF Undo, TypeOK
  <2>2. /\ t.pc = "undo" /\ t.order = txn[w].order /\ t.expected = txn[w].expected
        /\ t.proposed = txn[w].proposed /\ t.result = txn[w].result
    BY <1>1, <1>2 DEF Call
  <2> HIDE DEF t
  <2>3. AbstractCall' = AbstractCall
    BY <1>1, <1>2, <2>1, <2>2, CallKept
  <2>4. AbstractFiles' = AbstractFiles
    BY <1>1, <1>2, <1>3, <2>1, <2>2, RenameStutters DEF Renaming
  <2>5. QED
    BY <2>3, <2>4 DEF A!vars
<1>6. QED
  BY <1>4, <1>5

LEMMA EditSimulated ==
  ASSUME AloneInv, AloneInv', Interference = FALSE, EditorWrites
  PROVE  A!Edit
<1>1. PICK f \in File, bytes \in Bytes : Edit(f, bytes)
  BY DEF EditorWrites
<1>2. TypeOK /\ txn' = txn /\ \A w \in Writer : ~InWindow(w)
  BY <1>1 DEF Edit, AloneInv, CommitInv
<1>3. \A w \in Writer : ~Renaming(w) /\ ~Renaming(w)'
  BY <1>2, Window DEF Renaming
<1>4. /\ AbstractFiles = [g \in File |-> disk[g].bytes]
      /\ AbstractFiles' = [g \in File |-> disk'[g].bytes]
  BY <1>3, Files, FilesNext
<1>5. AbstractFiles' = [AbstractFiles EXCEPT ![f] = bytes]
  BY <1>1, <1>2, <1>4 DEF Edit, TypeOK, Content
<1>6. AbstractCall' = AbstractCall
  BY <1>2 DEF AbstractCall, Committing
<1>7. QED
  BY <1>5, <1>6 DEF A!Edit

----------------------------------------------------------------------------
\* Every step maps to a step of AtomicCommit or to a stutter.
LEMMA StepSimulated ==
  ASSUME AloneInv, AloneInv', Interference = FALSE, Fault \cap {"undo", "crash"} = {}, [Next]_vars
  PROVE  [A!Next]_A!vars
<1>1. ASSUME NEW w \in Writer, Start(w) PROVE A!Submit(w)
  BY <1>1, StartSubmits
<1>2. ASSUME NEW w \in Writer, Step(w)
      PROVE  A!Succeed(w) \/ A!Fail(w) \/ UNCHANGED A!vars
  <2>1. CASE CheckMatches(w)
    BY <2>1, CheckStutters
  <2>2. CASE CheckStale(w) \/ CheckFails(w)
    BY <2>2, EndFails DEF CheckStale, CheckFails, Renaming, Committing
  <2>3. CASE Persist(w)
    BY <2>3, PersistSimulated
  <2>4. CASE PersistFails(w)
    BY <2>4, PersistFailsSimulated
  <2>5. CASE Undo(w)
    BY <2>5, UndoSimulated
  <2>6. ~UndoFails(w) /\ ~Crash(w)
    BY DEF UndoFails, Crash
  <2>7. QED
    BY <1>2, <2>1, <2>2, <2>3, <2>4, <2>5, <2>6 DEF Step
<1>3. CASE EditorWrites
  BY <1>3, EditSimulated DEF A!Next
<1>4. CASE UNCHANGED vars
  <2>1. AbstractFiles' = AbstractFiles
    BY <1>4, FilesKept DEF vars, Renaming
  <2>2. AbstractCall' = AbstractCall
    BY <1>4 DEF vars, AbstractCall, Committing
  <2>3. QED
    BY <2>1, <2>2 DEF A!vars
<1>5. QED
  BY <1>1, <1>2, <1>3, <1>4 DEF Next, A!Next

LEMMA InitSimulated ==
  ASSUME Init
  PROVE  A!Init
<1>1. TypeOK /\ \A w \in Writer : txn[w] = Idle("none")
  BY TypeInit DEF Init
<1>2. AbstractFiles = [f \in File |-> disk[f].bytes]
  BY <1>1, WhileNotRenaming DEF Renaming, Idle
<1>3. AbstractFiles \in [File -> Bytes]
  BY <1>1, <1>2 DEF TypeOK, Content
<1>4. AbstractCall = [w \in Writer |-> A!Ended("none")]
  <2>1. A!Ended("none") = [active |-> FALSE, expected |-> NoBytes, proposed |-> NoBytes,
                           result |-> "none"]
    BY DEF A!Ended, A!NoBytes, NoBytes
  <2>2. \A w \in Writer : /\ Committing(w) = FALSE /\ txn[w].expected = NoBytes
                          /\ txn[w].proposed = NoBytes /\ txn[w].result = "none"
    BY <1>1 DEF Idle, Committing
  <2>3. QED
    BY <2>1, <2>2 DEF AbstractCall
<1>5. QED
  BY <1>3, <1>4 DEF A!Init

\* For any number of writers, files and bytes: where nobody writes into another's window, and no
\* process dies or fails in its rollback, TransactionPlan::commit implements AtomicCommit.
THEOREM CommitIsAtomic ==
  ASSUME Interference = FALSE, Fault \cap {"undo", "crash"} = {}
  PROVE  Spec => Atomic
<1>1. Init => AloneInv
  BY AloneInit
<1>2. AloneInv /\ [Next]_vars => AloneInv'
  BY AloneStep
<1>3. Init => A!Init
  BY InitSimulated
<1>4. AloneInv /\ AloneInv' /\ [Next]_vars => [A!Next]_A!vars
  BY StepSimulated
<1>5. QED
  BY <1>1, <1>2, <1>3, <1>4, PTL DEF Spec, Atomic, A!Spec
=============================================================================
