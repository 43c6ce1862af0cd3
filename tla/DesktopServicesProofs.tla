------------------------ MODULE DesktopServicesProofs ------------------------
(***************************************************************************)
(* What pushes and comparisons promise (ProviderPush), for every number of *)
(* keys and changes by others and every set of providers: receipts are     *)
(* true, errors have sent nothing, comparisons are right, and nothing is   *)
(* written that was not chosen.  And what the migration of the log         *)
(* promises (ActivityLog), for every number of events, lines, starts and   *)
(* brokers: none of the newest events is lost.                             *)
(***************************************************************************)
EXTENDS DesktopServices, FiniteSetTheorems, SequenceTheorems, WellFoundedInduction, TLAPS

LEMMA AbsentValues == Absent \notin Bytes /\ Empty \notin Bytes
BY PushesAssumption DEF Pushes!PushAssumption

LEMMA NothingTyped ==
  ASSUME NEW S
  PROVE  Pushes!Nothing \in Pushes!Partial(S) /\ DOMAIN Pushes!Nothing = {}
<1>1. Pushes!Nothing \in [{} -> S] /\ DOMAIN Pushes!Nothing = {}
  BY DEF Pushes!Nothing
<1>2. QED
  BY <1>1 DEF Pushes!Partial

LEMMA PartialTyped ==
  ASSUME NEW S, NEW K \in SUBSET Key, NEW f \in [K -> S]
  PROVE  f \in Pushes!Partial(S)
BY DEF Pushes!Partial

LEMMA PartialFacts ==
  ASSUME NEW S, NEW f \in Pushes!Partial(S)
  PROVE  DOMAIN f \subseteq Key /\ \A k \in DOMAIN f : f[k] \in S
BY DEF Pushes!Partial

\* The keys of a call, in order and as a set.
LEMMA KeysFacts ==
  ASSUME NEW keys \in Seq(Key)
  PROVE  /\ Len(keys) \in Nat /\ DOMAIN keys = 1..Len(keys)
         /\ \A i \in 1..Len(keys) : keys[i] \in Key
         /\ Pushes!Range(keys) = { keys[i] : i \in 1..Len(keys) }
         /\ Pushes!Range(keys) \subseteq Key
BY LenProperties DEF Pushes!Range

\* No call, or one whose locals have their types.
LEMMA CallTyped ==
  ASSUME Pushes!PushInv
  PROVE  /\ call.pc = "idle" => call = Pushes!NoCall
         /\ call.pc # "idle" =>
              /\ call \in Pushes!CallRecord /\ Pushes!Req.keys \in Seq(Key)
              /\ call.at \in Nat /\ call.failed \in SUBSET Key
              /\ call.acked \in Pushes!Partial(Pushes!Account)
BY DEF Pushes!PushInv, Pushes!TypeOK, Pushes!NoCall, Pushes!CallRecord, Pushes!Req

LEMMA InitPush ==
  ASSUME Pushes!Init
  PROVE  Pushes!PushInv
<1>1. call = Pushes!NoCall /\ call.pc = "idle"
  BY DEF Pushes!Init, Pushes!NoCall
<1>2. Pushes!TypeOK
  BY <1>1 DEF Pushes!Init, Pushes!TypeOK, Pushes!NoReceipt, Pushes!Untouched, Pushes!Account
<1>3. QED
  BY <1>1, <1>2
     DEF Pushes!PushInv, Pushes!ChecksHold, Pushes!ValuesHold, Pushes!NothingDone,
         Pushes!LoopsAccount,
         Pushes!AckedIsStored, Pushes!LookedIsTrue, Pushes!ReceiptIsTrue, Pushes!ErrorSentNothing,
         Pushes!ComparisonIsTrue, Pushes!At, Pushes!Returned

----------------------------------------------------------------------------
\* Between calls.

LEMMA InvokeStep ==
  ASSUME Pushes!PushInv, NEW s \in Pushes!Selection, NEW op \in {"push", "compare"},
         NEW provider \in Provider,
         NEW pinned \in BOOLEAN, Pushes!Invoke(Pushes!Request(op, provider, pinned, s))
  PROVE  Pushes!PushInv'
<1> DEFINE req == Pushes!Request(op, provider, pinned, s)
<1>1. s.keys \in Seq(Key) /\ s.odd \in SUBSET Key /\ s.long \in SUBSET Key
  <2>1. PICK n \in 0..MaxKeys : s.keys \in [1..n -> Key]
    BY DEF Pushes!Selection
  <2>2. n \in Nat
    BY PushesAssumption DEF Pushes!PushAssumption
  <2>3. QED
    BY <2>1, <2>2 DEF Pushes!Selection
<1>2. /\ req.op = op /\ req.keys = s.keys
      /\ req \in [op : {"push", "compare"}, provider : Provider, pinned : BOOLEAN,
           keys : Seq(Key), odd : SUBSET Key, long : SUBSET Key]
  BY <1>1 DEF Pushes!Request
<1> HIDE DEF req
<1>3. /\ Pushes!Begun(req) \in Pushes!CallRecord
      /\ Pushes!Begun(req).pc = IF req.op = "push" THEN "prepare" ELSE "read"
      /\ Pushes!Begun(req).acked = Pushes!Nothing /\ Pushes!Begun(req).items = Pushes!Nothing
      /\ Pushes!Begun(req).failed = {} /\ Pushes!Begun(req).at = 1 /\ Pushes!Begun(req).req = req
  BY <1>2, NothingTyped DEF Pushes!Begun, Pushes!CallRecord
<1>4. call' = Pushes!Begun(req) /\ others' = Pushes!Untouched /\ UNCHANGED <<local, remote, login, receipt, changes>>
  BY DEF Pushes!Invoke, req
<1>5. Pushes!TypeOK'
  BY <1>3, <1>4 DEF Pushes!PushInv, Pushes!TypeOK, Pushes!Untouched
<1>6. /\ Pushes!ChecksHold' /\ Pushes!ValuesHold' /\ Pushes!NothingDone' /\ Pushes!LoopsAccount'
      /\ Pushes!AckedIsStored'
      /\ Pushes!LookedIsTrue' /\ Pushes!ReceiptIsTrue' /\ Pushes!ErrorSentNothing'
      /\ Pushes!ComparisonIsTrue'
  BY <1>2, <1>3, <1>4, NothingTyped
     DEF Pushes!ChecksHold, Pushes!ValuesHold, Pushes!NothingDone, Pushes!LoopsAccount, Pushes!Req,
         Pushes!AckedIsStored, Pushes!LookedIsTrue, Pushes!ReceiptIsTrue, Pushes!ErrorSentNothing,
         Pushes!ComparisonIsTrue, Pushes!At, Pushes!Returned
<1>7. QED
  BY <1>5, <1>6 DEF Pushes!PushInv

LEMMA ReturnStep ==
  ASSUME Pushes!PushInv, Pushes!Return
  PROVE  Pushes!PushInv'
<1>1. call' = Pushes!NoCall /\ call'.pc = "idle"
  BY DEF Pushes!Return, Pushes!NoCall
<1>2. Pushes!TypeOK'
  BY <1>1 DEF Pushes!Return, Pushes!PushInv, Pushes!TypeOK, Pushes!NoReceipt, Pushes!Untouched
<1>3. QED
  BY <1>1, <1>2
     DEF Pushes!PushInv, Pushes!ChecksHold, Pushes!ValuesHold, Pushes!NothingDone,
         Pushes!LoopsAccount,
         Pushes!AckedIsStored, Pushes!LookedIsTrue, Pushes!ReceiptIsTrue, Pushes!ErrorSentNothing,
         Pushes!ComparisonIsTrue, Pushes!At, Pushes!Returned

----------------------------------------------------------------------------
\* A call that ends with an error: only what was acknowledged matters then.
LEMMA ErrorStep ==
  ASSUME Pushes!PushInv, call \in Pushes!CallRecord, NEW lost \in BOOLEAN,
         call' = [call EXCEPT !.pc = "error", !.lost = lost],
         remote' \in [Pushes!Account -> [Key -> Bytes \cup {Absent}]],
         UNCHANGED <<local, login, receipt, others, changes>>,
         remote' = remote \/ call.acked = Pushes!Nothing,
         \/ call.acked = Pushes!Nothing
         \/ lost
         \/ Pushes!Req.provider = "github" /\ Pushes!Req.odd # {}
         \/ Pushes!Req.provider \in Pushes!Aws \cup {"personal"} /\ Pushes!Req.long # {}
  PROVE  Pushes!PushInv'
<1>1. /\ call' \in Pushes!CallRecord /\ call'.pc = "error" /\ call'.acked = call.acked
      /\ call'.req = call.req
      /\ call'.values = call.values /\ call'.lost = lost
  BY DEF Pushes!CallRecord
<1>2. Pushes!TypeOK'
  BY <1>1 DEF Pushes!PushInv, Pushes!TypeOK
<1>3. Pushes!AckedIsStored'
  <2>1. Pushes!AckedIsStored /\ ~Pushes!At("idle")
    BY DEF Pushes!PushInv, Pushes!At, Pushes!CallRecord
  <2>2. QED
    BY <1>1, <2>1, NothingTyped DEF Pushes!AckedIsStored, Pushes!Req
<1>4. Pushes!ErrorSentNothing'
  BY <1>1 DEF Pushes!ErrorSentNothing, Pushes!Req
<1>5. QED
  BY <1>1, <1>2, <1>3, <1>4
     DEF Pushes!PushInv, Pushes!ChecksHold, Pushes!ValuesHold, Pushes!NothingDone,
         Pushes!LoopsAccount,
         Pushes!LookedIsTrue, Pushes!ReceiptIsTrue, Pushes!ComparisonIsTrue, Pushes!At,
         Pushes!Returned

\* One that ends so before anything was acknowledged.
LEMMA EarlyErrorStep ==
  ASSUME Pushes!PushInv, call.pc \in {"prepare", "read", "begin", "look", "verify"}, Pushes!Error,
         UNCHANGED <<local, remote, login, receipt, others, changes>>
  PROVE  Pushes!PushInv'
<1>1. call \in Pushes!CallRecord /\ call.acked = Pushes!Nothing
  BY CallTyped DEF Pushes!PushInv, Pushes!NothingDone
<1>2. call' = [call EXCEPT !.pc = "error", !.lost = call.lost] /\ call.lost \in BOOLEAN
  BY <1>1 DEF Pushes!Error, Pushes!Becomes, Pushes!CallRecord
<1>3. remote' \in [Pushes!Account -> [Key -> Bytes \cup {Absent}]]
  BY DEF Pushes!PushInv, Pushes!TypeOK
<1>4. QED
  BY <1>1, <1>2, <1>3, ErrorStep

LEMMA LoopEndsEarlyStep ==
  ASSUME Pushes!PushInv, Pushes!LoopEndsEarly
  PROVE  Pushes!PushInv'
<1>1. call.pc = "send" /\ call \in Pushes!CallRecord
  BY CallTyped DEF Pushes!LoopEndsEarly, Pushes!Sending, Pushes!At
<1>2. Pushes!Req.op = "push" /\ (Pushes!Req.provider = "eas" => Pushes!Req.odd = {} /\ Pushes!Req.long = {})
  BY <1>1 DEF Pushes!PushInv, Pushes!LoopsAccount, Pushes!ChecksHold, Pushes!At
<1>3. \/ Pushes!Req.provider = "github" /\ Pushes!Req.odd # {}
      \/ Pushes!Req.provider \in Pushes!Aws \cup {"personal"} /\ Pushes!Req.long # {}
  BY <1>2 DEF Pushes!LoopEndsEarly, Pushes!Refused
<1>4. call' = [call EXCEPT !.pc = "error", !.lost = call.lost] /\ call.lost \in BOOLEAN
  BY <1>1 DEF Pushes!LoopEndsEarly, Pushes!Error, Pushes!Becomes, Pushes!CallRecord
<1>5. /\ remote' \in [Pushes!Account -> [Key -> Bytes \cup {Absent}]]
      /\ UNCHANGED <<local, remote, login, receipt, others, changes>>
  BY DEF Pushes!PushInv, Pushes!TypeOK, Pushes!LoopEndsEarly
<1>6. QED
  BY <1>1, <1>3, <1>4, <1>5, ErrorStep

LEMMA RecordFailsStep ==
  ASSUME Pushes!PushInv, Pushes!RecordFails
  PROVE  Pushes!PushInv'
<1>1. call \in Pushes!CallRecord
  BY CallTyped DEF Pushes!RecordFails, Pushes!At
<1>2. /\ call' = [call EXCEPT !.pc = "error", !.lost = TRUE]
      /\ UNCHANGED <<local, remote, login, receipt, others, changes>>
  BY DEF Pushes!RecordFails
<1>3. remote' \in [Pushes!Account -> [Key -> Bytes \cup {Absent}]]
  BY <1>2 DEF Pushes!PushInv, Pushes!TypeOK
<1>4. QED
  BY <1>1, <1>2, <1>3, ErrorStep

----------------------------------------------------------------------------
\* Where a value is stored.
LEMMA StoredFacts ==
  ASSUME Pushes!PushInv, NEW keys \in SUBSET Key, \A k \in keys : call.values[k] \in Bytes,
         remote' = Pushes!Stored(keys)
  PROVE  /\ remote' \in [Pushes!Account -> [Key -> Bytes \cup {Absent}]]
         /\ Pushes!Place \in Pushes!Account
         /\ \A a \in Pushes!Account, k \in Key :
              remote'[a][k] = IF a = Pushes!Place /\ k \in keys THEN call.values[k] ELSE remote[a][k]
<1>1. Pushes!Place \in Pushes!Account
  BY DEF Pushes!Place, Pushes!Account, Pushes!PushInv, Pushes!TypeOK
<1>2. remote \in [Pushes!Account -> [Key -> Bytes \cup {Absent}]]
  BY DEF Pushes!PushInv, Pushes!TypeOK
<1> DEFINE row == [k \in Key |-> IF k \in keys THEN call.values[k] ELSE remote[Pushes!Place][k]]
<1>3. row \in [Key -> Bytes \cup {Absent}]
  BY <1>1, <1>2
<1>4. remote' = [remote EXCEPT ![Pushes!Place] = row]
  BY <1>1, <1>2 DEF Pushes!Stored
<1>5. \A k \in Key : row[k] = IF k \in keys THEN call.values[k] ELSE remote[Pushes!Place][k]
  OBVIOUS
<1> HIDE DEF row
<1>6. QED
  BY <1>1, <1>2, <1>3, <1>4, <1>5

\* What the invariant says of a push that sends.
LEMMA SendingFacts ==
  ASSUME Pushes!PushInv, call.pc \in {"send", "create", "overwrite"}
  PROVE  /\ call \in Pushes!CallRecord /\ Pushes!Req.keys \in Seq(Key) /\ Pushes!Req.op = "push"
         /\ call.at \in 1..(Len(Pushes!Req.keys) + 1)
         /\ Pushes!IsInjective(Pushes!Req.keys)
         /\ call.values \in [Pushes!Range(Pushes!Req.keys) -> Bytes]
         /\ Pushes!Accounted(Pushes!Handled)
BY CallTyped DEF Pushes!PushInv, Pushes!ValuesHold, Pushes!LoopsAccount

\* One key more has been through a loop.
LEMMA HandledFacts ==
  ASSUME NEW keys \in Seq(Key), Pushes!IsInjective(keys), NEW i \in 1..Len(keys)
  PROVE  /\ keys[i] \in Pushes!Range(keys) /\ keys[i] \notin { keys[j] : j \in 1..(i - 1) }
         /\ { keys[j] : j \in 1..(i + 1 - 1) } = { keys[j] : j \in 1..(i - 1) } \cup {keys[i]}
<1>1. keys[i] \in Pushes!Range(keys)
  BY KeysFacts
<1>2. \A j \in 1..(i - 1) : keys[j] # keys[i]
  BY KeysFacts DEF Pushes!IsInjective
<1>3. 1..(i + 1 - 1) = 1..(i - 1) \cup {i}
  BY KeysFacts
<1>4. QED
  BY <1>1, <1>2, <1>3

\* A push that goes on behind a key, which was acknowledged or has failed.
LEMMA LoopStep ==
  ASSUME Pushes!PushInv, call.pc \in {"send", "create", "overwrite"},
         call.at <= Len(Pushes!Req.keys),
         call' \in Pushes!CallRecord,
         call'.pc = "send", call'.req = call.req, call'.values = call.values,
         call'.at = call.at + 1,
         call'.failed \subseteq Pushes!Handled \cup {Pushes!Current},
         DOMAIN call'.acked = (Pushes!Handled \cup {Pushes!Current}) \ call'.failed,
         remote' \in [Pushes!Account -> [Key -> Bytes \cup {Absent}]],
         \A k \in DOMAIN call'.acked \ others.keys : remote'[call'.acked[k]][k] = call.values[k],
         UNCHANGED <<local, login, receipt, others, changes>>
  PROVE  Pushes!PushInv'
<1> DEFINE keys == Pushes!Req.keys
<1>1. /\ call \in Pushes!CallRecord /\ keys \in Seq(Key) /\ Pushes!Req.op = "push"
      /\ call.at \in 1..Len(keys)
      /\ Pushes!IsInjective(keys) /\ Len(keys) \in Nat
  BY SendingFacts, KeysFacts
<1>2. Pushes!Req' = Pushes!Req
  BY DEF Pushes!Req
<1>3. Pushes!Handled' = Pushes!Handled \cup {Pushes!Current} /\ Pushes!Handled' \subseteq Pushes!Range(keys)
  <2>1. Pushes!Handled' = Pushes!Handled \cup {Pushes!Current}
    BY <1>1, <1>2, HandledFacts DEF Pushes!Handled, Pushes!Current
  <2>2. QED
    BY <1>1, <1>2, <2>1, KeysFacts DEF Pushes!Handled, Pushes!Current
<1>4. Pushes!TypeOK'
  BY DEF Pushes!PushInv, Pushes!TypeOK
<1>5. Pushes!LoopsAccount'
  BY <1>1, <1>2, <1>3 DEF Pushes!LoopsAccount, Pushes!Accounted, Pushes!At
<1>6. Pushes!AckedIsStored'
  BY <1>2, <1>3 DEF Pushes!AckedIsStored, Pushes!At
<1>7. Pushes!ChecksHold'
  BY <1>2 DEF Pushes!ChecksHold, Pushes!PushInv, Pushes!At
<1>8. Pushes!ValuesHold'
  BY <1>2 DEF Pushes!ValuesHold, Pushes!PushInv
<1>9. QED
  BY <1>4, <1>5, <1>6, <1>7, <1>8
     DEF Pushes!PushInv, Pushes!NothingDone, Pushes!LookedIsTrue, Pushes!ReceiptIsTrue,
         Pushes!ErrorSentNothing,
         Pushes!ComparisonIsTrue, Pushes!At, Pushes!Returned

\* What a loop writes is the value of the current key, and no key it has been through.
LEMMA CurrentFacts ==
  ASSUME Pushes!PushInv, call.pc \in {"send", "create", "overwrite"},
         call.at <= Len(Pushes!Req.keys)
  PROVE  /\ Pushes!Current \in Key /\ Pushes!Current \in Pushes!Range(Pushes!Req.keys)
         /\ Pushes!Current \notin Pushes!Handled
         /\ call.values[Pushes!Current] \in Bytes
         /\ \A k \in DOMAIN call.acked : k \in Key /\ k # Pushes!Current /\ call.acked[k] \in Pushes!Account
         /\ \A k \in DOMAIN call.acked \ others.keys : remote[call.acked[k]][k] = call.values[k]
<1>1. /\ Pushes!Req.keys \in Seq(Key) /\ call.at \in 1..Len(Pushes!Req.keys)
      /\ Pushes!IsInjective(Pushes!Req.keys)
      /\ call.values \in [Pushes!Range(Pushes!Req.keys) -> Bytes]
      /\ Pushes!Accounted(Pushes!Handled)
      /\ call.acked \in Pushes!Partial(Pushes!Account)
  BY SendingFacts, KeysFacts, CallTyped
<1>2. /\ Pushes!Current \in Key /\ Pushes!Current \in Pushes!Range(Pushes!Req.keys)
      /\ Pushes!Current \notin Pushes!Handled
  BY <1>1, HandledFacts, KeysFacts DEF Pushes!Current, Pushes!Handled
<1>3. \A k \in DOMAIN call.acked : k \in Key /\ k # Pushes!Current /\ call.acked[k] \in Pushes!Account
  BY <1>1, <1>2, PartialFacts DEF Pushes!Accounted
<1>4. \A k \in DOMAIN call.acked \ others.keys : remote[call.acked[k]][k] = call.values[k]
  BY DEF Pushes!PushInv, Pushes!AckedIsStored, Pushes!At
<1>5. QED
  BY <1>1, <1>2, <1>3, <1>4

\* The locals behind a key.
LEMMA BehindTyped ==
  ASSUME call \in Pushes!CallRecord, NEW n \in Nat, NEW failed \in SUBSET Key,
         NEW acked \in Pushes!Partial(Pushes!Account),
         call' = [call EXCEPT !.pc = "send", !.at = n, !.failed = failed, !.acked = acked]
  PROVE  /\ call' \in Pushes!CallRecord /\ call'.pc = "send" /\ call'.req = call.req /\ call'.values = call.values
         /\ call'.at = n /\ call'.failed = failed /\ call'.acked = acked
BY DEF Pushes!CallRecord

LEMMA SuccessStep ==
  ASSUME Pushes!PushInv, call.pc \in {"send", "create", "overwrite"},
         call.at <= Len(Pushes!Req.keys),
         call' = Pushes!Success, remote' = Pushes!Stored({Pushes!Current}),
         UNCHANGED <<local, login, receipt, others, changes>>
  PROVE  Pushes!PushInv'
<1> DEFINE acked == [k \in DOMAIN call.acked \cup {Pushes!Current} |->
                       IF k = Pushes!Current THEN Pushes!Place ELSE call.acked[k]]
<1>1. /\ call \in Pushes!CallRecord /\ Pushes!Accounted(Pushes!Handled) /\ call.at \in Nat
      /\ call.acked \in Pushes!Partial(Pushes!Account)
  BY SendingFacts, CallTyped
<1>2. /\ remote' \in [Pushes!Account -> [Key -> Bytes \cup {Absent}]]
      /\ Pushes!Place \in Pushes!Account
      /\ \A a \in Pushes!Account, k \in Key :
           remote'[a][k] = IF a = Pushes!Place /\ k \in {Pushes!Current} THEN call.values[k] ELSE remote[a][k]
  <2>1. {Pushes!Current} \in SUBSET Key /\ \A k \in {Pushes!Current} : call.values[k] \in Bytes
    BY CurrentFacts
  <2>2. QED
    BY <2>1, StoredFacts
<1>3. acked \in Pushes!Partial(Pushes!Account) /\ DOMAIN acked = DOMAIN call.acked \cup {Pushes!Current}
  <2>1. acked \in [DOMAIN call.acked \cup {Pushes!Current} -> Pushes!Account]
    BY <1>2, CurrentFacts
  <2>2. DOMAIN call.acked \cup {Pushes!Current} \in SUBSET Key
    BY CurrentFacts
  <2>3. QED
    BY <2>1, <2>2, PartialTyped
<1>4. \A k \in DOMAIN acked : acked[k] = IF k = Pushes!Current THEN Pushes!Place ELSE call.acked[k]
  OBVIOUS
<1>5. call' = [call EXCEPT !.pc = "send", !.at = call.at + 1, !.failed = call.failed, !.acked = acked]
  BY <1>1 DEF Pushes!Success, Pushes!CallRecord
<1> HIDE DEF acked
<1>6. /\ call' \in Pushes!CallRecord /\ call'.pc = "send" /\ call'.req = call.req
      /\ call'.values = call.values
      /\ call'.at = call.at + 1 /\ call'.failed = call.failed /\ call'.acked = acked
  <2>1. call.at + 1 \in Nat /\ call.failed \in SUBSET Key
    BY <1>1, SendingFacts, CallTyped
  <2>2. PICK n \in Nat, failed \in SUBSET Key : n = call.at + 1 /\ failed = call.failed
    BY <2>1
  <2>3. call' = [call EXCEPT !.pc = "send", !.at = n, !.failed = failed, !.acked = acked]
    BY <1>5, <2>2
  <2>4. /\ call' \in Pushes!CallRecord /\ call'.pc = "send" /\ call'.req = call.req /\ call'.values = call.values
        /\ call'.at = n /\ call'.failed = failed /\ call'.acked = acked
    BY <1>1, <1>3, <2>3, BehindTyped
  <2>5. QED
    BY <2>2, <2>4
<1>7. \A k \in DOMAIN call'.acked \ others.keys : remote'[call'.acked[k]][k] = call.values[k]
  <2>1. ASSUME NEW k \in DOMAIN call'.acked, k \notin others.keys
        PROVE  remote'[call'.acked[k]][k] = call.values[k]
    <3>1. CASE k = Pushes!Current
      BY <1>2, <1>4, <1>6, <3>1, CurrentFacts
    <3>2. CASE k # Pushes!Current
      <4>1. k \in DOMAIN call.acked /\ call'.acked[k] = call.acked[k]
        BY <1>3, <1>4, <1>6, <2>1, <3>2
      <4>2. k \in Key /\ call.acked[k] \in Pushes!Account /\ remote[call.acked[k]][k] = call.values[k]
        BY <2>1, <4>1, CurrentFacts
      <4>3. QED
        BY <1>2, <3>2, <4>1, <4>2
    <3>3. QED
      BY <3>1, <3>2
  <2>2. QED
    BY <2>1
<1>8. call'.failed \subseteq Pushes!Handled /\ DOMAIN call'.acked = (Pushes!Handled \cup {Pushes!Current}) \ call'.failed
  BY <1>1, <1>3, <1>6, CurrentFacts DEF Pushes!Accounted
<1>9. QED
  BY <1>2, <1>6, <1>7, <1>8, LoopStep

LEMMA FailureStep ==
  ASSUME Pushes!PushInv, call.pc \in {"send", "create", "overwrite"},
         call.at <= Len(Pushes!Req.keys),
         call' = Pushes!Failure, remote' \in {remote, Pushes!Stored({Pushes!Current})},
         UNCHANGED <<local, login, receipt, others, changes>>
  PROVE  Pushes!PushInv'
<1> DEFINE failed == call.failed \cup {Pushes!Current}
<1>1. /\ call \in Pushes!CallRecord /\ Pushes!Accounted(Pushes!Handled) /\ call.at \in Nat
      /\ call.failed \in SUBSET Key
  BY SendingFacts, CallTyped
<1>2. /\ remote' \in [Pushes!Account -> [Key -> Bytes \cup {Absent}]]
      /\ \A a \in Pushes!Account, k \in Key : k # Pushes!Current => remote'[a][k] = remote[a][k]
  <2>1. CASE remote' = remote
    BY <2>1 DEF Pushes!PushInv, Pushes!TypeOK
  <2>2. CASE remote' = Pushes!Stored({Pushes!Current})
    <3>1. {Pushes!Current} \in SUBSET Key /\ \A k \in {Pushes!Current} : call.values[k] \in Bytes
      BY CurrentFacts
    <3>2. remote' \in [Pushes!Account -> [Key -> Bytes \cup {Absent}]]
      BY <2>2, <3>1, StoredFacts
    <3>3. \A a \in Pushes!Account, k \in Key :
            remote'[a][k] = IF a = Pushes!Place /\ k \in {Pushes!Current} THEN call.values[k] ELSE remote[a][k]
      BY <2>2, <3>1, StoredFacts
    <3>4. \A a \in Pushes!Account, k \in Key : k # Pushes!Current => remote'[a][k] = remote[a][k]
      BY <3>3
    <3>5. QED
      BY <3>2, <3>4
  <2>3. QED
    BY <2>1, <2>2
<1>3. call' = [call EXCEPT !.pc = "send", !.at = call.at + 1, !.failed = failed,
                           !.acked = call.acked]
  BY <1>1 DEF Pushes!Failure, Pushes!CallRecord
<1>4. /\ call' \in Pushes!CallRecord /\ call'.pc = "send" /\ call'.req = call.req
      /\ call'.values = call.values
      /\ call'.at = call.at + 1 /\ call'.failed = failed /\ call'.acked = call.acked
  <2>1. call.at + 1 \in Nat /\ call.acked \in Pushes!Partial(Pushes!Account) /\ failed \in SUBSET Key
    BY <1>1, CurrentFacts, SendingFacts, CallTyped
  <2> HIDE DEF failed
  <2>2. QED
    BY <1>1, <1>3, <2>1 DEF Pushes!CallRecord
<1>5. \A k \in DOMAIN call'.acked \ others.keys : remote'[call'.acked[k]][k] = call.values[k]
  BY <1>2, <1>4, CurrentFacts
<1>6. /\ call'.failed \subseteq Pushes!Handled \cup {Pushes!Current}
      /\ DOMAIN call'.acked = (Pushes!Handled \cup {Pushes!Current}) \ call'.failed
  BY <1>1, <1>4, CurrentFacts DEF Pushes!Accounted
<1>7. QED
  BY <1>2, <1>4, <1>5, <1>6, LoopStep

----------------------------------------------------------------------------
\* A call that only moves on.
LEMMA Moved ==
  ASSUME call \in Pushes!CallRecord,
         NEW pc \in {"read", "send", "create", "overwrite", "bulk", "sent", "look", "verify", "ok"},
         call' = [call EXCEPT !.pc = pc]
  PROVE  /\ call' \in Pushes!CallRecord /\ call'.pc = pc /\ call'.req = call.req /\ Pushes!Req' = Pushes!Req
         /\ call'.values = call.values /\ call'.at = call.at /\ call'.failed = call.failed
         /\ call'.acked = call.acked /\ call'.items = call.items /\ Pushes!Handled' = Pushes!Handled
<1>1. /\ call' \in Pushes!CallRecord /\ call'.pc = pc /\ call'.req = call.req
      /\ call'.values = call.values /\ call'.at = call.at /\ call'.failed = call.failed
      /\ call'.acked = call.acked /\ call'.items = call.items
  BY DEF Pushes!CallRecord
<1>2. QED
  BY <1>1 DEF Pushes!Req, Pushes!Handled

LEMMA PrepareStep ==
  ASSUME Pushes!PushInv, Pushes!Prepare
  PROVE  Pushes!PushInv'
<1>1. /\ call.pc = "prepare" /\ call \in Pushes!CallRecord /\ Pushes!Req.op = "push"
      /\ Pushes!PreparePasses
      /\ call' = [call EXCEPT !.pc = "read"] /\ others' = [others EXCEPT !.switched = FALSE]
      /\ UNCHANGED <<local, remote, login, receipt, changes>>
  BY CallTyped DEF Pushes!Prepare, Pushes!Becomes, Pushes!At, Pushes!PushInv, Pushes!LoopsAccount
<1>2. /\ call' \in Pushes!CallRecord /\ call'.pc = "read" /\ Pushes!Req' = Pushes!Req
      /\ call'.at = call.at
      /\ call'.failed = call.failed /\ call'.acked = call.acked /\ call'.items = call.items
  BY <1>1, Moved
<1>3. call.acked = Pushes!Nothing /\ call.failed = {} /\ call.at = 1 /\ call.items = Pushes!Nothing
  BY <1>1 DEF Pushes!PushInv, Pushes!NothingDone
<1>4. Pushes!TypeOK'
  BY <1>1, <1>2 DEF Pushes!PushInv, Pushes!TypeOK
<1>5. Pushes!ChecksHold' /\ Pushes!NothingDone' /\ Pushes!AckedIsStored'
  BY <1>1, <1>2, <1>3, NothingTyped
     DEF Pushes!ChecksHold, Pushes!NothingDone, Pushes!AckedIsStored, Pushes!PreparePasses,
         Pushes!At
<1>6. QED
  BY <1>2, <1>4, <1>5
     DEF Pushes!PushInv, Pushes!ValuesHold, Pushes!LoopsAccount, Pushes!LookedIsTrue,
         Pushes!ReceiptIsTrue,
         Pushes!ErrorSentNothing, Pushes!ComparisonIsTrue, Pushes!At, Pushes!Returned

LEMMA ReadStep ==
  ASSUME Pushes!PushInv, Pushes!Read
  PROVE  Pushes!PushInv'
<1> DEFINE keys == Pushes!Req.keys
           values == [k \in Pushes!Range(keys) |-> local[k]]
<1>1. /\ call.pc = "read" /\ call \in Pushes!CallRecord /\ keys \in Seq(Key)
      /\ Pushes!IsInjective(keys)
      /\ \A k \in Pushes!Range(keys) : local[k] # Empty
      /\ call' = [call EXCEPT !.pc = "begin", !.values = values]
      /\ UNCHANGED <<local, remote, login, receipt, others, changes>>
  BY CallTyped DEF Pushes!Read, Pushes!Readable, Pushes!Restrict, Pushes!At
<1>2. Pushes!Range(keys) \in SUBSET Key
  BY <1>1, KeysFacts
<1>3. values \in [Pushes!Range(keys) -> Bytes] /\ \A k \in Pushes!Range(keys) : values[k] = local[k]
  BY <1>1, <1>2 DEF Pushes!PushInv, Pushes!TypeOK
<1>4. values \in Pushes!Partial(Bytes \cup {Empty})
  <2>1. values \in [Pushes!Range(keys) -> Bytes \cup {Empty}]
    BY <1>3
  <2>2. QED
    BY <1>2, <2>1, PartialTyped
<1> HIDE DEF values
<1>5. /\ call' \in Pushes!CallRecord /\ call'.pc = "begin" /\ call'.req = call.req
      /\ call'.at = call.at
      /\ call'.failed = call.failed /\ call'.acked = call.acked /\ call'.items = call.items
      /\ call'.values = values
  BY <1>1, <1>4 DEF Pushes!CallRecord
<1>6. Pushes!Req' = Pushes!Req
  BY <1>5 DEF Pushes!Req
<1>7. call.acked = Pushes!Nothing /\ call.failed = {} /\ call.at = 1 /\ call.items = Pushes!Nothing
  BY <1>1 DEF Pushes!PushInv, Pushes!NothingDone
<1>8. Pushes!TypeOK'
  BY <1>1, <1>5 DEF Pushes!PushInv, Pushes!TypeOK
<1>9. Pushes!ValuesHold' /\ Pushes!NothingDone' /\ Pushes!AckedIsStored'
  BY <1>1, <1>3, <1>5, <1>6, <1>7, NothingTyped
     DEF Pushes!ValuesHold, Pushes!NothingDone, Pushes!AckedIsStored, Pushes!At
<1>10. Pushes!ChecksHold'
  BY <1>1, <1>5, <1>6 DEF Pushes!PushInv, Pushes!ChecksHold, Pushes!At
<1>11. QED
  BY <1>5, <1>8, <1>9, <1>10
     DEF Pushes!PushInv, Pushes!LoopsAccount, Pushes!LookedIsTrue, Pushes!ReceiptIsTrue,
         Pushes!ErrorSentNothing, Pushes!ComparisonIsTrue, Pushes!At, Pushes!Returned

\* What the invariant says of a call that has read and neither sent nor compared.
LEMMA BeginFacts ==
  ASSUME Pushes!PushInv, call.pc = "begin"
  PROVE  /\ call \in Pushes!CallRecord /\ Pushes!Req.keys \in Seq(Key) /\ call.acked = Pushes!Nothing
         /\ call.failed = {} /\ call.at = 1 /\ call.items = Pushes!Nothing
         /\ Len(Pushes!Req.keys) \in Nat /\ Pushes!Handled = {}
<1>1. /\ call \in Pushes!CallRecord /\ Pushes!Req.keys \in Seq(Key) /\ call.acked = Pushes!Nothing
      /\ call.failed = {} /\ call.at = 1 /\ call.items = Pushes!Nothing
  BY CallTyped DEF Pushes!PushInv, Pushes!NothingDone
<1>2. QED
  BY <1>1, KeysFacts DEF Pushes!Handled

LEMMA BeginPushStep ==
  ASSUME Pushes!PushInv, Pushes!BeginPush
  PROVE  Pushes!PushInv'
<1> DEFINE pc == IF Pushes!Req.provider = "cloudflare" THEN "bulk" ELSE "send"
<1>1. /\ call.pc = "begin" /\ Pushes!Req.op = "push" /\ call' = [call EXCEPT !.pc = pc]
      /\ pc \in {"bulk", "send"}
      /\ UNCHANGED <<local, remote, login, receipt, others, changes>>
  BY DEF Pushes!BeginPush, Pushes!Becomes, Pushes!At
<1> HIDE DEF pc
<1>2. /\ call' \in Pushes!CallRecord /\ call'.pc = pc /\ Pushes!Req' = Pushes!Req
      /\ call'.values = call.values /\ call'.at = call.at /\ call'.failed = call.failed
      /\ call'.acked = call.acked /\ call'.items = call.items /\ Pushes!Handled' = Pushes!Handled
  BY <1>1, BeginFacts, Moved
<1>3. Pushes!TypeOK'
  BY <1>1, <1>2 DEF Pushes!PushInv, Pushes!TypeOK
<1>4. Pushes!ChecksHold' /\ Pushes!ValuesHold'
  BY <1>1, <1>2 DEF Pushes!PushInv, Pushes!ChecksHold, Pushes!ValuesHold, Pushes!At
<1>5. Pushes!NothingDone' /\ Pushes!LoopsAccount' /\ Pushes!AckedIsStored'
  BY <1>1, <1>2, BeginFacts, NothingTyped
     DEF Pushes!NothingDone, Pushes!LoopsAccount, Pushes!Accounted, Pushes!AckedIsStored, Pushes!At
<1>6. QED
  BY <1>1, <1>2, <1>3, <1>4, <1>5
     DEF Pushes!PushInv, Pushes!LookedIsTrue, Pushes!ReceiptIsTrue,
         Pushes!ErrorSentNothing, Pushes!ComparisonIsTrue, Pushes!At, Pushes!Returned

LEMMA DescribeStep ==
  ASSUME Pushes!PushInv, Pushes!Describe
  PROVE  Pushes!PushInv'
<1> DEFINE pc == IF remote["mine"][Pushes!Current] = Absent THEN "create" ELSE "overwrite"
<1>1. /\ call.pc = "send" /\ call.at <= Len(Pushes!Req.keys) /\ call' = [call EXCEPT !.pc = pc]
      /\ pc \in {"create", "overwrite"}
      /\ UNCHANGED <<local, remote, login, receipt, others, changes>>
  BY DEF Pushes!Describe, Pushes!Sending, Pushes!Becomes, Pushes!At
<1> HIDE DEF pc
<1>2. /\ call' \in Pushes!CallRecord /\ call'.pc = pc /\ Pushes!Req' = Pushes!Req
      /\ call'.values = call.values /\ call'.at = call.at /\ call'.failed = call.failed
      /\ call'.acked = call.acked /\ call'.items = call.items /\ Pushes!Handled' = Pushes!Handled
  BY <1>1, SendingFacts, Moved
<1>3. Pushes!TypeOK'
  BY <1>1, <1>2 DEF Pushes!PushInv, Pushes!TypeOK
<1>4. Pushes!ChecksHold' /\ Pushes!ValuesHold' /\ Pushes!LoopsAccount' /\ Pushes!AckedIsStored'
  BY <1>1, <1>2
     DEF Pushes!PushInv, Pushes!ChecksHold, Pushes!ValuesHold, Pushes!LoopsAccount,
         Pushes!Accounted,
         Pushes!AckedIsStored, Pushes!At
<1>5. QED
  BY <1>1, <1>2, <1>3, <1>4
     DEF Pushes!PushInv, Pushes!NothingDone, Pushes!LookedIsTrue, Pushes!ReceiptIsTrue,
         Pushes!ErrorSentNothing, Pushes!ComparisonIsTrue, Pushes!At, Pushes!Returned

\* Behind the last key a loop has been through all of them.
LEMMA AllHandled ==
  ASSUME Pushes!Req.keys \in Seq(Key), call.at \in 1..(Len(Pushes!Req.keys) + 1),
         call.at > Len(Pushes!Req.keys)
  PROVE  Pushes!Handled = Pushes!Range(Pushes!Req.keys)
<1>1. call.at - 1 = Len(Pushes!Req.keys)
  BY KeysFacts
<1>2. Pushes!Range(Pushes!Req.keys) = { Pushes!Req.keys[i] : i \in 1..Len(Pushes!Req.keys) }
  BY KeysFacts
<1>3. QED
  BY <1>1, <1>2 DEF Pushes!Handled

LEMMA LoopEndsStep ==
  ASSUME Pushes!PushInv, Pushes!LoopEnds
  PROVE  Pushes!PushInv'
<1>1. /\ call.pc = "send" /\ call.at > Len(Pushes!Req.keys) /\ call' = [call EXCEPT !.pc = "sent"]
      /\ UNCHANGED <<local, remote, login, receipt, others, changes>>
  BY DEF Pushes!LoopEnds, Pushes!Becomes, Pushes!At
<1>2. /\ call' \in Pushes!CallRecord /\ call'.pc = "sent" /\ Pushes!Req' = Pushes!Req
      /\ call'.values = call.values /\ call'.at = call.at /\ call'.failed = call.failed
      /\ call'.acked = call.acked /\ call'.items = call.items
  BY <1>1, SendingFacts, Moved
<1>3. Pushes!Handled = Pushes!Range(Pushes!Req.keys)
  BY <1>1, SendingFacts, AllHandled
<1>4. Pushes!TypeOK'
  BY <1>1, <1>2 DEF Pushes!PushInv, Pushes!TypeOK
<1>5. Pushes!ChecksHold' /\ Pushes!ValuesHold' /\ Pushes!AckedIsStored'
  BY <1>1, <1>2
    DEF Pushes!PushInv, Pushes!ChecksHold, Pushes!ValuesHold, Pushes!AckedIsStored, Pushes!At
<1>6. Pushes!LoopsAccount'
  BY <1>1, <1>2, <1>3, SendingFacts DEF Pushes!LoopsAccount, Pushes!Accounted, Pushes!At
<1>7. QED
  BY <1>1, <1>2, <1>4, <1>5, <1>6
     DEF Pushes!PushInv, Pushes!NothingDone, Pushes!LookedIsTrue, Pushes!ReceiptIsTrue,
         Pushes!ErrorSentNothing, Pushes!ComparisonIsTrue, Pushes!At, Pushes!Returned

----------------------------------------------------------------------------
\* All keys at once, and what is recorded in the end.

LEMMA BulkFacts ==
  ASSUME Pushes!PushInv, call.pc = "bulk"
  PROVE  /\ call \in Pushes!CallRecord /\ Pushes!Req.keys \in Seq(Key) /\ Pushes!Req.op = "push"
         /\ Pushes!Range(Pushes!Req.keys) \in SUBSET Key
         /\ call.values \in [Pushes!Range(Pushes!Req.keys) -> Bytes]
         /\ call.acked = Pushes!Nothing /\ call.failed = {}
<1>1. Pushes!Req.keys \in Seq(Key) /\ call \in Pushes!CallRecord
  BY CallTyped
<1>2. Pushes!Range(Pushes!Req.keys) \in SUBSET Key
  BY <1>1, KeysFacts
<1>3. QED
  BY <1>1, <1>2 DEF Pushes!PushInv, Pushes!ValuesHold, Pushes!NothingDone, Pushes!LoopsAccount

LEMMA BulkStep ==
  ASSUME Pushes!PushInv, Pushes!Bulk
  PROVE  Pushes!PushInv'
<1> DEFINE keys == Pushes!Range(Pushes!Req.keys)
           acked == [k \in keys |-> Pushes!Place]
<1>1. /\ call.pc = "bulk" /\ remote' = Pushes!Stored(keys)
      /\ call' = [call EXCEPT !.pc = "sent", !.acked = acked]
      /\ UNCHANGED <<local, login, receipt, others, changes>>
  BY DEF Pushes!Bulk, Pushes!At
<1>2. /\ remote' \in [Pushes!Account -> [Key -> Bytes \cup {Absent}]]
      /\ Pushes!Place \in Pushes!Account
      /\ \A a \in Pushes!Account, k \in Key :
           remote'[a][k] = IF a = Pushes!Place /\ k \in keys THEN call.values[k] ELSE remote[a][k]
  <2>1. keys \in SUBSET Key /\ \A k \in keys : call.values[k] \in Bytes
    BY <1>1, BulkFacts
  <2>2. QED
    BY <1>1, <2>1, StoredFacts
<1>3. acked \in Pushes!Partial(Pushes!Account) /\ DOMAIN acked = keys /\ \A k \in keys : acked[k] = Pushes!Place
  <2>1. acked \in [keys -> Pushes!Account] /\ keys \in SUBSET Key
    BY <1>1, <1>2, BulkFacts
  <2>2. QED
    BY <2>1, PartialTyped
<1> HIDE DEF acked
<1>4. /\ call' \in Pushes!CallRecord /\ call'.pc = "sent" /\ call'.req = call.req
      /\ call'.values = call.values
      /\ call'.failed = {} /\ call'.acked = acked
  BY <1>1, <1>3, BulkFacts DEF Pushes!CallRecord
<1>5. Pushes!Req' = Pushes!Req
  BY <1>4 DEF Pushes!Req
<1>6. Pushes!TypeOK'
  BY <1>1, <1>2, <1>4 DEF Pushes!PushInv, Pushes!TypeOK
<1>7. Pushes!ChecksHold' /\ Pushes!ValuesHold'
  BY <1>1, <1>4, <1>5 DEF Pushes!PushInv, Pushes!ChecksHold, Pushes!ValuesHold, Pushes!At
<1>8. Pushes!LoopsAccount'
  BY <1>1, <1>3, <1>4, <1>5, BulkFacts DEF Pushes!LoopsAccount, Pushes!Accounted, Pushes!At
<1>9. Pushes!AckedIsStored'
  BY <1>1, <1>2, <1>3, <1>4, <1>5, BulkFacts DEF Pushes!AckedIsStored
<1>10. QED
  BY <1>1, <1>4, <1>6, <1>7, <1>8, <1>9
     DEF Pushes!PushInv, Pushes!NothingDone, Pushes!LookedIsTrue, Pushes!ReceiptIsTrue,
         Pushes!ErrorSentNothing, Pushes!ComparisonIsTrue, Pushes!At, Pushes!Returned

LEMMA BulkFailsStep ==
  ASSUME Pushes!PushInv, Pushes!BulkFails
  PROVE  Pushes!PushInv'
<1>1. PICK stored \in SUBSET Pushes!Range(Pushes!Req.keys) : remote' = Pushes!Stored(stored)
  BY DEF Pushes!BulkFails
<1>2. call.pc = "bulk" /\ Pushes!Error /\ UNCHANGED <<local, login, receipt, others, changes>>
  BY DEF Pushes!BulkFails, Pushes!At
<1>3. remote' \in [Pushes!Account -> [Key -> Bytes \cup {Absent}]]
  <2>1. stored \in SUBSET Key /\ \A k \in stored : call.values[k] \in Bytes
    BY <1>2, BulkFacts
  <2>2. QED
    BY <1>1, <2>1, StoredFacts
<1>4. call' = [call EXCEPT !.pc = "error", !.lost = call.lost] /\ call.lost \in BOOLEAN
  BY <1>2, BulkFacts DEF Pushes!Error, Pushes!Becomes, Pushes!CallRecord
<1>5. QED
  BY <1>2, <1>3, <1>4, BulkFacts, ErrorStep

LEMMA RecordStep ==
  ASSUME Pushes!PushInv, Pushes!Record
  PROVE  Pushes!PushInv'
<1> DEFINE keys == Pushes!Range(Pushes!Req.keys)
<1>1. /\ call.pc = "sent" /\ call' = [call EXCEPT !.pc = "ok"]
      /\ receipt' = [succeeded |-> keys \ call.failed, failed |-> call.failed]
      /\ UNCHANGED <<local, remote, login, others, changes>>
  BY DEF Pushes!Record, Pushes!Becomes, Pushes!At
<1>2. /\ call \in Pushes!CallRecord /\ Pushes!Req.op = "push" /\ Pushes!Accounted(keys)
      /\ keys \subseteq Key
  BY <1>1, CallTyped, KeysFacts DEF Pushes!PushInv, Pushes!LoopsAccount, Pushes!At
<1>3. /\ call' \in Pushes!CallRecord /\ call'.pc = "ok" /\ Pushes!Req' = Pushes!Req
      /\ call'.values = call.values /\ call'.failed = call.failed /\ call'.acked = call.acked
  BY <1>1, <1>2, Moved
<1>4. receipt'.succeeded = DOMAIN call.acked /\ receipt'.failed = keys \ receipt'.succeeded
      /\ receipt' \in [succeeded : SUBSET Key, failed : SUBSET Key]
  BY <1>1, <1>2 DEF Pushes!Accounted
<1>5. Pushes!TypeOK'
  BY <1>1, <1>3, <1>4 DEF Pushes!PushInv, Pushes!TypeOK
<1>6. Pushes!AckedIsStored' /\ Pushes!ChecksHold' /\ Pushes!ValuesHold'
  BY <1>1, <1>3
    DEF Pushes!PushInv, Pushes!AckedIsStored, Pushes!ChecksHold, Pushes!ValuesHold, Pushes!At
<1>7. Pushes!ReceiptIsTrue'
  BY <1>3, <1>4, <1>6 DEF Pushes!ReceiptIsTrue, Pushes!AckedIsStored, Pushes!At
<1>8. QED
  BY <1>2, <1>3, <1>5, <1>6, <1>7
     DEF Pushes!PushInv, Pushes!NothingDone, Pushes!LoopsAccount, Pushes!LookedIsTrue,
         Pushes!ErrorSentNothing, Pushes!ComparisonIsTrue, Pushes!At, Pushes!Returned

----------------------------------------------------------------------------
\* Comparing.

LEMMA LookBeginStep ==
  ASSUME Pushes!PushInv, Pushes!BeginCompare, NEW pc \in {"look", "verify"}, Pushes!Becomes(pc),
         Pushes!Req.provider \notin Pushes!Unreadable
  PROVE  Pushes!PushInv'
<1>1. /\ call.pc = "begin" /\ Pushes!Req.op = "compare" /\ call' = [call EXCEPT !.pc = pc]
      /\ UNCHANGED <<local, remote, login, receipt, others, changes>>
  BY DEF Pushes!BeginCompare, Pushes!Becomes, Pushes!At
<1>2. /\ call' \in Pushes!CallRecord /\ call'.pc = pc /\ Pushes!Req' = Pushes!Req
      /\ call'.values = call.values /\ call'.at = call.at /\ call'.failed = call.failed
      /\ call'.acked = call.acked /\ call'.items = call.items /\ Pushes!Handled' = Pushes!Handled
  BY <1>1, BeginFacts, Moved
<1>3. Pushes!TypeOK'
  BY <1>1, <1>2 DEF Pushes!PushInv, Pushes!TypeOK
<1>4. Pushes!ChecksHold' /\ Pushes!ValuesHold'
  BY <1>1, <1>2 DEF Pushes!PushInv, Pushes!ChecksHold, Pushes!ValuesHold, Pushes!At
<1>5. Pushes!NothingDone' /\ Pushes!LoopsAccount' /\ Pushes!AckedIsStored' /\ Pushes!LookedIsTrue'
  <2>1. /\ call'.acked = Pushes!Nothing /\ call'.failed = {} /\ call'.items = Pushes!Nothing
        /\ call'.at \in 1..(Len(Pushes!Req.keys) + 1) /\ Pushes!Handled' = {}
    BY <1>1, <1>2, BeginFacts
  <2>2. Pushes!NothingDone' /\ Pushes!AckedIsStored' /\ Pushes!LookedIsTrue'
    BY <1>2, <2>1, NothingTyped
      DEF Pushes!NothingDone, Pushes!AckedIsStored, Pushes!LookedIsTrue, Pushes!At
  <2>3. Pushes!LoopsAccount'
    BY <1>1, <1>2, <2>1, NothingTyped DEF Pushes!LoopsAccount, Pushes!At
  <2>4. QED
    BY <2>2, <2>3
<1>6. QED
  BY <1>1, <1>2, <1>3, <1>4, <1>5
     DEF Pushes!PushInv, Pushes!ReceiptIsTrue, Pushes!ErrorSentNothing, Pushes!ComparisonIsTrue,
         Pushes!At, Pushes!Returned

\* An answer for all keys at once.
LEMMA AnsweredStep ==
  ASSUME Pushes!PushInv, call.pc \in {"begin", "verify", "look"}, Pushes!Req.op = "compare",
         call' \in Pushes!CallRecord, call'.pc = "ok", call'.req = call.req,
         call'.values = call.values,
         call'.acked = call.acked,
         DOMAIN call'.items = Pushes!Range(Pushes!Req.keys),
         \A k \in Pushes!Range(Pushes!Req.keys) :
           \/ call'.items[k] = "error" /\ Pushes!Req.provider \notin Pushes!Unreadable
           \/ call'.items[k] = "unverifiable" /\ Pushes!Req.provider \in Pushes!Unreadable
           \/ k \in others.keys
           \/ call'.items[k] = Pushes!Compared(k),
         UNCHANGED <<local, remote, login, receipt, others, changes>>
  PROVE  Pushes!PushInv'
<1>1. Pushes!Req' = Pushes!Req
  BY DEF Pushes!Req
<1>2. Pushes!TypeOK'
  BY DEF Pushes!PushInv, Pushes!TypeOK
<1>3. Pushes!ChecksHold' /\ Pushes!ValuesHold' /\ Pushes!AckedIsStored'
  BY <1>1 DEF Pushes!PushInv, Pushes!ChecksHold, Pushes!ValuesHold, Pushes!AckedIsStored, Pushes!At
<1>4. Pushes!ComparisonIsTrue'
  <2>1. \A k \in Pushes!Range(Pushes!Req.keys) : others.edited \/ call.values[k] = local[k]
    BY DEF Pushes!PushInv, Pushes!ValuesHold
  <2>2. QED
    BY <1>1, <2>1 DEF Pushes!ComparisonIsTrue, Pushes!Compared
<1>5. QED
  BY <1>1, <1>2, <1>3, <1>4
     DEF Pushes!PushInv, Pushes!NothingDone, Pushes!LoopsAccount, Pushes!LookedIsTrue,
         Pushes!ReceiptIsTrue,
         Pushes!ErrorSentNothing, Pushes!At, Pushes!Returned

\* One key more has been answered for.
LEMMA AnswerStep ==
  ASSUME Pushes!PushInv, Pushes!Looking, NEW state \in {"unset", "same", "different", "error"},
         Pushes!Answer(state), state = "error" \/ state = Pushes!Compared(Pushes!Current),
         UNCHANGED <<local, remote, login, receipt, others, changes>>
  PROVE  Pushes!PushInv'
<1> DEFINE keys == Pushes!Req.keys
           items == [k \in DOMAIN call.items \cup {Pushes!Current} |->
                       IF k = Pushes!Current THEN state ELSE call.items[k]]
<1>1. /\ call.pc = "look" /\ call.at <= Len(keys)
      /\ call' = [call EXCEPT !.at = call.at + 1, !.items = items]
  BY DEF Pushes!Looking, Pushes!Answer, Pushes!At
<1>2. /\ call \in Pushes!CallRecord /\ keys \in Seq(Key) /\ call.at \in 1..(Len(keys) + 1)
      /\ call.acked = Pushes!Nothing /\ call.failed = {} /\ DOMAIN call.items = Pushes!Handled
      /\ Pushes!IsInjective(keys) /\ Pushes!Req.op = "compare"
      /\ Pushes!Req.provider \notin Pushes!Unreadable
      /\ Len(keys) \in Nat
  BY <1>1, CallTyped, KeysFacts
    DEF Pushes!PushInv, Pushes!NothingDone, Pushes!LoopsAccount, Pushes!ValuesHold, Pushes!At
<1>3. Pushes!Current \in Key
  BY <1>1, <1>2, KeysFacts DEF Pushes!Current
<1>4. items \in Pushes!Partial(Pushes!States) /\ DOMAIN items = DOMAIN call.items \cup {Pushes!Current}
      /\ \A k \in DOMAIN items : items[k] = IF k = Pushes!Current THEN state ELSE call.items[k]
  <2>1. call.items \in Pushes!Partial(Pushes!States)
    BY <1>2 DEF Pushes!CallRecord
  <2>2. DOMAIN call.items \cup {Pushes!Current} \in SUBSET Key /\ \A k \in DOMAIN call.items : call.items[k] \in Pushes!States
    BY <1>3, <2>1, PartialFacts
  <2>3. items \in [DOMAIN call.items \cup {Pushes!Current} -> Pushes!States]
    BY <2>2 DEF Pushes!States
  <2>4. QED
    BY <2>2, <2>3, PartialTyped
<1> HIDE DEF items
<1>5. /\ call' \in Pushes!CallRecord /\ call'.pc = "look" /\ call'.req = call.req
      /\ call'.values = call.values
      /\ call'.at = call.at + 1 /\ call'.failed = call.failed /\ call'.acked = call.acked
      /\ call'.items = items
  <2>1. call.at + 1 \in Nat
    BY <1>2
  <2>2. QED
    BY <1>1, <1>2, <1>4, <2>1 DEF Pushes!CallRecord
<1>6. Pushes!Req' = Pushes!Req
  BY <1>5 DEF Pushes!Req
<1>7. Pushes!Handled' = Pushes!Handled \cup {Pushes!Current}
  BY <1>1, <1>2, <1>5, <1>6, HandledFacts DEF Pushes!Handled, Pushes!Current
<1>8. Pushes!TypeOK'
  BY <1>5 DEF Pushes!PushInv, Pushes!TypeOK
<1>9. Pushes!ChecksHold' /\ Pushes!ValuesHold'
  BY <1>1, <1>5, <1>6 DEF Pushes!PushInv, Pushes!ChecksHold, Pushes!ValuesHold, Pushes!At
<1>10. Pushes!LoopsAccount' /\ Pushes!NothingDone' /\ Pushes!AckedIsStored'
  <2>1. DOMAIN call'.items = Pushes!Handled' /\ call'.at \in 1..(Len(keys) + 1)
    BY <1>1, <1>2, <1>4, <1>5, <1>7
  <2>2. Pushes!LoopsAccount'
    BY <1>2, <1>5, <1>6, <2>1 DEF Pushes!LoopsAccount, Pushes!At
  <2>3. Pushes!NothingDone' /\ Pushes!AckedIsStored'
    BY <1>2, <1>5, <1>6, NothingTyped DEF Pushes!NothingDone, Pushes!AckedIsStored, Pushes!At
  <2>4. QED
    BY <2>2, <2>3
<1>11. Pushes!LookedIsTrue'
  <2>1. \A k \in DOMAIN call.items :
          call.items[k] = "error" \/ k \in others.keys \/ call.items[k] = Pushes!Compared(k)
    BY <1>1 DEF Pushes!PushInv, Pushes!LookedIsTrue, Pushes!At
  <2>2. QED
    BY <1>4, <1>5, <2>1 DEF Pushes!LookedIsTrue, Pushes!Compared
<1>12. QED
  BY <1>5, <1>8, <1>9, <1>10, <1>11
     DEF Pushes!PushInv, Pushes!ReceiptIsTrue, Pushes!ErrorSentNothing, Pushes!ComparisonIsTrue,
         Pushes!At,
         Pushes!Returned

LEMMA LookEndsStep ==
  ASSUME Pushes!PushInv, Pushes!LookEnds
  PROVE  Pushes!PushInv'
<1>1. /\ call.pc = "look" /\ call.at > Len(Pushes!Req.keys) /\ call' = [call EXCEPT !.pc = "ok"]
      /\ UNCHANGED <<local, remote, login, receipt, others, changes>>
  BY DEF Pushes!LookEnds, Pushes!Becomes, Pushes!At
<1>2. /\ call \in Pushes!CallRecord /\ Pushes!Req.keys \in Seq(Key)
      /\ call.at \in 1..(Len(Pushes!Req.keys) + 1)
      /\ DOMAIN call.items = Pushes!Handled /\ Pushes!Req.op = "compare"
      /\ Pushes!Req.provider \notin Pushes!Unreadable
      /\ \A k \in DOMAIN call.items :
           call.items[k] = "error" \/ k \in others.keys \/ call.items[k] = Pushes!Compared(k)
  BY <1>1, CallTyped DEF Pushes!PushInv, Pushes!LoopsAccount, Pushes!LookedIsTrue, Pushes!At
<1>3. Pushes!Handled = Pushes!Range(Pushes!Req.keys)
  BY <1>1, <1>2, AllHandled
<1>4. /\ call' \in Pushes!CallRecord /\ call'.pc = "ok" /\ call'.req = call.req
      /\ call'.values = call.values /\ call'.acked = call.acked /\ call'.items = call.items
  BY <1>1, <1>2, Moved
<1>5. QED
  BY <1>1, <1>2, <1>3, <1>4, AnsweredStep

\* The call as it answers for all keys.
LEMMA AnsweredTyped ==
  ASSUME call \in Pushes!CallRecord, Pushes!Req.keys \in Seq(Key),
         NEW items \in [Pushes!Range(Pushes!Req.keys) -> Pushes!States],
         call' = [call EXCEPT !.pc = "ok", !.items = items]
  PROVE  /\ call' \in Pushes!CallRecord /\ call'.pc = "ok" /\ call'.req = call.req
         /\ call'.values = call.values /\ call'.acked = call.acked /\ call'.items = items
<1>1. Pushes!Range(Pushes!Req.keys) \in SUBSET Key
  BY KeysFacts
<1>2. items \in Pushes!Partial(Pushes!States)
  BY <1>1, PartialTyped
<1>3. QED
  BY <1>2 DEF Pushes!CallRecord

LEMMA VerifyStep ==
  ASSUME Pushes!PushInv, Pushes!Verify
  PROVE  Pushes!PushInv'
<1> DEFINE keys == Pushes!Range(Pushes!Req.keys)
<1>1. PICK unread \in SUBSET keys :
        call' = [call EXCEPT !.pc = "ok",
                   !.items = [k \in keys |-> IF k \in unread THEN "error" ELSE Pushes!Compared(k)]]
  BY DEF Pushes!Verify
<1> DEFINE items == [k \in keys |-> IF k \in unread THEN "error" ELSE Pushes!Compared(k)]
<1>2. call.pc = "verify" /\ UNCHANGED <<local, remote, login, receipt, others, changes>>
  BY DEF Pushes!Verify, Pushes!At
<1>3. /\ call \in Pushes!CallRecord /\ Pushes!Req.keys \in Seq(Key) /\ Pushes!Req.op = "compare"
      /\ Pushes!Req.provider \notin Pushes!Unreadable
  BY <1>2, CallTyped DEF Pushes!PushInv, Pushes!LoopsAccount
<1>4. items \in [keys -> Pushes!States]
  BY DEF Pushes!Compared, Pushes!States
<1>5. \A k \in keys : items[k] = "error" \/ items[k] = Pushes!Compared(k)
  OBVIOUS
<1>6. call' = [call EXCEPT !.pc = "ok", !.items = items]
  BY <1>1
<1> HIDE DEF items
<1>7. /\ call' \in Pushes!CallRecord /\ call'.pc = "ok" /\ call'.req = call.req
      /\ call'.values = call.values /\ call'.acked = call.acked /\ call'.items = items
  BY <1>3, <1>4, <1>6, AnsweredTyped
<1>8. QED
  BY <1>2, <1>3, <1>4, <1>5, <1>7, AnsweredStep

LEMMA BeginCompareStep ==
  ASSUME Pushes!PushInv, Pushes!BeginCompare
  PROVE  Pushes!PushInv'
<1>1. /\ call.pc = "begin" /\ Pushes!Req.op = "compare"
      /\ UNCHANGED <<local, remote, login, receipt, others, changes>>
  BY DEF Pushes!BeginCompare, Pushes!At
<1>2. CASE Pushes!Req.provider \in Pushes!Unreadable
  <2> DEFINE keys == Pushes!Range(Pushes!Req.keys)
             items == [k \in keys |-> "unverifiable"]
  <2>1. call' = [call EXCEPT !.pc = "ok", !.items = items]
    BY <1>2 DEF Pushes!BeginCompare, Pushes!Unreadable, Pushes!Aws
  <2>2. items \in [keys -> Pushes!States]
    BY DEF Pushes!States
  <2>3. \A k \in keys : items[k] = "unverifiable"
    OBVIOUS
  <2> HIDE DEF items
  <2>4. /\ call' \in Pushes!CallRecord /\ call'.pc = "ok" /\ call'.req = call.req
        /\ call'.values = call.values /\ call'.acked = call.acked /\ call'.items = items
    BY <1>1, <2>1, <2>2, BeginFacts, AnsweredTyped
  <2>5. QED
    BY <1>1, <1>2, <2>2, <2>3, <2>4, AnsweredStep
<1>3. CASE Pushes!Req.provider = "personal" /\ Pushes!Error
  BY <1>1, <1>3, EarlyErrorStep
<1>4. CASE Pushes!Req.provider \in Pushes!Aws /\ Pushes!Becomes("look")
  BY <1>4, LookBeginStep DEF Pushes!Aws, Pushes!Unreadable
<1>5. CASE Pushes!Req.provider = "runtime" /\ Pushes!Becomes("verify")
  BY <1>5, LookBeginStep DEF Pushes!Unreadable
<1>6. QED
  BY <1>2, <1>3, <1>4, <1>5 DEF Pushes!BeginCompare

----------------------------------------------------------------------------
\* What others do, and steps of the rest of the desktop.

\* A change that nothing but the record of it tells.
LEMMA OthersStep ==
  ASSUME Pushes!PushInv, Pushes!Others
  PROVE  Pushes!PushInv'
<1>1. call' = call /\ receipt' = receipt /\ changes' \in Nat
  BY
    DEF Pushes!Others, Pushes!Edit, Pushes!WriteRemote, Pushes!Switch, Pushes!Changed,
        Pushes!PushInv, Pushes!TypeOK
<1>2. Pushes!Req' = Pushes!Req /\ Pushes!Handled' = Pushes!Handled
  BY <1>1 DEF Pushes!Req, Pushes!Handled
<1>3. Pushes!NothingDone' /\ Pushes!LoopsAccount' /\ Pushes!ErrorSentNothing'
  BY <1>1, <1>2
     DEF Pushes!PushInv, Pushes!NothingDone, Pushes!LoopsAccount, Pushes!Accounted,
         Pushes!ErrorSentNothing, Pushes!At
<1>4. ASSUME NEW k \in Key, NEW v \in Bytes \cup {Empty}, Pushes!Edit(k, v)
      PROVE  Pushes!PushInv'
  <2>1. /\ local' = [local EXCEPT ![k] = v] /\ others' = [others EXCEPT !.edited = TRUE]
        /\ UNCHANGED <<remote, login>>
    BY <1>4 DEF Pushes!Edit
  <2>2. Pushes!TypeOK' /\ others'.edited /\ others'.keys = others.keys /\ (others.switched => others'.switched)
    BY <1>1, <2>1 DEF Pushes!PushInv, Pushes!TypeOK
  <2>3. Pushes!ChecksHold'
    BY <1>1, <1>2, <2>1, <2>2 DEF Pushes!PushInv, Pushes!ChecksHold, Pushes!At
  <2>4. Pushes!ValuesHold'
    BY <1>1, <1>2, <2>2 DEF Pushes!PushInv, Pushes!ValuesHold
  <2>5. Pushes!AckedIsStored' /\ Pushes!LookedIsTrue' /\ Pushes!ReceiptIsTrue'
    BY <1>1, <1>2, <2>1, <2>2
       DEF Pushes!PushInv, Pushes!AckedIsStored, Pushes!LookedIsTrue, Pushes!ReceiptIsTrue,
           Pushes!Compared,
           Pushes!At, Pushes!Returned
  <2>6. Pushes!ComparisonIsTrue'
    BY <1>1, <1>2, <2>2 DEF Pushes!PushInv, Pushes!ComparisonIsTrue, Pushes!At, Pushes!Returned
  <2>7. QED
    BY <1>3, <2>2, <2>3, <2>4, <2>5, <2>6 DEF Pushes!PushInv
<1>5. ASSUME NEW k \in Key, NEW v \in Bytes \cup {Absent}, Pushes!WriteRemote(k, v)
      PROVE  Pushes!PushInv'
  <2>1. /\ remote' = [remote EXCEPT !["mine"][k] = v]
        /\ others' = [others EXCEPT !.keys = others.keys \cup {k}]
        /\ UNCHANGED <<local, login>>
    BY <1>5 DEF Pushes!WriteRemote
  <2>2. /\ remote' \in [Pushes!Account -> [Key -> Bytes \cup {Absent}]]
        /\ \A a \in Pushes!Account, g \in Key : g # k => remote'[a][g] = remote[a][g]
    BY <2>1 DEF Pushes!PushInv, Pushes!TypeOK, Pushes!Account
  <2>3. others'.keys = others.keys \cup {k} /\ others'.edited = others.edited /\ others'.switched = others.switched
        /\ others' \in [keys : SUBSET Key, edited : BOOLEAN, switched : BOOLEAN]
    BY <2>1 DEF Pushes!PushInv, Pushes!TypeOK
  <2>4. Pushes!TypeOK'
    BY <1>1, <2>1, <2>2, <2>3 DEF Pushes!PushInv, Pushes!TypeOK
  <2>5. Pushes!ChecksHold' /\ Pushes!ValuesHold'
    BY <1>1, <1>2, <2>1, <2>3 DEF Pushes!PushInv, Pushes!ChecksHold, Pushes!ValuesHold, Pushes!At
  <2>6. call.pc # "idle" => call.acked \in Pushes!Partial(Pushes!Account) /\ Pushes!Range(Pushes!Req.keys) \subseteq Key
    BY CallTyped, KeysFacts
  <2>7. Pushes!AckedIsStored'
    <3>1. call.pc # "idle" => \A g \in DOMAIN call.acked : g \in Key /\ call.acked[g] \in Pushes!Account
      BY <2>6, PartialFacts
    <3>2. QED
      BY <1>1, <1>2, <2>2, <2>3, <3>1 DEF Pushes!PushInv, Pushes!AckedIsStored, Pushes!At
  <2>8. Pushes!ReceiptIsTrue'
    BY <1>1, <1>2, <2>7
      DEF Pushes!PushInv, Pushes!AckedIsStored, Pushes!ReceiptIsTrue, Pushes!At, Pushes!Returned
  <2>9. "mine" \in Pushes!Account
    BY DEF Pushes!Account
  <2>10. Pushes!LookedIsTrue'
    <3>1. Pushes!At("look") => \A g \in DOMAIN call.items : g \in Key
      BY CallTyped, PartialFacts DEF Pushes!CallRecord, Pushes!At
    <3>2. QED
      BY <1>1, <1>2, <2>2, <2>3, <2>9, <3>1
        DEF Pushes!PushInv, Pushes!LookedIsTrue, Pushes!Compared, Pushes!At
  <2>11. Pushes!ComparisonIsTrue'
    BY <1>1, <1>2, <2>1, <2>2, <2>3, <2>6, <2>9
      DEF Pushes!PushInv, Pushes!ComparisonIsTrue, Pushes!At, Pushes!Returned
  <2>12. QED
    BY <1>3, <2>4, <2>5, <2>7, <2>8, <2>10, <2>11 DEF Pushes!PushInv
<1>6. ASSUME NEW a \in Pushes!Account, Pushes!Switch(a)
      PROVE  Pushes!PushInv'
  <2>1. login' = a /\ others' = [others EXCEPT !.switched = TRUE] /\ UNCHANGED <<local, remote>>
    BY <1>6 DEF Pushes!Switch
  <2>2. Pushes!TypeOK' /\ others'.switched /\ others'.keys = others.keys /\ (others.edited => others'.edited)
    BY <1>1, <2>1 DEF Pushes!PushInv, Pushes!TypeOK
  <2>3. Pushes!ChecksHold'
    BY <1>1, <1>2, <2>2 DEF Pushes!PushInv, Pushes!ChecksHold, Pushes!At
  <2>4. Pushes!ValuesHold' /\ Pushes!AckedIsStored' /\ Pushes!LookedIsTrue' /\ Pushes!ReceiptIsTrue'
    BY <1>1, <1>2, <2>1, <2>2
       DEF Pushes!PushInv, Pushes!ValuesHold, Pushes!AckedIsStored, Pushes!LookedIsTrue,
           Pushes!ReceiptIsTrue,
           Pushes!Compared, Pushes!At, Pushes!Returned
  <2>5. Pushes!ComparisonIsTrue'
    BY <1>1, <1>2, <2>1, <2>2
      DEF Pushes!PushInv, Pushes!ComparisonIsTrue, Pushes!At, Pushes!Returned
  <2>6. QED
    BY <1>3, <2>2, <2>3, <2>4, <2>5 DEF Pushes!PushInv
<1>7. QED
  BY <1>4, <1>5, <1>6 DEF Pushes!Others

LEMMA IdlePush ==
  ASSUME Pushes!PushInv, UNCHANGED pushVars
  PROVE  Pushes!PushInv'
<1>1. UNCHANGED <<local, remote, login, call, receipt, others, changes>>
  BY DEF pushVars
<1>2. Pushes!Req' = Pushes!Req /\ Pushes!Handled' = Pushes!Handled
  BY <1>1 DEF Pushes!Req, Pushes!Handled
<1>3. Pushes!TypeOK' /\ Pushes!ChecksHold' /\ Pushes!ValuesHold' /\ Pushes!NothingDone' /\ Pushes!LoopsAccount'
  BY <1>1, <1>2
     DEF Pushes!PushInv, Pushes!TypeOK, Pushes!ChecksHold, Pushes!ValuesHold, Pushes!NothingDone,
         Pushes!LoopsAccount, Pushes!Accounted, Pushes!At
<1>4. Pushes!AckedIsStored' /\ Pushes!LookedIsTrue' /\ Pushes!ReceiptIsTrue' /\ Pushes!ErrorSentNothing'
      /\ Pushes!ComparisonIsTrue'
  BY <1>1, <1>2
     DEF Pushes!PushInv, Pushes!AckedIsStored, Pushes!LookedIsTrue, Pushes!ReceiptIsTrue,
         Pushes!ErrorSentNothing,
         Pushes!ComparisonIsTrue, Pushes!Compared, Pushes!At, Pushes!Returned
<1>5. QED
  BY <1>3, <1>4 DEF Pushes!PushInv

----------------------------------------------------------------------------
LEMMA PushStep ==
  ASSUME Pushes!PushInv, Pushes!Push
  PROVE  Pushes!PushInv'
<1>1. CASE Pushes!PrepareFails \/ Pushes!BeginFails
  BY <1>1, EarlyErrorStep DEF Pushes!PrepareFails, Pushes!BeginFails, Pushes!At
<1>2. CASE Pushes!SendOne
  BY <1>2, SuccessStep DEF Pushes!SendOne, Pushes!Sending, Pushes!At
<1>3. CASE Pushes!RunFails \/ Pushes!PromptFails \/ Pushes!CompletionFails \/ Pushes!DescribeFails
  BY <1>3, FailureStep
     DEF Pushes!RunFails, Pushes!PromptFails, Pushes!CompletionFails, Pushes!DescribeFails,
         Pushes!Sending, Pushes!At
<1>4. ASSUME Pushes!Store \/ Pushes!StoreFails
      PROVE  Pushes!PushInv'
  <2>1. call.pc \in {"create", "overwrite"} /\ call.at <= Len(Pushes!Req.keys)
    BY <1>4 DEF Pushes!Store, Pushes!StoreFails, Pushes!At, Pushes!PushInv, Pushes!LoopsAccount
  <2>2. QED
    BY <1>4, <2>1, SuccessStep, FailureStep DEF Pushes!Store, Pushes!StoreFails
<1>5. QED
  BY <1>1, <1>2, <1>3, <1>4, PrepareStep, BeginPushStep, LoopEndsEarlyStep, DescribeStep, BulkStep,
     BulkFailsStep,
     LoopEndsStep, RecordStep, RecordFailsStep DEF Pushes!Push

LEMMA CompareStep ==
  ASSUME Pushes!PushInv, Pushes!Compare
  PROVE  Pushes!PushInv'
<1>1. CASE Pushes!CompareFails \/ Pushes!VerifyFails
  BY <1>1, EarlyErrorStep DEF Pushes!CompareFails, Pushes!VerifyFails, Pushes!At
<1>2. CASE Pushes!Look
  <2>1. Pushes!Compared(Pushes!Current) \in {"unset", "same", "different", "error"}
    BY DEF Pushes!Compared
  <2>2. QED
    BY <1>2, <2>1, AnswerStep DEF Pushes!Look
<1>3. CASE Pushes!LookFails
  BY <1>3, AnswerStep DEF Pushes!LookFails
<1>4. QED
  BY <1>1, <1>2, <1>3, BeginCompareStep, LookEndsStep, VerifyStep DEF Pushes!Compare

LEMMA StepPush ==
  ASSUME Pushes!PushInv, [Pushes!Next]_pushVars
  PROVE  Pushes!PushInv'
<1>1. CASE Pushes!ReadFails
  BY <1>1, EarlyErrorStep DEF Pushes!ReadFails, Pushes!At
<1>2. QED
  BY <1>1, InvokeStep, ReadStep, PushStep, CompareStep, ReturnStep, OthersStep, IdlePush
    DEF Pushes!Next

----------------------------------------------------------------------------
\* What is stored where.

\* A call writes to a destination only while it sends, and nothing but values it has read.
LEMMA WritesSelection ==
  ASSUME Pushes!PushInv, Pushes!Next, remote' # remote, call' # call
  PROVE  /\ call.pc \in {"send", "create", "overwrite", "bulk"}
         /\ \E keys \in SUBSET Pushes!Range(Pushes!Req.keys) : remote' = Pushes!Stored(keys)
<1> USE DEF Pushes!At
<1>1. CASE remote' = Pushes!Stored({Pushes!Current}) /\ Pushes!Sending
  <2>1. Pushes!Current \in Pushes!Range(Pushes!Req.keys)
    BY <1>1, CurrentFacts DEF Pushes!Sending
  <2>2. QED
    BY <1>1, <2>1 DEF Pushes!Sending
<1>2. CASE remote' = Pushes!Stored({Pushes!Current}) /\ call.pc \in {"create", "overwrite"}
  <2>1. Pushes!Current \in Pushes!Range(Pushes!Req.keys)
    BY <1>2, CurrentFacts DEF Pushes!PushInv, Pushes!LoopsAccount
  <2>2. QED
    BY <1>2, <2>1
<1>3. CASE Pushes!Bulk \/ Pushes!BulkFails
  BY <1>3 DEF Pushes!Bulk, Pushes!BulkFails
<1>4. CASE Pushes!SendOne \/ Pushes!RunFails \/ Pushes!CompletionFails
  BY <1>1, <1>4 DEF Pushes!SendOne, Pushes!RunFails, Pushes!CompletionFails
<1>5. CASE Pushes!Store \/ Pushes!StoreFails
  BY <1>2, <1>5 DEF Pushes!Store, Pushes!StoreFails
<1>6. ~Pushes!Others /\ ~Pushes!Compare /\ ~Pushes!Read /\ ~Pushes!ReadFails /\ ~Pushes!Return
  BY
    DEF Pushes!Others, Pushes!Edit, Pushes!WriteRemote, Pushes!Switch, Pushes!Compare,
        Pushes!BeginCompare,
         Pushes!CompareFails, Pushes!Look, Pushes!LookFails, Pushes!LookEnds, Pushes!Verify,
         Pushes!VerifyFails,
         Pushes!Read, Pushes!ReadFails, Pushes!Return
<1>7. ASSUME Pushes!Push
      PROVE  \/ Pushes!Bulk \/ Pushes!BulkFails \/ Pushes!SendOne \/ Pushes!RunFails \/ Pushes!CompletionFails
             \/ Pushes!Store \/ Pushes!StoreFails
  BY <1>7
     DEF Pushes!Push, Pushes!Prepare, Pushes!PrepareFails, Pushes!BeginPush, Pushes!BeginFails,
         Pushes!LoopEndsEarly,
         Pushes!PromptFails, Pushes!Describe, Pushes!DescribeFails, Pushes!LoopEnds, Pushes!Record,
         Pushes!RecordFails
<1>8. ASSUME NEW req
      PROVE  ~Pushes!Invoke(req)
  BY DEF Pushes!Invoke
<1>9. QED
  BY <1>3, <1>4, <1>5, <1>6, <1>7, <1>8 DEF Pushes!Next

\* What is promised of a step that changes what account a holds under k.
Chosen(a, k) ==
  /\ Pushes!Req.op = "push" /\ k \in Pushes!Range(Pushes!Req.keys)
  /\ remote'[a][k] = call.values[k]
  /\ a = "mine" \/ others.switched \/ ~Pushes!Req.pinned \/ Pushes!Req.provider = "personal"

LEMMA StepChosen ==
  ASSUME Pushes!PushInv, [Pushes!Next]_pushVars, NEW a \in Pushes!Account, NEW k \in Key,
         remote'[a][k] # remote[a][k], call' # call
  PROVE  Chosen(a, k)
<1>1. Pushes!Next
  BY DEF pushVars
<1>2. PICK keys \in SUBSET Pushes!Range(Pushes!Req.keys) :
        remote' = Pushes!Stored(keys) /\ call.pc \in {"send", "create", "overwrite", "bulk"}
  BY <1>1, WritesSelection
<1>3. /\ Pushes!Req.op = "push" /\ Pushes!Range(Pushes!Req.keys) \in SUBSET Key
      /\ call.values \in [Pushes!Range(Pushes!Req.keys) -> Bytes]
  BY <1>2, CallTyped, KeysFacts DEF Pushes!PushInv, Pushes!LoopsAccount, Pushes!ValuesHold
<1>4. keys \in SUBSET Key /\ \A g \in keys : call.values[g] \in Bytes
  BY <1>2, <1>3
<1>5. remote'[a][k] = IF a = Pushes!Place /\ k \in keys THEN call.values[k] ELSE remote[a][k]
  BY <1>2, <1>4, StoredFacts
<1>6. a = Pushes!Place /\ k \in keys /\ remote'[a][k] = call.values[k]
  BY <1>5
<1>7. Pushes!Req.provider \in Pushes!Checked /\ Pushes!Req.pinned => login = "mine" \/ others.switched
  BY <1>2, <1>3 DEF Pushes!PushInv, Pushes!ChecksHold, Pushes!At
<1>8. QED
  BY <1>2, <1>3, <1>6, <1>7 DEF Chosen, Pushes!Place, Pushes!Checked

----------------------------------------------------------------------------
\* The conjunction behind the next four: of the selected keys that a push or a comparison has been
\* through each is accounted for, and what was acknowledged is stored unless somebody else wrote it
\* (the loops of engine.rs).
THEOREM PushInvariant == Pushes!Spec => []Pushes!PushInv
<1>1. Pushes!Init => Pushes!PushInv
  BY InitPush
<1>2. Pushes!PushInv /\ [Pushes!Next]_Pushes!vars => Pushes!PushInv'
  BY StepPush DEF pushVars, Pushes!vars
<1>3. QED
  BY <1>1, <1>2, PTL DEF Pushes!Spec

\* Whichever providers, keys and failures: the receipt of a push that returned names as succeeded what
\* was acknowledged, and that is stored (provider_push_receipt).
THEOREM ReceiptsAreTrue == Pushes!Spec => []Pushes!ReceiptIsTrue
<1>1. Pushes!PushInv => Pushes!ReceiptIsTrue
  BY DEF Pushes!PushInv
<1>2. QED
  BY <1>1, PushInvariant, PTL

\* A push that fails as a whole has sent nothing, but for the refusals that ErrorSentNothing names.
THEOREM ErrorsSentNothing == Pushes!Spec => []Pushes!ErrorSentNothing
<1>1. Pushes!PushInv => Pushes!ErrorSentNothing
  BY DEF Pushes!PushInv
<1>2. QED
  BY <1>1, PushInvariant, PTL

\* A comparison answers for every key, and truly, unless somebody changed the file or the key.
THEOREM ComparisonsAreTrue == Pushes!Spec => []Pushes!ComparisonIsTrue
<1>1. Pushes!PushInv => Pushes!ComparisonIsTrue
  BY DEF Pushes!PushInv
<1>2. QED
  BY <1>1, PushInvariant, PTL

\* A push writes the selected keys, with the values it has read, in the account that was asked for.
THEOREM OnlyChosenIsWritten == Pushes!Spec => Pushes!OnlyWhatWasChosen
<1>1. ASSUME Pushes!PushInv, [Pushes!Next]_Pushes!vars
      PROVE  [\A a \in Pushes!Account, k \in Key :
                remote'[a][k] # remote[a][k] /\ call' # call => Chosen(a, k)]_Pushes!vars
  BY <1>1, StepChosen DEF pushVars, Pushes!vars
<1>2. QED
  BY <1>1, PushInvariant, PTL DEF Pushes!Spec, Pushes!OnlyWhatWasChosen, Chosen

----------------------------------------------------------------------------
\* The log of what agents did: what a reader finds.

LEMMA SameCardinality == \A S : Log!Cardinality(S) = Cardinality(S)
BY DEF Log!Cardinality, Cardinality

LEMMA ReadTyped ==
  ASSUME NEW n
  PROVE  Log!ReadEvents(n) \subseteq 1..MaxEvents
BY DEF Log!ReadEvents, Log!EventsIn

LEMMA LegacyTyped == Log!Legacy \subseteq 1..MaxEvents
BY ReadTyped DEF Log!Legacy

\* A file that is not there, or holds nothing, has no events.
LEMMA NothingRead ==
  ASSUME NEW n, names[n] = 0
  PROVE  Log!ReadEvents(n) = {}
<1>1. Log!Recent(Log!Held(n)) = << >>
  BY LogAssumption DEF Log!LogAssumption, Log!Recent, Log!Held, Log!MaxBytes
<1>2. QED
  BY <1>1 DEF Log!ReadEvents, Log!EventsIn

LEMMA NothingReadNext ==
  ASSUME NEW n, names'[n] = 0
  PROVE  Log!ReadEvents(n)' = {}
<1>1. Log!Recent(Log!Held(n))' = << >>
  BY LogAssumption DEF Log!LogAssumption, Log!Recent, Log!Held, Log!MaxBytes
<1>2. QED
  BY <1>1 DEF Log!ReadEvents, Log!EventsIn

\* What a reader finds in a file that was not touched while another was added.
LEMMA ReadSame ==
  ASSUME Log!TypeOK, NEW n \in Log!Name, names'[n] = names[n],
         (bytes' = bytes) \/ (\E text \in Seq(Nat) : bytes' = Append(bytes, text))
  PROVE  Log!ReadEvents(n)' = Log!ReadEvents(n)
<1> DEFINE k == names[n]
<1>1. k \in 0..Len(bytes) /\ bytes \in Seq(Seq(Nat)) /\ Len(bytes) \in Nat
  BY DEF Log!TypeOK
<1>2. names'[n] = k
  OBVIOUS
<1>3. Log!Held(n)' = Log!Held(n)
  <2> HIDE DEF k
  <2>1. k # 0 => k \in 1..Len(bytes)
    BY <1>1
  <2>2. CASE bytes' = bytes
    BY <2>2 DEF Log!Held
  <2>3. CASE \E text \in Seq(Nat) : bytes' = Append(bytes, text)
    <3>1. k # 0 => bytes'[k] = bytes[k]
      BY <2>1, <2>3, <1>1
    <3>2. QED
      BY <3>1, <1>2 DEF Log!Held, k
  <2>4. QED
    BY <2>2, <2>3
<1>4. QED
  BY <1>3 DEF Log!ReadEvents, Log!Recent

LEMMA LegacySame ==
  ASSUME Log!ReadEvents("legacyPrevious")' = Log!ReadEvents("legacyPrevious"),
         Log!ReadEvents("legacyLog")' = Log!ReadEvents("legacyLog")
  PROVE  Log!Legacy' = Log!Legacy
BY DEF Log!Legacy

----------------------------------------------------------------------------
\* Of a set of events at most max are its newest.
LEMMA NewestFacts ==
  ASSUME NEW S \in SUBSET (1..MaxEvents), NEW max \in Nat
  PROVE  /\ Log!Newest(S, max) \subseteq S
         /\ IsFiniteSet(Log!Newest(S, max))
         /\ Cardinality(Log!Newest(S, max)) \in 0..max
<1> DEFINE N == Log!Newest(S, max)
<1>0. MaxEvents \in Nat
  BY LogAssumption DEF Log!LogAssumption
<1>1. IsFiniteSet(1..MaxEvents)
  BY <1>0, FS_Interval
<1>2. IsFiniteSet(S)
  BY <1>1, FS_Subset
<1>3. N \subseteq S
  BY DEF Log!Newest
<1>4. IsFiniteSet(N) /\ Cardinality(N) \in Nat
  BY <1>2, <1>3, FS_Subset, FS_CardinalityType
<1>5. Cardinality(N) <= max
  <2>1. CASE N = {}
    <3>1. Cardinality(N) = 0
      BY <2>1, FS_EmptySet
    <3>2. QED
      BY <3>1
  <2>2. CASE N # {}
    <3>0. N \subseteq Nat
      <4>1. \A e \in 1..MaxEvents : e \in Nat
        BY <1>0
      <4>2. QED
        BY <4>1, <1>3
    <3>1. PICK m \in N : \A e \in N : ~(e < m)
      <4>1. IsWellFoundedOn(OpToRel(<, Nat), Nat)
        BY NatLessThanWellFounded
      <4> HIDE DEF N
      <4>2. PICK m \in N : \A e \in N : ~(<<e, m>> \in OpToRel(<, Nat))
        BY <4>1, <3>0, <2>2, WFMin
      <4>3. QED
        BY <3>0, <4>2 DEF OpToRel
    <3> DEFINE F == { f \in S : f > m }
    <3>2. N \ {m} \subseteq F
      <4>1. m \in Nat /\ \A e \in N \ {m} : e \in S /\ e \in Nat /\ ~(e < m) /\ e # m
        BY <3>0, <3>1, <1>3
      <4>2. \A e \in N \ {m} : e \in S /\ e > m
        BY <4>1
      <4>3. QED
        BY <4>2
    <3>3. Cardinality(F) < max
      BY <3>1, SameCardinality DEF Log!Newest
    <3>4. IsFiniteSet(F) /\ Cardinality(F) \in Nat
      BY <1>2, FS_Subset, FS_CardinalityType
    <3>5. Cardinality(N \ {m}) <= Cardinality(F)
      BY <3>2, <3>4, FS_Subset
    <3>6. Cardinality(N \ {m}) = Cardinality(N) - 1
      BY <1>4, <3>1, FS_RemoveElement
    <3>7. QED
      BY <3>3, <3>4, <3>5, <3>6, <1>4
  <2>3. QED
    BY <2>1, <2>2
<1>6. QED
  BY <1>3, <1>4, <1>5

\* A log of so many lines is read as a whole, and its events are the ones written to it.
LEMMA LinesRead ==
  ASSUME NEW R \in SUBSET (1..MaxEvents), Cardinality(R) \in 0..MaxLines, NEW text \in Log!Lines(R)
  PROVE  text \in Seq(Nat) /\ Log!EventsIn(Log!Recent(text)) = R
<1> DEFINE n == Cardinality(R)
<1>0. n \in Nat /\ n <= MaxLines /\ MaxLines \in Nat /\ MaxEvents \in Nat
  BY LogAssumption DEF Log!LogAssumption
<1>1. PICK order \in [1..n -> R] :
        /\ \A e \in R : \E i \in DOMAIN order : order[i] = e
        /\ text = [j \in 1..2 * n |-> IF j % 2 = 1 THEN order[(j + 1) \div 2] ELSE Log!EndOfLine]
  BY SameCardinality DEF Log!Lines
<1> HIDE DEF n
<1>2. \A j \in 1..2 * n : (j + 1) \div 2 \in 1..n \/ j % 2 # 1
  BY <1>0
<1>3. \A j \in 1..2 * n : text[j] = IF j % 2 = 1 THEN order[(j + 1) \div 2] ELSE 0
  BY <1>1 DEF Log!EndOfLine
<1>4. \A j \in 1..2 * n : text[j] \in Nat
  <2>1. \A i \in 1..n : order[i] \in R
    BY <1>1
  <2>2. \A e \in 1..MaxEvents : e \in Nat
    BY <1>0
  <2>3. \A i \in 1..n : order[i] \in Nat
    BY <2>1, <2>2
  <2> QED
    BY <1>2, <1>3, <2>3
<1>5. text = [j \in 1..2 * n |-> text[j]]
  BY <1>1
<1>6. text \in [1..2 * n -> Nat] /\ 2 * n \in Nat
  BY <1>4, <1>5, <1>0
<1>7. text \in Seq(Nat) /\ Len(text) = 2 * n /\ DOMAIN text = 1..2 * n
  BY <1>6, LenProperties, SeqDef
<1>8. Log!Recent(text) = text
  BY <1>7, <1>0 DEF Log!Recent, Log!MaxBytes
<1>9. ASSUME NEW e \in R
      PROVE  e \in Log!EventsIn(text)
  <2>1. PICK i \in 1..n : order[i] = e
    BY <1>1
  <2> DEFINE j == 2 * i - 1
  <2>2. j \in 1..2 * n /\ j % 2 = 1 /\ (j + 1) \div 2 = i
    BY <1>0
  <2>3. text[j] = e
    BY <2>1, <2>2, <1>3
  <2>4. j = 1 \/ (j - 1 \in 1..2 * n /\ (j - 1) % 2 # 1)
    BY <1>0
  <2>5. j + 1 \in 1..2 * n /\ (j + 1) % 2 # 1
    BY <1>0
  <2>6. (j = 1 \/ text[j - 1] = 0) /\ text[j + 1] = 0
    BY <2>4, <2>5, <1>3
  <2> HIDE DEF j
  <2>7. QED
    BY <2>2, <2>3, <2>6, <1>7 DEF Log!EventsIn, Log!EndOfLine
<1>10. ASSUME NEW e \in Log!EventsIn(text)
       PROVE  e \in R
  <2>1. PICK i \in 1..2 * n : text[i] = e
    BY <1>7 DEF Log!EventsIn
  <2>2. e \in 1..MaxEvents
    BY DEF Log!EventsIn
  <2>3. i % 2 = 1 /\ text[i] = order[(i + 1) \div 2]
    BY <2>1, <2>2, <1>3
  <2>4. QED
    BY <2>1, <2>3, <1>2
<1>11. QED
  BY <1>7, <1>8, <1>9, <1>10

----------------------------------------------------------------------------
\* The brokers: types are kept, and the migration is no longer on its own.

LEMMA PieceTyped ==
  ASSUME Log!TypeOK, NEW w \in Broker, NEW piece \in Nat, Log!Puts(w, piece)
  PROVE  bytes' \in Seq(Seq(Nat)) /\ Len(bytes') = Len(bytes)
<1> DEFINE k == writer[w].inode
<1>1. bytes \in Seq(Seq(Nat)) /\ bytes' = [bytes EXCEPT ![k] = Append(bytes[k], piece)]
  BY DEF Log!TypeOK, Log!Puts
<1> HIDE DEF k
<1>2. DOMAIN bytes' = 1..Len(bytes) /\ Len(bytes) \in Nat
  BY <1>1
<1>3. \A i \in 1..Len(bytes) : bytes[i] \in Seq(Nat)
  BY <1>1
<1>4. \A i \in 1..Len(bytes) : bytes'[i] = IF i = k THEN Append(bytes[k], piece) ELSE bytes[i]
  BY <1>1
<1>5. \A i \in 1..Len(bytes) : bytes'[i] \in Seq(Nat)
  <2>1. ASSUME NEW i \in 1..Len(bytes)
        PROVE  Append(bytes[i], piece) \in Seq(Nat)
    BY <1>3
  <2>2. QED
    BY <1>3, <1>4, <2>1
<1>6. bytes' \in [1..Len(bytes) -> Seq(Nat)]
  BY <1>1, <1>2, <1>5
<1>7. QED
  BY <1>2, <1>6, SeqDef, LenProperties

LEMMA AuditTyped ==
  ASSUME Log!TypeOK, NEW w \in Broker, Log!Audit(w)
  PROVE  Log!TypeOK' /\ since'.disturbed
<1> DEFINE Pcs == {"rest", "size", "discard", "rotate", "open", "write", "end"}
           Rec == [pc : Pcs, event : Nat, inode : Nat]
<1>0. MaxEvents \in Nat /\ events \in 0..MaxEvents
  BY LogAssumption DEF Log!LogAssumption, Log!TypeOK
<1>1. writer \in [Broker -> Rec] /\ writer[w] \in Rec
  BY DEF Log!TypeOK
<1>2. desk' = desk /\ starts' = starts /\ since' = [since EXCEPT !.disturbed = TRUE]
  BY DEF Log!Audit, Log!Disturbs
<1>3. /\ since' \in [legacy : SUBSET (1..MaxEvents), app : SUBSET (1..MaxEvents),
                     disturbed : BOOLEAN, failed : BOOLEAN]
      /\ since'.disturbed
  BY <1>2 DEF Log!TypeOK
<1>4. Log!Resting \in Rec
  BY DEF Log!Resting
<1>5. Log!Log(w) \in Log!Name /\ Log!Previous(w) \in Log!Name
  BY DEF Log!Log, Log!Previous, Log!Name
<1>6. names \in [Log!Name -> 0..Len(bytes)] /\ bytes \in Seq(Seq(Nat)) /\ Len(bytes) \in Nat
  BY DEF Log!TypeOK
<1>7. /\ writer' \in [Broker -> Rec] /\ names' \in [Log!Name -> 0..Len(bytes')]
      /\ bytes' \in Seq(Seq(Nat)) /\ events' \in 0..MaxEvents
  <2>1. CASE Log!Record(w)
    <3>1. events' = events + 1 /\ events' \in 0..MaxEvents /\ UNCHANGED <<names, bytes>>
      BY <2>1, <1>0 DEF Log!Record
    <3> DEFINE r == [pc |-> "size", event |-> events + 1, inode |-> 0]
    <3>2. r \in Rec
      BY <1>0
    <3>3. writer' = [writer EXCEPT ![w] = r]
      BY <2>1 DEF Log!Record
    <3> HIDE DEF r
    <3>4. QED
      BY <3>1, <3>2, <3>3, <1>1, <1>6
  <2>2. CASE Log!CheckSize(w)
    <3>1. UNCHANGED <<names, bytes, events>>
      BY <2>2 DEF Log!CheckSize
    <3>2. writer' \in [Broker -> Rec]
      BY <2>2, <1>1 DEF Log!CheckSize, Log!Go
    <3>3. QED
      BY <3>1, <3>2, <1>0, <1>6
  <2>3. CASE Log!Discard(w)
    <3>1. UNCHANGED <<bytes, events>> /\ writer' \in [Broker -> Rec]
      BY <2>3, <1>1 DEF Log!Discard, Log!Go
    <3>2. names' \in [Log!Name -> 0..Len(bytes)]
      BY <2>3, <1>5, <1>6 DEF Log!Discard
    <3>3. QED
      BY <3>1, <3>2, <1>0, <1>6
  <2>4. CASE Log!Rotate(w)
    <3>1. UNCHANGED <<bytes, events>> /\ writer' \in [Broker -> Rec]
      BY <2>4, <1>1 DEF Log!Rotate, Log!Go
    <3>2. names' \in [Log!Name -> 0..Len(bytes)]
      <4> DEFINE a == Log!Log(w)
                 b == Log!Previous(w)
                 renamed == [names EXCEPT ![b] = names[a]]
      <4>1. names' = names \/ names' = [renamed EXCEPT ![a] = 0]
        BY <2>4 DEF Log!Rotate
      <4>2. a \in Log!Name /\ b \in Log!Name
        BY <1>5
      <4> HIDE DEF a, b
      <4>3. renamed \in [Log!Name -> 0..Len(bytes)]
        BY <4>2, <1>6
      <4> HIDE DEF renamed
      <4>4. 0 \in 0..Len(bytes)
        BY <1>6
      <4>5. QED
        BY <4>1, <4>2, <4>3, <4>4, <1>6
    <3>3. QED
      BY <3>1, <3>2, <1>0, <1>6
  <2>5. CASE Log!Open(w)
    <3>1. events' = events
      BY <2>5 DEF Log!Open
    <3>2. /\ bytes' \in Seq(Seq(Nat)) /\ Len(bytes') \in Nat /\ Len(bytes') >= Len(bytes)
          /\ names' \in [Log!Name -> 0..Len(bytes')]
      <4>1. CASE names[Log!Log(w)] # 0
        BY <4>1, <2>5, <1>6 DEF Log!Open
      <4>2. CASE names[Log!Log(w)] = 0
        <5>1. bytes' = Append(bytes, << >>) /\ names' = [names EXCEPT ![Log!Log(w)] = Len(bytes')]
          BY <4>2, <2>5 DEF Log!Open
        <5>2. << >> \in Seq(Nat)
          OBVIOUS
        <5>3. bytes' \in Seq(Seq(Nat)) /\ Len(bytes') = Len(bytes) + 1
          BY <5>1, <5>2, <1>6
        <5>4. QED
          BY <5>1, <5>3, <1>5, <1>6
      <4>3. QED
        BY <4>1, <4>2
    <3>3. writer' = [writer EXCEPT ![w].pc = "write", ![w].inode = names'[Log!Log(w)]]
      BY <2>5 DEF Log!Open
    <3>4. names'[Log!Log(w)] \in Nat
      BY <3>2, <1>5
    <3>5. writer' \in [Broker -> Rec]
      BY <3>3, <3>4, <1>1
    <3>6. QED
      BY <3>1, <3>2, <3>5, <1>0
  <2>6. CASE Log!Write(w)
    <3>1. UNCHANGED <<names, events>>
      BY <2>6 DEF Log!Write
    <3>2. writer' \in [Broker -> Rec]
      BY <2>6, <1>1, <1>4 DEF Log!Write, Log!Go
    <3>3. PICK piece \in Nat : Log!Puts(w, piece)
      BY <2>6, <1>1 DEF Log!Write, Log!EndOfLine
    <3>4. bytes' \in Seq(Seq(Nat)) /\ Len(bytes') = Len(bytes)
      BY <3>3, PieceTyped
    <3>5. QED
      BY <3>1, <3>2, <3>4, <1>0, <1>6
  <2>7. CASE Log!GiveUp(w)
    <3>1. UNCHANGED <<names, events>> /\ writer' \in [Broker -> Rec]
      BY <2>7, <1>1, <1>4 DEF Log!GiveUp
    <3>2. Log!Fragment \in Nat
      BY <1>0 DEF Log!Fragment
    <3>3. bytes' = bytes \/ Log!Puts(w, Log!Fragment)
      BY <2>7 DEF Log!GiveUp
    <3>4. bytes' \in Seq(Seq(Nat)) /\ Len(bytes') = Len(bytes)
      BY <3>2, <3>3, PieceTyped, <1>6
    <3>5. QED
      BY <3>1, <3>4, <1>0, <1>6
  <2>8. QED
    BY <2>1, <2>2, <2>3, <2>4, <2>5, <2>6, <2>7 DEF Log!Audit
<1>8. QED
  BY <1>2, <1>3, <1>7 DEF Log!TypeOK

----------------------------------------------------------------------------
\* The steps of the migration: types.

LEMMA RetainedFacts ==
  ASSUME Log!TypeOK
  PROVE  Log!Retained \in SUBSET (1..MaxEvents) /\ Cardinality(Log!Retained) \in 0..MaxLines
<1>1. desk.found \cup desk.target \in SUBSET (1..MaxEvents)
  BY DEF Log!TypeOK
<1>2. MaxLines \in Nat
  BY LogAssumption DEF Log!LogAssumption
<1>3. QED
  BY <1>1, <1>2, NewestFacts DEF Log!Retained

\* A migration leaves the files as they are, or takes away one, or puts in place what it retained.
LEMMA MigrateFiles ==
  ASSUME Log!TypeOK, Log!Migrate
  PROVE  /\ bytes' \in Seq(Seq(Nat)) /\ names' \in [Log!Name -> 0..Len(bytes')]
         /\ bytes' = bytes \/ \E text \in Seq(Nat) : bytes' = Append(bytes, text)
         /\ events' = events /\ writer' = writer
<1>0. bytes \in Seq(Seq(Nat)) /\ names \in [Log!Name -> 0..Len(bytes)] /\ Len(bytes) \in Nat
  BY DEF Log!TypeOK
<1>1. events' = events /\ writer' = writer
  BY DEF Log!Migrate
<1>2. CASE Log!Begin \/ Log!ReadSource \/ Log!ReadTarget \/ Log!Break
  <2>1. names' = names /\ bytes' = bytes
    BY <1>2 DEF Log!Begin, Log!ReadSource, Log!ReadTarget, Log!Break
  <2>2. QED
    BY <2>1, <1>0, <1>1
<1>3. CASE Log!RemoveTarget
  BY <1>3, <1>0, <1>1 DEF Log!RemoveTarget, Log!Name
<1>4. CASE Log!Persist
  <2>1. PICK text \in Log!Lines(Log!Retained) : bytes' = Append(bytes, text)
    BY <1>4 DEF Log!Persist
  <2>2. text \in Seq(Nat)
    BY <2>1, RetainedFacts, LinesRead
  <2>3. bytes' \in Seq(Seq(Nat)) /\ Len(bytes') = Len(bytes) + 1
    BY <2>1, <2>2, <1>0
  <2>4. names' = [names EXCEPT !["log"] = Len(bytes')]
    BY <1>4 DEF Log!Persist
  <2>5. names' \in [Log!Name -> 0..Len(bytes')]
    <3>1. Len(bytes') \in 0..Len(bytes') /\ \A i \in 0..Len(bytes) : i \in 0..Len(bytes')
      BY <2>3, <1>0
    <3>2. names \in [Log!Name -> 0..Len(bytes')]
      BY <3>1, <1>0
    <3>3. QED
      BY <2>4, <3>1, <3>2
  <2>6. QED
    BY <2>1, <2>2, <2>3, <2>5, <1>1
<1>5. ASSUME NEW n \in Log!Name, NEW pc, Log!RemoveSource(n, pc)
      PROVE  bytes' = bytes /\ names' \in [Log!Name -> 0..Len(bytes)]
  <2>1. 0 \in 0..Len(bytes)
    BY <1>0
  <2>2. bytes' = bytes /\ (names' = names \/ names' = [names EXCEPT ![n] = 0])
    BY <1>5 DEF Log!RemoveSource
  <2>3. QED
    BY <2>1, <2>2, <1>0
<1>6. CASE \/ Log!RemoveSource("legacyPrevious", "removePrevious")
           \/ Log!RemoveSource("legacyLog", "removeLog")
  <2>1. bytes' = bytes /\ names' \in [Log!Name -> 0..Len(bytes)]
    BY <1>5, <1>6 DEF Log!Name
  <2>2. QED
    BY <2>1, <1>0, <1>1
<1>7. QED
  BY <1>2, <1>3, <1>4, <1>6 DEF Log!Migrate

DeskRecord ==
  [pc : {"rest", "legacyPrevious", "legacyLog", "target", "remove", "persist", "removePrevious",
         "removeLog"},
   found : SUBSET (1..MaxEvents), target : SUBSET (1..MaxEvents)]
SinceRecord ==
  [legacy : SUBSET (1..MaxEvents), app : SUBSET (1..MaxEvents), disturbed : BOOLEAN,
   failed : BOOLEAN]

LEMMA MigrateTyped ==
  ASSUME Log!TypeOK, Log!Migrate
  PROVE  Log!TypeOK'
<1>0. desk \in DeskRecord /\ since \in SinceRecord /\ starts \in Nat
  BY DEF Log!TypeOK, DeskRecord, SinceRecord
<1>a. Log!NoMigration \in DeskRecord
  BY DEF Log!NoMigration, DeskRecord
<1>b. \A n : Log!ReadEvents(n) \in SUBSET (1..MaxEvents)
  BY ReadTyped
<1>1. desk' \in DeskRecord /\ since' \in SinceRecord /\ starts' \in Nat
  <2>1. CASE Log!Begin
    <3>1. desk' = [Log!NoMigration EXCEPT !.pc = "legacyPrevious"] /\ starts' = starts + 1
      BY <2>1 DEF Log!Begin
    <3>2. since' = [legacy |-> Log!Legacy, app |-> Log!ReadEvents("log"), disturbed |-> FALSE, failed |-> FALSE]
      BY <2>1 DEF Log!Begin
    <3>3. desk' \in DeskRecord
      BY <3>1 DEF Log!NoMigration, DeskRecord
    <3>4. since' \in SinceRecord
      BY <3>2, <1>b, LegacyTyped DEF SinceRecord
    <3>5. QED
      BY <3>1, <3>3, <3>4, <1>0
  <2>2. CASE Log!ReadSource
    <3>1. since' \in SinceRecord /\ starts' = starts
      BY <2>2, <1>0 DEF Log!ReadSource, Log!Reads, SinceRecord
    <3>2. PICK set \in SUBSET (1..MaxEvents) :
            \/ desk' = [desk EXCEPT !.pc = "legacyLog", !.found = set]
            \/ desk' = Log!NoMigration
            \/ desk' = [desk EXCEPT !.pc = "target", !.found = desk.found \cup set]
      BY <2>2, <1>b DEF Log!ReadSource, Log!Reads, Log!Ends
    <3>3. desk' \in DeskRecord
      BY <3>2, <1>0, <1>a DEF DeskRecord
    <3>4. QED
      BY <3>1, <3>3, <1>0
  <2>3. CASE Log!ReadTarget
    <3>1. since' \in SinceRecord /\ starts' = starts
      BY <2>3, <1>0 DEF Log!ReadTarget, Log!Reads, SinceRecord
    <3>2. PICK set \in SUBSET (1..MaxEvents) :
            desk' = [desk EXCEPT !.pc = "remove", !.target = set]
      BY <2>3, <1>b DEF Log!ReadTarget, Log!Reads
    <3>3. desk' \in DeskRecord
      BY <3>2, <1>0 DEF DeskRecord
    <3>4. QED
      BY <3>1, <3>3, <1>0
  <2>4. CASE Log!RemoveTarget
    BY <2>4, <1>0 DEF Log!RemoveTarget, DeskRecord
  <2>5. CASE Log!Persist
    BY <2>5, <1>0 DEF Log!Persist, DeskRecord
  <2>6. ASSUME NEW n, NEW pc, Log!RemoveSource(n, pc)
        PROVE  desk' \in DeskRecord /\ since' = since /\ starts' = starts
    BY <2>6, <1>0, <1>a DEF Log!RemoveSource, DeskRecord, Log!Ends
  <2>7. CASE \/ Log!RemoveSource("legacyPrevious", "removePrevious")
             \/ Log!RemoveSource("legacyLog", "removeLog")
    BY <2>6, <2>7, <1>0
  <2>8. CASE Log!Break
    BY <2>8, <1>0, <1>a DEF Log!Break, Log!Ends, SinceRecord
  <2>9. QED
    BY <2>1, <2>2, <2>3, <2>4, <2>5, <2>7, <2>8 DEF Log!Migrate
<1>2. events' \in 0..MaxEvents /\ writer' = writer
  BY MigrateFiles DEF Log!TypeOK
<1>3. QED
  BY <1>1, <1>2, MigrateFiles DEF Log!TypeOK, DeskRecord, SinceRecord

----------------------------------------------------------------------------
\* The steps of the migration: what it has read, and where the events are meanwhile.

LEMMA FilesSame ==
  ASSUME Log!TypeOK, Log!Migrate
  PROVE  \A n \in Log!Name : names'[n] = names[n] => Log!ReadEvents(n)' = Log!ReadEvents(n)
<1>1. bytes' = bytes \/ \E text \in Seq(Nat) : bytes' = Append(bytes, text)
  BY MigrateFiles
<1>2. QED
  BY <1>1, ReadSame

LEMMA NoFileChanged ==
  ASSUME Log!TypeOK, Log!Migrate, names' = names
  PROVE  Log!Legacy' = Log!Legacy /\ Log!ReadEvents("log")' = Log!ReadEvents("log")
<1>1. \A n \in Log!Name : Log!ReadEvents(n)' = Log!ReadEvents(n)
  BY FilesSame
<1>2. {"log", "legacyPrevious", "legacyLog"} \subseteq Log!Name
  BY DEF Log!Name
<1>3. Log!ReadEvents("legacyPrevious")' = Log!ReadEvents("legacyPrevious")
  BY <1>1, <1>2
<1>4. Log!ReadEvents("legacyLog")' = Log!ReadEvents("legacyLog")
  BY <1>1, <1>2
<1>5. Log!ReadEvents("log")' = Log!ReadEvents("log")
  BY <1>1, <1>2
<1>6. QED
  BY <1>3, <1>4, <1>5, LegacySame

\* Only the log of the app is exchanged.
LEMMA LegacyUntouched ==
  ASSUME Log!TypeOK, Log!Migrate, NEW x, names' = [names EXCEPT !["log"] = x]
  PROVE  Log!Legacy' = Log!Legacy
<1>1. \A n \in Log!Name : n # "log" => names'[n] = names[n]
  BY DEF Log!TypeOK
<1>2. /\ names'["legacyPrevious"] = names["legacyPrevious"]
      /\ names'["legacyLog"] = names["legacyLog"]
  BY <1>1 DEF Log!Name
<1>3. Log!ReadEvents("legacyPrevious")' = Log!ReadEvents("legacyPrevious")
  BY <1>2, FilesSame DEF Log!Name
<1>4. Log!ReadEvents("legacyLog")' = Log!ReadEvents("legacyLog")
  BY <1>2, FilesSame DEF Log!Name
<1>5. QED
  BY <1>3, <1>4, LegacySame

LEMMA BeginWay ==
  ASSUME Log!LogInv, Log!Migrate, Log!Begin
  PROVE  Log!OnItsWay'
<1>1. Log!Legacy' = Log!Legacy /\ Log!ReadEvents("log")' = Log!ReadEvents("log")
  BY NoFileChanged DEF Log!LogInv, Log!Begin
<1>2. since'.legacy = Log!Legacy /\ since'.app = Log!ReadEvents("log")
  BY DEF Log!Begin
<1>3. desk'.pc = "legacyPrevious" /\ desk'.found = {}
  BY DEF Log!Begin, Log!NoMigration
<1>4. QED
  BY <1>1, <1>2, <1>3 DEF Log!OnItsWay

LEMMA ReadSourceWay ==
  ASSUME Log!LogInv, Log!Migrate, Log!ReadSource, ~since'.disturbed, ~since'.failed
  PROVE  Log!OnItsWay'
<1>1. Log!Legacy' = Log!Legacy /\ Log!ReadEvents("log")' = Log!ReadEvents("log")
  BY NoFileChanged DEF Log!LogInv, Log!ReadSource
<1>2. since' = since
  BY DEF Log!ReadSource, Log!Reads, Log!LogInv, Log!TypeOK
<1>3. Log!OnItsWay
  BY <1>2 DEF Log!LogInv
<1>4. Log!ReadEvents("legacyPrevious")' = Log!ReadEvents("legacyPrevious")
  BY FilesSame DEF Log!Name, Log!LogInv, Log!ReadSource
<1>5. since.legacy = Log!Legacy /\ since.app = Log!ReadEvents("log")
  BY <1>3 DEF Log!OnItsWay, Log!ReadSource
<1>6. CASE desk.pc = "legacyPrevious"
  <2>1. desk' = [desk EXCEPT !.pc = "legacyLog", !.found = Log!ReadEvents("legacyPrevious")]
    BY <1>2, <1>6, <1>3 DEF Log!ReadSource, Log!Reads, Log!LogInv, Log!TypeOK
  <2>2. desk'.pc = "legacyLog" /\ desk'.found = Log!ReadEvents("legacyPrevious")
    BY <2>1 DEF Log!LogInv, Log!TypeOK
  <2>3. QED
    BY <2>2, <1>1, <1>2, <1>4, <1>5 DEF Log!OnItsWay
<1>7. CASE desk.pc = "legacyLog"
  <2> DEFINE all == desk.found \cup Log!ReadEvents("legacyLog")
  <2>1. all = Log!Legacy
    BY <1>3, <1>7 DEF Log!OnItsWay, Log!Legacy
  <2>2. IF all = {} THEN Log!Ends ELSE desk' = [desk EXCEPT !.pc = "target", !.found = all]
    BY <1>2, <1>7 DEF Log!ReadSource, Log!Reads, Log!LogInv, Log!TypeOK
  <2>3. CASE all = {}
    <3>1. desk'.pc = "rest"
      BY <2>2, <2>3 DEF Log!Ends, Log!NoMigration
    <3>2. QED
      BY <3>1, <1>1, <1>2, <1>5 DEF Log!OnItsWay
  <2>4. CASE all # {}
    <3>1. desk'.pc = "target" /\ desk'.found = Log!Legacy
      BY <2>1, <2>2, <2>4 DEF Log!LogInv, Log!TypeOK
    <3>2. QED
      BY <3>1, <1>1, <1>2, <1>5 DEF Log!OnItsWay
  <2>5. QED
    BY <2>3, <2>4
<1>8. QED
  BY <1>6, <1>7 DEF Log!ReadSource

LEMMA ReadTargetWay ==
  ASSUME Log!LogInv, Log!Migrate, Log!ReadTarget, ~since'.disturbed, ~since'.failed
  PROVE  Log!OnItsWay'
<1>1. Log!Legacy' = Log!Legacy /\ Log!ReadEvents("log")' = Log!ReadEvents("log")
  BY NoFileChanged DEF Log!LogInv, Log!ReadTarget
<1>2. since' = since
  BY DEF Log!ReadTarget, Log!Reads, Log!LogInv, Log!TypeOK
<1>3. Log!OnItsWay
  BY <1>2 DEF Log!LogInv
<1>4. /\ since.legacy = Log!Legacy /\ since.app = Log!ReadEvents("log") /\ desk.found = since.legacy
  BY <1>3 DEF Log!OnItsWay, Log!ReadTarget
<1>5. desk' = [desk EXCEPT !.pc = "remove", !.target = Log!ReadEvents("log")]
  BY <1>2 DEF Log!ReadTarget, Log!Reads, Log!LogInv, Log!TypeOK
<1>6. desk'.pc = "remove" /\ desk'.target = Log!ReadEvents("log") /\ desk'.found = desk.found
  BY <1>5 DEF Log!LogInv, Log!TypeOK
<1>7. QED
  BY <1>1, <1>2, <1>4, <1>6 DEF Log!OnItsWay

LEMMA RemoveTargetWay ==
  ASSUME Log!LogInv, Log!Migrate, Log!RemoveTarget, ~since'.disturbed, ~since'.failed
  PROVE  Log!OnItsWay'
<1>1. Log!Legacy' = Log!Legacy
  BY LegacyUntouched DEF Log!LogInv, Log!RemoveTarget
<1>2. since' = since /\ Log!OnItsWay
  BY DEF Log!RemoveTarget, Log!LogInv
<1>3. since.legacy = Log!Legacy /\ desk.found = since.legacy /\ desk.target = since.app
  BY <1>2 DEF Log!OnItsWay, Log!RemoveTarget
<1>4. desk'.pc = "persist" /\ desk'.found = desk.found /\ desk'.target = desk.target
  BY DEF Log!RemoveTarget, Log!LogInv, Log!TypeOK
<1>5. QED
  BY <1>1, <1>2, <1>3, <1>4 DEF Log!OnItsWay

LEMMA PersistWay ==
  ASSUME Log!LogInv, Log!Migrate, Log!Persist, ~since'.disturbed, ~since'.failed
  PROVE  Log!OnItsWay'
<1>1. since' = since /\ Log!OnItsWay
  BY DEF Log!Persist, Log!LogInv
<1>2. desk.found = since.legacy /\ desk.target = since.app
  BY <1>1 DEF Log!OnItsWay, Log!Persist
<1>3. Log!Retained = Log!Newest(since.legacy \cup since.app, MaxLines)
  BY <1>2 DEF Log!Retained
<1>4. PICK text \in Log!Lines(Log!Retained) : bytes' = Append(bytes, text)
  BY DEF Log!Persist
<1>5. text \in Seq(Nat) /\ Log!EventsIn(Log!Recent(text)) = Log!Retained
  BY <1>4, RetainedFacts, LinesRead DEF Log!LogInv
<1>6. /\ bytes \in Seq(Seq(Nat)) /\ Len(bytes) \in Nat
      /\ names \in [Log!Name -> 0..Len(bytes)] /\ "log" \in Log!Name
  BY DEF Log!LogInv, Log!TypeOK, Log!Name
<1>7. Len(bytes') = Len(bytes) + 1 /\ bytes'[Len(bytes) + 1] = text
  BY <1>4, <1>5, <1>6
<1>8. names'["log"] = Len(bytes) + 1
  BY <1>6, <1>7 DEF Log!Persist
<1>9. Log!Held("log")' = text
  BY <1>6, <1>7, <1>8 DEF Log!Held
<1>10. Log!ReadEvents("log")' = Log!EventsIn(Log!Recent(text))
  BY <1>9 DEF Log!ReadEvents
<1>11. desk'.pc = "removePrevious"
  BY DEF Log!Persist, Log!LogInv, Log!TypeOK
<1>12. QED
  BY <1>1, <1>3, <1>5, <1>10, <1>11 DEF Log!OnItsWay

LEMMA RemoveSourceWay ==
  ASSUME Log!LogInv, Log!Migrate, ~since'.disturbed, ~since'.failed,
         \/ Log!RemoveSource("legacyPrevious", "removePrevious")
         \/ Log!RemoveSource("legacyLog", "removeLog")
  PROVE  Log!OnItsWay'
<1>1. since' = since /\ Log!OnItsWay
  BY DEF Log!RemoveSource, Log!LogInv
<1>2. Log!ReadEvents("log") = Log!Newest(since.legacy \cup since.app, MaxLines)
  BY <1>1 DEF Log!OnItsWay, Log!RemoveSource
<1>3. names'["log"] = names["log"]
  BY DEF Log!RemoveSource, Log!LogInv, Log!TypeOK, Log!Name
<1>4. Log!ReadEvents("log")' = Log!ReadEvents("log")
  BY <1>3, FilesSame DEF Log!LogInv, Log!Name
<1>5. desk'.pc \in {"removeLog", "rest"}
  BY DEF Log!RemoveSource, Log!LogInv, Log!TypeOK, Log!Ends, Log!NoMigration
<1>6. QED
  BY <1>1, <1>2, <1>4, <1>5 DEF Log!OnItsWay

LEMMA BreakWay ==
  ASSUME Log!LogInv, Log!Migrate, Log!Break, ~since'.disturbed, ~since'.failed
  PROVE  Log!OnItsWay'
<1>1. Log!Legacy' = Log!Legacy /\ Log!ReadEvents("log")' = Log!ReadEvents("log")
  BY NoFileChanged DEF Log!LogInv, Log!Break
<1>2. /\ since'.legacy = since.legacy /\ since'.app = since.app
      /\ since'.disturbed = since.disturbed /\ since'.failed = (since.failed \/ desk.pc = "persist")
  BY DEF Log!Break, Log!LogInv, Log!TypeOK
<1>3. Log!OnItsWay /\ desk.pc # "persist"
  BY <1>2 DEF Log!LogInv
<1>4. (since.legacy \cup since.app) \cap Log!Newest(since.legacy \cup since.app, MaxLines)
        \subseteq Log!ReadEvents("log") \cup Log!Legacy
  BY <1>3 DEF Log!OnItsWay, Log!LogInv, Log!TypeOK
<1>5. desk'.pc = "rest"
  BY DEF Log!Break, Log!Ends, Log!NoMigration
<1>6. QED
  BY <1>1, <1>2, <1>4, <1>5 DEF Log!OnItsWay

----------------------------------------------------------------------------
LEMMA LogInit ==
  ASSUME Log!Init
  PROVE  Log!LogInv
<1>1. /\ bytes = << >> /\ events = 0 /\ starts = 0 /\ desk = Log!NoMigration
      /\ names = [n \in Log!Name |-> 0] /\ writer = [w \in Broker |-> Log!Resting]
      /\ since = [legacy |-> {}, app |-> {}, disturbed |-> FALSE, failed |-> FALSE]
  BY DEF Log!Init
<1>2. MaxEvents \in Nat
  BY LogAssumption DEF Log!LogAssumption
<1>3. Log!TypeOK
  <2>1. bytes \in Seq(Seq(Nat)) /\ names \in [Log!Name -> 0..Len(bytes)]
    BY <1>1
  <2>2. writer \in [Broker -> [pc : {"rest", "size", "discard", "rotate", "open", "write", "end"},
                               event : Nat, inode : Nat]]
    BY <1>1 DEF Log!Resting
  <2>3. QED
    BY <1>1, <1>2, <2>1, <2>2 DEF Log!TypeOK, Log!NoMigration
<1>4. Log!OnItsWay
  BY <1>1 DEF Log!OnItsWay, Log!NoMigration
<1>5. QED
  BY <1>3, <1>4 DEF Log!LogInv

LEMMA LogStep ==
  ASSUME Log!LogInv, [Log!Next]_(Log!vars)
  PROVE  Log!LogInv'
<1>1. CASE UNCHANGED Log!vars
  BY <1>1 DEF Log!vars, Log!LogInv, Log!TypeOK, Log!OnItsWay, Log!ReadEvents, Log!Held, Log!Legacy
<1>2. ASSUME NEW w \in Broker, Log!Audit(w)
      PROVE  Log!LogInv'
  BY <1>2, AuditTyped DEF Log!LogInv
<1>3. CASE Log!Migrate
  <2>1. Log!TypeOK'
    BY <1>3, MigrateTyped DEF Log!LogInv
  <2>2. ~since'.disturbed /\ ~since'.failed => Log!OnItsWay'
    BY <1>3, BeginWay, ReadSourceWay, ReadTargetWay, RemoveTargetWay, PersistWay, RemoveSourceWay,
       BreakWay DEF Log!Migrate
  <2>3. QED
    BY <2>1, <2>2 DEF Log!LogInv
<1>4. QED
  BY <1>1, <1>2, <1>3 DEF Log!Next

\* The migration of the log at the start of the app (agent_activity.rs): what it has read so far is
\* what was there, and what it put in place is all that the log may hold.
THEOREM LogInvariant == Log!Spec => []Log!LogInv
BY LogInit, LogStep, PTL DEF Log!Spec

\* A migration that could read every file there was, and at which no broker writes, loses none of the
\* newest events (agent_activity.rs): those of the old place are in one of the two at every moment,
\* and those of the log itself but for the moment of its exchange.  Of a migration that could not
\* read a file, an old log included, it says nothing: that one removes what it could not read.
THEOREM MigrationLosesNothing == Log!Spec => []Log!MigrationKeepsActivity
<1>1. Log!LogInv => Log!MigrationKeepsActivity
  BY DEF Log!LogInv, Log!TypeOK, Log!OnItsWay, Log!MigrationKeepsActivity
<1>2. QED
  BY <1>1, LogInvariant, PTL

----------------------------------------------------------------------------
\* A run of one part of the desktop is a behaviour of ProviderPush.
LEMMA PushOfDesktop == AllSpec => Pushes!Spec
<1>1. AllInit => Pushes!Init
  BY DEF AllInit
<1>2. [AllNext]_allVars => [Pushes!Next]_Pushes!vars
  BY DEF AllNext, allVars, pushVars, Pushes!vars
<1>3. QED
  BY <1>1, <1>2, PTL DEF AllSpec, Pushes!Spec

\* So receipts are true in the desktop as a whole.
THEOREM DesktopReceiptsAreTrue == AllSpec => []ReceiptIsTrue
BY PushOfDesktop, ReceiptsAreTrue, PTL DEF ReceiptIsTrue

\* And a push that is refused has sent nothing.
THEOREM DesktopErrorsSentNothing == AllSpec => []ErrorSentNothing
BY PushOfDesktop, ErrorsSentNothing, PTL DEF ErrorSentNothing

\* And comparisons are right.
THEOREM DesktopComparisonsAreTrue == AllSpec => []ComparisonIsTrue
BY PushOfDesktop, ComparisonsAreTrue, PTL DEF ComparisonIsTrue

\* And nothing is written that was not chosen.
THEOREM DesktopWritesWhatWasChosen == AllSpec => OnlyWhatWasChosen
BY PushOfDesktop, OnlyChosenIsWritten, PTL DEF OnlyWhatWasChosen

LEMMA LogOfDesktop == AllSpec => Log!Spec
<1>1. AllInit => Log!Init
  BY DEF AllInit
<1>2. [AllNext]_allVars => [Log!Next]_(Log!vars)
  BY DEF AllNext, allVars, logVars, Log!vars
<1>3. QED
  BY <1>1, <1>2, PTL DEF AllSpec, Log!Spec

\* The same in the composition (agent_activity.rs), of migrations that could read every file.
THEOREM DesktopMigrationKeepsActivity == AllSpec => []MigrationKeepsActivity
BY LogOfDesktop, MigrationLosesNothing, PTL DEF MigrationKeepsActivity
=============================================================================
