----------------------- MODULE CredentialVaultProofs -----------------------
(***************************************************************************)
(* Theorems about CredentialVault with one vault object, for every set of  *)
(* threads, accounts, projects and contents.                               *)
(***************************************************************************)
EXTENDS CredentialVault, TLAPS

\* All threads are in one desktop process.
OneVault == \A t, u \in Thread : Home[t] = Home[u]

Past(t) == ~At(t, "idle") /\ ~At(t, "lock")

\* A step of t changes its own locals and nobody else's.
Alone(t) == \A u \in Thread : u # t => call'[u] = call[u]

----------------------------------------------------------------------------
\* Partial functions over the accounts.
LEMMA RegistryFacts ==
  ASSUME NEW r \in Registry
  PROVE  /\ r \in [DOMAIN r -> Entry]
         /\ DOMAIN r \subseteq Account
BY DEF Registry

LEMMA RegistryIntro ==
  ASSUME NEW D \in SUBSET Account, NEW r \in [D -> Entry]
  PROVE  r \in Registry
BY DEF Registry

LEMMA StoreFacts ==
  ASSUME NEW s \in Store
  PROVE  /\ s \in [DOMAIN s -> Version]
         /\ DOMAIN s \subseteq Account
BY DEF Store

LEMMA StoreIntro ==
  ASSUME NEW D \in SUBSET Account, NEW s \in [D -> Version]
  PROVE  s \in Store
BY DEF Store

\* The fields each kind of request has.
LEMMA RequestFacts ==
  ASSUME NEW r \in Request
  PROVE  /\ r.op \in {"create", "update", "rename", "delete", "allow", "block", "revoke"}
         /\ r.op \in {"create", "update", "rename"} => r.version \in Version
         /\ r.op = "create" => r.granted \in SUBSET Project
         /\ r.op \in {"update", "rename", "delete", "allow", "block"} => r.account \in Account
         /\ r.op \in {"allow", "block", "revoke"} => r.project \in Project
BY DEF Request

LEMMA QuietOK == Quiet \in Locals
<1>1. << >> \in Registry
  <2>1. << >> \in [{} -> Entry]
    OBVIOUS
  <2>2. QED
    BY <2>1, RegistryIntro
<1>2. Quiet \in Call
  BY <1>1 DEF Quiet, Fresh, Call, PC
<1>3. QED
  BY <1>2 DEF Locals, Quiet, Fresh

\* What an operation that is past reading works on.
LEMMA LoadedFacts ==
  ASSUME TypeOK, NEW t \in Thread, call[t].pc \in {"get", "put", "erase", "write", "undo"}
  PROVE  /\ call[t] \in Call
         /\ call[t].req \in Request
         /\ call[t].account \in Account
         /\ call[t].snapshot \in Registry
         /\ Op(t) = "create" <=> call[t].account \notin DOMAIN call[t].snapshot
         /\ At(t, "get") => Op(t) \in {"update", "delete"}
         /\ At(t, "put") => Op(t) \in {"create", "update"}
         /\ At(t, "erase") => Op(t) = "delete"
         /\ At(t, "undo") => Op(t) \in {"create", "update", "delete"}
         /\ ~At(t, "get") /\ Op(t) \in {"update", "delete"} => call[t].old \in Version
BY DEF At, TypeOK, Locals, Call, PC, Op

\* DOMAIN of what is written, and its type.
LEMMA ChangedFacts ==
  ASSUME TypeOK, NEW t \in Thread, At(t, "write")
  PROVE  /\ Changed(t) \in Registry
         /\ Op(t) = "create" => DOMAIN Changed(t) = DOMAIN call[t].snapshot \cup {call[t].account}
         /\ Op(t) = "delete" => DOMAIN Changed(t) = DOMAIN call[t].snapshot \ {call[t].account}
         /\ Op(t) \notin {"create", "delete"} => DOMAIN Changed(t) = DOMAIN call[t].snapshot
<1> DEFINE a == call[t].account
           old == call[t].snapshot
           req == call[t].req
<1>1. /\ req \in Request /\ a \in Account /\ old \in Registry
      /\ Op(t) = req.op
      /\ req.op = "create" <=> a \notin DOMAIN old
  BY LoadedFacts DEF At, Op
<1>2. old \in [DOMAIN old -> Entry] /\ DOMAIN old \subseteq Account
  BY <1>1, RegistryFacts
<1>3. /\ req.op \in {"create", "update", "rename", "delete", "allow", "block", "revoke"}
      /\ req.op \in {"create", "update", "rename"} => req.version \in Version
      /\ req.op = "create" => req.granted \in SUBSET Project
      /\ req.op \in {"allow", "block", "revoke"} => req.project \in Project
  BY <1>1, RequestFacts
<1>4. CASE req.op = "create"
  <2> DEFINE new == [b \in DOMAIN old \cup {a} |->
                       IF b = a THEN [label |-> req.version, granted |-> req.granted] ELSE old[b]]
  <2>1. Changed(t) = new
    BY <1>4 DEF Changed
  <2>2. new \in [DOMAIN old \cup {a} -> Entry]
    BY <1>2, <1>3, <1>4 DEF Entry
  <2>3. DOMAIN old \cup {a} \in SUBSET Account
    BY <1>1, <1>2
  <2>4. QED
    BY <1>1, <1>4, <2>1, <2>2, <2>3, RegistryIntro
<1>5. CASE req.op \in {"update", "rename"}
  <2>1. Changed(t) = [old EXCEPT ![a].label = req.version]
    BY <1>5 DEF Changed
  <2>2. [old EXCEPT ![a].label = req.version] \in [DOMAIN old -> Entry]
    BY <1>2, <1>3, <1>5 DEF Entry
  <2>3. QED
    BY <1>1, <1>2, <1>5, <2>1, <2>2, RegistryIntro
<1>6. CASE req.op = "delete"
  <2> DEFINE D == DOMAIN old \ {a}
             new == [b \in D |-> old[b]]
  <2>1. Changed(t) = new
    BY <1>2, <1>6 DEF Changed, Restrict
  <2>2. new \in [D -> Entry] /\ D \in SUBSET Account
    BY <1>2
  <2>3. QED
    BY <1>1, <1>6, <2>1, <2>2, RegistryIntro
<1>7. CASE req.op = "allow"
  <2>1. Changed(t) = [old EXCEPT ![a].granted = @ \cup {req.project}]
    BY <1>7 DEF Changed
  <2>2. [old EXCEPT ![a].granted = @ \cup {req.project}] \in [DOMAIN old -> Entry]
    BY <1>2, <1>3, <1>7 DEF Entry
  <2>3. QED
    BY <1>1, <1>2, <1>7, <2>1, <2>2, RegistryIntro
<1>8. CASE req.op = "block"
  <2>1. Changed(t) = [old EXCEPT ![a].granted = @ \ {req.project}]
    BY <1>8 DEF Changed
  <2>2. [old EXCEPT ![a].granted = @ \ {req.project}] \in [DOMAIN old -> Entry]
    BY <1>2, <1>3, <1>8 DEF Entry
  <2>3. QED
    BY <1>1, <1>2, <1>8, <2>1, <2>2, RegistryIntro
<1>9. CASE req.op = "revoke"
  <2> DEFINE new == [b \in DOMAIN old |-> [old[b] EXCEPT !.granted = @ \ {req.project}]]
  <2>1. Changed(t) = new
    BY <1>9 DEF Changed
  <2>2. new \in [DOMAIN old -> Entry]
    BY <1>2, <1>3, <1>9 DEF Entry
  <2>3. QED
    BY <1>1, <1>2, <1>9, <2>1, <2>2, RegistryIntro
<1>10. QED
  BY <1>3, <1>4, <1>5, <1>6, <1>7, <1>8, <1>9

LEMMA WithFacts ==
  ASSUME TypeOK, NEW a \in Account, NEW v \in Version
  PROVE  With(a, v) \in Store /\ DOMAIN With(a, v) = DOMAIN store \cup {a}
<1>1. store \in [DOMAIN store -> Version] /\ DOMAIN store \subseteq Account
  BY StoreFacts DEF TypeOK
<1>2. With(a, v) \in [DOMAIN store \cup {a} -> Version]
  BY <1>1 DEF With
<1>3. QED
  BY <1>1, <1>2, StoreIntro

LEMMA WithoutFacts ==
  ASSUME TypeOK, NEW a \in Account
  PROVE  Without(a) \in Store /\ DOMAIN Without(a) = DOMAIN store \ {a}
<1>1. store \in [DOMAIN store -> Version] /\ DOMAIN store \subseteq Account
  BY StoreFacts DEF TypeOK
<1> DEFINE new == [b \in DOMAIN store \ {a} |-> store[b]]
<1>2. Without(a) = new
  BY <1>1 DEF Without, Restrict
<1>3. new \in [DOMAIN store \ {a} -> Version]
  BY <1>1
<1>4. QED
  BY <1>1, <1>2, <1>3, StoreIntro

----------------------------------------------------------------------------
\* Types.
LEMMA InitTyped ==
  ASSUME Init
  PROVE  TypeOK
<1>1. registry \in Registry
  BY RegistryIntro, QuietOK DEF Init, Locals, Call, Quiet, Fresh
<1>2. store \in Store
  <2>1. << >> \in [{} -> Version]
    OBVIOUS
  <2>2. QED
    BY <2>1, StoreIntro DEF Init
<1>3. QED
  BY <1>1, <1>2, QuietOK DEF Init, TypeOK

\* A step that returns, or that leaves t where it is with the same locals.
LEMMA LeaveTyped ==
  ASSUME TypeOK, NEW t \in Thread, Leave(t)
  PROVE  /\ call' \in [Thread -> Locals]
         /\ mutex' \in [Vault -> Thread \cup {Nobody}]
         /\ Alone(t)
         /\ call'[t] = Quiet
BY QuietOK DEF TypeOK, Leave, Alone

LEMMA GotoTyped ==
  ASSUME TypeOK, NEW t \in Thread, NEW pc \in {"write", "undo"}, Goto(t, pc),
         pc = "undo" => Compensates(t),
         call[t].pc \in {"put", "erase", "write"}
  PROVE  call' \in [Thread -> Locals]
<1>1. call[t] \in Call /\ call[t] \in Locals
  BY LoadedFacts DEF TypeOK
<1>2. [call[t] EXCEPT !.pc = pc] \in Call
  BY <1>1 DEF Call, PC
<1>3. [call[t] EXCEPT !.pc = pc] \in Locals
  BY <1>1, <1>2 DEF Locals, PC, Call, Compensates, Op
<1>4. QED
  BY <1>3 DEF Goto, TypeOK

LEMMA InvokeTyped ==
  ASSUME TypeOK, broken' \in BOOLEAN, NEW t \in Thread, NEW req \in Request, Invoke(t, req)
  PROVE  TypeOK'
<1>1. << >> \in Registry
  BY QuietOK DEF Locals, Quiet, Fresh, Call
<1>2. Fresh("lock", req) \in Call
  BY <1>1 DEF Fresh, Call, PC
<1>3. Fresh("lock", req) \in Locals
  BY <1>2 DEF Locals, Fresh
<1>4. QED
  BY <1>3 DEF Invoke, TypeOK

LEMMA AcquireTyped ==
  ASSUME TypeOK, broken' \in BOOLEAN, NEW t \in Thread, Acquire(t)
  PROVE  TypeOK'
<1>1. call[t] \in Call /\ call[t].req \in Request
  BY DEF TypeOK, Locals, Acquire, At
<1>2. [call[t] EXCEPT !.pc = "read"] \in Call
  BY <1>1 DEF Call, PC
<1>3. [call[t] EXCEPT !.pc = "read"] \in Locals
  BY <1>1, <1>2 DEF Locals, Call
<1>4. QED
  BY <1>3 DEF Acquire, Goto, TypeOK

\* What reading the registry gives t: the place it goes to and the account it goes there with.
LEMMA ReadFacts ==
  ASSUME TypeOK, NEW t \in Thread, Read(t)
  PROVE  \E pc \in {"get", "put", "write"}, a \in Account :
           /\ call' = [call EXCEPT ![t].pc = pc, ![t].account = a, ![t].snapshot = registry]
           /\ Op(t) = "create" <=> a \notin DOMAIN registry
           /\ Op(t) = "create" => a \notin DOMAIN store
           /\ pc = "put" <=> Op(t) = "create"
           /\ pc = "get" <=> Op(t) \in {"update", "delete"}
<1>1. call[t].req \in Request /\ Op(t) = call[t].req.op
  BY DEF TypeOK, Locals, Read, At, Op
<1>2. DOMAIN registry \subseteq Account
  BY RegistryFacts DEF TypeOK
<1>3. CASE Op(t) = "create"
  <2>1. PICK a \in Account : /\ Unused(a)
                             /\ call' = [call EXCEPT ![t].pc = "put", ![t].account = a,
                                                     ![t].snapshot = registry]
    BY <1>1, <1>3 DEF Read
  <2>2. QED
    BY <1>3, <2>1 DEF Unused
<1>4. CASE Op(t) \in {"update", "delete"}
  BY <1>1, <1>2, <1>4 DEF Read
<1>5. CASE Op(t) \in {"rename", "allow", "block"}
  BY <1>1, <1>2, <1>5 DEF Read
<1>6. CASE Op(t) = "revoke"
  <2>1. PICK a \in DOMAIN registry : call' = [call EXCEPT ![t].pc = "write", ![t].account = a,
                                                         ![t].snapshot = registry]
    BY <1>1, <1>6 DEF Read
  <2>2. QED
    BY <1>2, <1>6, <2>1
<1>7. QED
  BY <1>1, <1>3, <1>4, <1>5, <1>6, RequestFacts

LEMMA ReadTyped ==
  ASSUME TypeOK, broken' \in BOOLEAN, NEW t \in Thread, Read(t)
  PROVE  TypeOK'
<1>1. PICK pc \in {"get", "put", "write"}, a \in Account :
        /\ call' = [call EXCEPT ![t].pc = pc, ![t].account = a, ![t].snapshot = registry]
        /\ Op(t) = "create" <=> a \notin DOMAIN registry
        /\ pc = "put" => Op(t) = "create"
        /\ pc = "get" <=> Op(t) \in {"update", "delete"}
  BY ReadFacts
<1> DEFINE c == [call[t] EXCEPT !.pc = pc, !.account = a, !.snapshot = registry]
<1>2. call[t] \in Call /\ call[t].req \in Request
  BY DEF TypeOK, Locals, Read, At
<1>3. c \in Call
  BY <1>2 DEF Call, PC, TypeOK
<1>4. c \in Locals
  BY <1>1, <1>2, <1>3 DEF Locals, Call, Op
<1>5. QED
  <2>1. UNCHANGED <<registry, store, mutex>>
    BY DEF Read
  <2>2. call' \in [Thread -> Locals]
    <3> HIDE DEF c
    <3>1. call' = [call EXCEPT ![t] = c]
      BY <1>1 DEF c
    <3>2. QED
      BY <1>4, <3>1 DEF TypeOK
  <2>3. QED
    BY <2>1, <2>2 DEF TypeOK

LEMMA GetTyped ==
  ASSUME TypeOK, broken' \in BOOLEAN, NEW t \in Thread, Get(t)
  PROVE  TypeOK'
<1> DEFINE c == [call[t] EXCEPT !.old = store[call[t].account],
                                !.pc = IF Op(t) = "delete" THEN "erase" ELSE "put"]
<1>1. call[t] \in Call /\ call[t] \in Locals /\ call[t].account \in DOMAIN store
      /\ At(t, "get") /\ Op(t) \in {"update", "delete"}
  BY LoadedFacts DEF TypeOK, Get, At
<1>2. store[call[t].account] \in Version
  BY <1>1, StoreFacts DEF TypeOK
<1>3. c \in Call
  BY <1>1, <1>2 DEF Call, PC
<1>4. c \in Locals
  BY <1>1, <1>2, <1>3 DEF Locals, Call, At, Op
<1>5. UNCHANGED <<registry, store, mutex>> /\ call' = [call EXCEPT ![t] = c]
  BY DEF Get
<1>6. call' \in [Thread -> Locals]
  <2> HIDE DEF c
  <2> QED BY <1>4, <1>5 DEF TypeOK
<1>7. QED
  BY <1>5, <1>6 DEF TypeOK

LEMMA PutTyped ==
  ASSUME TypeOK, broken' \in BOOLEAN, NEW t \in Thread, Put(t)
  PROVE  TypeOK'
<1>1. call[t].account \in Account /\ call[t].req \in Request /\ call[t].pc = "put"
  BY LoadedFacts DEF Put, At
<1>2. call[t].req.version \in Version
  BY <1>1, LoadedFacts, RequestFacts DEF At, Op
<1>3. store' \in Store
  BY <1>1, <1>2, WithFacts DEF Put
<1>4. call' \in [Thread -> Locals]
  BY <1>1, GotoTyped DEF Put
<1>5. QED
  BY <1>3, <1>4 DEF Put, TypeOK

LEMMA EraseTyped ==
  ASSUME TypeOK, broken' \in BOOLEAN, NEW t \in Thread, Erase(t)
  PROVE  TypeOK'
<1>1. call[t].account \in Account /\ call[t].pc = "erase"
  BY LoadedFacts DEF Erase, At
<1>2. store' \in Store
  BY <1>1, WithoutFacts DEF Erase
<1>3. call' \in [Thread -> Locals]
  BY <1>1, GotoTyped DEF Erase
<1>4. QED
  BY <1>2, <1>3 DEF Erase, TypeOK

LEMMA WriteTyped ==
  ASSUME TypeOK, broken' \in BOOLEAN, NEW t \in Thread, Write(t)
  PROVE  TypeOK'
BY ChangedFacts, LeaveTyped DEF Write, TypeOK

LEMMA WriteFailsTyped ==
  ASSUME TypeOK, broken' \in BOOLEAN, NEW t \in Thread, WriteFails(t) \/ UnlockFails(t)
  PROVE  TypeOK'
<1>1. /\ registry' \in Registry /\ UNCHANGED store
      /\ call[t].pc = "write"
  BY ChangedFacts DEF WriteFails, UnlockFails, TypeOK, At
<1>2. CASE Compensates(t) /\ Goto(t, "undo") /\ UNCHANGED mutex
  BY <1>1, <1>2, GotoTyped DEF TypeOK
<1>3. CASE Leave(t)
  BY <1>1, <1>3, LeaveTyped DEF TypeOK
<1>4. QED
  BY <1>2, <1>3 DEF WriteFails, UnlockFails

LEMMA UndoTyped ==
  ASSUME TypeOK, broken' \in BOOLEAN, NEW t \in Thread, Undo(t)
  PROVE  TypeOK'
<1>1. /\ call[t].account \in Account
      /\ Op(t) \in {"create", "update", "delete"}
      /\ Op(t) \in {"update", "delete"} => call[t].old \in Version
  BY LoadedFacts DEF Undo, At
<1>2. store' \in Store
  BY <1>1, WithFacts, WithoutFacts DEF Undo
<1>3. QED
  BY <1>2, LeaveTyped DEF Undo, TypeOK

LEMMA DieTyped ==
  ASSUME TypeOK, broken' \in BOOLEAN, NEW v \in Vault, Die(v)
  PROVE  TypeOK'
BY QuietOK DEF TypeOK, Die

\* A step that only returns.
LEMMA EndTyped ==
  ASSUME TypeOK, broken' \in BOOLEAN, NEW t \in Thread, Leave(t), UNCHANGED <<registry, store>>
  PROVE  TypeOK'
BY LeaveTyped DEF TypeOK

LEMMA StepTyped ==
  ASSUME TypeOK, [Next]_vars
  PROVE  TypeOK'
<1>1. broken' \in BOOLEAN
  BY DEF TypeOK, Next, vars
<1>2. ASSUME NEW t \in Thread, Step(t)
      PROVE  TypeOK'
  <2>1. CASE Acquire(t)
    BY <1>1, <2>1, AcquireTyped
  <2>2. CASE Read(t)
    BY <1>1, <2>2, ReadTyped
  <2>3. CASE Get(t)
    BY <1>1, <2>3, GetTyped
  <2>4. CASE Put(t)
    BY <1>1, <2>4, PutTyped
  <2>5. CASE Erase(t)
    BY <1>1, <2>5, EraseTyped
  <2>6. CASE Write(t)
    BY <1>1, <2>6, WriteTyped
  <2>7. CASE WriteFails(t)
    BY <1>1, <2>7, WriteFailsTyped
  <2>8. CASE Undo(t)
    BY <1>1, <2>8, UndoTyped
  <2>9. CASE ReadEnds(t) \/ GetFails(t) \/ SecretFails(t)
    BY <1>1, <2>9, EndTyped DEF ReadEnds, GetFails, SecretFails
  <2>10. QED
    BY <1>2, <2>1, <2>2, <2>3, <2>4, <2>5, <2>6, <2>7, <2>8, <2>9 DEF Step
<1>3. ASSUME NEW t \in Thread, NEW req \in Request, Invoke(t, req)
      PROVE  TypeOK'
  BY <1>1, <1>3, InvokeTyped
<1>4. ASSUME NEW t \in Thread, UnlockFails(t) \/ UndoFails(t)
      PROVE  TypeOK'
  BY <1>1, <1>4, WriteFailsTyped, EndTyped DEF UndoFails
<1>5. ASSUME NEW v \in Vault, Die(v)
      PROVE  TypeOK'
  BY <1>1, <1>5, DieTyped
<1>6. CASE UNCHANGED vars
  BY <1>6 DEF vars, TypeOK
<1>7. QED
  BY <1>2, <1>3, <1>4, <1>5, <1>6 DEF Next, Break

\* The types, with any number of vaults and every fault: among them that an operation past reading
\* works on an account of the registry it read, and that one that compensates knows what to put back.
THEOREM TypeCorrect == Spec => []TypeOK
<1>1. Init => TypeOK
  BY InitTyped
<1>2. TypeOK /\ [Next]_vars => TypeOK'
  BY StepTyped
<1>3. QED
  BY <1>1, <1>2, PTL DEF Spec

----------------------------------------------------------------------------
\* Mutual exclusion in one vault.

\* Nobody but t is past the lock.
Only(t) == \A u \in Thread : u # t => ~Past(u)

LEMMA HolderIsAlone ==
  ASSUME OneVault, Serial, NEW t \in Thread, Past(t)
  PROVE  Only(t)
BY DEF OneVault, Serial, Past, Only

LEMMA FreeIsEmpty ==
  ASSUME OneVault, Serial, NEW t \in Thread, mutex[Home[t]] = Nobody
  PROVE  \A u \in Thread : ~Past(u)
BY VaultAssumption DEF OneVault, Serial, Past

\* If t is the only one past the lock, Serial is about t alone.
LEMMA SerialOf ==
  ASSUME NEW t \in Thread, Only(t), Alone(t),
         Past(t)' => mutex'[Home[t]] = t,
         call'[t].pc \in {"get", "put", "erase", "write"} => call'[t].snapshot = registry'
  PROVE  Serial'
BY DEF Only, Alone, Past, Serial, At

\* A step that ends the operation of the only one past the lock.
LEMMA LeaveSerial ==
  ASSUME TypeOK, NEW t \in Thread, Only(t), Leave(t)
  PROVE  Serial'
<1>1. call'[t] = Quiet /\ Alone(t)
  BY LeaveTyped
<1>2. ~Past(t)'
  BY <1>1 DEF Past, At, Quiet, Fresh
<1>3. call'[t].pc = "idle"
  BY <1>1 DEF Quiet, Fresh
<1>4. QED
  BY <1>1, <1>2, <1>3, SerialOf

LEMMA StepSerial ==
  ASSUME OneVault, TypeOK, Serial, [Next]_vars
  PROVE  Serial'
<1>1. ASSUME NEW t \in Thread, Step(t) \/ UnlockFails(t) \/ UndoFails(t), ~Acquire(t)
      PROVE  Serial'
  <2>1. Past(t) /\ mutex[Home[t]] = t /\ Only(t)
    <3>1. Past(t)
      BY <1>1 DEF Step, Read, ReadEnds, Get, GetFails, Put, Erase, SecretFails, Write, WriteFails,
                  Undo, UnlockFails, UndoFails, At, Past
    <3>2. QED
      BY <3>1, HolderIsAlone DEF Serial, Past
  <2>2. CASE Read(t)
    <3>1. PICK pc \in {"get", "put", "write"}, a \in Account :
            call' = [call EXCEPT ![t].pc = pc, ![t].account = a, ![t].snapshot = registry]
      BY <2>2, ReadFacts
    <3>2. call'[t].snapshot = registry /\ Alone(t)
      BY <3>1 DEF TypeOK, Locals, Call, Alone
    <3>3. QED
      BY <2>1, <2>2, <3>2, SerialOf DEF Read
  <2>3. CASE Get(t)
    <3>1. /\ call[t].snapshot = registry
          /\ call'[t].snapshot = call[t].snapshot
          /\ Alone(t)
      BY <2>3 DEF Get, At, Serial, TypeOK, Locals, Call, Alone
    <3>2. QED
      BY <2>1, <2>3, <3>1, SerialOf DEF Get
  <2>4. CASE Put(t) \/ Erase(t)
    <3>1. /\ call[t].snapshot = registry
          /\ call'[t].snapshot = call[t].snapshot
          /\ Alone(t)
      BY <2>4 DEF Put, Erase, Goto, At, Serial, TypeOK, Locals, Call, Alone
    <3>2. QED
      BY <2>1, <2>4, <3>1, SerialOf DEF Put, Erase
  <2>5. CASE (WriteFails(t) \/ UnlockFails(t)) /\ Goto(t, "undo")
    <3>1. call'[t].pc = "undo" /\ Alone(t) /\ (UNCHANGED mutex \/ Leave(t))
      BY <2>5 DEF WriteFails, UnlockFails, Goto, TypeOK, Locals, Call, Alone
    <3>2. QED
      BY <2>1, <3>1, SerialOf, LeaveSerial
  <2>6. CASE Leave(t)
    BY <2>1, <2>6, LeaveSerial
  <2>7. QED
    BY <1>1, <2>2, <2>3, <2>4, <2>5, <2>6
       DEF Step, ReadEnds, GetFails, SecretFails, Write, WriteFails, Undo, UnlockFails, UndoFails
<1>2. ASSUME NEW t \in Thread, Acquire(t)
      PROVE  Serial'
  <2>1. Only(t)
    BY <1>2, FreeIsEmpty DEF Acquire, Only
  <2>2. call'[t].pc = "read" /\ Alone(t)
    BY <1>2 DEF Acquire, Goto, TypeOK, Locals, Call, Alone
  <2>3. mutex'[Home[t]] = t
    BY <1>2 DEF Acquire, TypeOK, Vault
  <2>4. QED
    BY <2>1, <2>2, <2>3, SerialOf
<1>3. ASSUME NEW t \in Thread, NEW req \in Request, Invoke(t, req)
      PROVE  Serial'
  BY <1>3 DEF Invoke, Fresh, Serial, At, TypeOK, Locals, Call
<1>4. ASSUME NEW v \in Vault, Die(v)
      PROVE  Serial'
  <2>1. \A t \in Thread : Home[t] = v
    BY <1>4 DEF OneVault, Vault
  <2>2. \A t \in Thread : call'[t] = Quiet
    BY <1>4, <2>1 DEF Die
  <2>3. QED
    BY <2>2 DEF Serial, At, Quiet, Fresh
<1>5. CASE UNCHANGED vars
  BY <1>5 DEF vars, Serial, At
<1>6. QED
  BY <1>1, <1>2, <1>3, <1>4, <1>5 DEF Next, Break

\* One mutex is enough: with one vault, and with every fault and crash, the registry an operation
\* read is the one it replaces (create, update, delete, set_project_access, revoke_project).
THEOREM SerialInOneVault == ASSUME OneVault PROVE Spec => []Serial
<1>1. Init => Serial
  BY DEF Init, Serial, At, Quiet, Fresh
<1>2. TypeOK /\ Serial /\ [Next]_vars => Serial'
  BY StepSerial
<1>3. QED
  BY <1>1, <1>2, TypeCorrect, PTL DEF Spec

----------------------------------------------------------------------------
\* Grants.
LEMMA ChangedGrants ==
  ASSUME TypeOK, Serial, NEW t \in Thread, At(t, "write"),
         NEW a \in Account, NEW p \in Project,
         a \in DOMAIN Changed(t), p \in Changed(t)[a].granted
  PROVE  Granted(a, p) \/ Asks(t, a, p)
<1> DEFINE b == call[t].account
           req == call[t].req
<1>1. /\ req \in Request /\ b \in Account /\ Op(t) = req.op
      /\ call[t].snapshot = registry
      /\ req.op = "create" <=> b \notin DOMAIN registry
  BY LoadedFacts DEF At, Op, Serial
<1>2. registry \in [DOMAIN registry -> Entry]
  BY RegistryFacts DEF TypeOK
<1>3. CASE req.op = "create"
  <2>1. Changed(t) = [c \in DOMAIN registry \cup {b} |->
                        IF c = b THEN [label |-> req.version, granted |-> req.granted]
                        ELSE registry[c]]
    BY <1>1, <1>3 DEF Changed
  <2>2. CASE a = b
    BY <1>1, <1>3, <2>1, <2>2 DEF Asks
  <2>3. CASE a # b
    BY <2>1, <2>3 DEF Granted
  <2>4. QED
    BY <2>2, <2>3
<1>4. CASE req.op \in {"update", "rename"}
  <2>1. Changed(t) = [registry EXCEPT ![b].label = req.version]
    BY <1>1, <1>4 DEF Changed
  <2>2. QED
    BY <1>2, <2>1 DEF Granted, Entry
<1>5. CASE req.op = "delete"
  <2>1. Changed(t) = [c \in DOMAIN registry \ {b} |-> registry[c]]
    BY <1>1, <1>5 DEF Changed, Restrict
  <2>2. QED
    BY <2>1 DEF Granted
<1>6. CASE req.op = "allow"
  <2>1. Changed(t) = [registry EXCEPT ![b].granted = @ \cup {req.project}]
    BY <1>1, <1>6 DEF Changed
  <2>2. QED
    BY <1>1, <1>2, <1>6, <2>1 DEF Granted, Entry, Asks
<1>7. CASE req.op = "block"
  <2>1. Changed(t) = [registry EXCEPT ![b].granted = @ \ {req.project}]
    BY <1>1, <1>7 DEF Changed
  <2>2. QED
    BY <1>2, <2>1 DEF Granted, Entry
<1>8. CASE req.op = "revoke"
  <2>1. Changed(t) = [c \in DOMAIN registry |->
                        [registry[c] EXCEPT !.granted = @ \ {req.project}]]
    BY <1>1, <1>8 DEF Changed
  <2>2. QED
    BY <1>2, <2>1 DEF Granted, Entry
<1>9. QED
  BY <1>1, <1>3, <1>4, <1>5, <1>6, <1>7, <1>8, RequestFacts

\* The registry only changes where an operation writes what it made of it.
LEMMA RegistrySteps ==
  ASSUME [Next]_vars
  PROVE  \/ UNCHANGED registry
         \/ \E t \in Thread : At(t, "write") /\ registry' = Changed(t)
<1>1. ASSUME NEW t \in Thread, Step(t) \/ UnlockFails(t) \/ UndoFails(t)
      PROVE  UNCHANGED registry \/ (At(t, "write") /\ registry' = Changed(t))
  BY <1>1 DEF Step, Acquire, Read, ReadEnds, Get, GetFails, Put, Erase, SecretFails, Write,
              WriteFails, Undo, UnlockFails, UndoFails
<1>2. QED
  BY <1>1 DEF Next, Break, Invoke, Die, vars

\* With one vault, whatever fails and whenever the process dies, an account gets a grant only from
\* the create or the set_project_access that was asked for it.
THEOREM GrantsAreAskedFor == ASSUME OneVault PROVE Spec => GrantOnRequest
<1>1. ASSUME TypeOK, Serial, [Next]_vars
      PROVE  [\A a \in Account, p \in Project :
                Granted(a, p)' => Granted(a, p) \/ \E t \in Thread : Asks(t, a, p)]_vars
  <2>1. CASE UNCHANGED registry
    BY <2>1 DEF Granted
  <2>2. ASSUME NEW t \in Thread, At(t, "write"), registry' = Changed(t)
        PROVE  \A a \in Account, p \in Project :
                 Granted(a, p)' => Granted(a, p) \/ \E u \in Thread : Asks(u, a, p)
    BY <1>1, <2>2, ChangedGrants DEF Granted
  <2>3. QED
    BY <1>1, <2>1, <2>2, RegistrySteps
<1>2. QED
  BY <1>1, TypeCorrect, SerialInOneVault, PTL DEF Spec, GrantOnRequest

----------------------------------------------------------------------------
\* The two halves of an account.

\* SoundInv while nothing is broken.
SoundInv == TypeOK /\ Serial /\ Agree /\ \A t \in Thread : Halves(t)

\* If t is the only one past the lock, Agree and Halves are about t alone.
LEMMA PairedOf ==
  ASSUME NEW t \in Thread, Only(t), Alone(t), Halves(t)',
         \A a \in Account : ~Halfway(t, a)' => (a \in DOMAIN registry' <=> a \in DOMAIN store')
  PROVE  Agree' /\ \A u \in Thread : Halves(u)'
<1>1. ASSUME NEW u \in Thread, u # t
      PROVE  Halves(u)'
  BY <1>1 DEF Only, Alone, Past, Halves, At
<1>2. Agree'
  BY DEF Agree
<1>3. QED
  BY <1>1, <1>2

\* What Agree says of all accounts but the one t is half way through.
LEMMA PairedBut ==
  ASSUME Agree, NEW t \in Thread, Only(t), NEW a \in Account, ~Halfway(t, a)
  PROVE  a \in DOMAIN registry <=> a \in DOMAIN store
BY DEF Agree, Only, Halfway, Past, At

\* t returns, and the two halves of every account agree.
LEMMA LeavePaired ==
  ASSUME TypeOK, NEW t \in Thread, Only(t), Leave(t),
         \A a \in Account : a \in DOMAIN registry' <=> a \in DOMAIN store'
  PROVE  Agree' /\ \A u \in Thread : Halves(u)'
<1>1. call'[t] = Quiet /\ Alone(t)
  BY LeaveTyped
<1>2. Halves(t)'
  BY <1>1 DEF Halves, At, Quiet, Fresh
<1>3. QED
  BY <1>1, <1>2, PairedOf

LEMMA PutPaired ==
  ASSUME SoundInv, NEW t \in Thread, Only(t), Put(t)
  PROVE  Agree' /\ \A u \in Thread : Halves(u)'
<1> DEFINE a == call[t].account
<1>1. /\ TypeOK /\ Agree /\ Halves(t) /\ At(t, "put")
      /\ a \in Account /\ Op(t) \in {"create", "update"}
      /\ call[t].req \in Request
  BY LoadedFacts DEF SoundInv, Put, At
<1>2. call[t].req.version \in Version
  BY <1>1, RequestFacts DEF Op
<1>3. DOMAIN store' = DOMAIN store \cup {a} /\ UNCHANGED registry
  BY <1>1, <1>2, WithFacts DEF Put
<1>4. /\ call'[t].pc = "write" /\ call'[t].account = a /\ call'[t].req = call[t].req
      /\ Alone(t)
  BY <1>1 DEF Put, Goto, TypeOK, Locals, Call, Alone
<1>5. Halves(t)'
  BY <1>1, <1>3, <1>4 DEF Halves, At, Op
<1>6. ASSUME NEW b \in Account, ~Halfway(t, b)'
      PROVE  b \in DOMAIN registry' <=> b \in DOMAIN store'
  <2>1. b # a
    BY <1>1, <1>4, <1>6 DEF Halfway, At, Op, Compensates
  <2>2. ~Halfway(t, b)
    BY <2>1 DEF Halfway
  <2>3. QED
    BY <1>1, <1>3, <2>1, <2>2, PairedBut
<1>7. QED
  BY <1>4, <1>5, <1>6, PairedOf

LEMMA ErasePaired ==
  ASSUME SoundInv, NEW t \in Thread, Only(t), Erase(t)
  PROVE  Agree' /\ \A u \in Thread : Halves(u)'
<1> DEFINE a == call[t].account
<1>1. /\ TypeOK /\ Agree /\ Halves(t) /\ At(t, "erase")
      /\ a \in Account /\ Op(t) = "delete"
  BY LoadedFacts DEF SoundInv, Erase, At
<1>2. DOMAIN store' = DOMAIN store \ {a} /\ UNCHANGED registry
  BY <1>1, WithoutFacts DEF Erase
<1>3. /\ call'[t].pc = "write" /\ call'[t].account = a /\ call'[t].req = call[t].req
      /\ Alone(t)
  BY <1>1 DEF Erase, Goto, TypeOK, Locals, Call, Alone
<1>4. Halves(t)'
  BY <1>1, <1>2, <1>3 DEF Halves, At, Op
<1>5. ASSUME NEW b \in Account, ~Halfway(t, b)'
      PROVE  b \in DOMAIN registry' <=> b \in DOMAIN store'
  <2>1. b # a
    BY <1>1, <1>3, <1>5 DEF Halfway, At, Op, Compensates
  <2>2. ~Halfway(t, b)
    BY <2>1 DEF Halfway
  <2>3. QED
    BY <1>1, <1>2, <2>1, <2>2, PairedBut
<1>6. QED
  BY <1>3, <1>4, <1>5, PairedOf

LEMMA WritePaired ==
  ASSUME SoundInv, NEW t \in Thread, Only(t), Write(t)
  PROVE  Agree' /\ \A u \in Thread : Halves(u)'
<1> DEFINE a == call[t].account
<1>1. /\ TypeOK /\ Agree /\ Halves(t) /\ At(t, "write")
      /\ call[t].snapshot = registry
      /\ Leave(t) /\ UNCHANGED store /\ registry' = Changed(t)
  BY DEF SoundInv, Write, Serial, At
<1>2. /\ Op(t) = "create" => DOMAIN registry' = DOMAIN registry \cup {a}
      /\ Op(t) = "delete" => DOMAIN registry' = DOMAIN registry \ {a}
      /\ Op(t) \notin {"create", "delete"} => DOMAIN registry' = DOMAIN registry
      /\ Op(t) = "create" <=> a \notin DOMAIN registry
  BY <1>1, ChangedFacts, LoadedFacts DEF At
<1>3. ASSUME NEW b \in Account
      PROVE  b \in DOMAIN registry' <=> b \in DOMAIN store'
  <2>1. CASE b = a
    <3>1. CASE Op(t) \in {"create", "update", "delete"}
      BY <1>1, <1>2, <2>1, <3>1 DEF Halves
    <3>2. CASE Op(t) \notin {"create", "update", "delete"}
      <4>1. ~Halfway(t, b)
        BY <3>2 DEF Halfway, Compensates
      <4>2. QED
        BY <1>1, <1>2, <3>2, <4>1, PairedBut
    <3>3. QED
      BY <3>1, <3>2
  <2>2. CASE b # a
    <3>1. ~Halfway(t, b)
      BY <2>2 DEF Halfway
    <3>2. QED
      BY <1>1, <1>2, <2>2, <3>1, PairedBut
  <2>3. QED
    BY <2>1, <2>2
<1>4. QED
  BY <1>1, <1>3, LeavePaired

LEMMA WriteFailsPaired ==
  ASSUME SoundInv, NEW t \in Thread, Only(t), WriteFails(t)
  PROVE  Agree' /\ \A u \in Thread : Halves(u)'
<1> DEFINE a == call[t].account
<1>1. /\ TypeOK /\ Agree /\ Halves(t) /\ At(t, "write")
      /\ call[t].snapshot = registry /\ a \in Account
      /\ UNCHANGED <<registry, store>>
  BY LoadedFacts DEF SoundInv, WriteFails, Serial, At
<1>2. Op(t) = "create" <=> a \notin DOMAIN registry
  BY <1>1, LoadedFacts DEF At
<1>3. CASE Compensates(t) /\ Goto(t, "undo")
  <2>1. /\ call'[t].pc = "undo" /\ call'[t].account = a /\ call'[t].req = call[t].req
        /\ Alone(t)
    BY <1>1, <1>3 DEF Goto, TypeOK, Locals, Call, Alone
  <2>2. Halves(t)'
    BY <1>1, <1>2, <1>3, <2>1 DEF Halves, At, Op, Compensates
  <2>3. ASSUME NEW b \in Account, ~Halfway(t, b)'
        PROVE  b \in DOMAIN registry' <=> b \in DOMAIN store'
    <3>1. ~Halfway(t, b)
      BY <1>3, <2>1, <2>3 DEF Halfway, At, Op, Compensates
    <3>2. QED
      BY <1>1, <3>1, PairedBut
  <2>4. QED
    BY <2>1, <2>2, <2>3, PairedOf
<1>4. CASE ~Compensates(t) /\ Leave(t)
  <2>1. \A b \in Account : b \in DOMAIN registry <=> b \in DOMAIN store
    BY <1>1, <1>4, PairedBut DEF Halfway
  <2>2. QED
    BY <1>1, <1>4, <2>1, LeavePaired
<1>5. QED
  BY <1>3, <1>4 DEF WriteFails

LEMMA UndoPaired ==
  ASSUME SoundInv, NEW t \in Thread, Only(t), Undo(t)
  PROVE  Agree' /\ \A u \in Thread : Halves(u)'
<1> DEFINE a == call[t].account
<1>1. /\ TypeOK /\ Agree /\ Halves(t) /\ At(t, "undo") /\ a \in Account
      /\ Op(t) \in {"create", "update", "delete"}
      /\ Op(t) \in {"update", "delete"} => call[t].old \in Version
      /\ Leave(t) /\ UNCHANGED registry
  BY LoadedFacts DEF SoundInv, Undo, At
<1>2. DOMAIN store' = IF Op(t) = "create" THEN DOMAIN store \ {a} ELSE DOMAIN store \cup {a}
  BY <1>1, WithFacts, WithoutFacts DEF Undo
<1>3. ASSUME NEW b \in Account
      PROVE  b \in DOMAIN registry' <=> b \in DOMAIN store'
  <2>1. CASE b = a
    BY <1>1, <1>2, <2>1 DEF Halves
  <2>2. CASE b # a
    <3>1. ~Halfway(t, b)
      BY <2>2 DEF Halfway
    <3>2. QED
      BY <1>1, <1>2, <2>2, <3>1, PairedBut
  <2>3. QED
    BY <2>1, <2>2
<1>4. QED
  BY <1>1, <1>3, LeavePaired

\* A step before the first change leaves both halves of every account as they were.
LEMMA EarlyPaired ==
  ASSUME SoundInv, NEW t \in Thread, Only(t), Alone(t), ~At(t, "write"), ~At(t, "undo"),
         UNCHANGED <<registry, store>>, Halves(t)'
  PROVE  Agree' /\ \A u \in Thread : Halves(u)'
<1>1. \A a \in Account : a \in DOMAIN registry <=> a \in DOMAIN store
  BY PairedBut DEF SoundInv, Halfway
<1>2. QED
  BY <1>1, PairedOf

LEMMA ReadPaired ==
  ASSUME SoundInv, NEW t \in Thread, Only(t), Read(t)
  PROVE  Agree' /\ \A u \in Thread : Halves(u)'
<1>1. PICK pc \in {"get", "put", "write"}, a \in Account :
        /\ call' = [call EXCEPT ![t].pc = pc, ![t].account = a, ![t].snapshot = registry]
        /\ Op(t) = "create" <=> a \notin DOMAIN registry
        /\ Op(t) = "create" => a \notin DOMAIN store
        /\ pc = "put" <=> Op(t) = "create"
        /\ pc = "get" <=> Op(t) \in {"update", "delete"}
  BY ReadFacts DEF SoundInv
<1>2. UNCHANGED <<registry, store>> /\ At(t, "read") /\ TypeOK
  BY DEF Read, SoundInv
<1>3. /\ call'[t].pc = pc /\ call'[t].account = a /\ call'[t].req = call[t].req
      /\ Alone(t)
  BY <1>1, <1>2 DEF TypeOK, Locals, Call, Alone
<1>4. Halves(t)'
  BY <1>1, <1>2, <1>3 DEF Halves, At, Op
<1>5. QED
  BY <1>2, <1>3, <1>4, EarlyPaired DEF At

LEMMA GetPaired ==
  ASSUME SoundInv, NEW t \in Thread, Only(t), Get(t)
  PROVE  Agree' /\ \A u \in Thread : Halves(u)'
<1> DEFINE a == call[t].account
<1>1. /\ TypeOK /\ Serial /\ At(t, "get") /\ a \in Account /\ a \in DOMAIN store
      /\ Op(t) \in {"update", "delete"}
      /\ UNCHANGED <<registry, store>>
  BY LoadedFacts DEF SoundInv, Get, At
<1>2. a \in DOMAIN registry
  BY <1>1, LoadedFacts DEF Serial, At
<1>3. /\ call'[t].pc \in {"put", "erase"} /\ call'[t].account = a
      /\ Alone(t)
  BY <1>1 DEF Get, TypeOK, Locals, Call, Alone
<1>4. Halves(t)'
  BY <1>1, <1>2, <1>3 DEF Halves, At, Op
<1>5. QED
  BY <1>1, <1>3, <1>4, EarlyPaired DEF At

\* An operation that ends before its first change.
LEMMA EndPaired ==
  ASSUME SoundInv, NEW t \in Thread, Only(t), Leave(t), ~At(t, "write"), ~At(t, "undo"),
         UNCHANGED <<registry, store>>
  PROVE  Agree' /\ \A u \in Thread : Halves(u)'
<1>1. \A a \in Account : a \in DOMAIN registry <=> a \in DOMAIN store
  BY PairedBut DEF SoundInv, Halfway
<1>2. QED
  BY <1>1, LeavePaired DEF SoundInv

LEMMA UnlockFailsPaired ==
  ASSUME SoundInv, NEW t \in Thread, Only(t), UnlockFails(t), \A a \in Account : ~Halfway(t, a)
  PROVE  Agree' /\ \A u \in Thread : Halves(u)'
<1>1. /\ TypeOK /\ At(t, "write") /\ call[t].snapshot = registry /\ call[t].account \in Account
      /\ UNCHANGED store /\ registry' = Changed(t)
  BY LoadedFacts DEF SoundInv, UnlockFails, Serial, At
<1>2. ~Compensates(t)
  BY <1>1 DEF Halfway
<1>3. DOMAIN registry' = DOMAIN registry
  BY <1>1, <1>2, ChangedFacts DEF Compensates
<1>4. \A a \in Account : a \in DOMAIN registry <=> a \in DOMAIN store
  BY PairedBut DEF SoundInv
<1>5. QED
  BY <1>1, <1>2, <1>3, <1>4, LeavePaired DEF UnlockFails

\* The process dies while nobody is half way through an account.
LEMMA DiePaired ==
  ASSUME OneVault, SoundInv, NEW v \in Vault, Die(v),
         \A t \in Thread, a \in Account : ~Halfway(t, a)
  PROVE  Agree' /\ \A u \in Thread : Halves(u)'
<1>1. \A t \in Thread : call'[t] = Quiet
  BY DEF Die, OneVault, Vault
<1>2. \A t \in Thread : Halves(t)'
  BY <1>1 DEF Halves, At, Quiet, Fresh
<1>3. QED
  BY <1>2 DEF SoundInv, Agree, Die

LEMMA StepPaired ==
  ASSUME OneVault, SoundInv, [Next]_vars, ~broken'
  PROVE  Agree' /\ \A u \in Thread : Halves(u)'
<1>1. ASSUME NEW t \in Thread,
             \/ Step(t) /\ ~Acquire(t)
             \/ UnlockFails(t) /\ \A a \in Account : ~Halfway(t, a)
      PROVE  Agree' /\ \A u \in Thread : Halves(u)'
  <2>1. Only(t)
    <3>1. Past(t)
      BY <1>1 DEF Step, Read, ReadEnds, Get, GetFails, Put, Erase, SecretFails, Write, WriteFails,
                  Undo, UnlockFails, At, Past
    <3>2. QED
      BY <3>1, HolderIsAlone DEF SoundInv
  <2>2. CASE Read(t)
    BY <2>1, <2>2, ReadPaired
  <2>3. CASE Get(t)
    BY <2>1, <2>3, GetPaired
  <2>4. CASE Put(t)
    BY <2>1, <2>4, PutPaired
  <2>5. CASE Erase(t)
    BY <2>1, <2>5, ErasePaired
  <2>6. CASE Write(t)
    BY <2>1, <2>6, WritePaired
  <2>7. CASE WriteFails(t)
    BY <2>1, <2>7, WriteFailsPaired
  <2>8. CASE Undo(t)
    BY <2>1, <2>8, UndoPaired
  <2>9. CASE ReadEnds(t) \/ GetFails(t) \/ SecretFails(t)
    BY <2>1, <2>9, EndPaired DEF ReadEnds, GetFails, SecretFails, At
  <2>10. CASE UnlockFails(t) /\ \A a \in Account : ~Halfway(t, a)
    BY <2>1, <2>10, UnlockFailsPaired
  <2>11. QED
    BY <1>1, <2>2, <2>3, <2>4, <2>5, <2>6, <2>7, <2>8, <2>9, <2>10 DEF Step
<1>2. ASSUME NEW t \in Thread, Acquire(t)
      PROVE  Agree' /\ \A u \in Thread : Halves(u)'
  <2>1. /\ Only(t) /\ At(t, "lock") /\ UNCHANGED <<registry, store>>
    BY <1>2, FreeIsEmpty DEF Acquire, Only, SoundInv
  <2>2. call'[t].pc = "read" /\ Alone(t)
    BY <1>2 DEF Acquire, Goto, SoundInv, TypeOK, Locals, Call, Alone
  <2>3. Halves(t)'
    BY <2>2 DEF Halves, At
  <2>4. QED
    BY <2>1, <2>2, <2>3, EarlyPaired DEF At
<1>3. ASSUME NEW t \in Thread, NEW req \in Request, Invoke(t, req)
      PROVE  Agree' /\ \A u \in Thread : Halves(u)'
  <2>1. /\ UNCHANGED <<registry, store>> /\ Alone(t)
        /\ call'[t].pc = "lock" /\ call[t].pc = "idle"
    BY <1>3 DEF Invoke, Fresh, SoundInv, TypeOK, Alone, At
  <2>2. \A u \in Thread, a \in Account : Halfway(u, a)' <=> Halfway(u, a)
    BY <2>1 DEF Halfway, At, Alone, Compensates, Op
  <2>3. Agree'
    BY <2>1, <2>2 DEF SoundInv, Agree
  <2>4. \A u \in Thread : Halves(u)'
    BY <2>1 DEF SoundInv, Halves, Alone, At, Op
  <2>5. QED
    BY <2>3, <2>4
<1>4. ASSUME NEW t \in Thread, UndoFails(t)
      PROVE  \E a \in Account : Halfway(t, a)
  BY <1>4, LoadedFacts DEF UndoFails, Halfway, At, Compensates, SoundInv
<1>5. CASE UNCHANGED vars
  BY <1>5 DEF vars, SoundInv, Agree, Halves, Halfway, At, Op, Compensates
<1>6. CASE Break /\ \A t \in Thread, a \in Account : ~Halfway(t, a)
  BY <1>1, <1>4, <1>6, DiePaired DEF Break
<1>7. QED
  BY <1>1, <1>2, <1>3, <1>5, <1>6 DEF Next

LEMMA InitPaired ==
  ASSUME Init
  PROVE  VaultInv
<1>1. \A t \in Thread : call[t] = Quiet
  BY DEF Init
<1>2. Serial /\ Agree /\ \A t \in Thread : Halves(t)
  BY <1>1 DEF Init, Serial, Agree, Halves, At, Quiet, Fresh
<1>3. QED
  BY <1>2, InitTyped DEF VaultInv

\* The invariant behind Paired: what the only operation past the lock knows of its account.
THEOREM VaultInvariant == ASSUME OneVault PROVE Spec => []VaultInv
<1>1. Init => VaultInv
  BY InitPaired
<1>2. ASSUME VaultInv, [Next]_vars
      PROVE  VaultInv'
  <2>1. TypeOK' /\ Serial'
    BY <1>2, StepTyped, StepSerial DEF VaultInv
  <2>2. broken => broken'
    BY <1>2 DEF Next, vars
  <2>3. CASE broken'
    BY <2>1, <2>3 DEF VaultInv
  <2>4. CASE ~broken'
    <3>1. SoundInv
      BY <1>2, <2>2, <2>4 DEF VaultInv, SoundInv
    <3>2. QED
      BY <1>2, <2>1, <2>4, <3>1, StepPaired DEF VaultInv
  <2>5. QED
    BY <2>3, <2>4
<1>3. QED
  BY <1>1, <1>2, PTL DEF Spec

\* create, update and delete change the registry and the secret store together or not at all: no
\* account without a secret, no secret without one, until an operation half way through an account
\* dies, or fails to take back its change, or takes back one that did persist.
THEOREM AccountsArePaired == ASSUME OneVault PROVE Spec => []Paired
<1>1. VaultInv => Paired
  BY DEF VaultInv, Paired
<1>2. QED
  BY <1>1, VaultInvariant, PTL

----------------------------------------------------------------------------
\* Atomicity.

\* If t is the only one past the lock, Keeps is about t alone.
LEMMA KeepsOf ==
  ASSUME NEW t \in Thread, Only(t), Alone(t), Keeps(t)'
  PROVE  \A u \in Thread : Keeps(u)'
<1>1. ASSUME NEW u \in Thread, u # t
      PROVE  Keeps(u)'
  BY <1>1 DEF Only, Alone, Past, Keeps, At
<1>2. QED
  BY <1>1

\* A step of t with which its operation ends, or before which it has no secret in hand.
LEMMA LeaveKeeps ==
  ASSUME TypeOK, NEW t \in Thread, Only(t), Leave(t)
  PROVE  \A u \in Thread : Keeps(u)'
<1>1. call'[t] = Quiet /\ Alone(t)
  BY LeaveTyped
<1>2. Keeps(t)'
  BY <1>1 DEF Keeps, At, Quiet, Fresh
<1>3. QED
  BY <1>1, <1>2, KeepsOf

LEMMA ReadKeeps ==
  ASSUME TypeOK, NEW t \in Thread, Only(t), Read(t)
  PROVE  \A u \in Thread : Keeps(u)'
<1>1. PICK pc \in {"get", "put", "write"}, a \in Account :
        /\ call' = [call EXCEPT ![t].pc = pc, ![t].account = a, ![t].snapshot = registry]
        /\ pc = "put" <=> Op(t) = "create"
        /\ pc = "get" <=> Op(t) \in {"update", "delete"}
  BY ReadFacts
<1>2. /\ call'[t].pc = pc /\ call'[t].req = call[t].req /\ Alone(t)
  BY <1>1 DEF TypeOK, Locals, Call, Alone
<1>3. Keeps(t)'
  BY <1>1, <1>2 DEF Keeps, At, Op
<1>4. QED
  BY <1>2, <1>3, KeepsOf

LEMMA GetKeeps ==
  ASSUME TypeOK, NEW t \in Thread, Only(t), Get(t)
  PROVE  \A u \in Thread : Keeps(u)'
<1>1. /\ At(t, "get") /\ call[t].account \in DOMAIN store /\ UNCHANGED store
      /\ call' = [call EXCEPT ![t] = [call[t] EXCEPT
                    !.old = store[call[t].account],
                    !.pc = IF Op(t) = "delete" THEN "erase" ELSE "put"]]
  BY DEF Get
<1>2. /\ call'[t].account = call[t].account /\ call'[t].req = call[t].req
      /\ call'[t].old = store[call[t].account] /\ call'[t].pc \in {"erase", "put"}
      /\ Alone(t)
  BY <1>1 DEF TypeOK, Locals, Call, Alone
<1>3. Keeps(t)'
  BY <1>1, <1>2 DEF Keeps, At
<1>4. QED
  BY <1>2, <1>3, KeepsOf

LEMMA PutKeeps ==
  ASSUME TypeOK, NEW t \in Thread, Only(t), Put(t) \/ Erase(t)
  PROVE  \A u \in Thread : Keeps(u)'
<1>1. /\ call'[t].account = call[t].account /\ call'[t].req = call[t].req
      /\ call'[t].pc = "write" /\ Alone(t)
  BY DEF Put, Erase, Goto, TypeOK, Locals, Call, Alone
<1>2. Erase(t) => Op(t) = "delete"
  BY LoadedFacts DEF Erase, At
<1>3. Put(t) => store' = With(call[t].account, call[t].req.version)
  BY DEF Put
<1>4. Keeps(t)'
  BY <1>1, <1>2, <1>3 DEF Keeps, At, With, Op
<1>5. QED
  BY <1>1, <1>4, KeepsOf

LEMMA StepKeeps ==
  ASSUME OneVault, SoundInv, \A t \in Thread : Keeps(t), [Next]_vars
  PROVE  \A t \in Thread : Keeps(t)'
<1>1. ASSUME NEW t \in Thread, Step(t) \/ UnlockFails(t) \/ UndoFails(t), ~Acquire(t)
      PROVE  \A u \in Thread : Keeps(u)'
  <2>1. Only(t) /\ TypeOK
    <3>1. Past(t)
      BY <1>1 DEF Step, Read, ReadEnds, Get, GetFails, Put, Erase, SecretFails, Write, WriteFails,
                  Undo, UnlockFails, UndoFails, At, Past
    <3>2. QED
      BY <3>1, HolderIsAlone DEF SoundInv
  <2>2. CASE Read(t) \/ Get(t) \/ Put(t) \/ Erase(t)
    BY <2>1, <2>2, ReadKeeps, GetKeeps, PutKeeps
  <2>3. CASE Goto(t, "undo")
    <3>1. call'[t].pc = "undo" /\ Alone(t)
      BY <2>1, <2>3 DEF Goto, TypeOK, Locals, Call, Alone
    <3>2. Keeps(t)'
      BY <3>1 DEF Keeps, At
    <3>3. QED
      BY <2>1, <3>1, <3>2, KeepsOf
  <2>4. CASE Leave(t)
    BY <2>1, <2>4, LeaveKeeps
  <2>5. QED
    BY <1>1, <2>2, <2>3, <2>4
       DEF Step, ReadEnds, GetFails, SecretFails, Write, WriteFails, Undo, UnlockFails, UndoFails
<1>2. ASSUME NEW t \in Thread, Acquire(t)
      PROVE  \A u \in Thread : Keeps(u)'
  <2>1. Only(t)
    BY <1>2, FreeIsEmpty DEF Acquire, Only, SoundInv
  <2>2. call'[t].pc = "read" /\ Alone(t)
    BY <1>2 DEF Acquire, Goto, SoundInv, TypeOK, Locals, Call, Alone
  <2>3. Keeps(t)'
    BY <2>2 DEF Keeps, At
  <2>4. QED
    BY <2>1, <2>2, <2>3, KeepsOf
<1>3. ASSUME NEW t \in Thread, NEW req \in Request, Invoke(t, req)
      PROVE  \A u \in Thread : Keeps(u)'
  <2>1. /\ UNCHANGED store /\ Alone(t) /\ call'[t].pc = "lock"
    BY <1>3 DEF Invoke, Fresh, SoundInv, TypeOK, Alone
  <2>2. QED
    BY <2>1 DEF Keeps, Alone, At, Op
<1>4. ASSUME NEW v \in Vault, Die(v)
      PROVE  \A u \in Thread : Keeps(u)'
  <2>1. \A t \in Thread : call'[t] = Quiet
    BY <1>4 DEF Die, OneVault, Vault
  <2>2. QED
    BY <2>1 DEF Keeps, At, Quiet, Fresh
<1>5. CASE UNCHANGED vars
  BY <1>5 DEF vars, Keeps, At, Op
<1>6. QED
  BY <1>1, <1>2, <1>3, <1>4, <1>5 DEF Next, Break

\* What an operation half way would put back is what was there, and what it has put is there.
THEOREM SecretInvariant == ASSUME OneVault PROVE Spec => []SecretInv
<1>1. Init => SecretInv
  <2>1. ASSUME Init
        PROVE  \A t \in Thread : Keeps(t)
    BY <2>1 DEF Init, Keeps, At, Quiet, Fresh
  <2>2. QED
    BY <2>1, InitPaired DEF SecretInv
<1>2. SecretInv /\ VaultInv' /\ [Next]_vars => SecretInv'
  <2> SUFFICES ASSUME SecretInv, VaultInv', [Next]_vars, ~broken'
               PROVE  \A t \in Thread : Keeps(t)'
    BY DEF SecretInv
  <2>1. ~broken
    BY DEF Next, vars
  <2>2. SoundInv /\ \A t \in Thread : Keeps(t)
    BY <2>1 DEF SecretInv, VaultInv, SoundInv
  <2>3. QED
    BY <2>2, StepKeeps
<1>3. QED
  BY <1>1, <1>2, VaultInvariant, PTL DEF Spec

\* What the owner of an account sees of its secret, before and after a step.
LEMMA SettledHalf ==
  ASSUME OneVault, Serial, NEW t \in Thread, NEW a \in Account, Halfway(t, a)
  PROVE  Settled(a) = call[t].old
<1>1. \A u \in Thread : Halfway(u, a) => u = t
  BY DEF OneVault, Serial, Halfway, At
<1>2. QED
  BY <1>1 DEF Settled

LEMMA SettledHalfNext ==
  ASSUME OneVault, Serial', NEW t \in Thread, NEW a \in Account, Halfway(t, a)'
  PROVE  Settled(a)' = call'[t].old
<1>1. \A u \in Thread : Halfway(u, a)' => u = t
  BY DEF OneVault, Serial, Halfway, At
<1>2. QED
  BY <1>1 DEF Settled

LEMMA SettledWhole ==
  ASSUME NEW a \in Account, \A t \in Thread : ~Halfway(t, a)
  PROVE  Settled(a) = IF a \in DOMAIN store THEN store[a] ELSE NoSecret
BY DEF Settled

LEMMA SettledWholeNext ==
  ASSUME NEW a \in Account, \A t \in Thread : ~Halfway(t, a)'
  PROVE  Settled(a)' = IF a \in DOMAIN store' THEN store'[a] ELSE NoSecret
BY DEF Settled

\* The registry as it was, and the owners see the secrets they saw: nothing has happened.
LEMMA SameAccounts ==
  ASSUME UNCHANGED registry, \A a \in DOMAIN registry : Settled(a)' = Settled(a)
  PROVE  UNCHANGED Accounts
BY DEF Accounts

\* A step that changes neither half, nor who is half way through what.
LEMMA StillAccounts ==
  ASSUME OneVault, TypeOK, Serial, Serial', UNCHANGED <<registry, store>>,
         \A u \in Thread, a \in Account :
           /\ Halfway(u, a)' <=> Halfway(u, a)
           /\ Halfway(u, a) => call'[u].old = call[u].old
  PROVE  UNCHANGED Accounts
<1>1. ASSUME NEW a \in Account
      PROVE  Settled(a)' = Settled(a)
  <2>1. CASE \E t \in Thread : Halfway(t, a)
    <3>1. PICK t \in Thread : Halfway(t, a)
      BY <2>1
    <3>2. QED
      BY <3>1, SettledHalf, SettledHalfNext
  <2>2. CASE \A t \in Thread : ~Halfway(t, a)
    BY <2>2, SettledWhole, SettledWholeNext
  <2>3. QED
    BY <2>1, <2>2
<1>2. QED
  BY <1>1, SameAccounts, RegistryFacts DEF TypeOK

\* Only t can be half way, and what it is half way through is its account.
LEMMA OthersWhole ==
  ASSUME NEW t \in Thread, Only(t), NEW a \in Account, ~Halfway(t, a)
  PROVE  \A u \in Thread : ~Halfway(u, a)
BY DEF Only, Halfway, Past, At

LEMMA OthersWholeNext ==
  ASSUME NEW t \in Thread, Only(t), Alone(t), NEW a \in Account, ~Halfway(t, a)'
  PROVE  \A u \in Thread : ~Halfway(u, a)'
BY DEF Only, Alone, Halfway, Past, At

LEMMA PutMaps ==
  ASSUME OneVault, SoundInv, Serial', NEW t \in Thread, Only(t), Keeps(t), Put(t) \/ Erase(t)
  PROVE  UNCHANGED Accounts
<1> DEFINE a == call[t].account
<1>1. /\ TypeOK /\ Serial /\ a \in Account /\ registry' = registry
      /\ call[t].pc \in {"put", "erase"} /\ call[t].snapshot = registry
      /\ Op(t) = "create" <=> a \notin DOMAIN registry
      /\ Compensates(t)
  BY LoadedFacts DEF SoundInv, Put, Erase, Serial, At, Compensates
<1>2. /\ call'[t].account = a /\ call'[t].req = call[t].req /\ call'[t].old = call[t].old
      /\ call'[t].pc = "write" /\ Alone(t)
  BY <1>1 DEF Put, Erase, Goto, TypeOK, Locals, Call, Alone
<1>3. \A b \in Account : (Halfway(t, b)' <=> b = a) /\ ~Halfway(t, b)
  BY <1>1, <1>2 DEF Halfway, At, Compensates, Op
<1>4. \A b \in Account \ {a} : (b \in DOMAIN store' <=> b \in DOMAIN store)
                                 /\ (b \in DOMAIN store => store'[b] = store[b])
  BY DEF Put, Erase, With, Without, Restrict
<1>5. ASSUME NEW b \in DOMAIN registry
      PROVE  Settled(b)' = Settled(b)
  <2>1. b \in Account
    BY <1>1, RegistryFacts DEF TypeOK
  <2>2. Settled(b) = IF b \in DOMAIN store THEN store[b] ELSE NoSecret
    BY <1>3, <2>1, OthersWhole, SettledWhole
  <2>3. CASE b = a
    <3>1. Op(t) # "create" /\ a \in DOMAIN store /\ store[a] = call[t].old
      BY <1>1, <2>3 DEF Keeps
    <3>2. Settled(b)' = call'[t].old
      BY <1>3, <2>1, <2>3, SettledHalfNext
    <3>3. QED
      BY <1>2, <2>2, <2>3, <3>1, <3>2
  <2>4. CASE b # a
    <3>1. Settled(b)' = IF b \in DOMAIN store' THEN store'[b] ELSE NoSecret
      BY <1>2, <1>3, <2>1, <2>4, OthersWholeNext, SettledWholeNext
    <3>2. QED
      BY <1>4, <2>1, <2>2, <2>4, <3>1
  <2>5. QED
    BY <2>3, <2>4
<1>6. QED
  BY <1>1, <1>5, SameAccounts

LEMMA UndoMaps ==
  ASSUME OneVault, SoundInv, NEW t \in Thread, Only(t), Undo(t)
  PROVE  UNCHANGED Accounts
<1> DEFINE a == call[t].account
<1>1. /\ TypeOK /\ Serial /\ Halves(t) /\ At(t, "undo") /\ a \in Account /\ registry' = registry
      /\ Op(t) \in {"create", "update", "delete"} /\ Leave(t)
      /\ store' = IF Op(t) = "create" THEN Without(a) ELSE With(a, call[t].old)
  BY LoadedFacts DEF SoundInv, Undo, At
<1>2. call'[t] = Quiet /\ Alone(t)
  BY <1>1, LeaveTyped
<1>3. \A b \in Account : ~Halfway(t, b)' /\ (Halfway(t, b) <=> b = a)
  BY <1>1, <1>2 DEF Halfway, At, Compensates, Op, Quiet, Fresh
<1>4. \A b \in Account \ {a} : (b \in DOMAIN store' <=> b \in DOMAIN store)
                                 /\ (b \in DOMAIN store => store'[b] = store[b])
  BY <1>1 DEF With, Without, Restrict
<1>5. ASSUME NEW b \in DOMAIN registry
      PROVE  Settled(b)' = Settled(b)
  <2>1. b \in Account
    BY <1>1, RegistryFacts DEF TypeOK
  <2>2. Settled(b)' = IF b \in DOMAIN store' THEN store'[b] ELSE NoSecret
    BY <1>2, <1>3, <2>1, OthersWholeNext, SettledWholeNext
  <2>3. CASE b = a
    <3>1. Op(t) # "create"
      BY <1>1, <2>3 DEF Halves
    <3>2. a \in DOMAIN store' /\ store'[a] = call[t].old
      BY <1>1, <3>1 DEF With
    <3>3. Settled(b) = call[t].old
      BY <1>1, <1>3, <2>1, <2>3, SettledHalf
    <3>4. QED
      BY <2>2, <2>3, <3>2, <3>3
  <2>4. CASE b # a
    <3>1. Settled(b) = IF b \in DOMAIN store THEN store[b] ELSE NoSecret
      BY <1>3, <2>1, <2>4, OthersWhole, SettledWhole
    <3>2. QED
      BY <1>4, <2>1, <2>2, <2>4, <3>1
  <2>5. QED
    BY <2>3, <2>4
<1>6. QED
  BY <1>1, <1>5, SameAccounts

\* What was registered is written: the operation takes effect.
LEMMA WriteMaps ==
  ASSUME OneVault, SoundInv, NEW t \in Thread, Only(t), Keeps(t), At(t, "write"),
         registry' = Changed(t), Leave(t), UNCHANGED store,
         NEW a, a = call[t].account, NEW req, req = call[t].req
  PROVE  A!Operation
<1> DEFINE whole(b) == IF b \in DOMAIN store THEN store[b] ELSE NoSecret
<1>1. /\ TypeOK /\ Serial /\ call[t].snapshot = registry
      /\ a \in Account /\ req \in Request /\ Op(t) = req.op
      /\ req.op = "create" <=> a \notin DOMAIN registry
  BY LoadedFacts DEF SoundInv, Serial, At, Op
<1>2. /\ registry \in [DOMAIN registry -> Entry] /\ DOMAIN registry \subseteq Account
      /\ registry' \in Registry /\ DOMAIN registry' \subseteq Account
  BY <1>1, RegistryFacts, ChangedFacts DEF TypeOK
<1>3. call'[t] = Quiet /\ Alone(t)
  BY <1>1, LeaveTyped
<1>4. ASSUME NEW b \in Account
      PROVE  Settled(b)' = whole(b)
  <2>1. ~Halfway(t, b)'
    BY <1>3 DEF Halfway, At, Quiet, Fresh
  <2>2. QED
    BY <1>3, <2>1, OthersWholeNext, SettledWholeNext
<1>5. ASSUME NEW b \in Account, ~Halfway(t, b)
      PROVE  Settled(b)' = Settled(b)
  BY <1>4, <1>5, OthersWhole, SettledWhole
<1>6. \A b \in Account : Halfway(t, b) => b = a /\ req.op \in {"create", "update", "delete"}
  BY <1>1 DEF Halfway, Compensates
<1>7. req.op \in {"create", "update"} => whole(a) = req.version
  BY <1>1 DEF Keeps
<1> HIDE DEF whole
<1>8. /\ A!Accounts = DOMAIN registry
      /\ \A b \in DOMAIN registry : Accounts[b] =
           [label |-> registry[b].label, secret |-> Settled(b), granted |-> registry[b].granted]
      /\ Accounts' = [b \in DOMAIN registry' |->
           [label |-> registry'[b].label, secret |-> Settled(b)', granted |-> registry'[b].granted]]
  BY DEF A!Accounts, Accounts
<1>9. CASE req.op = "create"
  <2>1. registry' = [b \in DOMAIN registry \cup {a} |->
                       IF b = a THEN [label |-> req.version, granted |-> req.granted] ELSE registry[b]]
    BY <1>1, <1>9 DEF Changed
  <2>2. req.version \in Version /\ req.granted \in SUBSET Project
    BY <1>1, <1>9, RequestFacts
  <2>3. \A b \in DOMAIN registry : b # a /\ Settled(b)' = Settled(b)
    BY <1>1, <1>2, <1>5, <1>6, <1>9
  <2>4. Settled(a)' = req.version
    BY <1>1, <1>4, <1>7, <1>9
  <2>5. Accounts' = [b \in DOMAIN registry \cup {a} |->
          IF b = a THEN [label |-> req.version, secret |-> req.version, granted |-> req.granted]
          ELSE Accounts[b]]
    <3>1. /\ DOMAIN registry' = DOMAIN registry \cup {a}
          /\ registry'[a] = [label |-> req.version, granted |-> req.granted]
          /\ \A b \in DOMAIN registry : registry'[b] = registry[b]
      BY <2>1, <2>3
    <3>2. /\ Accounts'[a] = [label |-> req.version, secret |-> req.version, granted |-> req.granted]
          /\ \A b \in DOMAIN registry : Accounts'[b] = Accounts[b]
      BY <1>8, <2>3, <2>4, <3>1
    <3>3. Accounts' = [b \in DOMAIN registry \cup {a} |-> Accounts'[b]]
      BY <3>1 DEF Accounts
    <3>4. QED
      BY <2>3, <3>2, <3>3
  <2>6. A!Create(a, req.version, req.granted)
    BY <1>1, <1>8, <1>9, <2>5 DEF A!Create
  <2>7. QED
    BY <1>1, <2>2, <2>6 DEF A!Operation
<1>10. CASE req.op = "update"
  <2>1. registry' = [registry EXCEPT ![a].label = req.version] /\ a \in DOMAIN registry
    BY <1>1, <1>10 DEF Changed
  <2>2. req.version \in Version
    BY <1>1, <1>10, RequestFacts
  <2>3. \A b \in DOMAIN registry \ {a} : Settled(b)' = Settled(b)
    BY <1>2, <1>5, <1>6
  <2>4. Settled(a)' = req.version
    BY <1>1, <1>4, <1>7, <1>10
  <2>5. Accounts' = [Accounts EXCEPT ![a] = [label |-> req.version, secret |-> req.version,
                                             granted |-> Accounts[a].granted]]
    <3>1. /\ DOMAIN registry' = DOMAIN registry
          /\ registry'[a].label = req.version /\ registry'[a].granted = registry[a].granted
          /\ \A b \in DOMAIN registry \ {a} : registry'[b] = registry[b]
      BY <1>2, <2>1 DEF Entry
    <3>2. /\ Accounts'[a] = [label |-> req.version, secret |-> req.version, granted |-> registry[a].granted]
          /\ \A b \in DOMAIN registry \ {a} : Accounts'[b] = Accounts[b]
      BY <1>8, <2>1, <2>3, <2>4, <3>1
    <3>3. Accounts[a].granted = registry[a].granted
      <4>1. Accounts[a] =
              [label |-> registry[a].label, secret |-> Settled(a), granted |-> registry[a].granted]
        BY <1>8, <2>1
      <4>2. QED
        BY <4>1
    <3>4. /\ Accounts = [b \in DOMAIN registry |-> Accounts[b]]
          /\ Accounts' = [b \in DOMAIN registry |-> Accounts'[b]]
      BY <3>1 DEF Accounts
    <3>5. QED
      BY <2>1, <3>2, <3>3, <3>4
  <2>6. A!Replace(a, req.version)
    BY <1>8, <2>1, <2>5 DEF A!Replace
  <2>7. QED
    BY <1>1, <2>2, <2>6 DEF A!Operation
<1>11. CASE req.op = "delete"
  <2>1. registry' = [b \in DOMAIN registry \ {a} |-> registry[b]] /\ a \in DOMAIN registry
    BY <1>1, <1>11 DEF Changed, Restrict
  <2>2. \A b \in DOMAIN registry \ {a} : Settled(b)' = Settled(b)
    BY <1>2, <1>5, <1>6
  <2>3. Accounts' = [b \in DOMAIN registry \ {a} |-> Accounts[b]]
    BY <1>8, <2>1, <2>2
  <2>4. A!Delete(a)
    BY <1>8, <2>1, <2>3 DEF A!Delete, A!Restrict
  <2>5. QED
    BY <1>1, <2>4 DEF A!Operation
<1>12. CASE req.op \in {"rename", "allow", "block", "revoke"}
  <2>1. /\ a \in DOMAIN registry
        /\ req.op = "rename" => req.version \in Version
        /\ req.op # "rename" => req.project \in Project
    BY <1>1, <1>12, RequestFacts
  <2>2. \A b \in DOMAIN registry : Settled(b)' = Settled(b)
    BY <1>2, <1>5, <1>6, <1>12
  <2>3. /\ Accounts = [b \in DOMAIN registry |-> Accounts[b]]
        /\ Accounts' = [b \in DOMAIN registry' |-> Accounts'[b]]
    BY DEF Accounts
  <2>4. CASE req.op = "rename"
    <3>1. registry' = [registry EXCEPT ![a].label = req.version]
      BY <1>1, <2>4 DEF Changed
    <3>2. /\ DOMAIN registry' = DOMAIN registry
          /\ registry'[a].label = req.version /\ registry'[a].granted = registry[a].granted
          /\ \A b \in DOMAIN registry \ {a} : registry'[b] = registry[b]
      BY <1>2, <2>1, <3>1 DEF Entry
    <3>3. /\ Accounts'[a] = [Accounts[a] EXCEPT !.label = req.version]
          /\ \A b \in DOMAIN registry \ {a} : Accounts'[b] = Accounts[b]
      <4>1. Accounts[a] =
              [label |-> registry[a].label, secret |-> Settled(a), granted |-> registry[a].granted]
        BY <1>8, <2>1
      <4>2. /\ Accounts'[a] = [label |-> req.version, secret |-> Settled(a), granted |-> registry[a].granted]
            /\ \A b \in DOMAIN registry \ {a} : Accounts'[b] = Accounts[b]
        BY <1>8, <2>1, <2>2, <3>2
      <4>3. QED
        BY <4>1, <4>2
    <3>4. Accounts' = [Accounts EXCEPT ![a] = [Accounts[a] EXCEPT !.label = req.version]]
      BY <2>1, <2>3, <3>2, <3>3
    <3>5. A!Rename(a, req.version)
      BY <1>8, <2>1, <3>4 DEF A!Rename
    <3>6. QED
      BY <1>1, <2>1, <2>4, <3>5 DEF A!Operation
  <2>5. CASE req.op = "allow"
    <3>1. registry' = [registry EXCEPT ![a].granted = @ \cup {req.project}]
      BY <1>1, <2>5 DEF Changed
    <3>2. /\ DOMAIN registry' = DOMAIN registry
          /\ registry'[a].granted = registry[a].granted \cup {req.project} /\ registry'[a].label = registry[a].label
          /\ \A b \in DOMAIN registry \ {a} : registry'[b] = registry[b]
      BY <1>2, <2>1, <3>1 DEF Entry
    <3>3. /\ Accounts'[a] = [Accounts[a] EXCEPT !.granted = Accounts[a].granted \cup {req.project}]
          /\ \A b \in DOMAIN registry \ {a} : Accounts'[b] = Accounts[b]
      <4>1. Accounts[a] =
              [label |-> registry[a].label, secret |-> Settled(a), granted |-> registry[a].granted]
        BY <1>8, <2>1
      <4>2. /\ Accounts'[a] = [label |-> registry[a].label, secret |-> Settled(a),
                           granted |-> registry[a].granted \cup {req.project}]
            /\ \A b \in DOMAIN registry \ {a} : Accounts'[b] = Accounts[b]
        BY <1>8, <2>1, <2>2, <3>2
      <4>3. QED
        BY <4>1, <4>2
    <3>4. Accounts' = [Accounts EXCEPT ![a] = [Accounts[a] EXCEPT !.granted = Accounts[a].granted \cup {req.project}]]
      BY <2>1, <2>3, <3>2, <3>3
    <3>5. A!Allow(a, req.project)
      BY <1>8, <2>1, <3>4 DEF A!Allow
    <3>6. QED
      BY <1>1, <2>1, <2>5, <3>5 DEF A!Operation
  <2>6. CASE req.op = "block"
    <3>1. registry' = [registry EXCEPT ![a].granted = @ \ {req.project}]
      BY <1>1, <2>6 DEF Changed
    <3>2. /\ DOMAIN registry' = DOMAIN registry
          /\ registry'[a].granted = registry[a].granted \ {req.project} /\ registry'[a].label = registry[a].label
          /\ \A b \in DOMAIN registry \ {a} : registry'[b] = registry[b]
      BY <1>2, <2>1, <3>1 DEF Entry
    <3>3. /\ Accounts'[a] = [Accounts[a] EXCEPT !.granted = Accounts[a].granted \ {req.project}]
          /\ \A b \in DOMAIN registry \ {a} : Accounts'[b] = Accounts[b]
      <4>1. Accounts[a] =
              [label |-> registry[a].label, secret |-> Settled(a), granted |-> registry[a].granted]
        BY <1>8, <2>1
      <4>2. /\ Accounts'[a] = [label |-> registry[a].label, secret |-> Settled(a),
                           granted |-> registry[a].granted \ {req.project}]
            /\ \A b \in DOMAIN registry \ {a} : Accounts'[b] = Accounts[b]
        BY <1>8, <2>1, <2>2, <3>2
      <4>3. QED
        BY <4>1, <4>2
    <3>4. Accounts' = [Accounts EXCEPT ![a] = [Accounts[a] EXCEPT !.granted = Accounts[a].granted \ {req.project}]]
      BY <2>1, <2>3, <3>2, <3>3
    <3>5. A!Block(a, req.project)
      BY <1>8, <2>1, <3>4 DEF A!Block
    <3>6. QED
      BY <1>1, <2>1, <2>6, <3>5 DEF A!Operation
  <2>7. CASE req.op = "revoke"
    <3>1. registry' = [b \in DOMAIN registry |-> [registry[b] EXCEPT !.granted = @ \ {req.project}]]
      BY <1>1, <2>7 DEF Changed
    <3>2. /\ DOMAIN registry' = DOMAIN registry
          /\ \A b \in DOMAIN registry : /\ registry'[b].label = registry[b].label
                                        /\ registry'[b].granted = registry[b].granted \ {req.project}
      BY <1>2, <3>1 DEF Entry
    <3>3. \A b \in DOMAIN registry :
            Accounts'[b] = [Accounts[b] EXCEPT !.granted = Accounts[b].granted \ {req.project}]
      <4> SUFFICES ASSUME NEW b \in DOMAIN registry
                   PROVE  Accounts'[b] = [Accounts[b] EXCEPT !.granted = Accounts[b].granted \ {req.project}]
        OBVIOUS
      <4>1. Accounts[b] =
              [label |-> registry[b].label, secret |-> Settled(b), granted |-> registry[b].granted]
        BY <1>8
      <4>2. Accounts'[b] = [label |-> registry[b].label, secret |-> Settled(b),
                            granted |-> registry[b].granted \ {req.project}]
        BY <1>8, <2>2, <3>2
      <4>3. QED
        BY <4>1, <4>2
    <3>4. Accounts' = [b \in DOMAIN registry |->
                         [Accounts[b] EXCEPT !.granted = Accounts[b].granted \ {req.project}]]
      BY <2>3, <3>2, <3>3
    <3>5. A!RevokeProject(req.project)
      BY <1>8, <3>4 DEF A!RevokeProject
    <3>6. QED
      BY <2>1, <2>7, <3>5 DEF A!Operation
  <2>8. QED
    BY <1>12, <2>4, <2>5, <2>6, <2>7
<1>13. QED
  BY <1>1, <1>9, <1>10, <1>11, <1>12, RequestFacts

\* A step that breaks nothing is an operation on whole accounts, or nothing.
LEMMA StepMaps ==
  ASSUME OneVault, SoundInv, Serial', \A t \in Thread : Keeps(t), [Next]_vars, ~broken'
  PROVE  A!Operation \/ UNCHANGED Accounts
<1>1. ASSUME NEW t \in Thread,
             \/ Step(t) /\ ~Acquire(t)
             \/ UnlockFails(t) /\ \A a \in Account : ~Halfway(t, a)
      PROVE  A!Operation \/ UNCHANGED Accounts
  <2>1. Only(t) /\ TypeOK /\ Serial
    <3>1. Past(t)
      BY <1>1 DEF Step, Read, ReadEnds, Get, GetFails, Put, Erase, SecretFails, Write, WriteFails,
                  Undo, UnlockFails, At, Past
    <3>2. QED
      BY <3>1, HolderIsAlone DEF SoundInv
  <2>2. ASSUME UNCHANGED <<registry, store>>, Alone(t),
               \A a \in Account : ~Halfway(t, a) /\ ~Halfway(t, a)'
        PROVE  UNCHANGED Accounts
    BY <2>1, <2>2, OthersWhole, OthersWholeNext, StillAccounts
  <2>3. CASE Read(t)
    <3>1. PICK pc \in {"get", "put", "write"}, a \in Account :
            /\ call' = [call EXCEPT ![t].pc = pc, ![t].account = a, ![t].snapshot = registry]
            /\ pc = "put" <=> Op(t) = "create"
            /\ pc = "get" <=> Op(t) \in {"update", "delete"}
      BY <2>1, <2>3, ReadFacts
    <3>2. /\ call'[t].pc = pc /\ call'[t].req = call[t].req /\ Alone(t)
          /\ UNCHANGED <<registry, store>> /\ At(t, "read")
      BY <2>1, <2>3, <3>1 DEF Read, TypeOK, Locals, Call, Alone
    <3>3. \A b \in Account : ~Halfway(t, b) /\ ~Halfway(t, b)'
      BY <3>1, <3>2 DEF Halfway, At, Compensates, Op
    <3>4. QED
      BY <2>2, <3>2, <3>3
  <2>4. CASE Get(t)
    <3>1. /\ call'[t].pc \in {"put", "erase"} /\ Alone(t)
          /\ UNCHANGED <<registry, store>> /\ At(t, "get")
      BY <2>1, <2>4 DEF Get, TypeOK, Locals, Call, Alone
    <3>2. \A b \in Account : ~Halfway(t, b) /\ ~Halfway(t, b)'
      BY <3>1 DEF Halfway, At
    <3>3. QED
      BY <2>2, <3>1, <3>2
  <2>5. CASE ReadEnds(t) \/ GetFails(t) \/ SecretFails(t) \/ (WriteFails(t) /\ ~Compensates(t))
    <3>1. Leave(t) /\ UNCHANGED <<registry, store>>
      BY <2>5 DEF ReadEnds, GetFails, SecretFails, WriteFails
    <3>2. call'[t] = Quiet /\ Alone(t)
      BY <2>1, <3>1, LeaveTyped
    <3>3. \A b \in Account : ~Halfway(t, b) /\ ~Halfway(t, b)'
      BY <2>5, <3>2 DEF ReadEnds, GetFails, SecretFails, Halfway, At, Quiet, Fresh
    <3>4. QED
      BY <2>2, <3>1, <3>2, <3>3
  <2>6. CASE Put(t) \/ Erase(t)
    BY <2>1, <2>6, PutMaps
  <2>7. CASE Write(t) \/ (UnlockFails(t) /\ \A a \in Account : ~Halfway(t, a))
    <3>1. At(t, "write") /\ registry' = Changed(t) /\ UNCHANGED store
      BY <2>7 DEF Write, UnlockFails
    <3>2. Leave(t)
      <4>1. CASE Write(t)
        BY <4>1 DEF Write
      <4>2. CASE UnlockFails(t) /\ \A a \in Account : ~Halfway(t, a)
        <5>1. call[t].account \in Account
          BY <2>1, <3>1, LoadedFacts DEF At
        <5>2. ~Compensates(t)
          BY <3>1, <4>2, <5>1 DEF Halfway
        <5>3. QED
          BY <4>2, <5>2 DEF UnlockFails
      <4>3. QED
        BY <2>7, <4>1, <4>2
    <3>3. PICK a, req : a = call[t].account /\ req = call[t].req
      OBVIOUS
    <3>4. QED
      BY <2>1, <3>1, <3>2, <3>3, WriteMaps
  <2>8. CASE WriteFails(t) /\ Compensates(t)
    <3>1. /\ Goto(t, "undo") /\ At(t, "write") /\ UNCHANGED <<registry, store>>
      BY <2>8 DEF WriteFails
    <3>2. /\ call'[t].pc = "undo" /\ call'[t].account = call[t].account
          /\ call'[t].req = call[t].req /\ call'[t].old = call[t].old /\ Alone(t)
      BY <2>1, <3>1 DEF Goto, TypeOK, Locals, Call, Alone
    <3>3. \A u \in Thread, b \in Account :
            /\ Halfway(u, b)' <=> Halfway(u, b)
            /\ Halfway(u, b) => call'[u].old = call[u].old
      BY <3>1, <3>2 DEF Halfway, At, Compensates, Op, Alone
    <3>4. QED
      BY <2>1, <3>1, <3>3, StillAccounts
  <2>9. CASE Undo(t)
    BY <2>1, <2>9, UndoMaps
  <2>10. QED
    BY <1>1, <2>3, <2>4, <2>5, <2>6, <2>7, <2>8, <2>9 DEF Step
<1>2. ASSUME NEW t \in Thread,
             Acquire(t) \/ \E req \in Request : Invoke(t, req)
      PROVE  UNCHANGED Accounts
  <2>1. /\ UNCHANGED <<registry, store>> /\ TypeOK /\ Serial /\ Alone(t)
        /\ call[t].pc \in {"idle", "lock"} /\ call'[t].pc \in {"read", "lock"}
    BY <1>2 DEF Acquire, Goto, Invoke, Fresh, SoundInv, TypeOK, Locals, Call, Alone, At
  <2>2. \A u \in Thread, b \in Account :
          /\ Halfway(u, b)' <=> Halfway(u, b)
          /\ Halfway(u, b) => call'[u].old = call[u].old
    BY <2>1 DEF Halfway, At, Compensates, Op, Alone
  <2>3. QED
    BY <2>1, <2>2, StillAccounts
<1>3. ASSUME NEW v \in Vault, Die(v), \A t \in Thread, a \in Account : ~Halfway(t, a)
      PROVE  UNCHANGED Accounts
  <2>1. \A t \in Thread : call'[t] = Quiet
    BY <1>3 DEF Die, OneVault, Vault
  <2>2. \A t \in Thread, a \in Account : ~Halfway(t, a)'
    BY <2>1 DEF Halfway, At, Quiet, Fresh
  <2>3. QED
    BY <1>3, <2>2, StillAccounts DEF Die, SoundInv
<1>4. ASSUME NEW t \in Thread, UndoFails(t)
      PROVE  \E a \in Account : Halfway(t, a)
  BY <1>4, LoadedFacts DEF UndoFails, Halfway, At, Compensates, SoundInv
<1>5. CASE UNCHANGED vars
  BY <1>5, StillAccounts DEF vars, SoundInv, Halfway, At, Op, Compensates
<1>6. CASE Break /\ \A t \in Thread, a \in Account : ~Halfway(t, a)
  BY <1>1, <1>3, <1>4, <1>6 DEF Break
<1>7. QED
  BY <1>1, <1>2, <1>5, <1>6 DEF Next

\* One process's operations on accounts are atomic, whatever fails and whenever it dies, until one
\* is broken off half way: every step is one of AtomicVault on whole accounts, or none of them
\* changes as its owner sees it.
THEOREM VaultIsAtomic == ASSUME OneVault PROVE Spec => Atomic
<1>1. Init => A!Init
  <2> SUFFICES ASSUME Init
               PROVE  A!Init
    OBVIOUS
  <2>1. Accounts = << >>
    BY DEF Init, Accounts
  <2>2. QED
    BY <2>1 DEF Init, A!Init
<1>2. SecretInv /\ SecretInv' /\ [Next]_vars => [A!Next]_<<Accounts, broken>>
  <2> SUFFICES ASSUME SecretInv, SecretInv', [Next]_vars
               PROVE  [A!Next]_<<Accounts, broken>>
    OBVIOUS
  <2>1. broken \in BOOLEAN /\ broken' \in BOOLEAN /\ (broken => broken')
    BY DEF SecretInv, VaultInv, TypeOK, Next, vars
  <2>2. CASE broken'
    <3>1. A!Broken
      BY <2>1, <2>2 DEF A!Broken
    <3>2. QED
      BY <3>1 DEF A!Next
  <2>3. CASE ~broken'
    <3>1. SoundInv /\ (\A t \in Thread : Keeps(t)) /\ Serial'
      BY <2>1, <2>3 DEF SecretInv, VaultInv, SoundInv
    <3>2. A!Operation \/ UNCHANGED Accounts
      BY <2>3, <3>1, StepMaps
    <3>3. broken' = broken
      BY <2>1, <2>3
    <3>4. QED
      BY <3>2, <3>3 DEF A!Next
  <2>4. QED
    BY <2>2, <2>3
<1>3. QED
  BY <1>1, <1>2, SecretInvariant, PTL DEF Spec, Atomic, A!Spec
=============================================================================
