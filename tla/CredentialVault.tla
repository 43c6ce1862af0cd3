-------------------------- MODULE CredentialVault --------------------------
(***************************************************************************)
(* CredentialVault of crates/env-credentials/src/service.rs.  An account   *)
(* is kept in two places: its label and the projects it is granted to in   *)
(* the file credentials.json, its username and password in the secret      *)
(* store of the operating system.  A mutating operation takes the mutex of *)
(* its vault object, reads the whole file, changes the secret, writes the  *)
(* whole file, and takes the change of the secret back if it cannot.  The  *)
(* file is read under a shared and written under an exclusive file lock,   *)
(* which is not held in between; every desktop process has a vault object, *)
(* hence a mutex, of its own.  Ids are random and never meet.              *)
(***************************************************************************)
EXTENDS Naturals, FiniteSets, Functions

CONSTANTS
  Thread,       \* threads of the desktop processes
  Home,         \* Home[t]: the vault object of thread t
  Account,      \* account ids
  Project,      \* project ids
  Version,      \* contents of a label and of a secret
  MaxAccounts,  \* the most accounts read_registry accepts
  Fault,        \* the faults of this instance
  Nobody, NoSecret

Vault == { Home[t] : t \in Thread }

ASSUME VaultAssumption ==
  /\ MaxAccounts \in Nat
  /\ Fault \subseteq {"store", "metadata", "unlock", "undo", "crash"}
  /\ Nobody \notin Thread \cup Account /\ NoSecret \notin Version
  /\ DOMAIN Home = Thread

VARIABLES
  registry,   \* credentials.json
  store,      \* the secret store: the secrets of the accounts that have one
  mutex,      \* mutex[v]: the thread that holds the mutex of vault v, or Nobody
  call,       \* call[t]: the operation of thread t and its locals
  broken      \* whether an operation half way through an account was left without its way back

vars == <<registry, store, mutex, call, broken>>

Entry == [label : Version, granted : SUBSET Project]
Registry == UNION { [S -> Entry] : S \in SUBSET Account }
Store == UNION { [S -> Version] : S \in SUBSET Account }

\* CreateAccountInput, UpdateAccountInput and the arguments of the other operations.  An update
\* brings a new secret, or only a new label; a new account may be granted to one project.
Request ==
  [op : {"create"}, version : Version, granted : { g \in SUBSET Project : Cardinality(g) <= 1 }]
    \cup [op : {"update", "rename"}, account : Account, version : Version]
    \cup [op : {"delete"}, account : Account]
    \cup [op : {"allow", "block"}, account : Account, project : Project]
    \cup [op : {"revoke"}, project : Project]

NoRequest == [op |-> "none"]

\* The locals of an operation that has read nothing yet.
Fresh(pc, req) ==
  [pc |-> pc, req |-> req, account |-> Nobody, snapshot |-> << >>, old |-> NoSecret]

Quiet == Fresh("idle", NoRequest)

Init ==
  /\ registry = << >>
  /\ store = << >>
  /\ mutex = [v \in Vault |-> Nobody]
  /\ call = [t \in Thread |-> Quiet]
  /\ broken = FALSE

At(t, pc) == call[t].pc = pc
Op(t) == call[t].req.op
Goto(t, pc) == call' = [call EXCEPT ![t].pc = pc]

\* The operation returns, and its guard is dropped.
Leave(t) ==
  /\ call' = [call EXCEPT ![t] = Quiet]
  /\ mutex' = [mutex EXCEPT ![Home[t]] = Nobody]

\* An id that no account and no operation under way knows.
Unused(a) ==
  /\ a \notin DOMAIN registry \cup DOMAIN store
  /\ \A t \in Thread : a # call[t].account /\ a \notin DOMAIN call[t].snapshot

Invoke(t, req) ==
  /\ At(t, "idle")
  /\ call' = [call EXCEPT ![t] = Fresh("lock", req)]
  /\ UNCHANGED <<registry, store, mutex>>

\* Mutant: operations of one vault run at the same time.
AcquireWithoutMutex(t) ==
  /\ At(t, "lock")
  /\ mutex' = [mutex EXCEPT ![Home[t]] = t]
  /\ Goto(t, "read")
  /\ UNCHANGED <<registry, store>>

Acquire(t) ==
  /\ At(t, "lock")
  /\ mutex[Home[t]] = Nobody
  /\ mutex' = [mutex EXCEPT ![Home[t]] = t]
  /\ Goto(t, "read")
  /\ UNCHANGED <<registry, store>>

Readable == Cardinality(DOMAIN registry) <= MaxAccounts

\* read_registry; a create then draws its id, the others find their account.
Read(t) ==
  /\ At(t, "read")
  /\ Readable
  /\ LET req == call[t].req
         Proceed(pc, a) ==
           call' = [call EXCEPT ![t].pc = pc, ![t].account = a, ![t].snapshot = registry]
     IN  \/ /\ req.op = "create"
            /\ \E a \in Account : Unused(a) /\ Proceed("put", a)
         \/ /\ req.op \in {"update", "delete"}
            /\ req.account \in DOMAIN registry
            /\ Proceed("get", req.account)
         \/ /\ req.op \in {"rename", "allow", "block"}
            /\ req.account \in DOMAIN registry
            /\ Proceed("write", req.account)
         \/ /\ req.op = "revoke"
            /\ \E a \in DOMAIN registry :
                 req.project \in registry[a].granted /\ Proceed("write", a)
  /\ UNCHANGED <<registry, store, mutex>>

\* The file cannot be read or holds too many accounts, the account is not in it, or a project is
\* revoked that nothing is granted to.
ReadEnds(t) ==
  /\ At(t, "read")
  /\ LET req == call[t].req
     IN  \/ "metadata" \in Fault
         \/ ~Readable
         \/ /\ req.op \in {"update", "rename", "delete", "allow", "block"}
            /\ req.account \notin DOMAIN registry
         \/ req.op = "revoke" /\ \A a \in DOMAIN registry : req.project \notin registry[a].granted
  /\ Leave(t)
  /\ UNCHANGED <<registry, store>>

\* The secret as it is, to put back.
Get(t) ==
  /\ At(t, "get")
  /\ call[t].account \in DOMAIN store
  /\ call' = [call EXCEPT ![t].old = store[call[t].account],
                          ![t].pc = IF Op(t) = "delete" THEN "erase" ELSE "put"]
  /\ UNCHANGED <<registry, store, mutex>>

GetFails(t) ==
  /\ At(t, "get")
  /\ call[t].account \notin DOMAIN store \/ "store" \in Fault
  /\ Leave(t)
  /\ UNCHANGED <<registry, store>>

With(a, secret) == [b \in DOMAIN store \cup {a} |-> IF b = a THEN secret ELSE store[b]]
Without(a) == Restrict(store, DOMAIN store \ {a})

Put(t) ==
  /\ At(t, "put")
  /\ store' = With(call[t].account, call[t].req.version)
  /\ Goto(t, "write")
  /\ UNCHANGED <<registry, mutex>>

Erase(t) ==
  /\ At(t, "erase")
  /\ call[t].account \in DOMAIN store
  /\ store' = Without(call[t].account)
  /\ Goto(t, "write")
  /\ UNCHANGED <<registry, mutex>>

SecretFails(t) ==
  /\ At(t, "put") \/ At(t, "erase")
  /\ "store" \in Fault \/ (At(t, "erase") /\ call[t].account \notin DOMAIN store)
  /\ Leave(t)
  /\ UNCHANGED <<registry, store>>

\* The registry to write: what was read, and the change.
Changed(t) ==
  LET req == call[t].req
      a == call[t].account
      old == call[t].snapshot
  IN  CASE req.op = "create" ->
             [b \in DOMAIN old \cup {a} |->
                IF b = a THEN [label |-> req.version, granted |-> req.granted] ELSE old[b]]
        [] req.op \in {"update", "rename"} -> [old EXCEPT ![a].label = req.version]
        [] req.op = "delete" -> Restrict(old, DOMAIN old \ {a})
        [] req.op = "allow" -> [old EXCEPT ![a].granted = @ \cup {req.project}]
        [] req.op = "block" -> [old EXCEPT ![a].granted = @ \ {req.project}]
        [] req.op = "revoke" -> [b \in DOMAIN old |-> [old[b] EXCEPT !.granted = @ \ {req.project}]]

Write(t) ==
  /\ At(t, "write")
  /\ registry' = Changed(t)
  /\ Leave(t)
  /\ UNCHANGED store

\* The operations that changed the secret and put it back when the registry is not written.
Compensates(t) == Op(t) \in {"create", "update", "delete"}

\* Mutant: the error of write_registry is returned at once.
WriteFailsWithoutUndo(t) ==
  /\ At(t, "write")
  /\ "metadata" \in Fault
  /\ Leave(t)
  /\ UNCHANGED <<registry, store>>

WriteFails(t) ==
  /\ At(t, "write")
  /\ "metadata" \in Fault
  /\ IF Compensates(t) THEN Goto(t, "undo") /\ UNCHANGED mutex ELSE Leave(t)
  /\ UNCHANGED <<registry, store>>

\* The registry is persisted, but lock.unlock() fails: the operation takes that for a failed write.
UnlockFails(t) ==
  /\ At(t, "write")
  /\ "unlock" \in Fault
  /\ registry' = Changed(t)
  /\ IF Compensates(t) THEN Goto(t, "undo") /\ UNCHANGED mutex ELSE Leave(t)
  /\ UNCHANGED store

Undo(t) ==
  /\ At(t, "undo")
  /\ store' = IF Op(t) = "create" THEN Without(call[t].account)
              ELSE With(call[t].account, call[t].old)
  /\ Leave(t)
  /\ UNCHANGED registry

\* let _ = ...: an error of the compensation is dropped.
UndoFails(t) ==
  /\ At(t, "undo")
  /\ "undo" \in Fault
  /\ Leave(t)
  /\ UNCHANGED <<registry, store>>

\* The desktop process dies, with every thread it has, and is started again.
Die(v) ==
  /\ "crash" \in Fault
  /\ call' = [t \in Thread |-> IF Home[t] = v THEN Quiet ELSE call[t]]
  /\ mutex' = [mutex EXCEPT ![v] = Nobody]
  /\ UNCHANGED <<registry, store>>

\* t has changed the secret of a and not yet the registry, or not yet put the secret back.
Halfway(t, a) ==
  /\ At(t, "write") \/ At(t, "undo")
  /\ Compensates(t)
  /\ call[t].account = a

Step(t) ==
  \/ Acquire(t) \/ Read(t) \/ ReadEnds(t) \/ Get(t) \/ GetFails(t)
  \/ Put(t) \/ Erase(t) \/ SecretFails(t) \/ Write(t) \/ WriteFails(t) \/ Undo(t)

\* The faults that no compensation follows, or a wrong one.
Break == (\E t \in Thread : UnlockFails(t) \/ UndoFails(t)) \/ \E v \in Vault : Die(v)

Next ==
  \/ /\ \E t \in Thread : Step(t) \/ \E req \in Request : Invoke(t, req)
     /\ UNCHANGED broken
  \/ /\ Break
     /\ broken' = (broken \/ \E t \in Thread, a \in Account : Halfway(t, a))

Spec == Init /\ [][Next]_vars

----------------------------------------------------------------------------
\* The type invariant.
PC == {"idle", "lock", "read", "get", "put", "erase", "write", "undo"}

Call == [pc : PC, req : Request \cup {NoRequest}, account : Account \cup {Nobody},
         snapshot : Registry, old : Version \cup {NoSecret}]

\* An operation that has read the registry works on one of its accounts, or on a new one.
Locals ==
  { c \in Call :
      /\ c.pc # "idle" => c.req \in Request
      /\ c.pc \in {"get", "put", "erase", "write", "undo"} =>
           /\ c.account \in Account
           /\ c.req.op = "create" <=> c.account \notin DOMAIN c.snapshot
      /\ c.pc = "get" => c.req.op \in {"update", "delete"}
      /\ c.pc = "put" => c.req.op \in {"create", "update"}
      /\ c.pc = "erase" => c.req.op = "delete"
      /\ c.pc = "undo" => c.req.op \in {"create", "update", "delete"}
      /\ c.pc \in {"put", "erase", "write", "undo"} /\ c.req.op \in {"update", "delete"} =>
           c.old \in Version }

TypeOK ==
  /\ registry \in Registry
  /\ store \in Store
  /\ mutex \in [Vault -> Thread \cup {Nobody}]
  /\ call \in [Thread -> Locals]
  /\ broken \in BOOLEAN

\* The operations of one vault are serial: who is past the lock holds the mutex, and the registry it
\* read is still the one in the file when it writes.
Serial ==
  \A t \in Thread :
    /\ ~At(t, "idle") /\ ~At(t, "lock") => mutex[Home[t]] = t
    /\ call[t].pc \in {"get", "put", "erase", "write"} => call[t].snapshot = registry

\* An account that no operation is half way through has a secret exactly if it is in the registry.
Agree ==
  \A a \in Account :
    (\A t \in Thread : ~Halfway(t, a)) => (a \in DOMAIN registry <=> a \in DOMAIN store)

\* create, update and delete take back the one half when the other fails; the two halves of an
\* account disagree only after a compensation itself has failed, followed a write that did persist,
\* or died with its process.
Paired == broken \/ Agree

\* What t knows of the two halves of its account.
Halves(t) ==
  LET listed == call[t].account \in DOMAIN registry
      kept == call[t].account \in DOMAIN store
  IN  /\ call[t].pc \in {"put", "erase"} => (listed <=> kept)
      /\ At(t, "undo") => (listed <=> Op(t) # "create") /\ (kept <=> Op(t) # "delete")
      /\ At(t, "write") => /\ Op(t) \in {"create", "update"} => kept
                           /\ Op(t) = "delete" => ~kept

\* The inductive invariant behind Paired, for one vault.
VaultInv == TypeOK /\ Serial /\ (broken \/ (Agree /\ \A t \in Thread : Halves(t)))

\* The secret a change will put back is the one there is, and afterwards the new one is there.
Keeps(t) ==
  LET a == call[t].account
  IN  /\ call[t].pc \in {"put", "erase"} /\ Op(t) # "create" =>
           a \in DOMAIN store /\ store[a] = call[t].old
      /\ At(t, "write") /\ Op(t) \in {"create", "update"} =>
           a \in DOMAIN store /\ store[a] = call[t].req.version

\* The inductive invariant behind Atomic, for one vault.
SecretInv == VaultInv /\ (broken \/ \A t \in Thread : Keeps(t))

Granted(a, p) == a \in DOMAIN registry /\ p \in registry[a].granted

\* t is about to write a registry that it was asked to grant a to p in.
Asks(t, a, p) ==
  /\ At(t, "write")
  /\ \/ Op(t) = "create" /\ a = call[t].account /\ p \in call[t].req.granted
     \/ Op(t) = "allow" /\ a = call[t].account /\ p = call[t].req.project

\* An account that is blocked from a project stays so until somebody allows it: no other operation,
\* and no failure of one, brings a grant (set_project_access, revoke_project, create).
GrantOnRequest ==
  [][\A a \in Account, p \in Project :
       Granted(a, p)' => Granted(a, p) \/ \E t \in Thread : Asks(t, a, p)]_vars

\* No sequence of operations makes credentials.json a file that read_registry refuses, which would
\* fail every operation from then on.
StaysReadable == Readable

\* The account as its owner sees it: the secret a half-way operation will have put back counts.
Settled(a) ==
  IF \E t \in Thread : Halfway(t, a)
    THEN call[CHOOSE t \in Thread : Halfway(t, a)].old
    ELSE IF a \in DOMAIN store THEN store[a] ELSE NoSecret

Accounts ==
  [a \in DOMAIN registry |->
     [label |-> registry[a].label, secret |-> Settled(a), granted |-> registry[a].granted]]

A == INSTANCE AtomicVault WITH vault <- Accounts

\* The operations of one vault are atomic until one is broken: see AtomicVault.
Atomic == A!Spec
=============================================================================
