--------------------------- MODULE DesktopRegistry ---------------------------
(***************************************************************************)
(* projects.json, the registry of projects (crates/env-registry), and what *)
(* the desktop app does with it (src-tauri/src/runtime, commands).         *)
(* Desktops and brokers share the file; it is read under a shared and      *)
(* updated under an exclusive lock of projects.lock.  A desktop keeps a    *)
(* copy, which it refreshes before it looks a project up.  Its synchronous *)
(* commands run one after the other on its main thread, the asynchronous   *)
(* ones beside them; nothing keeps a second desktop from being started.    *)
(*                                                                         *)
(* Removing a project also takes its grants out of the vault, and the      *)
(* labels of files, which older versions kept in the manifest, move to the *)
(* registry.  Names, paths, display and the contents of channels and       *)
(* receipts are left out; grants stands for the vault, whose operations    *)
(* are atomic (AtomicVault).                                               *)
(***************************************************************************)
EXTENDS Naturals, Sequences, FiniteSets

CONSTANTS
  Thread,        \* main and asynchronous threads of the desktops, and brokers
  Home,          \* Home[t]: the process of thread t
  Ops,           \* Ops[t]: the operations that thread t calls
  Project,       \* ids; the registry's order by name is not modelled
  MaxReceipts,   \* receipts kept, over all projects
  Fault,         \* the faults that happen
  Nobody

Process == { Home[t] : t \in Thread }

AllOps == {"list", "select", "register", "rename_project", "rename_file", "remove",
           "remove_channel", "grant", "connect", "push", "broker_register", "start"}

ASSUME HomeAssumption == DOMAIN Home = Thread
ASSUME OpsAssumption == Ops \in [Thread -> SUBSET AllOps]
ASSUME MaxReceiptsAssumption == MaxReceipts \in Nat
ASSUME FaultAssumption == Fault \subseteq {"io", "vault", "unlock", "crash"}
ASSUME NobodyAssumption == Nobody \notin Thread \cup Project

VARIABLES
  registry,   \* projects.json
  lock,       \* who holds projects.lock exclusively, or Nobody
  cache,      \* cache[h]: the projects in the copy of desktop h
  up,         \* whether process h has finished AppRuntime::load
  legacy,     \* the projects whose manifest still has labels
  grants,     \* the projects some account is granted to
  call,       \* the operation of a thread, and its locals
  since       \* what has been so at some moment since that operation began

vars == <<registry, lock, cache, up, legacy, grants, call, since>>

----------------------------------------------------------------------------
\* A label is the one a manifest had or one the user gave; "old" is an old format of channels.
Label == {"none", "legacy", "own"}
Registry ==
  [projects : UNION { [S -> Label] : S \in SUBSET Project }, selected : Project \cup {Nobody},
   channels : SUBSET Project, receipts : Seq(Project), old : BOOLEAN]

NoRegistry ==
  [projects |-> << >>, selected |-> Nobody, channels |-> {}, receipts |-> << >>, old |-> FALSE]

Registered(r) == DOMAIN r.projects

\* The steps of the operations, in the order of the code.  root is "refresh", "cache", "lookup"; update
\* is "read", which includes taking the lock, and "write", which releases it.
Steps ==
  [list |-> <<"refresh", "cache">>,
   select |-> <<"read", "write", "cache">>,
   rename_project |-> <<"read", "write", "cache">>,
   remove_channel |-> <<"read", "write", "cache">>,
   register |-> <<"read", "write", "cache", "take">>,
   rename_file |-> <<"refresh", "cache", "lookup", "read", "write", "cache">>,
   remove |-> <<"revoke", "read", "write", "cache">>,
   grant |-> <<"refresh", "cache", "lookup", "grant">>,
   connect |-> <<"refresh", "cache", "lookup", "read", "write", "cache",
                 "refresh", "cache", "lookup", "refresh", "cache">>,
   push |-> <<"refresh", "cache", "lookup", "provider",
              "refresh", "cache", "lookup", "read", "write", "cache">>,
   broker_register |-> <<"read", "write">>,
   start |-> <<"format", "load", "migrate", "save", "take", "rewrite", "run">>]

Idle ==
  [op |-> "none", project |-> Nobody, todo |-> << >>, held |-> NoRegistry, read |-> {},
   migrated |-> {}, old |-> FALSE]

Busy(t) == call[t].todo # << >>
At(t, step) == Busy(t) /\ Head(call[t].todo) = step
Op(t) == call[t].op
Project1(t) == call[t].project

\* The call after its current step; with a registry to write, and the labels to take afterwards;
\* with projects read, which become the copy.
After(c) == IF Len(c.todo) = 1 THEN Idle ELSE [c EXCEPT !.todo = Tail(@)]
Continue(t) == call' = [call EXCEPT ![t] = After(@)]
Hold(t, r, projects) ==
  call' = [call EXCEPT ![t] = After([@ EXCEPT !.held = r, !.migrated = projects])]
Keep(t, projects) ==
  call' = [call EXCEPT ![t] = After([@ EXCEPT !.held = NoRegistry, !.read = projects])]
Return(t) == call' = [call EXCEPT ![t] = Idle]

Init ==
  /\ registry \in [projects : UNION { [S -> {"none"}] : S \in SUBSET Project },
                   selected : {Nobody}, channels : SUBSET Project, receipts : {<< >>},
                   old : BOOLEAN]
  /\ registry.channels \subseteq Registered(registry)
  /\ registry.old => registry.channels # {}
  /\ lock = Nobody
  /\ cache = [h \in Process |-> {}]
  /\ up = [h \in Process |-> FALSE]
  /\ legacy \in SUBSET Project
  /\ grants = {}
  /\ call = [t \in Thread |-> Idle]
  /\ since = [t \in Thread |-> [registered |-> {}, gone |-> {}, granted |-> {}]]

----------------------------------------------------------------------------
\* A command arrives: the app has to be running, or nothing of it for a start.
Begin(t, op, p) ==
  /\ ~Busy(t) /\ op \in Ops[t]
  /\ IF op = "start"
       THEN ~up[Home[t]] /\ \A u \in Thread : Home[u] = Home[t] => ~Busy(u)
       ELSE op # "broker_register" => up[Home[t]]
  /\ op \in {"start", "list"} => p = Nobody
  /\ op \notin {"start", "list", "select"} => p \in Project
  /\ call' = [call EXCEPT ![t] = [Idle EXCEPT !.op = op, !.project = p, !.todo = Steps[op]]]
  /\ UNCHANGED <<registry, lock, cache, up, legacy, grants>>

\* Mutant: a project is looked up in the copy as it is.
LookUpOnly(t) ==
  /\ At(t, "refresh")
  /\ call' = [call EXCEPT ![t].todo = IF Op(t) = "list" THEN <<"lookup">> ELSE Tail(Tail(@))]
  /\ UNCHANGED <<registry, lock, cache, up, legacy, grants>>

\* read: the shared lock is held for no longer than the read.
Refresh(t) ==
  /\ At(t, "refresh")
  /\ lock = Nobody
  /\ Keep(t, Registered(registry))
  /\ UNCHANGED <<registry, lock, cache, up, legacy, grants>>

\* What was read, or written by the update, becomes the copy: by now it may be the older one.
Cache(t) ==
  /\ At(t, "cache")
  /\ cache' = [cache EXCEPT ![Home[t]] = call[t].read]
  /\ call' = [call EXCEPT ![t] = After([@ EXCEPT !.read = {}])]
  /\ UNCHANGED <<registry, lock, up, legacy, grants>>

\* root, service: UNREGISTERED_PROJECT ends the operation.
LookUp(t) ==
  /\ At(t, "lookup")
  /\ IF Project1(t) \in cache[Home[t]] THEN Continue(t) ELSE Return(t)
  /\ UNCHANGED <<registry, lock, cache, up, legacy, grants>>

----------------------------------------------------------------------------
\* The closures of update: what each makes of the registry, and when it refuses.
Refuses(op, p, r) ==
  CASE op = "select" -> p \notin Registered(r) \cup {Nobody}
    [] op \in {"rename_project", "rename_file", "remove"} -> p \notin Registered(r)
    [] op = "remove_channel" -> p \notin r.channels
    [] OTHER -> FALSE

\* A label of the registry outweighs that of the manifest.
Merged(label, migrates) == IF label = "none" /\ migrates THEN "legacy" ELSE label

WithProject(r, p, label) ==
  [r EXCEPT !.projects = [q \in Registered(r) \cup {p} |-> IF q = p THEN label ELSE r.projects[q]]]

LabelOf(r, p) == IF p \in Registered(r) THEN r.projects[p] ELSE "none"

\* The newest receipt comes first, and the last ones are dropped.
WithReceipt(r, p) ==
  LET all == <<p>> \o r.receipts
  IN  [r EXCEPT !.receipts = IF Len(all) > MaxReceipts THEN SubSeq(all, 1, MaxReceipts) ELSE all]

\* The selection falls to the first by name.
Without(r, p) ==
  LET rest == Registered(r) \ {p}
      other == IF r.selected # p THEN {r.selected} ELSE IF rest = {} THEN {Nobody} ELSE rest
  IN  { [projects |-> [q \in rest |-> r.projects[q]], selected |-> s, channels |-> r.channels \ {p},
         receipts |-> SelectSeq(r.receipts, LAMBDA q : q # p), old |-> r.old] : s \in other }

Effects(op, p, r, migrates) ==
  CASE op = "select" -> {[r EXCEPT !.selected = p]}
    [] op = "register" -> {WithProject(r, p, Merged(LabelOf(r, p), migrates))}
    [] op = "broker_register" -> {WithProject(r, p, LabelOf(r, p))}
    [] op = "rename_project" -> {r}
    [] op = "rename_file" -> {WithProject(r, p, "own")}
    [] op = "remove" -> Without(r, p)
    [] op = "connect" -> {[r EXCEPT !.channels = @ \cup {p}]}
    [] op = "remove_channel" -> {[r EXCEPT !.channels = @ \ {p}]}
    [] op = "push" -> {WithReceipt(r, p)}

\* The registry as it is and the closure, once the lock is granted; register reads the labels of the
\* manifest in it.
Change(t) ==
  LET migrates == Op(t) = "register" /\ Project1(t) \in legacy
  IN  \E r \in Effects(Op(t), Project1(t), registry, migrates) :
        Hold(t, [r EXCEPT !.old = FALSE], IF migrates THEN {Project1(t)} ELSE {})

\* Mutant: the lock is taken shared.
ReadShared(t) ==
  /\ At(t, "read") /\ lock = Nobody
  /\ ~Refuses(Op(t), Project1(t), registry) /\ Change(t)
  /\ UNCHANGED <<registry, lock, cache, up, legacy, grants>>

\* Mutant: who is selected has been looked up before the lock was taken.
ReadTrusting(t) ==
  /\ At(t, "read") /\ lock = Nobody /\ lock' = t
  /\ Refuses(Op(t), Project1(t), registry) => Op(t) = "select"
  /\ Change(t)
  /\ UNCHANGED <<registry, cache, up, legacy, grants>>

\* Mutant: labels leave the manifest where they are read.
ReadAndTake(t) ==
  /\ At(t, "read") /\ lock = Nobody /\ lock' = t
  /\ ~Refuses(Op(t), Project1(t), registry) /\ Change(t)
  /\ legacy' = IF Op(t) = "register" THEN legacy \ {Project1(t)} ELSE legacy
  /\ UNCHANGED <<registry, cache, up, grants>>

\* read_unlocked and the closure.
Read(t) ==
  /\ At(t, "read") /\ lock = Nobody /\ lock' = t
  /\ ~Refuses(Op(t), Project1(t), registry) /\ Change(t)
  /\ UNCHANGED <<registry, cache, up, legacy, grants>>

\* The file cannot be read, or the closure refuses; or it cannot be written.  The lock is released.
UpdateFails(t) ==
  /\ \/ At(t, "read") /\ lock = Nobody /\ ("io" \in Fault \/ Refuses(Op(t), Project1(t), registry))
     \/ At(t, "write") /\ "io" \in Fault
  /\ lock' = Nobody
  /\ Return(t)
  /\ UNCHANGED <<registry, cache, up, legacy, grants>>

\* write_unlocked, and unlock.  The lock is gone with its handle also if unlock fails, but then the
\* caller gets an error, and the copy of the desktop is not replaced.
Write(t) ==
  /\ At(t, "write")
  /\ registry' = call[t].held
  /\ lock' = Nobody
  /\ Keep(t, Registered(call[t].held)) \/ ("unlock" \in Fault /\ Return(t))
  /\ UNCHANGED <<cache, up, legacy, grants>>

----------------------------------------------------------------------------
\* take_legacy_file_labels, for one project after the other.
Take(t) ==
  /\ At(t, "take")
  /\ IF call[t].migrated = {}
       THEN Continue(t) /\ UNCHANGED legacy
       ELSE \E p \in call[t].migrated :
              /\ legacy' = legacy \ {p}
              /\ call' = [call EXCEPT ![t].migrated = @ \ {p}]
  /\ UNCHANGED <<registry, lock, cache, up, grants>>

\* Mutant: a failure of the vault is let pass.
RevokeIfPossible(t) ==
  /\ At(t, "revoke")
  /\ Continue(t)
  /\ grants' = grants \ {Project1(t)} \/ ("vault" \in Fault /\ UNCHANGED grants)
  /\ UNCHANGED <<registry, lock, cache, up, legacy>>

\* revoke_project of the vault comes first; if it fails the project stays.
Revoke(t) ==
  /\ At(t, "revoke")
  /\ \/ grants' = grants \ {Project1(t)} /\ Continue(t)
     \/ "vault" \in Fault /\ Return(t) /\ UNCHANGED grants
  /\ UNCHANGED <<registry, lock, cache, up, legacy>>

\* create_account for the project, or set_account_project_access with allowed.
Grant(t) ==
  /\ At(t, "grant")
  /\ \/ grants' = grants \cup {Project1(t)} /\ Continue(t)
     \/ "vault" \in Fault /\ Return(t) /\ UNCHANGED grants
  /\ UNCHANGED <<registry, lock, cache, up, legacy>>

\* The push itself takes its time, and may fail as a whole.
Provider(t) ==
  /\ At(t, "provider")
  /\ Continue(t) \/ Return(t)
  /\ UNCHANGED <<registry, lock, cache, up, legacy, grants>>

----------------------------------------------------------------------------
\* AppRuntime::load: first whether the file has channels in the old format, without a lock.
Format(t) ==
  /\ At(t, "format")
  /\ call' = [call EXCEPT ![t] = After([@ EXCEPT !.old = registry.old])]
  /\ UNCHANGED <<registry, lock, cache, up, legacy, grants>>

Load(t) ==
  /\ At(t, "load")
  /\ lock = Nobody
  /\ Hold(t, registry, {})
  /\ UNCHANGED <<registry, lock, cache, up, legacy, grants>>

\* migrate_legacy_file_labels, on the copy; a project whose manifest cannot be read is passed over.
Migrate(t) ==
  /\ At(t, "migrate")
  /\ LET r == call[t].held
         labelled == Registered(r) \cap legacy
     IN  \E found \in IF "io" \in Fault THEN SUBSET labelled ELSE {labelled} :
           Hold(t, [r EXCEPT !.projects = [p \in Registered(r) |-> Merged(@[p], p \in found)],
                             !.old = FALSE], found)
  /\ UNCHANGED <<registry, lock, cache, up, legacy, grants>>

\* persist_registry replaces the file, under the lock, by the copy that was read before.
Save(t) ==
  /\ \/ At(t, "save") /\ call[t].migrated # {}
     \/ At(t, "rewrite") /\ call[t].old
  /\ lock = Nobody
  /\ registry' = call[t].held
  /\ Continue(t)
  /\ UNCHANGED <<lock, cache, up, legacy, grants>>

NothingToSave(t) ==
  /\ \/ At(t, "save") /\ call[t].migrated = {}
     \/ At(t, "rewrite") /\ ~call[t].old
  /\ Continue(t)
  /\ UNCHANGED <<registry, lock, cache, up, legacy, grants>>

Run(t) ==
  /\ At(t, "run")
  /\ cache' = [cache EXCEPT ![Home[t]] = Registered(call[t].held)]
  /\ up' = [up EXCEPT ![Home[t]] = TRUE]
  /\ Continue(t)
  /\ UNCHANGED <<registry, lock, legacy, grants>>

\* A file cannot be read or written outside of update.
Fails(t) ==
  /\ "io" \in Fault
  /\ \E step \in {"refresh", "take", "load", "save", "rewrite"} : At(t, step)
  /\ Return(t)
  /\ UNCHANGED <<registry, lock, cache, up, legacy, grants>>

\* A process ends, with all its threads; the system releases its lock.
Die(h) ==
  /\ "crash" \in Fault
  /\ call' = [t \in Thread |-> IF Home[t] = h THEN Idle ELSE call[t]]
  /\ lock' = IF lock \in Thread /\ Home[lock] = h THEN Nobody ELSE lock
  /\ up' = [up EXCEPT ![h] = FALSE]
  /\ UNCHANGED <<registry, cache, legacy, grants>>

----------------------------------------------------------------------------
Step(t) ==
  \/ Refresh(t) \/ Cache(t) \/ LookUp(t)
  \/ Read(t) \/ UpdateFails(t) \/ Write(t)
  \/ Take(t) \/ Revoke(t) \/ Grant(t) \/ Provider(t)
  \/ Format(t) \/ Load(t) \/ Migrate(t) \/ Save(t) \/ NothingToSave(t) \/ Run(t)
  \/ Fails(t)

\* What t sees since its call began: the projects registered at some moment, or in a copy that a
\* thread of the same desktop had read by then; those gone at some moment; the grants made.
ReadBefore(t) == UNION { call[u].read : u \in { u \in Thread \ {t} : Home[u] = Home[t] } }

Seen(t) ==
  IF call'[t].todo = << >> THEN [registered |-> {}, gone |-> {}, granted |-> {}]
  ELSE LET now == Registered(registry')
           before == IF Busy(t) THEN since[t].registered
                     ELSE Registered(registry) \cup ReadBefore(t)
       IN  CASE call'[t].op \in {"connect", "push", "grant"} ->
                  [since[t] EXCEPT !.registered = before \cup now]
             [] call'[t].op \in {"start", "register"} ->
                  [since[t] EXCEPT !.gone = @ \cup (Project \ now)]
             [] call'[t].op = "remove" -> [since[t] EXCEPT !.granted = @ \cup (grants' \ grants)]
             [] OTHER -> since[t]

Next ==
  /\ \/ \E t \in Thread : Step(t) \/ \E op \in Ops[t], p \in Project \cup {Nobody} : Begin(t, op, p)
     \/ \E h \in Process : Die(h)
  /\ since' = [t \in Thread |-> Seen(t)]

Spec == Init /\ [][Next]_vars

----------------------------------------------------------------------------
\* last_selected_project_id never names a project that is gone, whoever removes it and whenever:
\* "falls back when removed" (the test at runtime.rs:293).
SelectedRegistered == registry.selected \in Registered(registry) \cup {Nobody}

\* "update preserves unrelated registry state" (the test at env-registry/src/lib.rs:137): an update
\* writes the registry as it is at that moment, changed by its own operation and nothing else.
\* A start that migrates labels or channels does not: it writes the copy it has read before.
UpdatesKeepTheRest ==
  [][ \A t \in Thread : At(t, "write") /\ registry' # registry /\ call'[t] # call[t] =>
        \E r \in Effects(Op(t), Project1(t), registry, call[t].migrated # {}) :
          registry' = [r EXCEPT !.old = FALSE] ]_vars

\* A channel, a receipt or a grant is recorded only for a project that was registered at some moment
\* of the call that records it, or in a copy that another thread of the same desktop read before:
\* root looks at a copy that another thread may set back, but never at one left from earlier calls.
RecordedForRegistered ==
  [][ \A t \in Thread : call'[t] # call[t] =>
        /\ At(t, "write") /\ Op(t) \in {"connect", "push"} => Project1(t) \in since[t].registered
        /\ At(t, "grant") /\ grants' # grants => Project1(t) \in since[t].registered ]_vars

\* remove_project: a project leaves the registry without grants, but for those made while it is
\* being removed; so one that is registered again does not come with old ones.
RemovedWithoutGrants ==
  [][ \A t \in Thread : At(t, "write") /\ Op(t) = "remove" /\ call'[t] # call[t] =>
        (Project1(t) \in grants => Project1(t) \in since[t].granted) ]_vars

\* "migrates legacy file labels to local registry before removing them" (the test at
\* runtime.rs:435): labels leave a manifest only if the registry has a label for the project, or the
\* project was not registered at some moment of the migration.
LabelsMigrate ==
  [][ \A p \in legacy \ legacy' : \E t \in Thread :
        /\ call'[t] # call[t]
        /\ p \in since[t].gone \/ LabelOf(registry, p) # "none" ]_vars
=============================================================================
