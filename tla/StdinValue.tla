----------------------------- MODULE StdinValue -----------------------------
(***************************************************************************)
(* Opaque values from stdin (crates/env-broker/src/stdin_value.rs).  A     *)
(* broker stores a plan for one occurrence of a key as <id>.json in the    *)
(* application data; a process of its own, started as "value apply-stdin", *)
(* claims the plan by renaming it to <id>.claimed, reads the value from    *)
(* stdin, checks that nothing the plan covers has changed, and saves.  The *)
(* plan holds no contents: of the manifest and of each file it holds the   *)
(* length and the time of the last write, here a stamp that every write    *)
(* changes.                                                                *)
(*                                                                         *)
(* One project and one key.  Operations of the desktop app happen in one   *)
(* step, and so does the commit of the files (AtomicCommit says when that  *)
(* is so); the audit log and the codes of errors are left out.             *)
(***************************************************************************)
EXTENDS Naturals, FiniteSets, FiniteSetsExt, Sequences, SequencesExt

CONSTANTS
  Process,     \* brokers that plan and processes that apply, one call at a time each
  FileOrder,   \* the env files in the order of a link's members
  Value,       \* values of the key
  Absent,      \* what a file that does not assign the key has for it
  Plan,        \* ids of plans; the code draws 32 random bytes
  TTL,         \* PLAN_TTL_MS, in ticks
  MaxScan,     \* how many entries of the directory a cleanup looks at
  CanDie,      \* whether processes die
  Horizon,     \* bound on the clock
  MaxStamp     \* bound: others stop writing once files and manifest add up to this many writes

File == ToSet(FileOrder)

\* Assumed by the modules that instantiate this one.
StdinAssumption ==
  /\ FileOrder \in Seq(File) /\ IsInjective(FileOrder)
  /\ Absent \notin Value \cup Plan \cup Process
  /\ TTL \in Nat /\ MaxScan \in Nat /\ Horizon \in Nat /\ MaxStamp \in Nat /\ CanDie \in BOOLEAN

VARIABLES
  files,        \* what each file has for the key, and its stamp
  manifest,     \* the members of the key's link, none when it is not linked, and a stamp
  registered,   \* whether the project is in the registry
  plans,        \* the directory of plans
  now,          \* unix_time_ms
  call,         \* the call a process is in, and its locals
  since         \* of that call: whether its plan had expired when it was claimed, whether others
                \* wrote since it began to compare stamps, and whether the project has been
                \* registered since it read its value

vars == <<files, manifest, registered, plans, now, call, since>>

----------------------------------------------------------------------------
\* PreparedOpaqueValueWrite: the targets, and the states of them and of the manifest.
NoPlan == [file |-> Absent, targets |-> {}, states |-> [f \in File |-> 0], manifest |-> 0, created |-> 0]

NothingLoaded == [f \in File |-> Absent]

Idle ==
  [pc |-> "idle", plan |-> NoPlan, id |-> Absent, todo |-> {}, loaded |-> NothingLoaded,
   value |-> Absent]

At(p, pc) == call[p].pc = pc
Go(p, pc) == call' = [call EXCEPT ![p].pc = pc]
Fresh == [late |-> FALSE, written |-> FALSE, registered |-> FALSE]
Return(p) == call' = [call EXCEPT ![p] = Idle] /\ since' = [since EXCEPT ![p] = Fresh]

\* apply_plan removes the claimed file however apply_claimed_plan ended; its locals are gone by then.
Leave(p) == call' = [call EXCEPT ![p] = [Idle EXCEPT !.pc = "release", !.id = call[p].id]]

\* value_write_targets: the members of the link the file is in, or the file alone.
Targets(file) == IF file \in manifest.members THEN manifest.members ELSE {file}

\* A loop over the targets takes them in the order of the link: what it comes to next.
Before(f, g) == \E i, j \in DOMAIN FileOrder : i < j /\ FileOrder[i] = f /\ FileOrder[j] = g
Next1(p) == { f \in call[p].todo : \A g \in call[p].todo : ~Before(g, f) }
LastOf(p, f) == call[p].todo = {f}

\* checked_value_write_targets reads every target for the key.
Assigned(targets) == \A f \in targets : files[f].value # Absent

Expired(plan) == plan.created + TTL < now

Init ==
  /\ files \in [File -> [value : Value, stamp : {0}]]
  /\ manifest \in [members : { S \in SUBSET File : Cardinality(S) # 1 }, stamp : {0}]
  /\ \A f, g \in manifest.members : files[f].value = files[g].value
  /\ registered = TRUE
  /\ plans = [q \in Plan |-> [status |-> "unused", plan |-> NoPlan]]
  /\ now = 0
  /\ call = [p \in Process |-> Idle]
  /\ since = [p \in Process |-> Fresh]

----------------------------------------------------------------------------
\* prepare_opaque_value_write: the targets, then the state of each, then that of the manifest.
CreatePlan(p, file) ==
  /\ At(p, "idle")
  /\ registered /\ Assigned(Targets(file))
  /\ call' = [call EXCEPT ![p] = [Idle EXCEPT
                !.pc = "stat", !.todo = Targets(file),
                !.plan = [NoPlan EXCEPT !.file = file, !.targets = Targets(file)]]]
  /\ UNCHANGED <<files, manifest, registered, plans, now, since>>

Stat(p) ==
  /\ At(p, "stat")
  /\ \E f \in Next1(p) :
       call' = [call EXCEPT ![p].todo = @ \ {f},
                            ![p].plan.states[f] = files[f].stamp,
                            ![p].pc = IF LastOf(p, f) THEN "statManifest" ELSE @]
  /\ UNCHANGED <<files, manifest, registered, plans, now, since>>

StatManifest(p) ==
  /\ At(p, "statManifest")
  /\ call' = [call EXCEPT ![p].plan.manifest = manifest.stamp, ![p].pc = "store"]
  /\ UNCHANGED <<files, manifest, registered, plans, now, since>>

\* cleanup_expired_plans: of the first entries of the directory, whichever those are, the .json
\* files that have expired.
Entries == { q \in Plan : plans[q].status \in {"open", "claimed", "left"} }

Scanned == { S \in SUBSET Entries :
               Cardinality(S) = Min({MaxScan, Cardinality(Entries)}) }

CleanedUp(S) ==
  [q \in Plan |-> IF q \in S /\ plans[q].status = "open" /\ Expired(plans[q].plan)
                    THEN [status |-> "gone", plan |-> NoPlan] ELSE plans[q]]

StorePlan(p) ==
  /\ At(p, "store")
  /\ \E S \in Scanned, q \in { q \in Plan : plans[q].status = "unused" } :
       plans' = [CleanedUp(S) EXCEPT
                   ![q] = [status |-> "open", plan |-> [call[p].plan EXCEPT !.created = now]]]
  /\ Return(p)
  /\ UNCHANGED <<files, manifest, registered, now>>

----------------------------------------------------------------------------
\* Mutant: the plan is read in place and only removed at the end.
ClaimInPlace(p, q) ==
  /\ At(p, "idle") /\ plans[q].status = "open"
  /\ call' = [call EXCEPT ![p] = [Idle EXCEPT !.pc = "plan", !.id = q]]
  /\ since' = [since EXCEPT ![p].late = Expired(plans[q].plan)]
  /\ UNCHANGED <<files, manifest, registered, plans, now>>

\* apply_plan: the rename succeeds for one process only.
Claim(p, q) ==
  /\ At(p, "idle") /\ plans[q].status = "open"
  /\ plans' = [plans EXCEPT ![q].status = "claimed"]
  /\ call' = [call EXCEPT ![p] = [Idle EXCEPT !.pc = "plan", !.id = q]]
  /\ since' = [since EXCEPT ![p].late = Expired(plans[q].plan)]
  /\ UNCHANGED <<files, manifest, registered, now>>

\* apply_claimed_plan: expiry is looked at here, before stdin is read.
ReadPlan(p) ==
  /\ At(p, "plan")
  /\ IF Expired(plans[call[p].id].plan)
       THEN Leave(p)
       ELSE call' = [call EXCEPT ![p].plan = plans[call[p].id].plan, ![p].pc = "stdin"]
  /\ UNCHANGED <<files, manifest, registered, plans, now, since>>

\* The producer ends: with a value, or with one that is refused for its size or form.
ReadStdin(p, v) ==
  /\ At(p, "stdin")
  /\ call' = [call EXCEPT ![p].value = v, ![p].pc = "registry"]
  /\ since' = [since EXCEPT ![p].registered = registered]
  /\ UNCHANGED <<files, manifest, registered, plans, now>>

RefuseStdin(p) ==
  /\ At(p, "stdin")
  /\ Leave(p)
  /\ UNCHANGED <<files, manifest, registered, plans, now, since>>

CheckRegistry(p) ==
  /\ At(p, "registry")
  /\ IF registered THEN Go(p, "targets") ELSE Leave(p)
  /\ UNCHANGED <<files, manifest, registered, plans, now, since>>

\* apply_prepared_opaque_value: the targets are still the plan's ...
CheckTargets(p) ==
  /\ At(p, "targets")
  /\ LET targets == Targets(call[p].plan.file)
     IN  IF Assigned(targets) /\ targets = call[p].plan.targets
           THEN Go(p, "manifest") ELSE Leave(p)
  /\ UNCHANGED <<files, manifest, registered, plans, now, since>>

\* ... the manifest is the one it was made with ...
CheckManifest(p) ==
  /\ At(p, "manifest")
  /\ IF manifest.stamp = call[p].plan.manifest
       THEN call' = [call EXCEPT ![p].pc = "states", ![p].todo = call[p].plan.targets]
       ELSE Leave(p)
  /\ UNCHANGED <<files, manifest, registered, plans, now, since>>

\* Mutant: the loop ends before the last file.
CheckStateButLast(p) ==
  /\ At(p, "states")
  /\ \E f \in Next1(p) :
       IF LastOf(p, f)
         THEN Go(p, "resolve")
         ELSE IF files[f].stamp = call[p].plan.states[f]
                THEN call' = [call EXCEPT ![p].todo = @ \ {f}]
                ELSE Leave(p)
  /\ UNCHANGED <<files, manifest, registered, plans, now, since>>

\* ... and so is each file.
CheckState(p) ==
  /\ At(p, "states")
  /\ \E f \in Next1(p) :
       IF files[f].stamp = call[p].plan.states[f]
         THEN call' = [call EXCEPT ![p].todo = @ \ {f},
                                   ![p].pc = IF LastOf(p, f) THEN "resolve" ELSE @]
         ELSE Leave(p)
  /\ UNCHANGED <<files, manifest, registered, plans, now, since>>

\* save_value_inner resolves the targets once more, from the manifest as it is by now.
Resolve(p) ==
  /\ At(p, "resolve")
  /\ LET targets == Targets(call[p].plan.file)
     IN  IF Assigned(targets)
           THEN call' = [call EXCEPT ![p].todo = targets, ![p].loaded = NothingLoaded, ![p].pc = "load"]
           ELSE Leave(p)
  /\ UNCHANGED <<files, manifest, registered, plans, now, since>>

Load(p) ==
  /\ At(p, "load")
  /\ \E f \in Next1(p) :
       IF files[f].value # Absent
         THEN call' = [call EXCEPT ![p].todo = @ \ {f},
                                   ![p].loaded[f] = files[f].value,
                                   ![p].pc = IF LastOf(p, f) THEN "commit" ELSE @]
         ELSE Leave(p)
  /\ UNCHANGED <<files, manifest, registered, plans, now, since>>

\* Who is between comparison and commit; a write of somebody else in that window is recorded.
Window == {"states", "resolve", "load", "commit"}
Disturb(p) ==
  since' = [r \in Process |-> IF r # p /\ call[r].pc \in Window
                                THEN [since[r] EXCEPT !.written = TRUE] ELSE since[r]]

Loaded(p) == { f \in File : call[p].loaded[f] # Absent }

Written(targets, v) ==
  [f \in File |-> IF f \in targets THEN [value |-> v, stamp |-> files[f].stamp + 1] ELSE files[f]]

\* TransactionPlan::commit, as AtomicCommit has it.
Commit(p) ==
  /\ At(p, "commit")
  /\ \A f \in Loaded(p) : files[f].value = call[p].loaded[f]
  /\ files' = Written(Loaded(p), call[p].value)
  /\ Leave(p)
  /\ Disturb(p)
  /\ UNCHANGED <<manifest, registered, plans, now>>

\* A file has changed since it was loaded, or a write fails; no file has changed then.
CommitFails(p) ==
  /\ At(p, "commit")
  /\ Leave(p)
  /\ UNCHANGED <<files, manifest, registered, plans, now, since>>

Release(p) ==
  /\ At(p, "release")
  /\ plans' = [plans EXCEPT ![call[p].id] = [status |-> "gone", plan |-> NoPlan]]
  /\ Return(p)
  /\ UNCHANGED <<files, manifest, registered, now>>

----------------------------------------------------------------------------
\* A process that dies leaves the claimed file behind; nothing reads or removes it any more.
Die(p) ==
  /\ CanDie /\ ~At(p, "idle")
  /\ plans' = IF call[p].id \in Plan THEN [plans EXCEPT ![call[p].id] = [status |-> "left", plan |-> NoPlan]]
                ELSE plans
  /\ Return(p)
  /\ UNCHANGED <<files, manifest, registered, now>>

Writes == manifest.stamp + MapThenSumSet(LAMBDA f : files[f].stamp, File)

\* The desktop app or an editor changes what a file has for the key.
Edit(f, content) ==
  /\ Writes < MaxStamp
  /\ files' = [files EXCEPT ![f] = [value |-> content, stamp |-> @.stamp + 1]]
  /\ Disturb(Absent)
  /\ UNCHANGED <<manifest, registered, plans, now, call>>

\* The manifest is saved: with another link, or for the sake of something else in it.
SaveManifest(members) ==
  /\ Writes < MaxStamp
  /\ Cardinality(members) # 1
  /\ manifest' = [members |-> members, stamp |-> manifest.stamp + 1]
  /\ Disturb(Absent)
  /\ UNCHANGED <<files, registered, plans, now, call>>

\* The project is removed in the desktop app, or registered again.
Register(yes) ==
  /\ registered # yes
  /\ registered' = yes
  /\ since' = [p \in Process |-> IF call[p].value \in Value
                                    THEN [since[p] EXCEPT !.registered = @ \/ yes] ELSE since[p]]
  /\ UNCHANGED <<files, manifest, plans, now, call>>

Tick ==
  /\ now < Horizon
  /\ now' = now + 1
  /\ UNCHANGED <<files, manifest, registered, plans, call, since>>

\* What a process does by itself; reading stdin waits for the producer.
Step(p) ==
  \/ Stat(p) \/ StatManifest(p) \/ StorePlan(p)
  \/ ReadPlan(p) \/ CheckRegistry(p) \/ CheckTargets(p) \/ CheckManifest(p) \/ CheckState(p)
  \/ Resolve(p) \/ Load(p) \/ Commit(p) \/ CommitFails(p) \/ Release(p)

Producer(p) == RefuseStdin(p) \/ \E v \in Value : ReadStdin(p, v)

Begin(p) == (\E f \in File : CreatePlan(p, f)) \/ (\E q \in Plan : Claim(p, q))

Others ==
  \/ \E f \in File, content \in Value \cup {Absent} : Edit(f, content)
  \/ \E members \in SUBSET File : SaveManifest(members)
  \/ \E yes \in BOOLEAN : Register(yes)
  \/ Tick

Next ==
  \/ \E p \in Process : Begin(p) \/ Step(p) \/ Producer(p) \/ Die(p)
  \/ Others

Spec == Init /\ [][Next]_vars

----------------------------------------------------------------------------
Working(p) == call[p].id \in Plan

\* "can be claimed only once" (stdin-value-ingest.md:15): a plan somebody works on is out of
\* everybody else's reach, and no two processes work on the same plan.
OneClaim ==
  \A p \in Process : Working(p) =>
    /\ plans[call[p].id].status = "claimed"
    /\ \A r \in Process : call[r].id = call[p].id => r = p

\* The step of p that saves the value.
Saves(p) == At(p, "commit") /\ files' # files /\ call'[p] # call[p]

\* "Every linked member and the link manifest are bound to the plan" (service/values.rs:36): if
\* nobody writes between the comparison of the manifest and the commit, the value goes into the
\* files the plan announced, all of them and no others, and each is as it was when planned.  "The
\* plan expires after five minutes" (stdin-value-ingest.md:14): one that had expired when it was
\* claimed never writes; one that expires while the producer runs does.  And the project has been
\* registered at some moment since the value arrived (stdin_value.rs:266).
BoundToPlan ==
  [][ \A p \in Process : Saves(p) =>
        /\ ~since[p].late /\ since[p].registered
        /\ ~since[p].written =>
             /\ { f \in File : files'[f] # files[f] } = call[p].plan.targets
             /\ \A f \in call[p].plan.targets : files[f].stamp = call[p].plan.states[f]
             /\ manifest.stamp = call[p].plan.manifest ]_vars

----------------------------------------------------------------------------
PlanRecord ==
  [file : File \cup {Absent}, targets : SUBSET File, states : [File -> Nat], manifest : Nat, created : Nat]

CallRecord ==
  [pc : {"idle", "stat", "statManifest", "store", "plan", "stdin", "registry", "targets", "manifest",
         "states", "resolve", "load", "commit", "release"},
   plan : PlanRecord, id : Plan \cup {Absent}, todo : SUBSET File,
   loaded : [File -> Value \cup {Absent}], value : Value \cup {Absent}]

\* The type invariant.
TypeOK ==
  /\ files \in [File -> [value : Value \cup {Absent}, stamp : Nat]]
  /\ manifest \in [members : SUBSET File, stamp : Nat]
  /\ registered \in BOOLEAN
  /\ plans \in [Plan -> [status : {"unused", "open", "claimed", "left", "gone"}, plan : PlanRecord]]
  /\ now \in Nat
  /\ call \in [Process -> CallRecord]
  /\ since \in [Process -> [late : BOOLEAN, written : BOOLEAN, registered : BOOLEAN]]

Planning(p) == call[p].pc \in {"stat", "statManifest", "store"}
Checking(p) == call[p].pc \in {"registry", "targets", "manifest"}

\* A stored plan is about a file, and the manifest has not gone back since.
PlanBound(q) ==
  /\ plans[q].plan.manifest <= manifest.stamp
  /\ plans[q].status \in {"open", "claimed"} => plans[q].plan.file \in File

\* Who applies a plan has claimed it, and who has read it claimed it in time.
InTime(p) ==
  /\ ~At(p, "idle") /\ ~Planning(p) <=> Working(p)
  /\ At(p, "plan") /\ since[p].late => Expired(plans[call[p].id].plan)
  /\ At(p, "stdin") \/ Checking(p) \/ call[p].pc \in Window => ~since[p].late
  /\ call[p].pc \notin {"idle", "plan", "release"} => call[p].plan.file \in File

\* The project was registered when the value arrived, or between that and the look at the registry.
WasRegistered(p) ==
  /\ Checking(p) \/ call[p].pc \in Window => call[p].value \in Value
  /\ At(p, "registry") /\ registered => since[p].registered
  /\ call[p].pc \in {"targets", "manifest"} \cup Window => since[p].registered

\* What a plan says of the manifest was so once; the links that were found to fit it were those of a
\* manifest that has not changed since, or that will be found to have changed.
ManifestBound(p) ==
  /\ call[p].plan.manifest <= manifest.stamp
  /\ At(p, "manifest") =>
       Targets(call[p].plan.file) = call[p].plan.targets \/ call[p].plan.manifest < manifest.stamp

\* What has been compared and loaded while nobody else wrote.
Compared(p) ==
  call[p].plan.targets \ (IF At(p, "states") THEN call[p].todo ELSE {})
FilesBound(p) ==
  call[p].pc \in Window /\ ~since[p].written =>
    /\ manifest.stamp = call[p].plan.manifest
    /\ Targets(call[p].plan.file) = call[p].plan.targets
    /\ \A f \in Compared(p) : files[f].stamp = call[p].plan.states[f]
    /\ At(p, "load") => /\ call[p].todo \subseteq call[p].plan.targets
                        /\ Loaded(p) = call[p].plan.targets \ call[p].todo
    /\ At(p, "commit") => Loaded(p) = call[p].plan.targets

\* The inductive invariant behind OneClaim and BoundToPlan.
ValueInv ==
  /\ TypeOK
  /\ OneClaim
  /\ \A q \in Plan : PlanBound(q)
  /\ \A p \in Process : InTime(p) /\ WasRegistered(p) /\ ManifestBound(p) /\ FilesBound(p)
=============================================================================
