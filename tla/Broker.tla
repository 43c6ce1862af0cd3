------------------------------- MODULE Broker -------------------------------
(***************************************************************************)
(* The tools an agent has (crates/env-broker/src/broker).  A broker is a   *)
(* process of its own that answers one call after the other; it keeps the  *)
(* plans it has made in memory, each good for one apply_plan within        *)
(* PLAN_TTL.  Projects, their policies and the registry of projects are on *)
(* disk, shared with the desktop app and with other brokers, and read anew *)
(* by every call.                                                          *)
(*                                                                         *)
(* The application of a plan loads the file, or the whole manifest, and    *)
(* writes a changed copy of it later, without a lock: the file is compared *)
(* with what was loaded before it is replaced (the steps in between are    *)
(* Transaction's), the manifest is not.                                    *)
(*                                                                         *)
(* A project has one file here; links are ProjectService's.  Of the        *)
(* structural tools, which all take the same path, add_variable stands for *)
(* the others.  Pushes (ProviderPush) and packs (ActionPacks) are          *)
(* elsewhere, the audit log is left out.                                   *)
(***************************************************************************)
EXTENDS Naturals, FiniteSets, Sequences, SequencesExt

CONSTANTS
  Agent,       \* the broker processes
  Workspace,   \* Workspace[b]: the project broker b was started in
  Project, Key,
  Value,       \* values that are not empty
  Empty, Absent,
  TTL,         \* PLAN_TTL, in ticks
  Access,      \* the policies that are set; "unclassified" is treated like "protected"
  Default,     \* Default[k]: default_access(k)
  Requests,    \* bound on the calls of tools: a subset of Args
  Variables,   \* bound on the variables of files, pairs of project and key
  Policies,    \* bound on the entries of manifests, pairs of project and key; a project without
               \* any has its manifest, with no entries
  MaxPlan,     \* bound on next_plan_id
  Horizon      \* bound on the clock

Nothing == [x \in {} |-> {}]
NoArgs == [tool |-> "none"]

Args ==
  [tool : {"read_allowed_value", "plan_add_variable"}, project : Project, key : Key]
    \cup [tool : {"plan_set_allowed_value"}, project : Project, key : Key, value : Value]
    \cup [tool : {"plan_classification"}, project : Project, key : Key, access : Access]
    \cup [tool : {"plan_copy_variable_from_project"}, project : Project, key : Key, source : Project]
    \cup [tool : {"plan_register_current_project"}, project : Project]

\* Assumed by the modules that instantiate this one.
BrokerAssumption ==
  /\ Workspace \in [Agent -> Project]
  /\ Access \subseteq {"read-write", "protected", "unclassified"}
  /\ Default \in [Key -> {"protected", "unclassified"}]
  /\ Requests \subseteq Args
  /\ Variables \subseteq Project \X Key /\ Policies \subseteq Project \X Key
  /\ Empty \notin Value /\ Absent \notin Value /\ Empty # Absent
  /\ TTL \in Nat /\ MaxPlan \in Nat /\ Horizon \in Nat

VARIABLES
  project,    \* the file, the policies and the manifest of each project
  registry,   \* the projects in projects.json
  plans,      \* plans[b]: those broker b has stored and not yet applied, by id
  nextId,     \* next_plan_id
  now,        \* Instant::now
  call,       \* the call a broker is in, and its locals
  since       \* what held at some moment since that call began; what was spent before it

vars == <<project, registry, plans, nextId, now, call, since>>

----------------------------------------------------------------------------
Held == Value \cup {Empty, Absent}

\* "none": the manifest has no entry for the key.
Policy == {"read-write", "protected", "unclassified", "none"}

\* A call without one is in no phase; "planning" ends with store_plan, "applying" with the change.
\* held is a value, file and manifest are the file and the policies that were loaded.
Idle == [pc |-> "idle", phase |-> "none", args |-> NoArgs, id |-> 0, held |-> Absent,
         file |-> Nothing, manifest |-> Nothing]

At(b, pc) == call[b].pc = pc
Tool(b) == call[b].args.tool
Key1(b) == call[b].args.key
Target(b) == call[b].args.project
Go(b, pc) == call' = [call EXCEPT ![b].pc = pc]
Return(b) == call' = [call EXCEPT ![b] = Idle]
Unchanged == UNCHANGED <<project, registry, plans, nextId, now>>

\* open_registered_root
Opens(p) == p \in registry /\ project[p].manifest

Init ==
  /\ project \in [Project ->
       [values : [Key -> Value \cup {Absent}], access : [Key -> Access \cup {"none"}],
        manifest : BOOLEAN]]
  /\ \A p \in Project, k \in Key :
       /\ <<p, k>> \notin Variables => project[p].values[k] = Absent
       /\ <<p, k>> \notin Policies \/ ~project[p].manifest => project[p].access[k] = "none"
  /\ \A p \in Project : project[p].manifest \/ \E k \in Key : <<p, k>> \in Policies
  /\ registry \in {Project, {}}
  /\ plans = [b \in Agent |-> Nothing]
  /\ nextId = [b \in Agent |-> 1]
  /\ now = 0
  /\ call = [b \in Agent |-> Idle]
  /\ since = [b \in Agent |-> [open |-> {}, registered |-> {}, spent |-> {}, late |-> FALSE]]

----------------------------------------------------------------------------
\* call_tool: one of the tools but apply_plan.
CallTool(b, args) ==
  /\ At(b, "idle") /\ args \in Requests
  /\ args.tool = "plan_register_current_project" => args.project = Workspace[b]
  /\ call' = [call EXCEPT ![b] =
       [Idle EXCEPT !.pc = IF args.tool = "plan_register_current_project" THEN "candidate" ELSE "open",
                    !.phase = "planning", !.args = args]]
  /\ Unchanged

\* The call that applies a plan.
Applying(b, id) ==
  [Idle EXCEPT !.pc = IF plans[b][id].args.tool = "plan_register_current_project"
                        THEN "manifest" ELSE "open",
               !.phase = "applying", !.args = plans[b][id].args, !.id = id]

Late(b, id) == plans[b][id].expires < now
Without(b, id) == [plans EXCEPT ![b] = [i \in DOMAIN @ \ {id} |-> @[i]]]

\* Mutant: an applied plan stays stored.
TakeCopy(b, id) ==
  /\ At(b, "idle") /\ id \in DOMAIN plans[b] /\ ~Late(b, id)
  /\ call' = [call EXCEPT ![b] = Applying(b, id)]
  /\ Unchanged

\* apply_plan takes the plan out, in time or not.
Take(b, id) ==
  /\ At(b, "idle") /\ id \in DOMAIN plans[b]
  /\ plans' = Without(b, id)
  /\ call' = [call EXCEPT ![b] = IF Late(b, id) THEN Idle ELSE Applying(b, id)]
  /\ UNCHANGED <<project, registry, nextId, now>>

\* Where a call goes once its project is open.
AfterOpen(b) ==
  CASE Tool(b) \in {"read_allowed_value", "plan_set_allowed_value"} -> "policy"
    [] Tool(b) = "plan_copy_variable_from_project" -> "source"
    [] OTHER -> IF call[b].phase = "planning" THEN "store"
                ELSE IF Tool(b) = "plan_add_variable" THEN "file" ELSE "manifest"

\* Mutant: a plan that was stored is applied without another look at the registry.
OpenOnlyToPlan(b) ==
  /\ At(b, "open")
  /\ IF call[b].phase = "applying" \/ Opens(Target(b)) THEN Go(b, AfterOpen(b)) ELSE Return(b)
  /\ Unchanged

\* open_registered: for the plan, and again to apply it.
Open(b) ==
  /\ At(b, "open")
  /\ IF Opens(Target(b)) THEN Go(b, AfterOpen(b)) ELSE Return(b)
  /\ Unchanged

AfterPolicy(b) ==
  CASE Tool(b) = "read_allowed_value" -> "read"
    [] OTHER -> IF call[b].phase = "planning" THEN "store" ELSE "file"

Permits(b) == project[Target(b)].access[Key1(b)] = "read-write"

\* Mutant: the policy is looked at when the plan is made, not when it is applied.
PolicyOnlyToPlan(b) ==
  /\ At(b, "policy")
  /\ IF call[b].phase = "applying" \/ Permits(b) THEN Go(b, AfterPolicy(b)) ELSE Return(b)
  /\ Unchanged

\* codex_access: the manifest is read for the policy of the key.
CheckPolicy(b) ==
  /\ At(b, "policy")
  /\ IF Permits(b) THEN Go(b, AfterPolicy(b)) ELSE Return(b)
  /\ Unchanged

\* The file is read after the policy; what was held is the agent's answer until its next call.
ReadAllowed(b) ==
  /\ At(b, "read")
  /\ call' = [call EXCEPT ![b] = [Idle EXCEPT !.held = project[Target(b)].values[Key1(b)]]]
  /\ Unchanged

\* plan_copy_variable_from_project and its application open the source as well, which has to be
\* another project with a value for the key; the target has to assign the key too.  The value is
\* read before the target is written.
OpenSource(b) ==
  /\ At(b, "source")
  /\ LET source == call[b].args.source
         value == project[source].values[Key1(b)]
     IN  IF /\ Opens(source) /\ source # Target(b) /\ value \in Value
            /\ call[b].phase = "planning" => project[Target(b)].values[Key1(b)] # Absent
           THEN IF call[b].phase = "planning"
                  THEN Go(b, "store")
                  ELSE call' = [call EXCEPT ![b].pc = "file", ![b].held = value]
           ELSE Return(b)
  /\ Unchanged

\* plan_register_current_project is for a workspace that is not registered yet.
Candidate(b) ==
  /\ At(b, "candidate")
  /\ IF Opens(Target(b)) THEN Return(b) ELSE Go(b, "store")
  /\ Unchanged

\* store_plan
Store(b) ==
  /\ At(b, "store")
  /\ nextId[b] <= MaxPlan
  /\ plans' = [plans EXCEPT ![b] = [i \in DOMAIN @ \cup {nextId[b]} |->
                 IF i = nextId[b] THEN [args |-> call[b].args, expires |-> now + TTL] ELSE @[i]]]
  /\ nextId' = [nextId EXCEPT ![b] = @ + 1]
  /\ Return(b)
  /\ UNCHANGED <<project, registry, now>>

----------------------------------------------------------------------------
Adds(b) == Tool(b) = "plan_add_variable"
Registers(b) == Tool(b) = "plan_register_current_project"

\* load_document: save_value and copy_value_from replace a value that is there, add_variable adds
\* one that is not.
LoadFile(b) ==
  /\ At(b, "file")
  /\ LET values == project[Target(b)].values
     IN  IF Adds(b) <=> values[Key1(b)] = Absent
           THEN call' = [call EXCEPT ![b].pc = "compare", ![b].file = values]
           ELSE Return(b)
  /\ Unchanged

\* commit: refuses to replace a file that is not what was loaded.
CompareFile(b) ==
  /\ At(b, "compare")
  /\ IF project[Target(b)].values = call[b].file THEN Go(b, "replace") ELSE Return(b)
  /\ Unchanged

NewValue(b) ==
  CASE Adds(b) -> Empty
    [] Tool(b) = "plan_set_allowed_value" -> call[b].args.value
    [] OTHER -> call[b].held

\* The file is replaced whole; add_variable goes on with ensure_policy.
ReplaceFile(b) ==
  /\ At(b, "replace")
  /\ project' = [project EXCEPT ![Target(b)].values = [call[b].file EXCEPT ![Key1(b)] = NewValue(b)]]
  /\ IF Adds(b) THEN Go(b, "manifest") ELSE Return(b)
  /\ UNCHANGED <<registry, plans, nextId, now>>

\* ManifestStore::load in ensure_policy, which leaves a key alone that has a policy, in
\* set_codex_access_by and in initialize.
LoadManifest(b) ==
  /\ At(b, "manifest")
  /\ IF Adds(b) /\ project[Target(b)].access[Key1(b)] # "none" THEN Return(b)
     ELSE call' = [call EXCEPT ![b].pc = IF Registers(b) THEN "scan" ELSE "save",
                               ![b].manifest = project[Target(b)].access]
  /\ Unchanged

\* initialize reads the files: a variable without an entry gets the default, and one that is
\* read-write only because an earlier version judged so by its name (suggested: who made an entry
\* is left out) loses that.  apply_project_registration goes on once the manifest is there.
Scan(b) ==
  /\ At(b, "scan")
  /\ LET assigned == { k \in Key : project[Target(b)].values[k] # Absent }
         loaded == call[b].manifest
     IN  \E suggested \in SUBSET { k \in assigned : loaded[k] = "read-write" } :
           LET scanned == [k \in Key |-> IF k \in suggested THEN "unclassified"
                                         ELSE IF k \in assigned /\ loaded[k] = "none" THEN Default[k]
                                         ELSE loaded[k]]
           IN  call' = [call EXCEPT
                 ![b].manifest = scanned,
                 ![b].pc = IF scanned # loaded \/ ~project[Target(b)].manifest THEN "save"
                           ELSE "register"]
  /\ Unchanged

\* Mutant: a new variable gets the policy its name suggests (suggest_access).
SuggestedPolicies(b) ==
  CASE Adds(b) -> [call[b].manifest EXCEPT ![Key1(b)] = "read-write"]
    [] Tool(b) = "plan_classification" -> [call[b].manifest EXCEPT ![Key1(b)] = call[b].args.access]
    [] OTHER -> call[b].manifest

\* The changed copy.
NewPolicies(b) ==
  CASE Adds(b) -> [call[b].manifest EXCEPT ![Key1(b)] = Default[Key1(b)]]
    [] Tool(b) = "plan_classification" -> [call[b].manifest EXCEPT ![Key1(b)] = call[b].args.access]
    [] OTHER -> call[b].manifest

\* ManifestStore::save: the copy goes over whatever is there by now.
SaveManifest(b) ==
  /\ At(b, "save")
  /\ project' = [project EXCEPT ![Target(b)].access = NewPolicies(b), ![Target(b)].manifest = TRUE]
  /\ IF Registers(b) THEN Go(b, "register") ELSE Return(b)
  /\ UNCHANGED <<registry, plans, nextId, now>>

RegisterProject(b) ==
  /\ At(b, "register")
  /\ registry' = registry \cup {Target(b)}
  /\ Return(b)
  /\ UNCHANGED <<project, plans, nextId, now>>

\* A tool call ends early with an I/O error.
Fails(b) ==
  /\ ~At(b, "idle")
  /\ Return(b)
  /\ Unchanged

\* The session ends and another begins: the plans are gone, and the ids start again.
Restart(b) ==
  /\ plans' = [plans EXCEPT ![b] = Nothing]
  /\ nextId' = [nextId EXCEPT ![b] = 1]
  /\ Return(b)
  /\ UNCHANGED <<project, registry, now>>

----------------------------------------------------------------------------
\* The desktop app, or another broker, saves a manifest: whatever copy it has loaded and changed.
UserSaves(p, access) ==
  /\ \A k \in Key : <<p, k>> \notin Policies => access[k] = project[p].access[k]
  /\ access # project[p].access \/ ~project[p].manifest
  /\ project' = [project EXCEPT ![p].access = access, ![p].manifest = TRUE]
  /\ UNCHANGED <<registry, plans, nextId, now, call>>

UserEdits(p, k, value) ==
  /\ <<p, k>> \in Variables /\ project[p].values[k] # value
  /\ project' = [project EXCEPT ![p].values[k] = value]
  /\ UNCHANGED <<registry, plans, nextId, now, call>>

UserRemoves(p) ==
  /\ p \in registry
  /\ registry' = registry \ {p}
  /\ UNCHANGED <<project, plans, nextId, now, call>>

\* The desktop app registers first and initializes then, which is a UserSaves.
UserRegisters(p) ==
  /\ p \notin registry
  /\ registry' = registry \cup {p}
  /\ UNCHANGED <<project, plans, nextId, now, call>>

Tick ==
  /\ now < Horizon
  /\ now' = now + 1
  /\ UNCHANGED <<project, registry, plans, nextId, call>>

\* What a property compares a step with is recorded beside the code's own state.
Permitted == { x \in Project \X Key : project[x[1]].access[x[2]] = "read-write" }

\* The steps that write for a plan.
Effect(b) == call[b].pc \in {"replace", "save", "register"} /\ call'[b] # call[b]

\* The projects a call is about.
About(args) == { args[x] : x \in DOMAIN args \cap {"project", "source"} }

\* Nothing is recorded for a call that only plans.
Matters(c) == c.phase = "applying" \/ c.args.tool = "read_allowed_value"

Record(b) ==
  IF call'[b].pc = "idle"
    THEN [open |-> {}, registered |-> {}, late |-> FALSE,
          spent |-> IF nextId'[b] < nextId[b] THEN {}
                    ELSE IF call[b].phase = "applying" THEN since[b].spent \cup {call[b].id}
                    ELSE since[b].spent]
    ELSE [open |-> IF Matters(call'[b])
                     THEN since[b].open \cup { x \in Permitted' : x[1] = call'[b].args.project }
                     ELSE {},
          registered |-> IF Matters(call'[b])
                           THEN since[b].registered \cup (registry' \cap About(call'[b].args))
                           ELSE {},
          spent |-> since[b].spent,
          late |-> IF At(b, "idle") /\ call'[b].phase = "applying"
                     THEN Late(b, call'[b].id) ELSE since[b].late]

Remember == since' = [b \in Agent |-> Record(b)]

Step(b) ==
  \/ Open(b) \/ CheckPolicy(b) \/ ReadAllowed(b) \/ OpenSource(b) \/ Candidate(b) \/ Store(b)
  \/ LoadFile(b) \/ CompareFile(b) \/ ReplaceFile(b)
  \/ LoadManifest(b) \/ Scan(b) \/ SaveManifest(b) \/ RegisterProject(b)
  \/ Fails(b)

User ==
  \/ \E p \in Project : \E access \in [Key -> Access \cup {"none"}] : UserSaves(p, access)
  \/ \E p \in Project, k \in Key, value \in Value \cup {Absent} : UserEdits(p, k, value)
  \/ \E p \in Project : UserRemoves(p) \/ UserRegisters(p)

Next ==
  /\ \/ \E b \in Agent : (\E args \in Requests : CallTool(b, args)) \/ Step(b) \/ Restart(b)
     \/ \E b \in Agent : \E id \in DOMAIN plans[b] : Take(b, id)
     \/ User
     \/ Tick
  /\ Remember

Spec == Init /\ [][Next]_vars

----------------------------------------------------------------------------
\* "protected: explicit value reads are blocked", "read-write: a dedicated tool may read or update
\* the value" (README.md:213-215): a value is answered, or replaced by a value the agent has
\* chosen, only if the key was read-write at some moment since that call began.  A policy that
\* held when a plan was made is not enough.
AgentNeedsAccess ==
  [][ \A b \in Agent :
        (At(b, "read") /\ call'[b].held # Absent)
          \/ (Tool(b) = "plan_set_allowed_value" /\ Effect(b) /\ project' # project)
        => <<Target(b), Key1(b)>> \in since[b].open ]_vars

\* "Only projects already registered in the desktop app are accepted by the broker" (README.md:207):
\* a call changes a project, and copies from one, only if that was registered at some moment
\* since the call began; a registration makes a manifest in the broker's own workspace.
OnlyRegistered ==
  [][ \A b \in Agent : Effect(b) /\ project' # project =>
        IF Registers(b) THEN Target(b) = Workspace[b]
        ELSE /\ Target(b) \in since[b].registered
             /\ Tool(b) = "plan_copy_variable_from_project" =>
                  call[b].args.source \in since[b].registered ]_vars

\* A plan is good for one apply_plan within its time: no change is made for a plan that has been
\* spent, or that had expired when it was taken.
SingleUse ==
  [][ \A b \in Agent : Effect(b) => call[b].id \notin since[b].spent /\ ~since[b].late ]_vars

\* "Change a key to read-write only when the current task explicitly requests that agent access
\* change" (SKILL.md:74), and copies "do not downgrade this policy" (README.md:217).  The whole
\* manifest is saved, so a policy that was closed in the meantime can come back; but a key that
\* had been closed before a call began, and stayed so, is opened by that call only if it applies a
\* classification plan for that very key.
OpensOnRequest ==
  [][ \A b \in Agent : call'[b] # call[b] =>
        \A x \in Permitted' \ Permitted :
          \/ x \in since[b].open
          \/ /\ Effect(b) /\ Tool(b) = "plan_classification"
             /\ x = <<Target(b), Key1(b)>> /\ call[b].args.access = "read-write" ]_vars

----------------------------------------------------------------------------
ProjectRecord == [values : [Key -> Held], access : [Key -> Policy], manifest : BOOLEAN]
PlanRecord == [args : Args, expires : Nat]

CallRecord ==
  [pc : {"idle", "open", "policy", "read", "source", "candidate", "store", "file", "compare",
         "replace", "manifest", "scan", "save", "register"},
   phase : {"none", "planning", "applying"}, args : Args \cup {NoArgs}, id : Nat, held : Held,
   file : [Key -> Held] \cup {Nothing}, manifest : [Key -> Policy] \cup {Nothing}]

\* The type invariant.
TypeOK ==
  /\ project \in [Project -> ProjectRecord]
  /\ registry \in SUBSET Project
  /\ plans = [b \in Agent |-> plans[b]]
  /\ \A b \in Agent : plans[b] \in [DOMAIN plans[b] -> PlanRecord] /\ DOMAIN plans[b] \subseteq Nat
  /\ nextId \in [Agent -> Nat \ {0}]
  /\ now \in Nat
  /\ call \in [Agent -> CallRecord]
  /\ since \in [Agent -> [open : SUBSET (Project \X Key), registered : SUBSET Project,
                          spent : SUBSET Nat, late : BOOLEAN]]

\* Where the call of a tool may be.
Path(phase, tool) ==
  CASE tool = "plan_register_current_project" ->
         IF phase = "planning" THEN {"candidate", "store"} ELSE {"manifest", "scan", "save", "register"}
    [] tool = "read_allowed_value" -> {"open", "policy", "read"}
    [] tool = "plan_set_allowed_value" ->
         {"open", "policy"} \cup (IF phase = "planning" THEN {"store"} ELSE {"file", "compare", "replace"})
    [] tool = "plan_copy_variable_from_project" ->
         {"open", "source"} \cup (IF phase = "planning" THEN {"store"} ELSE {"file", "compare", "replace"})
    [] tool = "plan_classification" ->
         {"open"} \cup (IF phase = "planning" THEN {"store"} ELSE {"manifest", "save"})
    [] OTHER ->
         {"open"} \cup (IF phase = "planning" THEN {"store"}
                        ELSE {"file", "compare", "replace", "manifest", "save"})

\* What is planned, and what is stored.
Allowed(b, args) ==
  args.tool = "plan_register_current_project" => args.project = Workspace[b]

OnItsPath(b) ==
  IF At(b, "idle") THEN call[b].phase = "none"
  ELSE /\ call[b].phase \in {"planning", "applying"} /\ call[b].args \in Args
       /\ call[b].pc \in Path(call[b].phase, Tool(b))
       /\ Allowed(b, call[b].args)

\* An id is given once, and belongs to a plan that is stored, taken or spent.
PlansInv(b) ==
  \A i \in DOMAIN plans[b] :
    /\ i \in 1..(nextId[b] - 1) /\ i \notin since[b].spent
    /\ plans[b][i].args.tool # "read_allowed_value" /\ Allowed(b, plans[b][i].args)

SpentInv(b) ==
  /\ since[b].spent \subseteq 1..(nextId[b] - 1)
  /\ ~since[b].late
  /\ call[b].phase = "applying" =>
       /\ call[b].id \in 1..(nextId[b] - 1)
       /\ call[b].id \notin DOMAIN plans[b] \cup since[b].spent
       /\ Tool(b) # "read_allowed_value"

\* Past its checks: what it is about was open, or registered, at some moment of the call.
Writing == {"file", "compare", "replace", "manifest", "save"}

\* What a call has found out was so at some moment since it began, and what it holds of a manifest
\* is what it has loaded.
SeenInv(b) ==
  LET acts == call[b].phase = "applying" /\ call[b].pc \in Writing
  IN  /\ At(b, "read") \/ (acts /\ Tool(b) = "plan_set_allowed_value") =>
           <<Target(b), Key1(b)>> \in since[b].open
      /\ acts /\ ~Registers(b) =>
           /\ Target(b) \in since[b].registered
           /\ Tool(b) = "plan_copy_variable_from_project" => call[b].args.source \in since[b].registered
      /\ call[b].phase = "applying" /\ call[b].pc \in {"policy", "source"} =>
           Target(b) \in since[b].registered
      /\ call[b].pc \in {"compare", "replace"} => call[b].file \in [Key -> Held]
      /\ call[b].pc \in {"scan", "save"} =>
           /\ call[b].manifest \in [Key -> Policy]
           /\ \A k \in Key : call[b].manifest[k] = "read-write" => <<Target(b), k>> \in since[b].open

\* The inductive invariant behind the four properties.
BrokerInv ==
  /\ TypeOK
  /\ \A b \in Agent : OnItsPath(b) /\ PlansInv(b) /\ SpentInv(b) /\ SeenInv(b)
=============================================================================
