------------------------- MODULE AppAndAgentsProofs -------------------------
(***************************************************************************)
(* What AppAndAgents says, for any number of desktops, threads, brokers,   *)
(* hosts, projects, keys and packs and every fault: of projects.json       *)
(* first, then of the brokers, then of the packs, and last of all three.   *)
(***************************************************************************)
EXTENDS AppAndAgents, SequenceTheorems, WellFoundedInduction, TLAPS

StepName == {"refresh", "cache", "lookup", "read", "write", "take", "revoke", "grant", "provider",
             "format", "load", "migrate", "save", "rewrite", "run"}

UpdateOps == {"select", "register", "rename_project", "rename_file", "remove", "remove_channel",
              "connect", "push", "broker_register"}

\* Those that record something for a project they have looked up.
RecordOps == {"connect", "push", "grant"}

\* What the proofs need of them.
StepFacts(op) ==
  LET s == Steps[op]
  IN  /\ s \in Seq(StepName) /\ Len(s) >= 1 /\ s[1] # "write"
      /\ \A i \in 1..Len(s) - 1 : s[i + 1] = "write" <=> s[i] = "read"
      /\ s[Len(s)] # "read"
      /\ \A i \in 1..Len(s) : s[i] \in {"read", "write"} => op \in UpdateOps
      /\ \A i \in 1..Len(s) : s[i] = "revoke" => op = "remove"
      /\ op = "remove" => s[1] = "revoke"
      /\ \A i \in 2..Len(s) : s[i] # "revoke"
      /\ \A i \in 1..Len(s) : s[i] = "run" => op = "start" /\ i = Len(s)
      /\ \A i \in 1..Len(s) : s[i] = "grant" => op = "grant" /\ i = 4
      /\ \A i \in 1..Len(s) : s[i] = "take" => op \in {"register", "start"}
      /\ \A i \in 1..Len(s) : s[i] \in {"load", "migrate", "save", "rewrite"} => op = "start"
      /\ op \in RecordOps =>
           /\ Len(s) >= 4 /\ s[1] = "refresh" /\ s[2] = "cache" /\ s[3] = "lookup"

LEMMA AllStepFacts ==
  ASSUME NEW op \in AllOps
  PROVE  StepFacts(op)
<1>1. CASE op = "list"
  BY <1>1 DEF StepFacts, Steps, StepName, UpdateOps, RecordOps
<1>2. CASE op \in {"select", "rename_project", "remove_channel"}
  <2>1. Steps[op] = <<"read", "write", "cache">>
    BY <1>2 DEF Steps
  <2>2. QED
    BY <1>2, <2>1 DEF StepFacts, StepName, UpdateOps, RecordOps
<1>3. CASE op = "register"
  BY <1>3 DEF StepFacts, Steps, StepName, UpdateOps, RecordOps
<1>4. CASE op = "rename_file"
  BY <1>4 DEF StepFacts, Steps, StepName, UpdateOps, RecordOps
<1>5. CASE op = "remove"
  BY <1>5 DEF StepFacts, Steps, StepName, UpdateOps, RecordOps
<1>6. CASE op = "grant"
  BY <1>6 DEF StepFacts, Steps, StepName, UpdateOps, RecordOps
<1>7. CASE op = "connect"
  BY <1>7 DEF StepFacts, Steps, StepName, UpdateOps, RecordOps
<1>8. CASE op = "push"
  BY <1>8 DEF StepFacts, Steps, StepName, UpdateOps, RecordOps
<1>9. CASE op = "broker_register"
  BY <1>9 DEF StepFacts, Steps, StepName, UpdateOps, RecordOps
<1>10. CASE op = "start"
  BY <1>10 DEF StepFacts, Steps, StepName, UpdateOps, RecordOps
<1>11. QED
  BY <1>1, <1>2, <1>3, <1>4, <1>5, <1>6, <1>7, <1>8, <1>9, <1>10 DEF AllOps

----------------------------------------------------------------------------
(* Registries and calls. *)

IsRegistry(r) ==
  /\ r = [projects |-> r.projects, selected |-> r.selected, channels |-> r.channels,
          receipts |-> r.receipts, old |-> r.old]
  /\ r.selected \in Registered(r) \cup {Nobody}

LEMMA FieldsIs ==
  ASSUME NEW a, NEW b, NEW c, NEW d, NEW e, b \in DOMAIN a \cup {Nobody}
  PROVE  IsRegistry([projects |-> a, selected |-> b, channels |-> c, receipts |-> d, old |-> e])
BY DEF IsRegistry, Registered

LEMMA OldIs ==
  ASSUME NEW r, IsRegistry(r), NEW v
  PROVE  [r EXCEPT !.old = v]
           = [projects |-> r.projects, selected |-> r.selected, channels |-> r.channels,
              receipts |-> r.receipts, old |-> v]
BY DEF IsRegistry

LEMMA NoRegistryIs == IsRegistry(NoRegistry)
BY DEF IsRegistry, NoRegistry

\* Whatever an update makes of a registry, it does not select a project that is gone.
LEMMA EffectIs ==
  ASSUME NEW op \in UpdateOps, NEW p, NEW r, IsRegistry(r), ~Refuses(op, p, r),
         NEW m, NEW e \in Effects(op, p, r, m)
  PROVE  IsRegistry([e EXCEPT !.old = FALSE])
<1>1. ASSUME NEW x, IsRegistry(x)
      PROVE  IsRegistry([x EXCEPT !.old = FALSE])
  <2>1. x.selected \in DOMAIN x.projects \cup {Nobody}
    BY <1>1 DEF IsRegistry, Registered
  <2>2. [x EXCEPT !.old = FALSE]
          = [projects |-> x.projects, selected |-> x.selected, channels |-> x.channels,
             receipts |-> x.receipts, old |-> FALSE]
    BY <1>1, OldIs
  <2>3. IsRegistry([projects |-> x.projects, selected |-> x.selected, channels |-> x.channels,
                    receipts |-> x.receipts, old |-> FALSE])
    BY <2>1, FieldsIs
  <2>4. QED
    BY <2>2, <2>3, Zenon
<1>2. ASSUME NEW label
      PROVE  IsRegistry(WithProject(r, p, label))
  BY DEF IsRegistry, WithProject, Registered
<1>3. CASE op = "select"
  <2>1. p \in Registered(r) \cup {Nobody}
    BY <1>3, Zenon DEF Refuses
  <2>2. e = [r EXCEPT !.selected = p]
    BY <1>3, Zenon DEF Effects
  <2>3. IsRegistry(e)
    BY <2>1, <2>2 DEF IsRegistry, Registered
  <2>4. QED
    BY <1>1, <2>3
<1>4. CASE op \in {"register", "broker_register", "rename_file"}
  <2>1. \E label : e = WithProject(r, p, label)
    BY <1>4, Zenon DEF Effects
  <2>2. QED
    BY <1>1, <1>2, <2>1
<1>5. CASE op = "rename_project"
  <2>1. e = r
    BY <1>5, Zenon DEF Effects
  <2>2. QED
    BY <1>1, <2>1
<1>6. CASE op = "remove"
  <2>1. e \in Without(r, p)
    BY <1>6, Zenon DEF Effects
  <2> DEFINE rest == Registered(r) \ {p}
  <2> DEFINE other == IF r.selected # p THEN {r.selected} ELSE IF rest = {} THEN {Nobody} ELSE rest
  <2> DEFINE projects == [q \in rest |-> r.projects[q]]
  <2> DEFINE channels == r.channels \ {p}
  <2> DEFINE receipts == SelectSeq(r.receipts, LAMBDA q : q # p)
  <2>2. other \subseteq rest \cup {Nobody}
    BY DEF IsRegistry
  <2>3. e \in { [projects |-> projects, selected |-> s, channels |-> channels,
                 receipts |-> receipts, old |-> r.old] : s \in other }
    BY <2>1, Zenon DEF Without
  <2>4. DOMAIN projects = rest
    OBVIOUS
  <2> HIDE DEF rest, other, projects, channels, receipts
  <2>5. PICK s \in other : e = [projects |-> projects, selected |-> s, channels |-> channels,
                                receipts |-> receipts, old |-> r.old]
    BY <2>3
  <2>6. IsRegistry(e)
    BY <2>2, <2>4, <2>5, FieldsIs
  <2>7. QED
    BY <1>1, <2>6
<1>7. CASE op \in {"connect", "remove_channel"}
  <2>1. \E set : e = [r EXCEPT !.channels = set]
    <3>1. CASE op = "connect"
      <4>1. e = [r EXCEPT !.channels = @ \cup {p}]
        BY <3>1, Zenon DEF Effects
      <4>2. QED
        BY <4>1
    <3>2. CASE op = "remove_channel"
      <4>1. e = [r EXCEPT !.channels = @ \ {p}]
        BY <3>2, Zenon DEF Effects
      <4>2. QED
        BY <4>1
    <3>3. QED
      BY <1>7, <3>1, <3>2
  <2>2. IsRegistry(e)
    BY <2>1 DEF IsRegistry, Registered
  <2>3. QED
    BY <1>1, <2>2
<1>8. CASE op = "push"
  <2>1. e = WithReceipt(r, p)
    BY <1>8, Zenon DEF Effects
  <2>2. \E list : e = [r EXCEPT !.receipts = list]
    BY <2>1, Zenon DEF WithReceipt
  <2>3. IsRegistry(e)
    BY <2>2 DEF IsRegistry, Registered
  <2>4. QED
    BY <1>1, <2>3
<1>9. QED
  BY <1>3, <1>4, <1>5, <1>6, <1>7, <1>8 DEF UpdateOps

\* How many steps of its operation a call has done.
Done(c) == Len(Steps[c.op]) - Len(c.todo)

HasFields(c) ==
  c \in [op : {c.op}, project : {c.project}, todo : {c.todo}, held : {c.held}, read : {c.read},
         migrated : {c.migrated}, old : {c.old}]

IsCall(c) ==
  /\ HasFields(c)
  /\ IsRegistry(c.held)
  /\ c.todo \in Seq(StepName)
  /\ c.todo # << >> =>
       /\ c.op \in AllOps
       /\ Len(c.todo) <= Len(Steps[c.op])
       /\ \A i \in 1..Len(c.todo) : c.todo[i] = Steps[c.op][Done(c) + i]

LEMMA IdleIs == IsCall(Idle) /\ Idle.todo = << >>
BY NoRegistryIs DEF IsCall, HasFields, Idle

LEMMA CallFacts ==
  ASSUME NEW c, IsCall(c), c.todo # << >>
  PROVE  /\ c.op \in AllOps /\ StepFacts(c.op)
         /\ Done(c) \in Nat /\ Done(c) + 1 \in 1..Len(Steps[c.op])
         /\ Head(c.todo) = Steps[c.op][Done(c) + 1]
         /\ Len(c.todo) \in Nat \ {0}
<1>1. c.op \in AllOps /\ StepFacts(c.op)
  BY AllStepFacts DEF IsCall
<1>2. Len(Steps[c.op]) \in Nat
  BY <1>1 DEF StepFacts
<1>3. Len(c.todo) \in Nat \ {0} /\ Head(c.todo) = c.todo[1]
  BY DEF IsCall
<1>4. Len(c.todo) <= Len(Steps[c.op]) /\ c.todo[1] = Steps[c.op][Done(c) + 1]
  BY <1>3 DEF IsCall
<1>5. Done(c) \in Nat /\ Done(c) + 1 \in 1..Len(Steps[c.op])
  <2>1. \A m \in Nat, n \in Nat \ {0} : n <= m => m - n \in Nat /\ (m - n) + 1 \in 1..m
    OBVIOUS
  <2>2. QED
    BY <1>2, <1>3, <1>4, <2>1, Zenon DEF Done
<1>6. QED
  BY <1>1, <1>3, <1>4, <1>5, Zenon

\* A call at the same step of the same operation.
SameStep(c, d) ==
  HasFields(d) /\ d.op = c.op /\ d.project = c.project /\ d.todo = c.todo /\ IsRegistry(d.held)

LEMMA SameStepIs ==
  ASSUME NEW c, IsCall(c), NEW d, SameStep(c, d)
  PROVE  IsCall(d) /\ Done(d) = Done(c)
BY DEF IsCall, SameStep, Done

\* What becomes of d when its step is done.
Continued(d, e) ==
  /\ Len(d.todo) > 1 /\ e.todo = Tail(d.todo) /\ e.todo # << >> /\ Done(e) = Done(d) + 1
  /\ e.op = d.op /\ e.project = d.project /\ e.held = d.held /\ e.read = d.read
  /\ e.migrated = d.migrated

LEMMA AfterIs ==
  ASSUME NEW c, IsCall(c), c.todo # << >>
  PROVE  /\ IsCall(After(c))
         /\ \/ After(c) = Idle /\ Done(c) + 1 = Len(Steps[c.op])
            \/ Continued(c, After(c))
<1>0. \A n \in Nat \ {0} : (n = 1 \/ n > 1) /\ (n > 1 => n # 1)
  OBVIOUS
<1>1. Len(c.todo) \in Nat \ {0} /\ Len(Steps[c.op]) \in Nat
  BY CallFacts DEF StepFacts
<1>2. CASE Len(c.todo) = 1
  <2>1. After(c) = Idle
    BY <1>2, Zenon DEF After
  <2>2. QED
    BY <1>1, <1>2, <2>1, IdleIs DEF Done
<1>3. CASE Len(c.todo) > 1
  <2> DEFINE todo == Tail(c.todo)
  <2>1. After(c) = [c EXCEPT !.todo = todo]
    <3>1. Len(c.todo) # 1
      BY <1>0, <1>1, <1>3, Zenon
    <3>2. QED
      BY <3>1, Zenon DEF After
  <2>2. /\ todo \in Seq(StepName) /\ Len(todo) = Len(c.todo) - 1
        /\ \A i \in 1..Len(c.todo) - 1 : todo[i] = c.todo[i + 1]
    BY <1>3 DEF IsCall
  <2> HIDE DEF todo
  <2>3. todo # << >>
    BY <1>1, <1>3, <2>2
  <2>4. PICK d : d = [c EXCEPT !.todo = todo]
    OBVIOUS
  <2>5. /\ HasFields(d) /\ d.op = c.op /\ d.project = c.project /\ d.todo = todo
        /\ d.held = c.held /\ d.read = c.read /\ d.migrated = c.migrated /\ d.old = c.old
    BY <2>4 DEF IsCall, HasFields
  <2>6. Done(d) = Done(c) + 1
    <3>1. Done(d) = Len(Steps[c.op]) - Len(todo) /\ Done(c) = Len(Steps[c.op]) - Len(c.todo)
      BY <2>5 DEF Done
    <3>2. QED
      BY <1>1, <2>2, <3>1
  <2>7. \A i \in 1..Len(todo) : todo[i] = Steps[c.op][Done(d) + i]
    <3>1. SUFFICES ASSUME NEW i \in 1..Len(c.todo) - 1
                   PROVE  todo[i] = Steps[c.op][Done(c) + 1 + i]
      BY <2>2, <2>6
    <3>2. c.todo[i + 1] = Steps[c.op][Done(c) + (i + 1)]
      BY <1>1 DEF IsCall
    <3>3. Done(c) \in Int
      BY <1>1 DEF Done
    <3>4. Done(c) + (i + 1) = Done(c) + 1 + i
      BY <1>1, <3>3
    <3>5. QED
      BY <2>2, <3>2, <3>4
  <2>8. IsCall(d)
    BY <1>1, <2>2, <2>3, <2>5, <2>7 DEF IsCall
  <2>9. Continued(c, d)
    BY <1>3, <2>3, <2>5, <2>6 DEF Continued, todo
  <2>10. QED
    BY <2>1, <2>4, <2>8, <2>9, Zenon
<1>4. Len(c.todo) = 1 \/ Len(c.todo) > 1
  BY <1>0, <1>1, Zenon
<1>5. QED
  BY <1>2, <1>3, <1>4, Zenon

----------------------------------------------------------------------------
(* What the steps do to the calls. *)

Shapes ==
  /\ IsRegistry(registry)
  /\ lock \in Thread \cup {Nobody}
  /\ call = [t \in Thread |-> call[t]]
  /\ \A t \in Thread : IsCall(call[t])

LEMMA SetCall ==
  ASSUME Shapes, NEW t \in Thread, NEW c, IsCall(c), call' = [call EXCEPT ![t] = c]
  PROVE  /\ call' = [u \in Thread |-> call'[u]]
         /\ \A u \in Thread : IsCall(call'[u])
         /\ call'[t] = c
         /\ \A u \in Thread \ {t} : call'[u] = call[u]
BY DEF Shapes

\* The call of t is as it was but for some of its locals, and then its step is done; or it is over.
Proceeds(t, d) == SameStep(call[t], d) /\ call' = [call EXCEPT ![t] = After(d)]
Returns(t) == call' = [call EXCEPT ![t] = Idle]

LEMMA ContinueIs ==
  ASSUME Shapes, NEW t \in Thread, Continue(t)
  PROVE  Proceeds(t, call[t])
BY DEF Shapes, Continue, Proceeds, SameStep, IsCall

LEMMA HoldIs ==
  ASSUME Shapes, NEW t \in Thread, NEW r, IsRegistry(r), NEW projects, Hold(t, r, projects)
  PROVE  \E d : Proceeds(t, d) /\ d.held = r /\ d.migrated = projects /\ d.read = call[t].read
<1>1. PICK d : d = [call[t] EXCEPT !.held = r, !.migrated = projects]
  OBVIOUS
<1>2. /\ HasFields(d) /\ d.op = call[t].op /\ d.project = call[t].project
      /\ d.todo = call[t].todo /\ d.held = r /\ d.migrated = projects /\ d.read = call[t].read
  <2>1. HasFields(call[t])
    BY DEF Shapes, IsCall
  <2>2. QED
    BY <1>1, <2>1 DEF HasFields
<1>3. call' = [call EXCEPT ![t] = After(d)]
  BY <1>1, Zenon DEF Hold
<1>4. QED
  BY <1>2, <1>3 DEF Proceeds, SameStep

LEMMA KeepIs ==
  ASSUME Shapes, NEW t \in Thread, NEW projects, Keep(t, projects)
  PROVE  \E d : Proceeds(t, d) /\ d.read = projects /\ d.migrated = call[t].migrated
<1>1. PICK d : d = [call[t] EXCEPT !.held = NoRegistry, !.read = projects]
  OBVIOUS
<1>2. /\ HasFields(d) /\ d.op = call[t].op /\ d.project = call[t].project
      /\ d.todo = call[t].todo /\ d.held = NoRegistry /\ d.read = projects
      /\ d.migrated = call[t].migrated
  <2>1. HasFields(call[t])
    BY DEF Shapes, IsCall
  <2>2. QED
    BY <1>1, <2>1 DEF HasFields
<1>3. call' = [call EXCEPT ![t] = After(d)]
  BY <1>1, Zenon DEF Keep
<1>4. QED
  BY <1>2, <1>3, NoRegistryIs DEF Proceeds, SameStep

LEMMA CacheIs ==
  ASSUME Shapes, NEW t \in Thread, Cache(t)
  PROVE  \E d : /\ Proceeds(t, d) /\ d.read = {}
                /\ d.held = call[t].held /\ d.migrated = call[t].migrated
<1>1. PICK d : d = [call[t] EXCEPT !.read = {}]
  OBVIOUS
<1>2. /\ HasFields(d) /\ d.op = call[t].op /\ d.project = call[t].project
      /\ d.todo = call[t].todo /\ d.held = call[t].held /\ d.read = {} /\ IsRegistry(call[t].held)
      /\ d.migrated = call[t].migrated
  <2>1. HasFields(call[t]) /\ IsRegistry(call[t].held)
    BY DEF Shapes, IsCall
  <2>2. QED
    BY <1>1, <2>1 DEF HasFields
<1>3. call' = [call EXCEPT ![t] = After(d)]
  BY <1>1, Zenon DEF Cache
<1>4. QED
  BY <1>2, <1>3 DEF Proceeds, SameStep

LEMMA FormatIs ==
  ASSUME Shapes, NEW t \in Thread, Format(t)
  PROVE  \E d : /\ Proceeds(t, d) /\ d.read = call[t].read
                /\ d.held = call[t].held /\ d.migrated = call[t].migrated
<1>1. PICK d : d = [call[t] EXCEPT !.old = registry.old]
  OBVIOUS
<1>2. /\ HasFields(d) /\ d.op = call[t].op /\ d.project = call[t].project
      /\ d.todo = call[t].todo /\ d.held = call[t].held /\ IsRegistry(call[t].held)
      /\ d.read = call[t].read /\ d.migrated = call[t].migrated
  <2>1. HasFields(call[t]) /\ IsRegistry(call[t].held)
    BY DEF Shapes, IsCall
  <2>2. QED
    BY <1>1, <2>1 DEF HasFields
<1>3. call' = [call EXCEPT ![t] = After(d)]
  BY <1>1, Zenon DEF Format
<1>4. QED
  BY <1>2, <1>3 DEF Proceeds, SameStep

\* The labels of the manifests that could be read are in the copy.
Labels(r, found) == [p \in Registered(r) |-> Merged(r.projects[p], p \in found)]
Migrated(t, d) ==
  /\ d.migrated \subseteq Registered(call[t].held) \cap legacy
  /\ "io" \notin Fault => d.migrated = Registered(call[t].held) \cap legacy
  /\ d.held.projects = Labels(call[t].held, d.migrated)

LEMMA MigrateIs ==
  ASSUME Shapes, NEW t \in Thread, Migrate(t)
  PROVE  \E d : Proceeds(t, d) /\ d.read = call[t].read /\ Migrated(t, d)
<1> DEFINE r == call[t].held
<1>1. IsRegistry(r)
  BY DEF Shapes, IsCall
<1>2. PICK found \in SUBSET (Registered(r) \cap legacy) :
        /\ "io" \notin Fault => found = Registered(r) \cap legacy
        /\ Hold(t, [r EXCEPT !.projects = [p \in Registered(r) |-> Merged(@[p], p \in found)],
                             !.old = FALSE], found)
  BY DEF Migrate
<1> DEFINE labels == [p \in Registered(r) |-> Merged(r.projects[p], p \in found)]
<1>3. PICK e : e = [r EXCEPT !.projects = labels, !.old = FALSE]
  OBVIOUS
<1>4. DOMAIN labels = Registered(r)
  OBVIOUS
<1>5. Hold(t, e, found)
  BY <1>2, <1>3, Zenon
<1> HIDE DEF labels, r
<1>6. IsRegistry(e) /\ e.projects = labels
  <2>1. e \in [projects : {e.projects}, selected : {e.selected}, channels : {e.channels},
               receipts : {e.receipts}, old : {e.old}]
    BY <1>1, <1>3 DEF IsRegistry
  <2>2. e.projects = labels /\ e.selected = r.selected
    BY <1>1, <1>3 DEF IsRegistry
  <2>3. r.selected \in Registered(r) \cup {Nobody}
    BY <1>1 DEF IsRegistry
  <2>4. QED
    BY <1>4, <2>1, <2>2, <2>3 DEF IsRegistry, Registered
<1>7. PICK d : Proceeds(t, d) /\ d.held = e /\ d.migrated = found /\ d.read = call[t].read
  BY <1>5, <1>6, HoldIs
<1>8. labels = Labels(r, found)
  BY DEF labels, Labels
<1>9. QED
  BY <1>2, <1>6, <1>7, <1>8 DEF Migrated, r

\* An update is under way with what its closure makes of the registry as it is.
Changed(t, d) ==
  \E r \in Effects(Op(t), Project1(t), registry, d.migrated # {}) : d.held = [r EXCEPT !.old = FALSE]

LEMMA AtIs ==
  ASSUME Shapes, NEW t \in Thread, NEW step, At(t, step)
  PROVE  /\ IsCall(call[t]) /\ call[t].todo # << >>
         /\ Op(t) \in AllOps /\ StepFacts(Op(t))
         /\ Done(call[t]) \in Nat /\ Done(call[t]) + 1 \in 1..Len(Steps[Op(t)])
         /\ Steps[Op(t)][Done(call[t]) + 1] = step
BY CallFacts DEF Shapes, At, Busy, Op

LEMMA ReadIs ==
  ASSUME Shapes, NEW t \in Thread, Read(t)
  PROVE  \E d : /\ Proceeds(t, d) /\ Changed(t, d) /\ d.read = call[t].read
                /\ d.migrated \subseteq {Project1(t)}
                /\ d.migrated # {} => Op(t) = "register"
<1>1. Op(t) \in UpdateOps
  BY AtIs DEF Read, StepFacts
<1> DEFINE migrates == Op(t) = "register" /\ Project1(t) \in legacy
<1> DEFINE projects == IF migrates THEN {Project1(t)} ELSE {}
<1>2. PICK r \in Effects(Op(t), Project1(t), registry, migrates) :
        Hold(t, [r EXCEPT !.old = FALSE], projects)
  BY Zenon DEF Read, Change
<1>3. IsRegistry([r EXCEPT !.old = FALSE])
  BY <1>1, <1>2, EffectIs, Zenon DEF Read, Shapes
<1>4. PICK e : e = [r EXCEPT !.old = FALSE]
  OBVIOUS
<1>5. IsRegistry(e) /\ Hold(t, e, projects)
  BY <1>2, <1>3, <1>4, Zenon
<1>6. /\ (projects # {}) = migrates /\ projects \subseteq {Project1(t)}
      /\ migrates => Op(t) = "register"
  OBVIOUS
<1> HIDE DEF projects, migrates
<1>7. PICK d : Proceeds(t, d) /\ d.held = e /\ d.migrated = projects /\ d.read = call[t].read
  BY <1>5, HoldIs
<1>8. QED
  BY <1>2, <1>4, <1>6, <1>7, Zenon DEF Changed

\* Every step of an operation does away with its first step, ends it, or takes labels.
LEMMA StepIs ==
  ASSUME Shapes, NEW t \in Thread, Step(t)
  PROVE  \/ Busy(t) /\ Returns(t)
         \/ Busy(t) /\ \E d : Proceeds(t, d)
         \/ At(t, "take") /\ \E d : SameStep(call[t], d) /\ call' = [call EXCEPT ![t] = d]
<1>1. CASE Refresh(t)
  BY <1>1, KeepIs DEF Refresh, At
<1>2. CASE Cache(t)
  BY <1>2, CacheIs DEF Cache, At
<1>3. CASE LookUp(t) \/ Revoke(t) \/ Grant(t) \/ Provider(t) \/ Save(t) \/ NothingToSave(t) \/ Run(t)
  <2>1. Busy(t) /\ (Continue(t) \/ Return(t))
    BY <1>3, Zenon DEF LookUp, Revoke, Grant, Provider, Save, NothingToSave, Run, At
  <2>2. QED
    BY <2>1, ContinueIs, Zenon DEF Return, Returns
<1>4. CASE Read(t)
  BY <1>4, ReadIs DEF Read, At
<1>5. CASE UpdateFails(t) \/ Fails(t)
  BY <1>5, Zenon DEF UpdateFails, Fails, Return, Returns, At
<1>6. CASE Write(t)
  BY <1>6, KeepIs DEF Write, At, Return, Returns
<1>7. CASE Take(t)
  <2>1. CASE call[t].migrated = {}
    BY <1>7, <2>1, ContinueIs DEF Take, At
  <2>2. CASE call[t].migrated # {}
    <3>1. PICK p : call' = [call EXCEPT ![t].migrated = @ \ {p}]
      BY <1>7, <2>2 DEF Take
    <3> DEFINE left == call[t].migrated \ {p}
    <3>2. PICK d : d = [call[t] EXCEPT !.migrated = left]
      OBVIOUS
    <3>3. call' = [call EXCEPT ![t] = d]
      BY <3>1, <3>2, Zenon
    <3> HIDE DEF left
    <3>4. HasFields(call[t]) /\ IsRegistry(call[t].held)
      BY DEF Shapes, IsCall
    <3>5. HasFields(d) /\ d.op = call[t].op /\ d.project = call[t].project
          /\ d.todo = call[t].todo /\ d.held = call[t].held
      BY <3>2, <3>4 DEF HasFields
    <3>6. SameStep(call[t], d)
      BY <3>4, <3>5 DEF SameStep
    <3>7. At(t, "take")
      BY <1>7 DEF Take
    <3>8. QED
      BY <3>3, <3>6, <3>7, Zenon
  <2>3. QED
    BY <2>1, <2>2
<1>8. CASE Format(t)
  BY <1>8, FormatIs DEF Format, At
<1>9. CASE Load(t)
  <2>1. \E d : Proceeds(t, d)
    BY <1>9, HoldIs DEF Load, Shapes
  <2>2. QED
    BY <1>9, <2>1 DEF Load, At
<1>10. CASE Migrate(t)
  BY <1>10, MigrateIs DEF Migrate, At
<1>11. QED
  BY <1>1, <1>2, <1>3, <1>4, <1>5, <1>6, <1>7, <1>8, <1>9, <1>10, Zenon DEF Step

\* Where the call of t goes.
Advanced(t) ==
  /\ call'[t].op = call[t].op /\ call'[t].project = call[t].project /\ call'[t].todo # << >>
  /\ \/ Done(call'[t]) = Done(call[t]) + 1
     \/ At(t, "take") /\ Done(call'[t]) = Done(call[t])

OnlyCallOf(t) ==
  /\ call' = [u \in Thread |-> call'[u]]
  /\ \A u \in Thread : IsCall(call'[u])
  /\ \A u \in Thread \ {t} : call'[u] = call[u]

LEMMA Proceeding ==
  ASSUME Shapes, NEW t \in Thread, Busy(t), NEW d, Proceeds(t, d)
  PROVE  /\ OnlyCallOf(t)
         /\ \/ call'[t] = Idle
            \/ Continued(d, call'[t]) /\ Advanced(t)
<1>1. IsCall(call[t]) /\ call[t].todo # << >>
  BY DEF Shapes, Busy
<1>2. IsCall(d) /\ d.todo # << >> /\ Done(d) = Done(call[t])
  BY <1>1, SameStepIs DEF Proceeds, SameStep
<1>3. IsCall(After(d)) /\ (After(d) = Idle \/ Continued(d, After(d)))
  BY <1>2, AfterIs
<1>4. OnlyCallOf(t) /\ call'[t] = After(d)
  BY <1>3, SetCall DEF Proceeds, OnlyCallOf
<1>5. CASE Continued(d, After(d))
  BY <1>2, <1>4, <1>5 DEF Continued, Advanced, Proceeds, SameStep
<1>6. QED
  BY <1>3, <1>4, <1>5

LEMMA StepMoves ==
  ASSUME Shapes, NEW t \in Thread, Step(t)
  PROVE  Busy(t) /\ OnlyCallOf(t) /\ (call'[t] = Idle \/ Advanced(t))
<1>1. CASE Busy(t) /\ Returns(t)
  BY <1>1, IdleIs, SetCall DEF Returns, OnlyCallOf
<1>2. CASE Busy(t) /\ \E d : Proceeds(t, d)
  BY <1>2, Proceeding
<1>3. CASE At(t, "take") /\ \E d : SameStep(call[t], d) /\ call' = [call EXCEPT ![t] = d]
  <2>1. PICK d : SameStep(call[t], d) /\ call' = [call EXCEPT ![t] = d]
    BY <1>3
  <2>2. IsCall(call[t]) /\ call[t].todo # << >>
    BY <1>3 DEF Shapes, At, Busy
  <2>3. IsCall(d) /\ Done(d) = Done(call[t])
    BY <2>1, <2>2, SameStepIs
  <2>4. OnlyCallOf(t) /\ call'[t] = d
    BY <2>1, <2>3, SetCall DEF OnlyCallOf
  <2>5. QED
    BY <1>3, <2>1, <2>2, <2>3, <2>4 DEF Advanced, SameStep, Busy
<1>4. QED
  BY <1>1, <1>2, <1>3, StepIs

\* An operation begins with its first step.
Began(t, op, p) ==
  /\ call'[t].op = op /\ call'[t].project = p /\ call'[t].todo # << >> /\ Done(call'[t]) = 0
  /\ call'[t].read = {} /\ call'[t].migrated = {}

LEMMA BeginMoves ==
  ASSUME Shapes, NEW t \in Thread, NEW op \in Ops[t], NEW p, Begin(t, op, p)
  PROVE  OnlyCallOf(t) /\ Began(t, op, p)
<1>1. op \in AllOps /\ StepFacts(op)
  BY OpsAssumption, AllStepFacts
<1>2. PICK c : c = [Idle EXCEPT !.op = op, !.project = p, !.todo = Steps[op]]
  OBVIOUS
<1>3. HasFields(c) /\ c.op = op /\ c.project = p /\ c.todo = Steps[op] /\ c.held = NoRegistry
      /\ c.read = {} /\ c.migrated = {}
  BY <1>2 DEF HasFields, Idle
<1>4. /\ Steps[op] \in Seq(StepName) /\ Len(Steps[op]) \in Nat /\ Len(Steps[op]) >= 1
      /\ Steps[op] # << >>
  BY <1>1 DEF StepFacts
<1>5. Done(c) = 0
  BY <1>3, <1>4 DEF Done
<1>6. \A i \in 1..Len(c.todo) : c.todo[i] = Steps[c.op][Done(c) + i]
  BY <1>3, <1>4, <1>5
<1>7. IsCall(c)
  BY <1>1, <1>3, <1>4, <1>6, NoRegistryIs DEF IsCall
<1>8. call' = [call EXCEPT ![t] = c]
  BY <1>2, Zenon DEF Begin
<1>9. QED
  BY <1>3, <1>4, <1>5, <1>7, <1>8, SetCall DEF OnlyCallOf, Began

----------------------------------------------------------------------------
(* The selection.  A registry that is written was held by a call, and what *)
(* a call holds was made by a closure of a sound registry.                 *)

LEMMA InitShapes ==
  ASSUME Init
  PROVE  Shapes
<1>1. registry.selected = Nobody
  BY DEF Init
<1>2. registry = [projects |-> registry.projects, selected |-> registry.selected,
                  channels |-> registry.channels, receipts |-> registry.receipts,
                  old |-> registry.old]
  BY DEF Init
<1>3. IsRegistry(registry)
  BY <1>1, <1>2 DEF IsRegistry
<1>4. call = [t \in Thread |-> Idle] /\ lock = Nobody
  BY DEF Init
<1>5. QED
  BY <1>3, <1>4, IdleIs DEF Shapes

\* The steps of one thread, and the death of a process.
LEMMA NextIs ==
  ASSUME Next
  PROVE  /\ \/ \E t \in Thread : Step(t)
            \/ \E t \in Thread : \E op \in Ops[t], p \in Project \cup {Nobody} : Begin(t, op, p)
            \/ \E h \in Process : Die(h)
         /\ since' = [t \in Thread |-> Seen(t)]
BY Zenon DEF Next

LEMMA StepWrites ==
  ASSUME Shapes, NEW t \in Thread, Step(t)
  PROVE  /\ registry' = registry \/ registry' = call[t].held
         /\ lock' \in {lock, t, Nobody}
<1>1. CASE Write(t) \/ Save(t)
  BY <1>1 DEF Write, Save
<1>2. CASE ~(Write(t) \/ Save(t))
  <2>1. registry' = registry
    BY <1>2, Zenon DEF Step, Refresh, Cache, LookUp, Read, UpdateFails, Take, Revoke, Grant,
       Provider, Format, Load, Migrate, NothingToSave, Run, Fails
  <2>2. lock' = lock \/ lock' = t \/ lock' = Nobody
    BY <1>2, Zenon DEF Step, Refresh, Cache, LookUp, Read, UpdateFails, Take, Revoke, Grant,
       Provider, Format, Load, Migrate, NothingToSave, Run, Fails
  <2>3. QED
    BY <2>1, <2>2
<1>3. QED
  BY <1>1, <1>2

LEMMA DieMoves ==
  ASSUME Shapes, NEW h \in Process, Die(h)
  PROVE  /\ call' = [t \in Thread |-> call'[t]]
         /\ \A t \in Thread : /\ IsCall(call'[t])
                              /\ call'[t] = IF Home[t] = h THEN Idle ELSE call[t]
BY IdleIs DEF Shapes, Die

LEMMA NextShapes ==
  ASSUME Shapes, [Next]_vars
  PROVE  Shapes'
<1>1. CASE UNCHANGED vars
  BY <1>1 DEF Shapes, vars
<1>2. ASSUME NEW t \in Thread, Step(t)
      PROVE  Shapes'
  <2>1. OnlyCallOf(t)
    BY <1>2, StepMoves
  <2>2. IsRegistry(registry')
    BY <1>2, StepWrites DEF Shapes, IsCall
  <2>3. lock' \in Thread \cup {Nobody}
    BY <1>2, StepWrites DEF Shapes
  <2>4. QED
    BY <2>1, <2>2, <2>3, Zenon DEF Shapes, OnlyCallOf
<1>3. ASSUME NEW t \in Thread, NEW op \in Ops[t], NEW p, Begin(t, op, p)
      PROVE  Shapes'
  <2>1. OnlyCallOf(t)
    BY <1>3, BeginMoves
  <2>2. registry' = registry /\ lock' = lock
    BY <1>3 DEF Begin
  <2>3. QED
    BY <2>1, <2>2, Zenon DEF Shapes, OnlyCallOf
<1>4. ASSUME NEW h \in Process, Die(h)
      PROVE  Shapes'
  <2>1. /\ call' = [t \in Thread |-> call'[t]]
        /\ \A t \in Thread : IsCall(call'[t])
    BY <1>4, DieMoves
  <2>2. registry' = registry /\ lock' \in {lock, Nobody}
    BY <1>4 DEF Die
  <2>3. lock' \in Thread \cup {Nobody}
    BY <2>2 DEF Shapes
  <2>4. IsRegistry(registry')
    BY <2>2 DEF Shapes
  <2>5. QED
    BY <2>1, <2>3, <2>4, Zenon DEF Shapes
<1>5. QED
  BY <1>1, <1>2, <1>3, <1>4, NextIs, Zenon

\* What the registry, its lock and the calls are: each call has the step it is at before it.
THEOREM ShapesInvariant == Spec => []Shapes
<1>1. Init => Shapes
  BY InitShapes
<1>2. Shapes /\ [Next]_vars => Shapes'
  BY NextShapes
<1>3. QED
  BY <1>1, <1>2, PTL DEF Spec

\* last_selected_project_id never names a project that is gone, whoever removes it and whenever.
THEOREM SelectionIsRegistered == Spec => []SelectedRegistered
<1>1. Shapes => SelectedRegistered
  BY DEF Shapes, IsRegistry, SelectedRegistered
<1>2. QED
  BY <1>1, ShapesInvariant, PTL

----------------------------------------------------------------------------
(* Updates.  Between read and write the lock is held, and so the registry  *)
(* is the one the closure was given.                                       *)

Locked ==
  \A t \in Thread : At(t, "write") => lock = t /\ Changed(t, call[t])

\* Only the reading of an update is followed by a write.
LEMMA EntersWrite ==
  ASSUME Shapes, NEW t \in Thread, Step(t), At(t, "write")'
  PROVE  Read(t)
<1> DEFINE c == call[t]
<1> DEFINE e == call'[t]
<1> DEFINE s == Steps[c.op]
<1>1. Busy(t) /\ OnlyCallOf(t) /\ Advanced(t)
  BY StepMoves, IdleIs DEF At, Busy
<1>2. IsCall(c) /\ c.todo # << >> /\ IsCall(e) /\ e.todo # << >> /\ e.op = c.op
  BY <1>1 DEF Shapes, Busy, OnlyCallOf, Advanced
<1>3. /\ Done(c) \in Nat /\ Done(c) + 1 \in 1..Len(s) /\ Head(c.todo) = s[Done(c) + 1]
      /\ StepFacts(c.op)
  BY <1>2, CallFacts
<1>4. Done(e) \in Nat /\ Done(e) + 1 \in 1..Len(s) /\ Head(e.todo) = s[Done(e) + 1]
  BY <1>2, CallFacts
<1>5. s[Done(e) + 1] = "write"
  BY <1>4 DEF At
<1>6. Done(e) # Done(c)
  <2>1. SUFFICES ASSUME Done(e) = Done(c)
                 PROVE  FALSE
    OBVIOUS
  <2>2. At(t, "take")
    BY <1>1, <1>3, <2>1 DEF Advanced
  <2>3. Head(c.todo) = "take"
    BY <2>2 DEF At
  <2>4. QED
    BY <1>3, <1>5, <2>1, <2>3
<1>7. Done(e) = Done(c) + 1
  BY <1>1, <1>6 DEF Advanced
<1>8. s[Done(c) + 1] = "read"
  BY <1>3, <1>4, <1>5, <1>7 DEF StepFacts
<1>9. At(t, "read")
  BY <1>1, <1>3, <1>8 DEF At
<1>10. \A step : At(t, step) => step = "read"
  BY <1>9 DEF At
<1>11. ~UpdateFails(t)
  BY <1>2, IdleIs, SetCall DEF UpdateFails, Return
<1>12. ~(Refresh(t) \/ Cache(t) \/ LookUp(t) \/ Write(t) \/ Take(t) \/ Revoke(t) \/ Grant(t))
  BY <1>10 DEF Refresh, Cache, LookUp, Write, Take, Revoke, Grant
<1>13. ~(Provider(t) \/ Format(t) \/ Load(t) \/ Migrate(t) \/ Run(t))
  BY <1>10 DEF Provider, Format, Load, Migrate, Run
<1>14. ~(Save(t) \/ NothingToSave(t) \/ Fails(t))
  BY <1>10 DEF Save, NothingToSave, Fails
<1>15. QED
  BY <1>11, <1>12, <1>13, <1>14, Zenon DEF Step

\* An update of t under way is disturbed by nobody: who writes or takes the lock has to hold it or
\* to find it free.
LEMMA OthersKeepLocked ==
  ASSUME Shapes, Locked, NEW t \in Thread, NEW u \in Thread \ {t}, Step(u), At(t, "write"),
         call'[t] = call[t]
  PROVE  lock' = t /\ Changed(t, call[t])'
<1>1. lock = t /\ Changed(t, call[t])
  BY DEF Locked
<1>2. lock # Nobody /\ ~At(u, "write")
  BY <1>1, NobodyAssumption DEF Locked
<1>3. UNCHANGED <<registry, lock>>
  BY <1>2, Zenon DEF Step, Refresh, Cache, LookUp, Read, UpdateFails, Write, Take, Revoke, Grant,
     Provider, Format, Load, Migrate, Save, NothingToSave, Run, Fails
<1>4. QED
  BY <1>1, <1>3, Zenon DEF Changed, Op, Project1

LEMMA ReadLocks ==
  ASSUME Shapes, NEW t \in Thread, Read(t), At(t, "write")'
  PROVE  lock' = t /\ Changed(t, call[t])'
<1>1. PICK d : Proceeds(t, d) /\ Changed(t, d)
  BY ReadIs
<1>2. Busy(t) /\ call'[t] # Idle
  BY IdleIs DEF Read, At, Busy
<1>3. Continued(d, call'[t]) /\ Advanced(t)
  BY <1>1, <1>2, Proceeding
<1>4. registry' = registry /\ lock' = t
  BY DEF Read
<1>5. /\ call'[t].op = call[t].op /\ call'[t].project = call[t].project
      /\ call'[t].held = d.held /\ call'[t].migrated = d.migrated
  BY <1>3 DEF Continued, Advanced
<1>6. QED
  BY <1>1, <1>4, <1>5, Zenon DEF Changed, Op, Project1

LEMMA NextLocked ==
  ASSUME Shapes, Locked, [Next]_vars
  PROVE  Locked'
<1>1. SUFFICES ASSUME NEW t \in Thread, At(t, "write")'
               PROVE  lock' = t /\ Changed(t, call[t])'
  BY DEF Locked
<1>2. CASE UNCHANGED vars
  <2>1. UNCHANGED <<registry, lock, call>>
    BY <1>2 DEF vars
  <2>2. At(t, "write")
    BY <1>1, <2>1 DEF At, Busy
  <2>3. QED
    BY <2>1, <2>2, Zenon DEF Locked, Changed, Op, Project1
<1>3. ASSUME NEW u \in Thread, Step(u)
      PROVE  lock' = t /\ Changed(t, call[t])'
  <2>1. CASE u = t
    BY <1>1, <1>3, <2>1, EntersWrite, ReadLocks
  <2>2. CASE u # t
    <3>1. call'[t] = call[t]
      BY <1>3, <2>2, StepMoves DEF OnlyCallOf
    <3>2. At(t, "write")
      BY <1>1, <3>1 DEF At, Busy
    <3>3. QED
      BY <1>3, <2>2, <3>1, <3>2, OthersKeepLocked
  <2>3. QED
    BY <2>1, <2>2
<1>4. ASSUME NEW u \in Thread, NEW op \in Ops[u], NEW p, Begin(u, op, p)
      PROVE  lock' = t /\ Changed(t, call[t])'
  <2>1. OnlyCallOf(u) /\ Began(u, op, p)
    BY <1>4, BeginMoves
  <2>2. u # t
    <3>1. op \in AllOps /\ StepFacts(op)
      BY OpsAssumption, AllStepFacts
    <3>2. SUFFICES ASSUME u = t PROVE FALSE
      OBVIOUS
    <3>3. IsCall(call'[t]) /\ call'[t].todo # << >> /\ call'[t].op = op /\ Done(call'[t]) = 0
      BY <2>1, <3>2 DEF OnlyCallOf, Began
    <3>4. Head(call'[t].todo) = Steps[op][0 + 1]
      BY <3>3, CallFacts
    <3>5. QED
      BY <1>1, <3>1, <3>4 DEF StepFacts, At
  <2>3. call'[t] = call[t]
    BY <2>1, <2>2 DEF OnlyCallOf
  <2>4. UNCHANGED <<registry, lock>>
    BY <1>4 DEF Begin
  <2>5. At(t, "write")
    BY <1>1, <2>3 DEF At, Busy
  <2>6. QED
    BY <2>3, <2>4, <2>5, Zenon DEF Locked, Changed, Op, Project1
<1>5. ASSUME NEW h \in Process, Die(h)
      PROVE  lock' = t /\ Changed(t, call[t])'
  <2>1. call'[t] = call[t] /\ Home[t] # h
    <3>1. call'[t] = IF Home[t] = h THEN Idle ELSE call[t]
      BY <1>5, DieMoves
    <3>2. call'[t] # Idle
      BY <1>1, IdleIs DEF At, Busy
    <3>3. QED
      BY <3>1, <3>2
  <2>2. At(t, "write")
    BY <1>1, <2>1 DEF At, Busy
  <2>3. lock = t /\ Changed(t, call[t])
    BY <2>2 DEF Locked
  <2>4. UNCHANGED <<registry, lock>>
    BY <1>5, <2>1, <2>3 DEF Die
  <2>5. QED
    BY <2>1, <2>3, <2>4, Zenon DEF Changed, Op, Project1
<1>6. QED
  BY <1>2, <1>3, <1>4, <1>5, NextIs, Zenon

\* A thread between reading and writing has the lock, and will write what is there with its change.
THEOREM LockedInvariant == Spec => []Locked
<1>1. Init => Locked
  BY DEF Init, Locked, At, Busy, Idle
<1>2. Shapes /\ Locked /\ [Next]_vars => Locked'
  BY NextLocked
<1>3. QED
  BY <1>1, <1>2, ShapesInvariant, PTL DEF Spec

\* An update writes the registry as it is at that moment, changed by its own operation and nothing
\* else, whatever the other desktops and brokers do meanwhile.
THEOREM UpdatesKeep == Spec => UpdatesKeepTheRest
<1> DEFINE Keeps ==
      \A t \in Thread : At(t, "write") /\ registry' # registry /\ call'[t] # call[t] =>
        \E r \in Effects(Op(t), Project1(t), registry, call[t].migrated # {}) :
          registry' = [r EXCEPT !.old = FALSE]
<1>1. ASSUME Shapes, Locked, Next
      PROVE  Keeps
  <2>1. SUFFICES ASSUME NEW t \in Thread, At(t, "write"), registry' # registry, call'[t] # call[t]
                 PROVE  \E r \in Effects(Op(t), Project1(t), registry, call[t].migrated # {}) :
                          registry' = [r EXCEPT !.old = FALSE]
    OBVIOUS
  <2>2. PICK u \in Thread : Step(u)
    BY <1>1, <2>1, NextIs, Zenon DEF Begin, Die
  <2>3. u = t
    BY <1>1, <2>1, <2>2, StepMoves DEF OnlyCallOf
  <2>4. registry' = call[t].held
    BY <1>1, <2>1, <2>2, <2>3, StepWrites
  <2>5. Changed(t, call[t])
    BY <1>1, <2>1 DEF Locked
  <2>6. QED
    BY <2>4, <2>5, Zenon DEF Changed
<1>2. Shapes /\ Locked /\ [Next]_vars => [Keeps]_vars
  BY <1>1
<1>3. QED
  BY <1>2, ShapesInvariant, LockedInvariant, PTL DEF Spec, UpdatesKeepTheRest

----------------------------------------------------------------------------
(* Grants.  Once a removal has revoked the grants of its project, those    *)
(* that are there have been made since.                                    *)

LEMMA RevokeStep ==
  ASSUME NEW t \in Thread, Step(t), At(t, "revoke")
  PROVE  Revoke(t)
<1>1. \A step : At(t, step) => step = "revoke"
  BY DEF At
<1>2. ~(Refresh(t) \/ Cache(t) \/ LookUp(t) \/ Read(t) \/ Write(t) \/ Take(t) \/ Grant(t))
  BY <1>1 DEF Refresh, Cache, LookUp, Read, Write, Take, Grant
<1>3. ~(Provider(t) \/ Format(t) \/ Load(t) \/ Migrate(t) \/ Run(t))
  BY <1>1 DEF Provider, Format, Load, Migrate, Run
<1>4. ~(Save(t) \/ NothingToSave(t) \/ Fails(t) \/ UpdateFails(t))
  BY <1>1 DEF Save, NothingToSave, Fails, UpdateFails
<1>5. QED
  BY <1>2, <1>3, <1>4, Zenon DEF Step

\* A call that is under way after a step was so before, or has begun with it.
LEMMA CallMoves ==
  ASSUME Shapes, Next, NEW t \in Thread, call'[t].todo # << >>
  PROVE  \/ call'[t] = call[t]
         \/ Step(t) /\ Busy(t) /\ Advanced(t)
         \/ ~Busy(t) /\ \E op \in Ops[t] : \E p : Begin(t, op, p) /\ Began(t, op, p)
<1>1. ASSUME NEW u \in Thread, Step(u)
      PROVE  call'[t] = call[t] \/ (Step(t) /\ Busy(t) /\ Advanced(t))
  BY <1>1, StepMoves, IdleIs DEF OnlyCallOf
<1>2. ASSUME NEW u \in Thread, NEW op \in Ops[u], NEW p, Begin(u, op, p)
      PROVE  \/ call'[t] = call[t]
             \/ ~Busy(t) /\ \E o \in Ops[t] : \E q : Begin(t, o, q) /\ Began(t, o, q)
  <2>1. OnlyCallOf(u) /\ Began(u, op, p) /\ ~Busy(u)
    BY <1>2, BeginMoves DEF Begin
  <2>2. QED
    BY <1>2, <2>1, Zenon DEF OnlyCallOf
<1>3. ASSUME NEW h \in Process, Die(h)
      PROVE  call'[t] = call[t]
  BY <1>3, DieMoves, IdleIs
<1>4. QED
  BY <1>1, <1>2, <1>3, NextIs, Zenon

HasSeen(s) ==
  s \in [registered : {s.registered}, gone : {s.gone}, granted : {s.granted}]

SeenShapes == \A t \in Thread : HasSeen(since[t])

LEMMA SeenIs ==
  ASSUME SeenShapes, Next, NEW t \in Thread
  PROVE  /\ HasSeen(since'[t])
         /\ call'[t].todo # << >> /\ call'[t].op = "remove" =>
              since'[t].granted = since[t].granted \cup (grants' \ grants)
         /\ call'[t].todo # << >> /\ call'[t].op \in RecordOps =>
              since'[t].registered =
                (IF Busy(t) THEN since[t].registered ELSE Registered(registry) \cup ReadBefore(t))
                  \cup Registered(registry')
         /\ call'[t].todo # << >> /\ call'[t].op \in {"start", "register"} =>
              since'[t].gone = since[t].gone \cup (Project \ Registered(registry'))
<1>1. since'[t] = Seen(t) /\ HasSeen(since[t])
  BY NextIs DEF SeenShapes
<1>2. CASE call'[t].todo = << >>
  <2>1. since'[t] = [registered |-> {}, gone |-> {}, granted |-> {}]
    BY <1>1, <1>2, Zenon DEF Seen
  <2>2. QED
    BY <1>2, <2>1 DEF HasSeen
<1>3. CASE call'[t].todo # << >>
  <2> DEFINE fresh == Registered(registry')
  <2> DEFINE before == IF Busy(t) THEN since[t].registered
                       ELSE Registered(registry) \cup ReadBefore(t)
  <2>1. Seen(t) =
          CASE call'[t].op \in {"connect", "push", "grant"} ->
                 [since[t] EXCEPT !.registered = before \cup fresh]
            [] call'[t].op \in {"start", "register"} ->
                 [since[t] EXCEPT !.gone = @ \cup (Project \ fresh)]
            [] call'[t].op = "remove" -> [since[t] EXCEPT !.granted = @ \cup (grants' \ grants)]
            [] OTHER -> since[t]
    BY <1>3, Zenon DEF Seen
  <2> DEFINE all == before \cup fresh
  <2> DEFINE gone == since[t].gone \cup (Project \ fresh)
  <2> DEFINE granted == since[t].granted \cup (grants' \ grants)
  <2>2. CASE call'[t].op \in RecordOps
    <3>1. since'[t] = [since[t] EXCEPT !.registered = all]
      BY <1>1, <2>1, <2>2, Zenon DEF RecordOps
    <3>2. call'[t].op # "remove" /\ call'[t].op \notin {"start", "register"}
      BY <2>2 DEF RecordOps
    <3> HIDE DEF all
    <3>3. HasSeen(since'[t]) /\ since'[t].registered = all
      BY <1>1, <3>1 DEF HasSeen
    <3>4. QED
      BY <3>2, <3>3, Zenon DEF all
  <2>3. CASE call'[t].op \in {"start", "register"}
    <3>1. since'[t] = [since[t] EXCEPT !.gone = gone]
      BY <1>1, <2>1, <2>3, Zenon
    <3>2. call'[t].op # "remove" /\ call'[t].op \notin RecordOps
      BY <2>3 DEF RecordOps
    <3> HIDE DEF gone
    <3>3. HasSeen(since'[t]) /\ since'[t].gone = gone
      BY <1>1, <3>1 DEF HasSeen
    <3>4. QED
      BY <3>2, <3>3, Zenon DEF gone
  <2>4. CASE call'[t].op = "remove"
    <3>1. since'[t] = [since[t] EXCEPT !.granted = granted]
      BY <1>1, <2>1, <2>4, Zenon
    <3>2. call'[t].op \notin RecordOps /\ call'[t].op \notin {"start", "register"}
      BY <2>4 DEF RecordOps
    <3> HIDE DEF granted
    <3>3. HasSeen(since'[t]) /\ since'[t].granted = granted
      BY <1>1, <3>1 DEF HasSeen
    <3>4. QED
      BY <3>2, <3>3, Zenon DEF granted
  <2>5. CASE call'[t].op \notin RecordOps \cup {"start", "register", "remove"}
    <3>1. since'[t] = since[t]
      BY <1>1, <2>1, <2>5, Zenon DEF RecordOps
    <3>2. QED
      BY <1>1, <2>5, <3>1
  <2>6. QED
    BY <2>2, <2>3, <2>4, <2>5
<1>4. QED
  BY <1>2, <1>3

Revoked ==
  \A t \in Thread :
    Busy(t) /\ Op(t) = "remove" /\ ~At(t, "revoke") =>
      (Project1(t) \in grants => Project1(t) \in since[t].granted)

LEMMA NextRevoked ==
  ASSUME Shapes, SeenShapes, Revoked, Next
  PROVE  SeenShapes' /\ Revoked'
<1>1. SeenShapes'
  BY SeenIs DEF SeenShapes
<1>2. SUFFICES ASSUME NEW t \in Thread, Busy(t)', Op(t)' = "remove", ~At(t, "revoke")',
                      (Project1(t) \in grants)'
               PROVE  (Project1(t) \in since[t].granted)'
  BY <1>1 DEF Revoked
<1>3. since'[t].granted = since[t].granted \cup (grants' \ grants)
  BY <1>2, SeenIs DEF Busy, Op
<1>4. CASE call'[t] = call[t]
  BY <1>2, <1>3, <1>4 DEF Revoked, Busy, Op, At, Project1
<1>5. CASE Step(t) /\ Busy(t) /\ Advanced(t)
  <2>1. Op(t) = "remove" /\ Project1(t)' = Project1(t)
    BY <1>2, <1>5 DEF Advanced, Op, Project1
  <2>2. CASE At(t, "revoke")
    <3>1. Revoke(t)
      BY <1>5, <2>2, RevokeStep
    <3>2. ~Return(t)
      <4>1. call'[t].todo # << >>
        BY <1>2 DEF Busy
      <4>2. QED
        BY <4>1, IdleIs, SetCall DEF Return
    <3>3. grants' = grants \ {Project1(t)}
      BY <3>1, <3>2 DEF Revoke
    <3>4. QED
      BY <1>2, <2>1, <3>3
  <2>3. CASE ~At(t, "revoke")
    BY <1>2, <1>3, <1>5, <2>1, <2>3 DEF Revoked
  <2>4. QED
    BY <2>2, <2>3
<1>6. ASSUME NEW op \in Ops[t], NEW p, Began(t, op, p)
      PROVE  FALSE
  <2>1. op = "remove"
    BY <1>2, <1>6 DEF Began, Op
  <2>2. StepFacts("remove") /\ "remove" \in AllOps
    BY AllStepFacts DEF AllOps
  <2>3. Steps["remove"][0 + 1] = "revoke"
    BY <2>2 DEF StepFacts
  <2>4. IsCall(call'[t]) /\ Done(call'[t]) = 0 /\ call'[t].todo # << >> /\ call'[t].op = "remove"
    BY <1>6, <2>1, NextShapes DEF Began, Shapes
  <2>5. Head(call'[t].todo) = "revoke"
    BY <2>3, <2>4, CallFacts
  <2>6. QED
    BY <1>2, <2>5 DEF At
<1>7. QED
  BY <1>2, <1>4, <1>5, <1>6, CallMoves DEF Busy

\* A removal that has revoked leaves no grants but those somebody else made since it began.
THEOREM RevokedInvariant == Spec => [](SeenShapes /\ Revoked)
<1>1. Init => SeenShapes /\ Revoked
  BY DEF Init, SeenShapes, HasSeen, Revoked, Busy, Idle
<1>2. Shapes /\ SeenShapes /\ Revoked /\ [Next]_vars => (SeenShapes /\ Revoked)'
  <2>1. ASSUME Shapes, SeenShapes, Revoked, UNCHANGED vars
        PROVE  (SeenShapes /\ Revoked)'
    BY <2>1 DEF vars, SeenShapes, Revoked, Busy, Op, At, Project1
  <2>2. QED
    BY <2>1, NextRevoked
<1>3. QED
  BY <1>1, <1>2, ShapesInvariant, PTL DEF Spec

\* A project leaves the registry without grants, but for those made while it was being removed.
THEOREM RemovedWithout == Spec => RemovedWithoutGrants
<1> DEFINE RemovedSo ==
      \A t \in Thread : At(t, "write") /\ Op(t) = "remove" /\ call'[t] # call[t] =>
        (Project1(t) \in grants => Project1(t) \in since[t].granted)
<1>1. Revoked => RemovedSo
  BY DEF Revoked, At
<1>2. SeenShapes /\ Revoked /\ [Next]_vars => [RemovedSo]_vars
  BY <1>1
<1>3. QED
  BY <1>2, RevokedInvariant, PTL DEF Spec, RemovedWithoutGrants

----------------------------------------------------------------------------
(* Records.  What a call that records something for a project looks it up  *)
(* in was registered since the call began, or read before by a thread of   *)
(* the same desktop.  No start comes between: it waits until the desktop   *)
(* has stopped, and its other threads for it.                              *)

\* What a thread has read is what is registered, or was when it read.
LEMMA ReadMoves ==
  ASSUME Shapes, NEW t \in Thread, Step(t)
  PROVE  call'[t].read \subseteq call[t].read \cup Registered(registry) \cup Registered(registry')
<1> DEFINE all == call[t].read \cup Registered(registry) \cup Registered(registry')
<1>0. Busy(t)
  BY StepMoves
<1>1. CASE Returns(t)
  BY <1>1, IdleIs, SetCall DEF Returns, Idle
<1>2. ASSUME NEW d, Proceeds(t, d), d.read \subseteq all
      PROVE  call'[t].read \subseteq all
  <2>1. call'[t] = Idle \/ call'[t].read = d.read
    BY <1>0, <1>2, Proceeding DEF Continued
  <2>2. QED
    BY <1>2, <2>1 DEF Idle
<1>3. CASE Refresh(t)
  BY <1>2, <1>3, KeepIs DEF Refresh
<1>4. CASE Cache(t)
  BY <1>2, <1>4, CacheIs
<1>5. CASE LookUp(t) \/ Revoke(t) \/ Grant(t) \/ Provider(t) \/ Save(t) \/ NothingToSave(t) \/ Run(t)
  <2>1. Continue(t) \/ Return(t)
    BY <1>5, Zenon DEF LookUp, Revoke, Grant, Provider, Save, NothingToSave, Run
  <2>2. CASE Continue(t)
    BY <1>2, <2>2, ContinueIs
  <2>3. CASE Return(t)
    BY <1>1, <2>3 DEF Return, Returns
  <2>4. QED
    BY <2>1, <2>2, <2>3
<1>6. CASE Read(t)
  BY <1>2, <1>6, ReadIs
<1>7. CASE UpdateFails(t) \/ Fails(t)
  BY <1>1, <1>7, Zenon DEF UpdateFails, Fails, Return, Returns
<1>8. CASE Write(t)
  <2>1. registry' = call[t].held /\ (Keep(t, Registered(call[t].held)) \/ Return(t))
    BY <1>8, Zenon DEF Write
  <2>2. CASE Return(t)
    BY <1>1, <2>2 DEF Return, Returns
  <2>3. CASE Keep(t, Registered(call[t].held))
    <3>1. PICK d : Proceeds(t, d) /\ d.read = Registered(call[t].held)
      BY <2>3, KeepIs
    <3>2. d.read \subseteq all
      BY <2>1, <3>1
    <3>3. QED
      BY <1>2, <3>1, <3>2
  <2>4. QED
    BY <2>1, <2>2, <2>3
<1>9. CASE Take(t)
  <2>1. CASE call[t].migrated = {}
    BY <1>2, <1>9, <2>1, ContinueIs DEF Take
  <2>2. CASE call[t].migrated # {}
    <3>1. PICK p : call' = [call EXCEPT ![t].migrated = @ \ {p}]
      BY <1>9, <2>2 DEF Take
    <3> DEFINE left == call[t].migrated \ {p}
    <3>2. PICK d : d = [call[t] EXCEPT !.migrated = left]
      OBVIOUS
    <3>3. call' = [call EXCEPT ![t] = d]
      BY <3>1, <3>2, Zenon
    <3> HIDE DEF left
    <3>4. HasFields(call[t])
      BY DEF Shapes, IsCall
    <3>5. d.read = call[t].read
      BY <3>2, <3>4 DEF HasFields
    <3>6. call'[t] = d
      BY <3>3 DEF Shapes
    <3>7. QED
      BY <3>5, <3>6
  <2>3. QED
    BY <2>1, <2>2
<1>10. CASE Format(t)
  BY <1>2, <1>10, FormatIs
<1>11. CASE Load(t)
  BY <1>2, <1>11, HoldIs DEF Load, Shapes
<1>12. CASE Migrate(t)
  BY <1>2, <1>12, MigrateIs
<1>13. QED
  BY <1>3, <1>4, <1>5, <1>6, <1>7, <1>8, <1>9, <1>10, <1>11, <1>12, Zenon DEF Step

LEMMA RunEnds ==
  ASSUME Shapes, NEW t \in Thread, Run(t)
  PROVE  Op(t) = "start" /\ call'[t] = Idle /\ Busy(t)
<1> DEFINE c == call[t]
<1>1. At(t, "run") /\ Continue(t)
  BY DEF Run
<1>2. /\ IsCall(c) /\ c.todo # << >> /\ StepFacts(c.op)
      /\ Done(c) + 1 \in 1..Len(Steps[c.op]) /\ Steps[c.op][Done(c) + 1] = "run"
  BY <1>1, AtIs DEF Op
<1>3. c.op = "start" /\ Done(c) + 1 = Len(Steps[c.op])
  BY <1>2 DEF StepFacts
<1>4. After(c) = Idle
  <2>1. Len(Steps[c.op]) \in Nat /\ Len(c.todo) \in Nat
    BY <1>2 DEF StepFacts, IsCall
  <2>2. Done(c) = Len(Steps[c.op]) - Len(c.todo)
    BY DEF Done
  <2>3. ~(Len(c.todo) > 1)
    <3>1. \A m, n \in Nat : (m - n) + 1 = m => ~(n > 1)
      OBVIOUS
    <3>2. QED
      BY <1>3, <2>1, <2>2, <3>1, Zenon
  <2>4. QED
    BY <1>2, <2>3, AfterIs DEF Continued
<1>5. QED
  BY <1>1, <1>3, <1>4, IdleIs, SetCall DEF Continue, Op, At

Apps ==
  /\ up = [h \in Process |-> up[h]]
  /\ cache = [h \in Process |-> cache[h]]
  /\ \A t \in Thread : Busy(t) /\ Op(t) \notin {"start", "broker_register"} => up[Home[t]]
  /\ \A t \in Thread : Busy(t) /\ Op(t) = "start" =>
       /\ ~up[Home[t]]
       /\ \A u \in Thread \ {t} : Busy(u) /\ Home[u] = Home[t] => Op(u) = "broker_register"

\* Whether a desktop runs and what its copy is changes with a start, a death, and a copy taken.
LEMMA AppMoves ==
  ASSUME Shapes, Apps, Next
  PROVE  /\ up' = [h \in Process |-> up'[h]]
         /\ cache' = [h \in Process |-> cache'[h]]
         /\ \A h \in Process :
              \/ up'[h] = up[h]
              \/ up'[h] = TRUE /\ \E u \in Thread : Home[u] = h /\ Run(u)
              \/ \A t \in Thread : Home[t] = h => call'[t] = Idle
         /\ \A h \in Process :
              \/ cache'[h] = cache[h]
              \/ \E u \in Thread : Home[u] = h /\ Cache(u) /\ cache'[h] = call[u].read
              \/ \E u \in Thread : Home[u] = h /\ Run(u)
<1>1. \A t \in Thread : Home[t] \in Process
  BY DEF Process
<1>2. ASSUME NEW t \in Thread, Run(t)
      PROVE  /\ up' = [h \in Process |-> IF h = Home[t] THEN TRUE ELSE up[h]]
             /\ cache' = [h \in Process |-> cache'[h]]
             /\ \A h \in Process : h # Home[t] => cache'[h] = cache[h]
  <2>1. /\ up' = [up EXCEPT ![Home[t]] = TRUE]
        /\ cache' = [cache EXCEPT ![Home[t]] = Registered(call[t].held)]
    BY <1>2 DEF Run
  <2>2. QED
    BY <1>1, <2>1 DEF Apps
<1>3. ASSUME NEW t \in Thread, Cache(t)
      PROVE  /\ up' = up
             /\ cache' = [h \in Process |-> IF h = Home[t] THEN call[t].read ELSE cache[h]]
  <2>1. up' = up /\ cache' = [cache EXCEPT ![Home[t]] = call[t].read]
    BY <1>3 DEF Cache
  <2>2. QED
    BY <1>1, <2>1 DEF Apps
<1>4. ASSUME NEW t \in Thread, Step(t), ~Run(t), ~Cache(t)
      PROVE  UNCHANGED <<up, cache>>
  <2>1. up' = up
    BY <1>4, Zenon DEF Step, Refresh, LookUp, Read, UpdateFails, Write, Take, Revoke, Grant,
       Provider, Format, Load, Migrate, Save, NothingToSave, Fails
  <2>2. cache' = cache
    BY <1>4, Zenon DEF Step, Refresh, LookUp, Read, UpdateFails, Write, Take, Revoke, Grant,
       Provider, Format, Load, Migrate, Save, NothingToSave, Fails
  <2>3. QED
    BY <2>1, <2>2
<1>5. ASSUME NEW t \in Thread, NEW op \in Ops[t], NEW p, Begin(t, op, p)
      PROVE  UNCHANGED <<up, cache>>
  BY <1>5 DEF Begin
<1>6. ASSUME NEW h \in Process, Die(h)
      PROVE  /\ cache' = cache
             /\ up' = [g \in Process |-> IF g = h THEN FALSE ELSE up[g]]
             /\ \A t \in Thread : Home[t] = h => call'[t] = Idle
  <2>1. cache' = cache /\ up' = [up EXCEPT ![h] = FALSE]
    BY <1>6 DEF Die
  <2>2. \A t \in Thread : Home[t] = h => call'[t] = Idle
    BY <1>6, DieMoves
  <2>3. QED
    BY <2>1, <2>2 DEF Apps
<1>7. CASE \E t \in Thread : Run(t)
  <2>1. PICK t \in Thread : Run(t)
    BY <1>7
  <2>2. \A h \in Process : IF h = Home[t] THEN up'[h] = TRUE ELSE up'[h] = up[h]
    BY <1>2, <2>1
  <2>3. QED
    BY <1>2, <2>1, <2>2
<1>8. CASE \E t \in Thread : Cache(t)
  BY <1>3, <1>8 DEF Apps
<1>9. CASE UNCHANGED <<up, cache>>
  BY <1>9 DEF Apps
<1>10. CASE \E h \in Process : Die(h)
  <2>1. PICK h \in Process : Die(h)
    BY <1>10
  <2>2. \A g \in Process : g # h => up'[g] = up[g]
    BY <1>6, <2>1
  <2>3. cache' = [g \in Process |-> cache'[g]] /\ \A g \in Process : cache'[g] = cache[g]
    BY <1>6, <2>1 DEF Apps
  <2>4. QED
    BY <1>6, <2>1, <2>2, <2>3
<1>11. QED
  BY <1>4, <1>5, <1>7, <1>8, <1>9, <1>10, NextIs, Zenon

LEMMA NextApps ==
  ASSUME Shapes, Apps, Next
  PROVE  Apps'
<1>0. \A t \in Thread : Home[t] \in Process
  BY DEF Process
<1>1. ASSUME NEW t \in Thread, Busy(t)', Op(t)' \notin {"start", "broker_register"}
      PROVE  up'[Home[t]]
  <2>1. up[Home[t]]
    <3>1. CASE call'[t] = call[t]
      BY <1>1, <3>1 DEF Apps, Busy, Op
    <3>2. CASE Step(t) /\ Busy(t) /\ Advanced(t)
      BY <1>1, <3>2 DEF Apps, Op, Advanced
    <3>3. ASSUME NEW op \in Ops[t], NEW p, Begin(t, op, p), Began(t, op, p)
          PROVE  up[Home[t]]
      BY <1>1, <3>3 DEF Begin, Began, Op
    <3>4. QED
      BY <1>1, <3>1, <3>2, <3>3, CallMoves DEF Busy
  <2>2. call'[t] # Idle
    BY <1>1, IdleIs DEF Busy
  <2>3. QED
    BY <1>0, <2>1, <2>2, AppMoves
<1>2. ASSUME NEW t \in Thread, Busy(t)', Op(t)' = "start"
      PROVE  /\ ~up'[Home[t]]
             /\ \A u \in Thread \ {t} : Busy(u)' /\ Home[u] = Home[t] => Op(u)' = "broker_register"
  <2>1. /\ ~up[Home[t]]
        /\ \A u \in Thread \ {t} : Busy(u) /\ Home[u] = Home[t] => Op(u) = "broker_register"
    <3>1. CASE call'[t] = call[t]
      BY <1>2, <3>1 DEF Apps, Busy, Op
    <3>2. CASE Step(t) /\ Busy(t) /\ Advanced(t)
      BY <1>2, <3>2 DEF Apps, Op, Advanced
    <3>3. ASSUME NEW op \in Ops[t], NEW p, Begin(t, op, p), Began(t, op, p)
          PROVE  ~up[Home[t]] /\ \A u \in Thread : Home[u] = Home[t] => ~Busy(u)
      BY <1>2, <3>3 DEF Begin, Began, Op
    <3>4. QED
      BY <1>2, <3>1, <3>2, <3>3, CallMoves DEF Busy
  <2>2. call'[t] # Idle
    BY <1>2, IdleIs DEF Busy
  <2>3. ~\E u \in Thread : Home[u] = Home[t] /\ Run(u)
    BY <2>1, <2>2, RunEnds
  <2>4. ~up'[Home[t]]
    BY <1>0, <2>1, <2>2, <2>3, AppMoves
  <2>5. ASSUME NEW u \in Thread \ {t}, Busy(u)', Home[u] = Home[t]
        PROVE  Op(u)' = "broker_register"
    <3>1. CASE call'[u] = call[u]
      BY <2>1, <2>5, <3>1 DEF Busy, Op
    <3>2. CASE Step(u) /\ Busy(u) /\ Advanced(u)
      BY <2>1, <2>5, <3>2 DEF Op, Advanced
    <3>3. ASSUME NEW op \in Ops[u], NEW p, Begin(u, op, p), Began(u, op, p)
          PROVE  op = "broker_register"
      <4>1. call'[t] = call[t]
        BY <2>5, <3>3, BeginMoves DEF OnlyCallOf
      <4>2. Busy(t)
        BY <1>2, <4>1 DEF Busy
      <4>3. QED
        BY <2>1, <2>5, <3>3, <4>2 DEF Begin
    <3>4. QED
      BY <2>5, <3>1, <3>2, <3>3, CallMoves DEF Busy, Began, Op
  <2>6. QED
    BY <2>4, <2>5
<1>3. QED
  BY <1>1, <1>2, AppMoves, Zenon DEF Apps

LEMMA CacheStep ==
  ASSUME NEW t \in Thread, Step(t), At(t, "cache")
  PROVE  Cache(t)
<1>1. \A step : At(t, step) => step = "cache"
  BY DEF At
<1>2. ~(Refresh(t) \/ LookUp(t) \/ Read(t) \/ Write(t) \/ Take(t) \/ Revoke(t) \/ Grant(t))
  BY <1>1 DEF Refresh, LookUp, Read, Write, Take, Revoke, Grant
<1>3. ~(Provider(t) \/ Format(t) \/ Load(t) \/ Migrate(t) \/ Run(t))
  BY <1>1 DEF Provider, Format, Load, Migrate, Run
<1>4. ~(Save(t) \/ NothingToSave(t) \/ Fails(t) \/ UpdateFails(t))
  BY <1>1 DEF Save, NothingToSave, Fails, UpdateFails
<1>5. QED
  BY <1>2, <1>3, <1>4, Zenon DEF Step

LEMMA LookUpStep ==
  ASSUME NEW t \in Thread, Step(t), At(t, "lookup")
  PROVE  LookUp(t)
<1>1. \A step : At(t, step) => step = "lookup"
  BY DEF At
<1>2. ~(Refresh(t) \/ Cache(t) \/ Read(t) \/ Write(t) \/ Take(t) \/ Revoke(t) \/ Grant(t))
  BY <1>1 DEF Refresh, Cache, Read, Write, Take, Revoke, Grant
<1>3. ~(Provider(t) \/ Format(t) \/ Load(t) \/ Migrate(t) \/ Run(t))
  BY <1>1 DEF Provider, Format, Load, Migrate, Run
<1>4. ~(Save(t) \/ NothingToSave(t) \/ Fails(t) \/ UpdateFails(t))
  BY <1>1 DEF Save, NothingToSave, Fails, UpdateFails
<1>5. QED
  BY <1>2, <1>3, <1>4, Zenon DEF Step

Records(t) ==
  Busy(t) /\ Op(t) \in RecordOps =>
    /\ Registered(registry) \subseteq since[t].registered
    /\ \A u \in Thread : Home[u] = Home[t] => call[u].read \subseteq since[t].registered
    /\ Done(call[t]) >= 2 => cache[Home[t]] \subseteq since[t].registered
    /\ Done(call[t]) >= 3 => Project1(t) \in since[t].registered

\* What any thread has read after a step.
LEMMA ReadsAre ==
  ASSUME Shapes, Next, NEW u \in Thread
  PROVE  /\ call'[u].read \subseteq call[u].read \cup Registered(registry) \cup Registered(registry')
         /\ ~Busy(u) /\ call'[u].todo # << >> => call'[u].read = {}
<1>1. ASSUME NEW t \in Thread, Step(t)
      PROVE  /\ call'[u].read \subseteq call[u].read \cup Registered(registry) \cup Registered(registry')
             /\ ~Busy(u) => call'[u] = call[u]
  <2>1. call'[u] = call[u] \/ u = t
    BY <1>1, StepMoves DEF OnlyCallOf
  <2>2. QED
    BY <1>1, <2>1, StepMoves, ReadMoves
<1>2. ASSUME NEW t \in Thread, NEW op \in Ops[t], NEW p, Begin(t, op, p)
      PROVE  call'[u] = call[u] \/ call'[u].read = {}
  BY <1>2, BeginMoves DEF OnlyCallOf, Began
<1>3. ASSUME NEW h \in Process, Die(h)
      PROVE  call'[u] = call[u] \/ call'[u] = Idle
  BY <1>3, DieMoves
<1>4. Idle.read = {} /\ Idle.todo = << >>
  BY DEF Idle
<1>5. QED
  BY <1>1, <1>2, <1>3, <1>4, NextIs DEF Busy

LEMMA NextRecords ==
  ASSUME Shapes, Apps, SeenShapes, Next, NEW t \in Thread, Records(t)
  PROVE  Records(t)'
<1> DEFINE fresh == Registered(registry')
<1> DEFINE before == IF Busy(t) THEN since[t].registered ELSE Registered(registry) \cup ReadBefore(t)
<1> DEFINE h == Home[t]
<1>1. SUFFICES ASSUME Busy(t)', Op(t)' \in RecordOps
               PROVE  /\ fresh \subseteq since'[t].registered
                      /\ \A u \in Thread : Home[u] = h => call'[u].read \subseteq since'[t].registered
                      /\ Done(call'[t]) >= 2 => cache'[h] \subseteq since'[t].registered
                      /\ Done(call'[t]) >= 3 => Project1(t)' \in since'[t].registered
  BY DEF Records
<1>2. since'[t].registered = before \cup fresh
  BY <1>1, SeenIs DEF Busy, Op
<1>3. h \in Process
  BY DEF Process
<1>4. call'[t].todo # << >> /\ IsCall(call'[t])
  BY <1>1, NextShapes DEF Busy, Shapes
<1>5. CASE ~Busy(t)
  <2>1. Done(call'[t]) = 0
    BY <1>4, <1>5, CallMoves DEF Began, Busy
  <2>2. ASSUME NEW u \in Thread, Home[u] = h
        PROVE  call'[u].read \subseteq since'[t].registered
    <3>1. CASE u = t
      BY <1>4, <1>5, <3>1, ReadsAre
    <3>2. CASE u # t
      <4>1. call[u].read \subseteq ReadBefore(t)
        BY <2>2, <3>2 DEF ReadBefore
      <4>2. QED
        BY <1>2, <1>5, <4>1, ReadsAre
    <3>3. QED
      BY <3>1, <3>2
  <2>3. QED
    BY <1>2, <2>1, <2>2
<1>6. CASE Busy(t)
  <2>1. /\ call'[t].op = call[t].op /\ call'[t].project = call[t].project
        /\ call'[t] = call[t] \/ (Step(t) /\ Advanced(t))
    BY <1>4, <1>6, CallMoves DEF Advanced
  <2>2. Op(t) \in RecordOps
    BY <1>1, <2>1 DEF Op
  <2>3. /\ Registered(registry) \subseteq before
        /\ \A u \in Thread : Home[u] = h => call[u].read \subseteq before
        /\ Done(call[t]) >= 2 => cache[h] \subseteq before
        /\ Done(call[t]) >= 3 => Project1(t) \in before
    BY <1>6, <2>2 DEF Records
  <2>4. \A u \in Thread : Home[u] = h => call'[u].read \subseteq since'[t].registered
    BY <1>2, <2>3, ReadsAre
  <2>5. /\ IsCall(call[t]) /\ call[t].todo # << >> /\ StepFacts(Op(t))
        /\ Done(call[t]) \in Nat /\ Head(call[t].todo) = Steps[Op(t)][Done(call[t]) + 1]
    BY <1>6, CallFacts DEF Shapes, Busy, Op
  <2>6. Done(call'[t]) = Done(call[t]) \/ (Step(t) /\ Done(call'[t]) = Done(call[t]) + 1)
    BY <2>1 DEF Advanced
  <2>7. ASSUME Done(call'[t]) >= 2
        PROVE  cache'[h] \subseteq since'[t].registered
    <3>1. CASE Done(call[t]) >= 2
      <4>1. ~\E u \in Thread : Home[u] = h /\ Run(u)
        <5>1. Op(t) \notin {"start", "broker_register"}
          BY <2>2 DEF RecordOps
        <5>2. up[h]
          BY <1>6, <5>1 DEF Apps
        <5>3. QED
          BY <5>2, RunEnds DEF Apps
      <4>2. cache'[h] = cache[h] \/ \E u \in Thread : Home[u] = h /\ cache'[h] = call[u].read
        BY <1>3, <4>1, AppMoves
      <4>3. QED
        BY <1>2, <2>3, <3>1, <4>2
    <3>2. CASE ~(Done(call[t]) >= 2)
      <4>1. Step(t) /\ Done(call[t]) = 1
        BY <2>5, <2>6, <2>7, <3>2
      <4>2. At(t, "cache")
        BY <1>6, <2>2, <2>5, <4>1 DEF StepFacts, At
      <4>3. cache' = [cache EXCEPT ![h] = call[t].read]
        BY <4>1, <4>2, CacheStep DEF Cache
      <4>4. cache'[h] = call[t].read
        BY <1>3, <4>3 DEF Apps
      <4>5. QED
        BY <1>2, <2>3, <4>4
    <3>3. QED
      BY <3>1, <3>2
  <2>8. ASSUME Done(call'[t]) >= 3
        PROVE  Project1(t)' \in since'[t].registered
    <3>1. Project1(t)' = Project1(t)
      BY <2>1 DEF Project1
    <3>2. CASE Done(call[t]) >= 3
      BY <1>2, <2>3, <3>1, <3>2
    <3>3. CASE ~(Done(call[t]) >= 3)
      <4>1. Step(t) /\ Done(call[t]) = 2
        BY <2>5, <2>6, <2>8, <3>3
      <4>2. At(t, "lookup")
        BY <1>6, <2>2, <2>5, <4>1 DEF StepFacts, At
      <4>3. LookUp(t)
        BY <4>1, <4>2, LookUpStep
      <4>4. ~Return(t)
        BY <1>4, IdleIs, SetCall DEF Return
      <4>5. Project1(t) \in cache[h]
        BY <4>3, <4>4 DEF LookUp
      <4>6. cache[h] \subseteq before
        BY <2>3, <4>1
      <4>7. QED
        BY <1>2, <3>1, <4>5, <4>6
    <3>4. QED
      BY <3>2, <3>3
  <2>9. QED
    BY <1>2, <2>4, <2>7, <2>8
<1>7. QED
  BY <1>5, <1>6

AllRecords == \A t \in Thread : Records(t)

\* Whatever a call of a running desktop has looked up was registered since the call began, or read then.
THEOREM RecordsInvariant == Spec => [](Apps /\ AllRecords)
<1>1. Init => Apps /\ AllRecords
  BY DEF Init, Apps, AllRecords, Records, Busy, Idle
<1>2. Shapes /\ SeenShapes /\ Apps /\ AllRecords /\ [Next]_vars => (Apps /\ AllRecords)'
  <2>1. ASSUME Apps, AllRecords, UNCHANGED vars
        PROVE  (Apps /\ AllRecords)'
    <3>1. UNCHANGED <<up, cache, call, registry, since>>
      BY <2>1 DEF vars
    <3>2. Apps'
      BY <2>1, <3>1 DEF Apps, Busy, Op
    <3>3. AllRecords'
      BY <2>1, <3>1 DEF AllRecords, Records, Busy, Op, Project1, Done, Registered
    <3>4. QED
      BY <3>2, <3>3
  <2>2. ASSUME Shapes, SeenShapes, Apps, AllRecords, Next
        PROVE  (Apps /\ AllRecords)'
    BY <2>2, NextApps, NextRecords DEF AllRecords
  <2>3. QED
    BY <2>1, <2>2
<1>3. Spec => []SeenShapes
  BY RevokedInvariant, PTL
<1>4. QED
  BY <1>1, <1>2, <1>3, ShapesInvariant, PTL DEF Spec

\* A channel, a receipt or a grant is recorded only for a project that was registered during the
\* call, or in a copy another thread of the same desktop had read.
THEOREM RecordedOnly == Spec => RecordedForRegistered
<1> DEFINE Recorded ==
      \A t \in Thread : call'[t] # call[t] =>
        /\ At(t, "write") /\ Op(t) \in {"connect", "push"} => Project1(t) \in since[t].registered
        /\ At(t, "grant") /\ grants' # grants => Project1(t) \in since[t].registered
<1>1. ASSUME Shapes, AllRecords
      PROVE  Recorded
  <2>1. SUFFICES ASSUME NEW t \in Thread,
                        \/ At(t, "write") /\ Op(t) \in {"connect", "push"}
                        \/ At(t, "grant")
                 PROVE  Project1(t) \in since[t].registered
    OBVIOUS
  <2> DEFINE s == Steps[Op(t)]
  <2> DEFINE n == Done(call[t])
  <2>2. /\ StepFacts(Op(t)) /\ n \in Nat /\ n + 1 \in 1..Len(s)
        /\ s[n + 1] = "write" \/ s[n + 1] = "grant"
        /\ At(t, "grant") => s[n + 1] = "grant"
    BY <1>1, <2>1, AtIs
  <2>3. Op(t) \in RecordOps
    BY <2>1, <2>2 DEF RecordOps, StepFacts
  <2>4. s[1] = "refresh" /\ s[2] = "cache" /\ s[3] = "lookup"
    BY <2>2, <2>3 DEF StepFacts
  <2>5. n >= 3
    BY <2>2, <2>4
  <2>6. Busy(t)
    BY <2>1 DEF At
  <2>7. QED
    BY <1>1, <2>3, <2>5, <2>6 DEF AllRecords, Records
<1>2. Shapes /\ AllRecords /\ [Next]_vars => [Recorded]_vars
  BY <1>1
<1>3. QED
  BY <1>2, ShapesInvariant, RecordsInvariant, PTL DEF Spec, RecordedForRegistered

----------------------------------------------------------------------------
(* Labels.  A migration takes the labels of a project out of its manifest  *)
(* when the registry has them, unless somebody else's copy without them    *)
(* replaces it in between.  Only a start writes a copy that it has read    *)
(* before, and its copy lacks a label only if it could not read the        *)
(* manifest; so labels may be lost if a second desktop starts meanwhile,   *)
(* and a manifest cannot be read.                                          *)

OneDesktopStarts ==
  \A t, u \in Thread :
    "start" \in Ops[t] /\ {"start", "register"} \cap Ops[u] # {} => Home[t] = Home[u]

\* The registry a call is going to write, and the labels it is going to take.
LabelledCall(t) ==
  Busy(t) =>
    /\ Op(t) \in Ops[t]
    /\ Op(t) # "start" => call[t].migrated \subseteq {Project1(t)}
    /\ Op(t) = "start" /\ Done(call[t]) >= 3 =>
         /\ \A p \in call[t].migrated : LabelOf(call[t].held, p) # "none"
         /\ "io" \notin Fault =>
              \A p \in legacy \cap Registered(call[t].held) : LabelOf(call[t].held, p) # "none"

\* A migration that has written the registry.
Migrating(t) ==
  /\ Busy(t)
  /\ \/ Op(t) = "register" /\ Done(call[t]) >= 2
     \/ Op(t) = "start" /\ Done(call[t]) >= 4

LabelKept(t) ==
  Migrating(t) =>
    \A p \in call[t].migrated \cap legacy : p \in since[t].gone \/ LabelOf(registry, p) # "none"

LabelsInv ==
  /\ legacy \subseteq Project
  /\ \A t \in Thread : LabelledCall(t) /\ LabelKept(t)

LEMMA AtHead ==
  ASSUME Shapes, NEW t \in Thread, Busy(t)
  PROVE  /\ At(t, Steps[Op(t)][Done(call[t]) + 1])
         /\ Done(call[t]) \in Nat /\ Done(call[t]) + 1 \in 1..Len(Steps[Op(t)])
BY CallFacts DEF Shapes, At, Busy, Op

LEMMA StartAt ==
  ASSUME Shapes, NEW t \in Thread, NEW step, At(t, step), Op(t) = "start"
  PROVE  /\ Done(call[t]) \in 0..6
         /\ step = <<"format", "load", "migrate", "save", "take", "rewrite", "run">>[Done(call[t]) + 1]
<1>1. Steps["start"] = <<"format", "load", "migrate", "save", "take", "rewrite", "run">>
  BY DEF Steps
<1>2. /\ Done(call[t]) \in Nat /\ Done(call[t]) + 1 \in 1..Len(Steps["start"])
      /\ Steps["start"][Done(call[t]) + 1] = step
  BY AtIs
<1>3. QED
  BY <1>1, <1>2

LEMMA RegisterAt ==
  ASSUME Shapes, NEW t \in Thread, NEW step, At(t, step), Op(t) = "register"
  PROVE  Done(call[t]) \in 0..3 /\ step = <<"read", "write", "cache", "take">>[Done(call[t]) + 1]
<1>1. Steps["register"] = <<"read", "write", "cache", "take">>
  BY DEF Steps
<1>2. /\ Done(call[t]) \in Nat /\ Done(call[t]) + 1 \in 1..Len(Steps["register"])
      /\ Steps["register"][Done(call[t]) + 1] = step
  BY AtIs
<1>3. QED
  BY <1>1, <1>2

LEMMA MergedIs == \A label : Merged(label, TRUE) # "none" /\ Merged(label, FALSE) = label
BY DEF Merged

LEMMA MigratedLabels ==
  ASSUME NEW t \in Thread, NEW d, Migrated(t, d)
  PROVE  /\ \A p \in d.migrated : LabelOf(d.held, p) # "none"
         /\ "io" \notin Fault =>
              \A p \in legacy \cap Registered(d.held) : LabelOf(d.held, p) # "none"
<1> DEFINE r == call[t].held
<1>1. Registered(d.held) = Registered(r)
  BY DEF Migrated, Labels, Registered
<1>2. \A p \in d.migrated : p \in Registered(r) /\ d.held.projects[p] = Merged(r.projects[p], TRUE)
  BY DEF Migrated, Labels
<1>3. \A p \in d.migrated : LabelOf(d.held, p) # "none"
  BY <1>1, <1>2, MergedIs DEF LabelOf
<1>4. QED
  BY <1>1, <1>3 DEF Migrated

IsRecord(x) ==
  x = [projects |-> x.projects, selected |-> x.selected, channels |-> x.channels,
       receipts |-> x.receipts, old |-> x.old]

\* No update takes a label from a project that stays.
LEMMA EffectLabels ==
  ASSUME NEW op \in UpdateOps, NEW p, NEW r, IsRegistry(r), NEW m, NEW e \in Effects(op, p, r, m),
         NEW q, LabelOf(r, q) # "none"
  PROVE  \A h : h = [e EXCEPT !.old = FALSE] => LabelOf(h, q) # "none" \/ q \notin Registered(h)
<1>1. q \in Registered(r) /\ r.projects[q] # "none" /\ IsRecord(r)
  BY DEF LabelOf, IsRegistry, IsRecord
<1>2. ASSUME IsRecord(e), q \in DOMAIN e.projects => e.projects[q] # "none"
      PROVE  \A h : h = [e EXCEPT !.old = FALSE] => LabelOf(h, q) # "none" \/ q \notin Registered(h)
  <2>1. \A h : h = [e EXCEPT !.old = FALSE] => h.projects = e.projects
    BY <1>2 DEF IsRecord
  <2>2. QED
    BY <2>1, <1>2 DEF LabelOf, Registered
<1>3. CASE op \in {"register", "broker_register", "rename_file"}
  <2>1. PICK label : e = WithProject(r, p, label) /\ (q = p => label # "none")
    <3>1. CASE op = "register"
      <4>1. e = WithProject(r, p, Merged(LabelOf(r, p), m))
        BY <3>1, Zenon DEF Effects
      <4>2. q = p => Merged(LabelOf(r, p), m) # "none"
        BY DEF Merged
      <4>3. QED
        BY <4>1, <4>2
    <3>2. CASE op = "broker_register"
      <4>1. e = WithProject(r, p, LabelOf(r, p))
        BY <3>2, Zenon DEF Effects
      <4>2. QED
        BY <4>1
    <3>3. CASE op = "rename_file"
      <4>1. e = WithProject(r, p, "own")
        BY <3>3, Zenon DEF Effects
      <4>2. QED
        BY <4>1
    <3>4. QED
      BY <1>3, <3>1, <3>2, <3>3
  <2> DEFINE projects == [x \in Registered(r) \cup {p} |-> IF x = p THEN label ELSE r.projects[x]]
  <2>2. e = [r EXCEPT !.projects = projects]
    BY <2>1 DEF WithProject
  <2>3. q \in DOMAIN projects => projects[q] # "none"
    BY <1>1, <2>1
  <2> HIDE DEF projects
  <2>4. IsRecord(e) /\ e.projects = projects
    BY <1>1, <2>2 DEF IsRecord
  <2>5. QED
    BY <1>2, <2>3, <2>4
<1>4. CASE op = "remove"
  <2>1. e \in Without(r, p)
    BY <1>4, Zenon DEF Effects
  <2> DEFINE rest == Registered(r) \ {p}
  <2> DEFINE other == IF r.selected # p THEN {r.selected} ELSE IF rest = {} THEN {Nobody} ELSE rest
  <2> DEFINE projects == [x \in rest |-> r.projects[x]]
  <2> DEFINE channels == r.channels \ {p}
  <2> DEFINE receipts == SelectSeq(r.receipts, LAMBDA x : x # p)
  <2>2. e \in { [projects |-> projects, selected |-> s, channels |-> channels,
                 receipts |-> receipts, old |-> r.old] : s \in other }
    BY <2>1, Zenon DEF Without
  <2>3. q \in DOMAIN projects => projects[q] # "none"
    BY <1>1
  <2> HIDE DEF other, projects, channels, receipts
  <2>4. IsRecord(e) /\ e.projects = projects
    BY <2>2 DEF IsRecord
  <2>5. QED
    BY <1>2, <2>3, <2>4
<1>5. CASE op \in {"select", "rename_project", "connect", "remove_channel", "push"}
  <2>1. \/ e = r
        \/ \E x : e = [r EXCEPT !.selected = x]
        \/ \E x : e = [r EXCEPT !.channels = x]
        \/ \E x : e = [r EXCEPT !.receipts = x]
    <3>1. CASE op = "select"
      <4>1. e = [r EXCEPT !.selected = p]
        BY <3>1, Zenon DEF Effects
      <4>2. QED
        BY <4>1
    <3>2. CASE op = "rename_project"
      BY <3>2, Zenon DEF Effects
    <3>3. CASE op = "connect"
      <4>1. e = [r EXCEPT !.channels = @ \cup {p}]
        BY <3>3, Zenon DEF Effects
      <4>2. QED
        BY <4>1
    <3>4. CASE op = "remove_channel"
      <4>1. e = [r EXCEPT !.channels = @ \ {p}]
        BY <3>4, Zenon DEF Effects
      <4>2. QED
        BY <4>1
    <3>5. CASE op = "push"
      <4>1. e = WithReceipt(r, p)
        BY <3>5, Zenon DEF Effects
      <4>2. QED
        BY <4>1, Zenon DEF WithReceipt
    <3>6. QED
      BY <1>5, <3>1, <3>2, <3>3, <3>4, <3>5
  <2>2. IsRecord(e) /\ e.projects = r.projects
    BY <1>1, <2>1 DEF IsRecord
  <2>3. QED
    BY <1>1, <1>2, <2>2 DEF Registered
<1>6. QED
  BY <1>3, <1>4, <1>5 DEF UpdateOps

\* What becomes of the labels a call holds.
LEMMA LabelsMove ==
  ASSUME Shapes, NEW t \in Thread, Step(t), call'[t].todo # << >>
  PROVE  \/ Read(t) /\ call'[t].migrated \subseteq {Project1(t)}
         \/ At(t, "load")
         \/ At(t, "migrate") /\ Migrated(t, call'[t])
         \/ /\ call'[t].migrated \subseteq call[t].migrated
            /\ call'[t].held = call[t].held \/ At(t, "refresh") \/ At(t, "write")
<1>1. Busy(t) /\ call'[t] # Idle /\ ~Return(t)
  BY StepMoves, IdleIs, SetCall DEF Return
<1>2. ASSUME NEW d, Proceeds(t, d)
      PROVE  call'[t].held = d.held /\ call'[t].migrated = d.migrated
  BY <1>1, <1>2, Proceeding DEF Continued
<1>3. CASE Refresh(t)
  <2>1. PICK d : Proceeds(t, d) /\ d.migrated = call[t].migrated
    BY <1>3, KeepIs DEF Refresh
  <2>2. QED
    BY <1>2, <1>3, <2>1 DEF Refresh
<1>4. CASE Cache(t)
  BY <1>2, <1>4, CacheIs
<1>5. CASE LookUp(t) \/ Revoke(t) \/ Grant(t) \/ Provider(t) \/ Save(t) \/ NothingToSave(t) \/ Run(t)
  <2>1. Continue(t)
    BY <1>1, <1>5, Zenon DEF LookUp, Revoke, Grant, Provider, Save, NothingToSave, Run
  <2>2. QED
    BY <1>2, <2>1, ContinueIs
<1>6. CASE Read(t)
  <2>1. PICK d : Proceeds(t, d) /\ d.migrated \subseteq {Project1(t)}
    BY <1>6, ReadIs
  <2>2. QED
    BY <1>2, <1>6, <2>1
<1>7. CASE UpdateFails(t) \/ Fails(t)
  BY <1>1, <1>7, Zenon DEF UpdateFails, Fails
<1>8. CASE Write(t)
  <2>1. At(t, "write") /\ Keep(t, Registered(call[t].held))
    BY <1>1, <1>8 DEF Write
  <2>2. PICK d : Proceeds(t, d) /\ d.migrated = call[t].migrated
    BY <2>1, KeepIs
  <2>3. QED
    BY <1>2, <2>1, <2>2
<1>9. CASE Take(t)
  <2>1. CASE call[t].migrated = {}
    BY <1>2, <1>9, <2>1, ContinueIs DEF Take
  <2>2. CASE call[t].migrated # {}
    <3>1. PICK p : call' = [call EXCEPT ![t].migrated = @ \ {p}]
      BY <1>9, <2>2 DEF Take
    <3> DEFINE left == call[t].migrated \ {p}
    <3>2. PICK d : d = [call[t] EXCEPT !.migrated = left]
      OBVIOUS
    <3>3. call' = [call EXCEPT ![t] = d]
      BY <3>1, <3>2, Zenon
    <3>4. left \subseteq call[t].migrated
      OBVIOUS
    <3> HIDE DEF left
    <3>5. HasFields(call[t])
      BY DEF Shapes, IsCall
    <3>6. d.held = call[t].held /\ d.migrated = left
      BY <3>2, <3>5 DEF HasFields
    <3>7. call'[t] = d
      BY <3>3 DEF Shapes
    <3>8. QED
      BY <3>4, <3>6, <3>7
  <2>3. QED
    BY <2>1, <2>2
<1>10. CASE Format(t)
  BY <1>2, <1>10, FormatIs
<1>11. CASE Load(t)
  BY <1>11 DEF Load
<1>12. CASE Migrate(t)
  <2>1. PICK d : Proceeds(t, d) /\ Migrated(t, d)
    BY <1>12, MigrateIs
  <2>2. Migrated(t, call'[t])
    BY <1>2, <2>1 DEF Migrated
  <2>3. QED
    BY <1>12, <2>2 DEF Migrate
<1>13. QED
  BY <1>3, <1>4, <1>5, <1>6, <1>7, <1>8, <1>9, <1>10, <1>11, <1>12, Zenon DEF Step

LEMMA LegacyShrinks ==
  ASSUME Next
  PROVE  legacy' \subseteq legacy
<1>1. ASSUME NEW t \in Thread, Step(t), ~Take(t)
      PROVE  legacy' = legacy
  BY <1>1, Zenon DEF Step, Refresh, Cache, LookUp, Read, UpdateFails, Write, Revoke, Grant,
     Provider, Format, Load, Migrate, Save, NothingToSave, Run, Fails
<1>2. ASSUME NEW t \in Thread, Take(t)
      PROVE  legacy' \subseteq legacy
  BY <1>2 DEF Take
<1>3. QED
  BY <1>1, <1>2, NextIs, Zenon DEF Begin, Die

LEMMA RegistryMoves ==
  ASSUME NEW t \in Thread, Step(t)
  PROVE  \/ registry' = registry
         \/ registry' = call[t].held /\ (At(t, "write") \/ At(t, "save") \/ At(t, "rewrite"))
<1>1. CASE Write(t) \/ Save(t)
  BY <1>1 DEF Write, Save
<1>2. CASE ~(Write(t) \/ Save(t))
  BY <1>2, Zenon DEF Step, Refresh, Cache, LookUp, Read, UpdateFails, Take, Revoke, Grant,
     Provider, Format, Load, Migrate, NothingToSave, Run, Fails
<1>3. QED
  BY <1>1, <1>2

\* A call that goes on has written what it held, or had no labels to write.
LEMMA WritesHeld ==
  ASSUME Shapes, NEW t \in Thread, Step(t), call'[t].todo # << >>, At(t, "write") \/ At(t, "save")
  PROVE  registry' = call[t].held \/ call[t].migrated = {}
<1>1. ~Return(t)
  BY IdleIs, SetCall DEF Return
<1>2. \A step : At(t, step) => step \in {"write", "save"}
  BY DEF At
<1>3. ~(Refresh(t) \/ Cache(t) \/ LookUp(t) \/ Read(t) \/ Take(t) \/ Revoke(t) \/ Grant(t))
  BY <1>2 DEF Refresh, Cache, LookUp, Read, Take, Revoke, Grant
<1>4. ~(Provider(t) \/ Format(t) \/ Load(t) \/ Migrate(t) \/ Run(t))
  <2>1. /\ ~At(t, "provider") /\ ~At(t, "format") /\ ~At(t, "load") /\ ~At(t, "migrate")
        /\ ~At(t, "run")
    BY <1>2
  <2>2. QED
    BY <2>1, Zenon DEF Provider, Format, Load, Migrate, Run
<1>5. ~(Fails(t) \/ UpdateFails(t))
  BY <1>1, Zenon DEF Fails, UpdateFails
<1>6. CASE Write(t) \/ Save(t)
  BY <1>6 DEF Write, Save
<1>7. CASE NothingToSave(t)
  BY <1>2, <1>7 DEF NothingToSave
<1>8. QED
  BY <1>3, <1>4, <1>5, <1>6, <1>7, Zenon DEF Step

LEMMA MigrateStep ==
  ASSUME NEW t \in Thread, Step(t), At(t, "migrate")
  PROVE  Migrate(t)
<1>1. \A step : At(t, step) => step = "migrate"
  BY DEF At
<1>2. ~(Refresh(t) \/ Cache(t) \/ LookUp(t) \/ Read(t) \/ Write(t) \/ Take(t) \/ Revoke(t))
  BY <1>1 DEF Refresh, Cache, LookUp, Read, Write, Take, Revoke
<1>3. ~(Grant(t) \/ Provider(t) \/ Format(t) \/ Load(t) \/ Run(t))
  BY <1>1 DEF Grant, Provider, Format, Load, Run
<1>4. ~(UpdateFails(t) \/ Save(t) \/ NothingToSave(t) \/ Fails(t))
  BY <1>1 DEF UpdateFails, Save, NothingToSave, Fails
<1>5. QED
  BY <1>2, <1>3, <1>4, Zenon DEF Step

\* Nobody takes the label from the registry while a migration is under way.
LEMMA LabelStays ==
  ASSUME Shapes, Locked, Apps, LabelsInv, Next, "io" \notin Fault \/ OneDesktopStarts,
         NEW t \in Thread, Migrating(t), NEW p \in call[t].migrated \cap legacy,
         LabelOf(registry, p) # "none"
  PROVE  LabelOf(registry', p) # "none" \/ p \notin Registered(registry')
<1>1. CASE registry' = registry
  BY <1>1
<1>2. CASE registry' # registry
  <2>1. PICK u \in Thread : Step(u)
    BY <1>2, NextIs, Zenon DEF Begin, Die
  <2>2. registry' = call[u].held /\ (At(u, "write") \/ At(u, "save") \/ At(u, "rewrite"))
    BY <1>2, <2>1, RegistryMoves
  <2>3. CASE At(u, "write")
    <3> DEFINE m == call[u].migrated # {}
    <3>1. PICK r \in Effects(Op(u), Project1(u), registry, m) : call[u].held = [r EXCEPT !.old = FALSE]
      BY <2>3, Zenon DEF Locked, Changed
    <3> HIDE DEF m
    <3>2. Op(u) \in UpdateOps
      BY <2>3, AtIs DEF StepFacts
    <3>3. IsRegistry(registry) /\ LabelOf(registry, p) # "none"
      BY DEF Shapes
    <3>4. \A h : h = [r EXCEPT !.old = FALSE] => LabelOf(h, p) # "none" \/ p \notin Registered(h)
      <4>1. \A q : LabelOf(registry, q) # "none" =>
              \A h : h = [r EXCEPT !.old = FALSE] => LabelOf(h, q) # "none" \/ q \notin Registered(h)
        BY ONLY <3>1, <3>2, <3>3, EffectLabels
      <4>2. QED
        BY <3>3, <4>1, Zenon
    <3>5. QED
      BY <2>2, <3>1, <3>4
  <2>4. CASE At(u, "save") \/ At(u, "rewrite")
    <3>1. Op(u) = "start" /\ Busy(u)
      BY <2>4, AtIs DEF StepFacts, At
    <3>2. Done(call[u]) >= 3
      BY <2>4, <3>1, StartAt
    <3>3. /\ "start" \in Ops[u]
          /\ \A q \in call[u].migrated : LabelOf(call[u].held, q) # "none"
          /\ "io" \notin Fault =>
               \A q \in legacy \cap Registered(call[u].held) : LabelOf(call[u].held, q) # "none"
      BY <3>1, <3>2 DEF LabelsInv, LabelledCall
    <3>4. CASE "io" \notin Fault
      BY <2>2, <3>3, <3>4
    <3>5. CASE u = t
      BY <2>2, <3>3, <3>5
    <3>6. CASE OneDesktopStarts /\ u # t
      <4>1. Busy(t) /\ Op(t) \in {"start", "register"} /\ Op(t) \in Ops[t]
        BY DEF Migrating, LabelsInv, LabelledCall
      <4>2. Home[u] = Home[t]
        BY <3>3, <3>6, <4>1 DEF OneDesktopStarts
      <4>3. QED
        BY <3>1, <3>6, <4>1, <4>2 DEF Apps
    <3>7. QED
      BY <3>4, <3>5, <3>6
  <2>5. QED
    BY <2>2, <2>3, <2>4
<1>3. QED
  BY <1>1, <1>2

LEMMA NextLabelled ==
  ASSUME Shapes, LabelsInv, Next, NEW t \in Thread
  PROVE  LabelledCall(t)'
<1> DEFINE c == call[t]
<1> DEFINE e == call'[t]
<1>1. legacy' \subseteq legacy
  BY LegacyShrinks
<1>2. SUFFICES ASSUME e.todo # << >>
               PROVE  LabelledCall(t)'
  BY DEF LabelledCall, Busy
<1>3. CASE e = c
  BY <1>1, <1>3 DEF LabelsInv, LabelledCall, Busy, Op, Project1
<1>4. ASSUME NEW op \in Ops[t], NEW p, Began(t, op, p)
      PROVE  LabelledCall(t)'
  BY <1>4 DEF Began, LabelledCall, Op
<1>5. CASE Step(t) /\ Busy(t) /\ Advanced(t)
  <2>1. /\ e.op = c.op /\ e.project = c.project
        /\ Done(e) = Done(c) + 1 \/ (At(t, "take") /\ Done(e) = Done(c))
        /\ Done(c) \in Nat /\ LabelledCall(t)
    BY <1>5, AtHead DEF Advanced, LabelsInv
  <2>2. Op(t) \in Ops[t]
    BY <1>5, <2>1 DEF LabelledCall
  <2>3. CASE Op(t) # "start"
    <3>1. e.migrated \subseteq {Project1(t)}
      <4>1. ~At(t, "load") /\ ~At(t, "migrate")
        BY <2>3, AtIs DEF StepFacts
      <4>2. QED
        BY <1>2, <1>5, <2>1, <2>3, <4>1, LabelsMove DEF LabelledCall
    <3>2. QED
      BY <2>1, <2>2, <2>3, <3>1 DEF LabelledCall, Op, Project1
  <2>4. CASE Op(t) = "start" /\ Done(c) >= 3
    <3>1. \A step : At(t, step) => step \in {"save", "take", "rewrite", "run"}
      BY <2>4, StartAt
    <3>2. e.migrated \subseteq c.migrated /\ e.held = c.held
      BY <1>2, <1>5, <3>1, LabelsMove DEF Read
    <3>3. QED
      BY <1>1, <1>5, <2>1, <2>2, <2>4, <3>2 DEF LabelledCall, Op
  <2>5. CASE Op(t) = "start" /\ Done(c) = 2
    <3>1. \A step : At(t, step) => step = "migrate"
      BY <2>5, StartAt
    <3>2. Migrated(t, e)
      <4>1. At(t, "migrate")
        BY <1>5, <3>1, AtHead
      <4>2. PICK d : Proceeds(t, d) /\ Migrated(t, d)
        BY <1>5, <4>1, MigrateStep, MigrateIs
      <4>3. e.held = d.held /\ e.migrated = d.migrated
        BY <1>2, <1>5, <4>2, Proceeding, IdleIs DEF Continued
      <4>4. QED
        BY <4>2, <4>3 DEF Migrated
    <3>3. QED
      BY <1>1, <2>1, <2>2, <2>5, <3>2, MigratedLabels DEF LabelledCall, Op
  <2>6. CASE Op(t) = "start" /\ Done(c) < 2
    <3>1. ~At(t, "take")
      BY <2>6, StartAt
    <3>2. Done(e) < 3
      BY <2>1, <2>6, <3>1
    <3>3. QED
      BY <2>1, <2>2, <2>6, <3>2 DEF LabelledCall, Op
  <2>7. QED
    BY <2>1, <2>3, <2>4, <2>5, <2>6
<1>6. QED
  BY <1>2, <1>3, <1>4, <1>5, CallMoves

\* A registration that migrates labels writes one for its project.
LEMMA RegisterLabels ==
  ASSUME NEW r, IsRegistry(r), NEW p, NEW e \in Effects("register", p, r, TRUE)
  PROVE  \A h : h = [e EXCEPT !.old = FALSE] => LabelOf(h, p) # "none"
<1> DEFINE label == Merged(LabelOf(r, p), TRUE)
<1>1. e = WithProject(r, p, label)
  BY Zenon DEF Effects
<1>2. label # "none"
  BY MergedIs
<1> HIDE DEF label
<1> DEFINE projects == [x \in Registered(r) \cup {p} |-> IF x = p THEN label ELSE r.projects[x]]
<1>3. e = [r EXCEPT !.projects = projects]
  BY <1>1 DEF WithProject
<1>4. p \in DOMAIN projects /\ projects[p] = label
  OBVIOUS
<1> HIDE DEF projects
<1>5. IsRecord(e) /\ e.projects = projects
  BY <1>3 DEF IsRecord, IsRegistry
<1>6. \A h : h = [e EXCEPT !.old = FALSE] => h.projects = projects
  BY <1>5 DEF IsRecord
<1>7. QED
  BY <1>2, <1>4, <1>6 DEF LabelOf, Registered

LEMMA NextLabelKept ==
  ASSUME Shapes, SeenShapes, Locked, Apps, LabelsInv, Next, "io" \notin Fault \/ OneDesktopStarts,
         NEW t \in Thread
  PROVE  LabelKept(t)'
<1> DEFINE c == call[t]
<1> DEFINE e == call'[t]
<1>1. SUFFICES ASSUME Migrating(t)', NEW p \in e.migrated \cap legacy'
               PROVE  p \in since'[t].gone \/ LabelOf(registry', p) # "none"
  BY DEF LabelKept
<1>2. e.todo # << >> /\ e.op \in {"start", "register"}
  BY <1>1 DEF Migrating, Busy, Op
<1>3. since'[t].gone = since[t].gone \cup (Project \ Registered(registry'))
  BY <1>2, SeenIs
<1>4. p \in legacy /\ p \in Project
  BY LegacyShrinks DEF LabelsInv
<1>5. SUFFICES ASSUME p \notin since[t].gone, p \in Registered(registry')
               PROVE  LabelOf(registry', p) # "none"
  BY <1>3, <1>4
<1>6. ASSUME Migrating(t), p \in c.migrated
      PROVE  LabelOf(registry', p) # "none"
  <2>1. LabelOf(registry, p) # "none"
    BY <1>4, <1>5, <1>6 DEF LabelsInv, LabelKept
  <2>2. QED
    BY <1>4, <1>5, <1>6, <2>1, LabelStays
<1>7. CASE e = c
  <2>1. Migrating(t)
    BY <1>1, <1>7 DEF Migrating, Busy, Op
  <2>2. QED
    BY <1>1, <1>6, <1>7, <2>1
<1>8. CASE Step(t) /\ Busy(t) /\ Advanced(t)
  <2>1. /\ Op(t) \in {"start", "register"} /\ e.op = c.op
        /\ Done(e) = Done(c) + 1 \/ (At(t, "take") /\ Done(e) = Done(c))
        /\ Done(c) \in Nat
    BY <1>2, <1>8, AtHead DEF Advanced, Op
  <2>2. Done(e) >= IF Op(t) = "register" THEN 2 ELSE 4
    BY <1>1, <2>1 DEF Migrating, Op
  <2>3. Done(c) >= IF Op(t) = "register" THEN 1 ELSE 3
    BY <2>1, <2>2
  <2>4. /\ \A step : At(t, step) /\ Op(t) = "register" => step \in {"write", "cache", "take"}
        /\ \A step : At(t, step) /\ Op(t) = "start" => step \in {"save", "take", "rewrite", "run"}
    <3>1. ASSUME NEW step, At(t, step), Op(t) = "register"
          PROVE  step \in {"write", "cache", "take"}
      BY <2>3, <3>1, RegisterAt
    <3>2. ASSUME NEW step, At(t, step), Op(t) = "start"
          PROVE  step \in {"save", "take", "rewrite", "run"}
      BY <2>3, <3>2, StartAt
    <3>3. QED
      BY <3>1, <3>2
  <2>5. p \in c.migrated
    <3>1. ~At(t, "load") /\ ~At(t, "migrate") /\ ~Read(t)
      BY <2>1, <2>4 DEF Read
    <3>2. QED
      BY <1>1, <1>2, <1>8, <3>1, LabelsMove
  <2>6. CASE Migrating(t)
    BY <1>6, <2>5, <2>6
  <2>7. CASE ~Migrating(t)
    <3>1. Done(c) = IF Op(t) = "register" THEN 1 ELSE 3
      <4>1. Op(t) = "register" => Done(c) < 2
        BY <1>8, <2>1, <2>7 DEF Migrating
      <4>2. Op(t) = "start" => Done(c) < 4
        BY <1>8, <2>1, <2>7 DEF Migrating
      <4>3. QED
        BY <2>1, <2>3, <4>1, <4>2
    <3>2. CASE Op(t) = "register"
      <4>1. At(t, "write")
        BY <1>8, <3>1, <3>2, AtHead, RegisterAt
      <4>2. registry' = c.held
        BY <1>2, <1>8, <2>5, <4>1, WritesHeld
      <4>3. c.migrated # {} /\ p = Project1(t)
        BY <1>8, <2>5, <3>2 DEF LabelsInv, LabelledCall
      <4>4. PICK r \in Effects("register", p, registry, TRUE) : c.held = [r EXCEPT !.old = FALSE]
        <5>1. PICK r \in Effects(Op(t), Project1(t), registry, c.migrated # {}) :
                c.held = [r EXCEPT !.old = FALSE]
          BY <4>1, Zenon DEF Locked, Changed
        <5>2. (c.migrated # {}) = TRUE
          BY <4>3
        <5>3. QED
          BY <3>2, <4>3, <5>1, <5>2, Zenon
      <4>5. QED
        BY <4>2, <4>4, RegisterLabels, Zenon DEF Shapes
    <3>3. CASE Op(t) = "start"
      <4>1. At(t, "save")
        BY <1>8, <3>1, <3>3, AtHead, StartAt
      <4>2. registry' = c.held
        BY <1>2, <1>8, <2>5, <4>1, WritesHeld
      <4>3. LabelOf(c.held, p) # "none"
        BY <1>8, <2>5, <3>1, <3>3 DEF LabelsInv, LabelledCall
      <4>4. QED
        BY <4>2, <4>3
    <3>4. QED
      BY <2>1, <3>2, <3>3
  <2>8. QED
    BY <2>6, <2>7
<1>9. ASSUME NEW op, NEW q, Began(t, op, q)
      PROVE  FALSE
  BY <1>1, <1>9 DEF Began, Migrating
<1>10. QED
  BY <1>2, <1>7, <1>8, <1>9, CallMoves

\* As long as one desktop is started, or every manifest can be read, what a migration has written
\* stays in the registry until it has taken its labels, but for projects removed meanwhile.
THEOREM LabelsInvariant ==
  ASSUME "io" \notin Fault \/ OneDesktopStarts
  PROVE  Spec => []LabelsInv
<1>1. Init => LabelsInv
  BY DEF Init, LabelsInv, LabelledCall, LabelKept, Migrating, Busy, Idle
<1>2. Shapes /\ SeenShapes /\ Locked /\ Apps /\ LabelsInv /\ [Next]_vars => LabelsInv'
  <2>1. ASSUME LabelsInv, UNCHANGED vars
        PROVE  LabelsInv'
    BY <2>1 DEF vars, LabelsInv, LabelledCall, LabelKept, Migrating, Busy, Op, Project1
  <2>2. ASSUME Shapes, SeenShapes, Locked, Apps, LabelsInv, Next
        PROVE  LabelsInv'
    <3>1. legacy' \subseteq Project
      BY <2>2, LegacyShrinks DEF LabelsInv
    <3>2. \A t \in Thread : LabelledCall(t)'
      BY <2>2, NextLabelled
    <3>3. \A t \in Thread : LabelKept(t)'
      BY <2>2, NextLabelKept
    <3>4. QED
      BY <3>1, <3>2, <3>3 DEF LabelsInv
  <2>3. QED
    BY <2>1, <2>2
<1>3. QED
  BY <1>1, <1>2, ShapesInvariant, LockedInvariant, RevokedInvariant, RecordsInvariant, PTL DEF Spec

\* Labels leave a manifest only once the registry has a label for the project, or the project has
\* been gone at some moment of the migration: "migrates legacy file labels to local registry before
\* removing them" (the test at runtime.rs:435).
THEOREM LabelsAreMoved ==
  ASSUME "io" \notin Fault \/ OneDesktopStarts
  PROVE  Spec => LabelsMigrate
<1> DEFINE MovedSo ==
      \A p \in legacy \ legacy' : \E t \in Thread :
        /\ call'[t] # call[t]
        /\ p \in since[t].gone \/ LabelOf(registry, p) # "none"
<1>1. ASSUME Shapes, LabelsInv, Next
      PROVE  MovedSo
  <2>1. SUFFICES ASSUME NEW p \in legacy, p \notin legacy'
                 PROVE  \E t \in Thread :
                          /\ call'[t] # call[t]
                          /\ p \in since[t].gone \/ LabelOf(registry, p) # "none"
    OBVIOUS
  <2>2. PICK t \in Thread : Take(t)
    <3>1. ASSUME NEW t \in Thread, Step(t), ~Take(t)
          PROVE  legacy' = legacy
      BY <3>1, Zenon DEF Step, Refresh, Cache, LookUp, Read, UpdateFails, Write, Revoke, Grant,
         Provider, Format, Load, Migrate, Save, NothingToSave, Run, Fails
    <3>2. QED
      BY <1>1, <2>1, <3>1, NextIs, Zenon DEF Begin, Die
  <2>3. p \in call[t].migrated /\ call' = [call EXCEPT ![t].migrated = @ \ {p}]
    BY <2>1, <2>2 DEF Take
  <2>4. call'[t] # call[t]
    <3>1. HasFields(call[t]) /\ call = [u \in Thread |-> call[u]]
      BY <1>1 DEF Shapes, IsCall
    <3> DEFINE left == call[t].migrated \ {p}
    <3>2. call'[t] = [call[t] EXCEPT !.migrated = left]
      BY <2>3, <3>1
    <3>3. p \notin left
      OBVIOUS
    <3> HIDE DEF left
    <3>4. call'[t].migrated = left
      BY <3>1, <3>2 DEF HasFields
    <3>5. QED
      BY <2>3, <3>3, <3>4
  <2>5. Migrating(t)
    <3>1. At(t, "take") /\ Busy(t) /\ Op(t) \in {"register", "start"}
      BY <1>1, <2>2, AtIs DEF Take, StepFacts, At
    <3>2. CASE Op(t) = "register"
      BY <1>1, <3>1, <3>2, RegisterAt DEF Migrating
    <3>3. CASE Op(t) = "start"
      BY <1>1, <3>1, <3>3, StartAt DEF Migrating
    <3>4. QED
      BY <3>1, <3>2, <3>3
  <2>6. QED
    BY <1>1, <2>3, <2>4, <2>5 DEF LabelsInv, LabelKept
<1>2. Shapes /\ LabelsInv /\ [Next]_vars => [MovedSo]_vars
  BY <1>1
<1>3. QED
  BY <1>2, ShapesInvariant, LabelsInvariant, PTL DEF Spec, LabelsMigrate

----------------------------------------------------------------------------
\* The brokers: what holds of each by its place in a call.
AgentInv(b) == Agents!OnItsPath(b) /\ Agents!PlansInv(b) /\ Agents!SpentInv(b) /\ Agents!SeenInv(b)

SinceRecord ==
  [open : SUBSET (Folder \X Key), registered : SUBSET Folder, spent : SUBSET Nat, late : BOOLEAN]

Places == {"idle", "open", "policy", "read", "source", "candidate", "store", "file", "compare",
           "replace", "manifest", "scan", "save", "register"}

ToolNames == {"read_allowed_value", "plan_set_allowed_value", "plan_add_variable",
              "plan_classification", "plan_copy_variable_from_project",
              "plan_register_current_project"}

\* Of a project, the keys that are open.
OpenNow(p) == { x \in Agents!Permitted' : x[1] = p }

\* What a property compares with keeps its type.
LEMMA RecordTypes ==
  ASSUME Agents!BrokerInv, NEW b \in Agent, registered' \in SUBSET Folder
  PROVE  Agents!Record(b) \in SinceRecord
<1>1. agentSince[b] \in SinceRecord /\ agentCall[b].id \in Nat
  BY DEF Agents!BrokerInv, Agents!TypeOK, SinceRecord, Agents!CallRecord
<1>2. OpenNow(agentCall'[b].args.project) \subseteq Folder \X Key
  BY DEF Agents!Permitted, OpenNow
<1>3. Agents!Late(b, agentCall'[b].id) \in BOOLEAN
  BY DEF Agents!Late
<1>4. CASE agentCall'[b].pc = "idle"
  BY <1>1, <1>4 DEF Agents!Record, SinceRecord
<1>5. CASE agentCall'[b].pc # "idle"
  <2>1. PICK open \in SUBSET (Folder \X Key), known \in SUBSET Folder :
          Agents!Record(b) =
            [open |-> open, registered |-> known, spent |-> agentSince[b].spent,
             late |-> IF Agents!At(b, "idle") /\ agentCall'[b].phase = "applying"
                        THEN Agents!Late(b, agentCall'[b].id) ELSE agentSince[b].late]
    <3>1. agentSince[b].open \cup OpenNow(agentCall'[b].args.project) \in SUBSET (Folder \X Key)
      BY <1>1, <1>2 DEF SinceRecord
    <3>2. agentSince[b].registered \cup (registered' \cap Agents!About(agentCall'[b].args)) \in SUBSET Folder
      BY <1>1 DEF SinceRecord
    <3>3. CASE Agents!Matters(agentCall'[b])
      <4>1. Agents!Record(b) =
              [open |-> agentSince[b].open \cup OpenNow(agentCall'[b].args.project),
               registered |-> agentSince[b].registered \cup (registered' \cap Agents!About(agentCall'[b].args)),
               spent |-> agentSince[b].spent,
               late |-> IF Agents!At(b, "idle") /\ agentCall'[b].phase = "applying"
                          THEN Agents!Late(b, agentCall'[b].id) ELSE agentSince[b].late]
        BY <1>5, <3>3 DEF Agents!Record, OpenNow
      <4>2. QED
        BY <3>1, <3>2, <4>1
    <3>4. CASE ~Agents!Matters(agentCall'[b])
      <4>1. Agents!Record(b) =
              [open |-> {}, registered |-> {}, spent |-> agentSince[b].spent,
               late |-> IF Agents!At(b, "idle") /\ agentCall'[b].phase = "applying"
                          THEN Agents!Late(b, agentCall'[b].id) ELSE agentSince[b].late]
        BY <1>5, <3>4 DEF Agents!Record
      <4>2. QED
        BY <4>1
    <3>5. QED
      BY <3>3, <3>4
  <2>2. QED
    BY <1>1, <1>3, <2>1 DEF SinceRecord
<1>6. QED
  BY <1>4, <1>5

\* What is recorded of an agent that is in no call afterwards, and of one that is in one.
LEMMA IdleRecord ==
  ASSUME Agents!BrokerInv, NEW b \in Agent, agentSince'[b] = Agents!Record(b),
         agentCall'[b].pc = "idle", nextId'[b] \in Nat
  PROVE  /\ ~agentSince'[b].late
         /\ nextId'[b] >= nextId[b] =>
              agentSince'[b].spent =
                agentSince[b].spent \cup (IF agentCall[b].phase = "applying" THEN {agentCall[b].id} ELSE {})
         /\ nextId'[b] < nextId[b] => agentSince'[b].spent = {}
<1>1. nextId[b] \in Nat
  BY DEF Agents!BrokerInv, Agents!TypeOK
<1>2. ~(nextId'[b] >= nextId[b] /\ nextId'[b] < nextId[b])
  BY <1>1
<1>3. agentSince'[b] = [open |-> {}, registered |-> {}, late |-> FALSE,
          spent |-> IF nextId'[b] < nextId[b] THEN {}
                    ELSE IF agentCall[b].phase = "applying" THEN agentSince[b].spent \cup {agentCall[b].id}
                    ELSE agentSince[b].spent]
  BY DEF Agents!Record
<1>4. QED
  BY <1>2, <1>3

LEMMA BusyRecord ==
  ASSUME Agents!BrokerInv, NEW b \in Agent, agentSince'[b] = Agents!Record(b),
         agentCall'[b].pc # "idle"
  PROVE  /\ Agents!Matters(agentCall'[b]) =>
              /\ agentSince[b].open \subseteq agentSince'[b].open
              /\ OpenNow(agentCall'[b].args.project) \subseteq agentSince'[b].open
              /\ agentSince[b].registered \subseteq agentSince'[b].registered
              /\ registered' \cap Agents!About(agentCall'[b].args) \subseteq agentSince'[b].registered
         /\ agentSince'[b].spent = agentSince[b].spent
         /\ agentSince'[b].late = IF Agents!At(b, "idle") /\ agentCall'[b].phase = "applying"
                               THEN Agents!Late(b, agentCall'[b].id) ELSE agentSince[b].late
BY DEF Agents!Record, OpenNow

ArgFact(args) ==
  /\ DOMAIN args \cap {"project", "source"} =
       IF args.tool = "plan_copy_variable_from_project" THEN {"project", "source"} ELSE {"project"}
  /\ args.tool \in ToolNames
  /\ args.project \in Folder
  /\ args.tool # "plan_register_current_project" => args.key \in Key
  /\ args.tool = "plan_copy_variable_from_project" => args.source \in Folder
  /\ args.tool = "plan_set_allowed_value" => args.value \in Value
  /\ args.tool = "plan_classification" => args.access \in Access

LEMMA ArgFacts ==
  ASSUME NEW args \in Agents!Args
  PROVE  ArgFact(args)
BY DEF Agents!Args, ToolNames, ArgFact

\* What it is about belongs to what is recorded.
LEMMA AboutProject ==
  ASSUME NEW args \in Agents!Args
  PROVE  /\ args.project \in Agents!About(args)
         /\ args.tool = "plan_copy_variable_from_project" => args.source \in Agents!About(args)
BY ArgFacts DEF Agents!About, ArgFact

\* A call of which nothing is recorded is not where anything is said of.
LEMMA OnlyPlans ==
  ASSUME NEW b \in Agent, Agents!OnItsPath(b), ~Agents!At(b, "idle"), ~Agents!Matters(agentCall[b])
  PROVE  /\ agentCall[b].phase = "planning"
         /\ agentCall[b].pc \in {"open", "policy", "source", "candidate", "store"}
<1>1. /\ agentCall[b].phase = "planning" /\ Agents!Tool(b) # "read_allowed_value"
      /\ agentCall[b].args \in Agents!Args
      /\ agentCall[b].pc \in Agents!Path("planning", Agents!Tool(b))
  BY DEF Agents!OnItsPath, Agents!Matters, Agents!Tool
<1>2. Agents!Tool(b) \in ToolNames
  BY <1>1, ArgFacts DEF ArgFact, Agents!Tool
<1>3. QED
  BY <1>1, <1>2 DEF Agents!Path, ToolNames

\* An agent none of whose variables changes.
LEMMA OtherAgent ==
  ASSUME Agents!BrokerInv, NEW b \in Agent, agentSince'[b] = Agents!Record(b),
         agentCall'[b] = agentCall[b], agentPlans'[b] = agentPlans[b], nextId'[b] = nextId[b]
  PROVE  AgentInv(b)'
<1>1. AgentInv(b) /\ nextId[b] \in Nat /\ agentCall[b] \in Agents!CallRecord
  BY DEF Agents!BrokerInv, AgentInv, Agents!TypeOK
<1>2. CASE Agents!At(b, "idle")
  <2>1. /\ ~agentSince'[b].late
        /\ agentSince'[b].spent = agentSince[b].spent
    <3>1. agentCall'[b].pc = "idle" /\ nextId'[b] \in Nat /\ nextId'[b] >= nextId[b]
      BY <1>1, <1>2 DEF Agents!At
    <3>2. agentCall[b].phase # "applying"
      BY <1>1, <1>2 DEF AgentInv, Agents!OnItsPath
    <3>3. QED
      BY <3>1, <3>2, IdleRecord
  <2>2. Agents!OnItsPath(b)' /\ Agents!SeenInv(b)'
    BY <1>1, <1>2 DEF AgentInv, Agents!OnItsPath, Agents!SeenInv, Agents!At, Agents!Writing
  <2>3. Agents!PlansInv(b)'
    BY <1>1, <2>1 DEF AgentInv, Agents!PlansInv, Agents!Allowed
  <2>4. Agents!SpentInv(b)'
    BY <1>1, <1>2, <2>1 DEF AgentInv, Agents!SpentInv, Agents!At, Agents!OnItsPath
  <2>5. QED
    BY <2>2, <2>3, <2>4 DEF AgentInv
<1>3. CASE ~Agents!At(b, "idle")
  <2>1. /\ Agents!Matters(agentCall[b]) =>
             /\ agentSince[b].open \subseteq agentSince'[b].open
             /\ agentSince[b].registered \subseteq agentSince'[b].registered
        /\ agentSince'[b].spent = agentSince[b].spent
        /\ agentSince'[b].late = agentSince[b].late
    BY <1>3, BusyRecord DEF Agents!At
  <2>2. Agents!OnItsPath(b)'
    BY <1>1 DEF AgentInv, Agents!OnItsPath, Agents!At, Agents!Allowed, Agents!Tool
  <2>3. Agents!SeenInv(b)'
    <3>1. CASE Agents!Matters(agentCall[b])
      BY <1>1, <2>1, <3>1
        DEF AgentInv, Agents!SeenInv, Agents!At, Agents!Tool, Agents!Key1, Agents!Target, Agents!Registers
    <3>2. CASE ~Agents!Matters(agentCall[b])
      BY <1>1, <1>3, <3>2, OnlyPlans DEF AgentInv, Agents!SeenInv, Agents!At
    <3>3. QED
      BY <3>1, <3>2
  <2>4. Agents!PlansInv(b)'
    BY <1>1, <2>1 DEF AgentInv, Agents!PlansInv, Agents!Allowed
  <2>5. Agents!SpentInv(b)'
    BY <1>1, <2>1 DEF AgentInv, Agents!SpentInv, Agents!At, Agents!Tool
  <2>6. QED
    BY <2>2, <2>3, <2>4, <2>5 DEF AgentInv
<1>4. QED
  BY <1>2, <1>3

\* What is written is written for a plan that is applied.
LEMMA EffectApplies ==
  ASSUME Agents!BrokerInv, NEW b \in Agent,
         agentCall[b].pc \in {"compare", "replace", "scan", "save", "register"}
  PROVE  agentCall[b].phase = "applying"
<1>1. Agents!OnItsPath(b) /\ ~Agents!At(b, "idle")
  BY DEF Agents!BrokerInv, Agents!At
<1>2. /\ agentCall[b].phase \in {"planning", "applying"} /\ agentCall[b].args \in Agents!Args
      /\ agentCall[b].pc \in Agents!Path(agentCall[b].phase, Agents!Tool(b))
  BY <1>1 DEF Agents!OnItsPath
<1>3. Agents!Tool(b) \in ToolNames
  BY <1>2, ArgFacts DEF ArgFact, Agents!Tool
<1>4. QED
  BY <1>2, <1>3 DEF Agents!Path, ToolNames

\* An agent that returns, with its plans as they were or a fresh session.
LEMMA ReturningAgent ==
  ASSUME Agents!BrokerInv, NEW b \in Agent, agentSince'[b] = Agents!Record(b),
         agentCall'[b].pc = "idle", agentCall'[b].phase = "none",
         \/ agentPlans'[b] = agentPlans[b] /\ nextId'[b] = nextId[b]
         \/ agentPlans'[b] = Agents!Nothing /\ nextId'[b] = 1
  PROVE  AgentInv(b)'
<1>1. AgentInv(b) /\ nextId[b] \in Nat \ {0} /\ agentCall[b] \in Agents!CallRecord
  BY DEF Agents!BrokerInv, AgentInv, Agents!TypeOK
<1>2. Agents!OnItsPath(b)' /\ Agents!SeenInv(b)'
  BY DEF Agents!OnItsPath, Agents!SeenInv, Agents!At
<1>3. agentCall[b].phase = "applying" =>
        agentCall[b].id \in 1..(nextId[b] - 1) /\ agentCall[b].id \notin DOMAIN agentPlans[b]
  BY <1>1 DEF AgentInv, Agents!SpentInv
<1>4. CASE agentPlans'[b] = agentPlans[b] /\ nextId'[b] = nextId[b]
  <2>1. /\ ~agentSince'[b].late
        /\ agentSince'[b].spent =
             agentSince[b].spent \cup (IF agentCall[b].phase = "applying" THEN {agentCall[b].id} ELSE {})
    BY <1>1, <1>4, IdleRecord
  <2>2. Agents!PlansInv(b)'
    BY <1>1, <1>3, <1>4, <2>1 DEF AgentInv, Agents!PlansInv, Agents!Allowed
  <2>3. Agents!SpentInv(b)'
    BY <1>1, <1>3, <1>4, <2>1 DEF AgentInv, Agents!SpentInv
  <2>4. QED
    BY <1>2, <2>2, <2>3 DEF AgentInv
<1>5. CASE agentPlans'[b] = Agents!Nothing /\ nextId'[b] = 1
  <2>1. ~agentSince'[b].late /\ agentSince'[b].spent = {}
    <3>1. CASE nextId[b] = 1
      <4>1. agentCall[b].phase # "applying"
        BY <1>3, <3>1
      <4>2. agentSince[b].spent = {}
        BY <1>1, <3>1 DEF AgentInv, Agents!SpentInv
      <4>3. QED
        BY <1>1, <1>5, <3>1, <4>1, <4>2, IdleRecord
    <3>2. CASE nextId[b] # 1
      BY <1>1, <1>5, <3>2, IdleRecord
    <3>3. QED
      BY <3>1, <3>2
  <2>2. Agents!PlansInv(b)' /\ Agents!SpentInv(b)'
    BY <1>5, <2>1 DEF Agents!PlansInv, Agents!SpentInv, Agents!Nothing
  <2>3. QED
    BY <1>2, <2>2 DEF AgentInv
<1>6. QED
  BY <1>4, <1>5

\* An agent that goes on with its call.
LEMMA GoingAgent ==
  ASSUME Agents!BrokerInv, NEW b \in Agent, ~Agents!At(b, "idle"),
         agentSince'[b] = Agents!Record(b),
         agentPlans'[b] = agentPlans[b], nextId'[b] = nextId[b],
         agentCall'[b].pc \in Agents!Path(agentCall[b].phase, Agents!Tool(b)),
         agentCall'[b].phase = agentCall[b].phase,
         agentCall'[b].args = agentCall[b].args, agentCall'[b].id = agentCall[b].id
  PROVE  /\ Agents!OnItsPath(b)' /\ Agents!PlansInv(b)' /\ Agents!SpentInv(b)'
         /\ Agents!Matters(agentCall[b]) =>
              /\ agentSince[b].registered \subseteq agentSince'[b].registered
              /\ registered' \cap Agents!About(agentCall[b].args) \subseteq agentSince'[b].registered
              /\ agentSince[b].open \subseteq agentSince'[b].open
              /\ OpenNow(Agents!Target(b)) \subseteq agentSince'[b].open
<1>1. AgentInv(b) /\ nextId[b] \in Nat /\ agentCall[b] \in Agents!CallRecord
  BY DEF Agents!BrokerInv, AgentInv, Agents!TypeOK
<1>2. agentCall[b].args \in Agents!Args /\ Agents!Tool(b) \in ToolNames
  BY <1>1, ArgFacts DEF AgentInv, Agents!OnItsPath, ArgFact, Agents!Tool
<1>3. agentCall'[b].pc # "idle"
  BY <1>2 DEF Agents!Path, ToolNames
<1>4. /\ agentSince'[b].spent = agentSince[b].spent
      /\ agentSince'[b].late = agentSince[b].late
      /\ Agents!Matters(agentCall'[b]) =>
           /\ agentSince[b].open \subseteq agentSince'[b].open
           /\ OpenNow(agentCall[b].args.project) \subseteq agentSince'[b].open
           /\ agentSince[b].registered \subseteq agentSince'[b].registered
           /\ registered' \cap Agents!About(agentCall[b].args) \subseteq agentSince'[b].registered
  BY <1>3, BusyRecord
<1>5. Agents!Matters(agentCall'[b]) <=> Agents!Matters(agentCall[b])
  BY DEF Agents!Matters
<1>6. Agents!OnItsPath(b)'
  BY <1>1, <1>3 DEF AgentInv, Agents!OnItsPath, Agents!At, Agents!Allowed, Agents!Tool
<1>7. Agents!PlansInv(b)'
  BY <1>1, <1>4 DEF AgentInv, Agents!PlansInv, Agents!Allowed
<1>8. Agents!SpentInv(b)'
  BY <1>1, <1>4 DEF AgentInv, Agents!SpentInv, Agents!Tool
<1>9. QED
  BY <1>4, <1>5, <1>6, <1>7, <1>8 DEF Agents!Target

----------------------------------------------------------------------------
LEMMA AgentFields ==
  ASSUME Agents!BrokerInv, NEW b \in Agent
  PROVE  /\ agentCall \in [Agent -> Agents!CallRecord] /\ agentCall[b] \in Agents!CallRecord /\ AgentInv(b)
         /\ nextId \in [Agent -> Nat \ {0}] /\ nextId[b] \in Nat \ {0}
         /\ ~Agents!At(b, "idle") => agentCall[b].args \in Agents!Args
BY DEF Agents!BrokerInv, Agents!TypeOK, AgentInv, Agents!OnItsPath

\* What a call is after a step of it: c says so.
Becomes(b, c) ==
  /\ agentCall' = [agentCall EXCEPT ![b] = c]
  /\ c \in Agents!CallRecord
  /\ c.phase = agentCall[b].phase /\ c.args = agentCall[b].args /\ c.id = agentCall[b].id

LEMMA BecomesFields ==
  ASSUME Agents!BrokerInv, NEW b \in Agent, NEW c, Becomes(b, c)
  PROVE  /\ agentCall'[b] = c /\ agentCall' \in [Agent -> Agents!CallRecord]
         /\ \A a \in Agent \ {b} : agentCall'[a] = agentCall[a]
BY AgentFields DEF Becomes

\* What Go and Return leave of a call.
LEMMA GoFields ==
  ASSUME Agents!BrokerInv, NEW b \in Agent, NEW pc \in Places, Agents!Go(b, pc)
  PROVE  /\ Becomes(b, agentCall'[b])
         /\ agentCall'[b].pc = pc /\ agentCall'[b].held = agentCall[b].held
         /\ agentCall'[b].file = agentCall[b].file /\ agentCall'[b].manifest = agentCall[b].manifest
<1>1. agentCall \in [Agent -> Agents!CallRecord] /\ agentCall[b] \in Agents!CallRecord
  BY AgentFields
<1> DEFINE c == [agentCall[b] EXCEPT !.pc = pc]
<1>2. agentCall' = [agentCall EXCEPT ![b] = c]
  BY DEF Agents!Go
<1>3. agentCall'[b] = c
  BY <1>1, <1>2
<1>4. /\ c \in Agents!CallRecord /\ c.pc = pc /\ c.phase = agentCall[b].phase
      /\ c.args = agentCall[b].args /\ c.id = agentCall[b].id /\ c.held = agentCall[b].held
      /\ c.file = agentCall[b].file /\ c.manifest = agentCall[b].manifest
  BY <1>1 DEF Agents!CallRecord, Places
<1>5. QED
  BY <1>2, <1>3, <1>4 DEF Becomes

LEMMA IdleType == Agents!Idle \in Agents!CallRecord /\ Agents!Idle.pc = "idle" /\ Agents!Idle.phase = "none"
BY DEF Agents!Idle, Agents!CallRecord, Agents!Held

LEMMA ReturnFields ==
  ASSUME Agents!BrokerInv, NEW b \in Agent, Agents!Return(b)
  PROVE  /\ agentCall'[b].pc = "idle" /\ agentCall'[b].phase = "none"
         /\ \A a \in Agent \ {b} : agentCall'[a] = agentCall[a]
         /\ agentCall' \in [Agent -> Agents!CallRecord]
BY AgentFields, IdleType DEF Agents!Return

\* Every step keeps the invariant if it keeps that of the agent it is of, and the types.
LEMMA AgentStepOf ==
  ASSUME Agents!BrokerInv, Agents!Remember, NEW b \in Agent, AgentInv(b)',
         \A a \in Agent \ {b} : agentCall'[a] = agentCall[a] /\ agentPlans'[a] = agentPlans[a] /\ nextId'[a] = nextId[a],
         project' \in [Folder -> Agents!ProjectRecord],
         registered' \in SUBSET Folder,
         agentPlans' = [a \in Agent |-> agentPlans'[a]],
         agentPlans'[b] \in [DOMAIN agentPlans'[b] -> Agents!PlanRecord] /\ DOMAIN agentPlans'[b] \subseteq Nat,
         nextId' \in [Agent -> Nat \ {0}], now' \in Nat, agentCall' \in [Agent -> Agents!CallRecord]
  PROVE  Agents!BrokerInv'
<1>1. \A a \in Agent : agentSince'[a] = Agents!Record(a)
  BY DEF Agents!Remember
<1>2. agentSince' \in [Agent -> SinceRecord]
  BY RecordTypes DEF Agents!Remember
<1>3. ASSUME NEW a \in Agent
      PROVE  /\ agentPlans'[a] \in [DOMAIN agentPlans'[a] -> Agents!PlanRecord] /\ DOMAIN agentPlans'[a] \subseteq Nat
             /\ AgentInv(a)'
  <2>1. CASE a = b
    BY <2>1
  <2>2. CASE a # b
    BY <1>1, <2>2, OtherAgent DEF Agents!BrokerInv, Agents!TypeOK
  <2>3. QED
    BY <2>1, <2>2
<1>4. Agents!TypeOK'
  BY <1>2, <1>3 DEF Agents!TypeOK, SinceRecord
<1>5. QED
  BY <1>3, <1>4 DEF Agents!BrokerInv, AgentInv

\* A step of an agent that leaves everything but its call.
LEMMA CallStepOf ==
  ASSUME Agents!BrokerInv, Agents!Remember, Agents!Unchanged, NEW b \in Agent, AgentInv(b)',
         \A a \in Agent \ {b} : agentCall'[a] = agentCall[a], agentCall' \in [Agent -> Agents!CallRecord]
  PROVE  Agents!BrokerInv'
BY AgentStepOf DEF Agents!Unchanged, Agents!BrokerInv, Agents!TypeOK

LEMMA ReturnStepOf ==
  ASSUME Agents!BrokerInv, Agents!Remember, Agents!Unchanged, NEW b \in Agent, Agents!Return(b)
  PROVE  Agents!BrokerInv'
<1>1. AgentInv(b)'
  BY ReturnFields, ReturningAgent DEF Agents!Remember, Agents!Unchanged
<1>2. QED
  BY <1>1, ReturnFields, CallStepOf

\* A step that changes a project or the registry and ends the call.
LEMMA EffectStepOf ==
  ASSUME Agents!BrokerInv, Agents!Remember, NEW b \in Agent, Agents!Return(b),
         UNCHANGED <<agentPlans, nextId, now>>,
         project' \in [Folder -> Agents!ProjectRecord],
         registered' \in SUBSET Folder
  PROVE  Agents!BrokerInv'
<1>1. AgentInv(b)'
  BY ReturnFields, ReturningAgent DEF Agents!Remember
<1>2. QED
  BY <1>1, ReturnFields, AgentStepOf DEF Agents!BrokerInv, Agents!TypeOK

\* A step of a call that goes on with it, and what is recorded then.
LEMMA MoveStepOf ==
  ASSUME Agents!BrokerInv, Agents!Remember, UNCHANGED <<agentPlans, nextId, now>>,
         NEW b \in Agent, ~Agents!At(b, "idle"), NEW c, Becomes(b, c),
         c.pc \in Agents!Path(agentCall[b].phase, Agents!Tool(b)),
         project' \in [Folder -> Agents!ProjectRecord],
         registered' \in SUBSET Folder,
         Agents!SeenInv(b)'
  PROVE  Agents!BrokerInv'
<1>1. /\ agentCall'[b] = c /\ agentCall' \in [Agent -> Agents!CallRecord]
      /\ \A a \in Agent \ {b} : agentCall'[a] = agentCall[a]
  BY BecomesFields
<1>2. agentSince'[b] = Agents!Record(b) /\ agentPlans'[b] = agentPlans[b] /\ nextId'[b] = nextId[b]
  BY DEF Agents!Remember
<1>3. Agents!OnItsPath(b)' /\ Agents!PlansInv(b)' /\ Agents!SpentInv(b)'
  BY <1>1, <1>2, GoingAgent DEF Becomes
<1>4. QED
  BY <1>1, <1>3, AgentStepOf DEF AgentInv, Agents!BrokerInv, Agents!TypeOK

LEMMA MoveSees ==
  ASSUME Agents!BrokerInv, Agents!Remember, UNCHANGED <<agentPlans, nextId>>,
         NEW b \in Agent, ~Agents!At(b, "idle"), NEW c, Becomes(b, c),
         c.pc \in Agents!Path(agentCall[b].phase, Agents!Tool(b)),
         Agents!Matters(agentCall[b])
  PROVE  /\ agentSince[b].registered \subseteq agentSince'[b].registered
         /\ registered' \cap Agents!About(agentCall[b].args) \subseteq agentSince'[b].registered
         /\ agentSince[b].open \subseteq agentSince'[b].open
         /\ OpenNow(Agents!Target(b)) \subseteq agentSince'[b].open
<1>1. agentCall'[b] = c
  BY BecomesFields
<1>2. agentSince'[b] = Agents!Record(b) /\ agentPlans'[b] = agentPlans[b] /\ nextId'[b] = nextId[b]
  BY DEF Agents!Remember
<1>3. QED
  BY <1>1, <1>2, GoingAgent DEF Becomes

\* Where a call is, it is on the path of its tool.
LEMMA OnPath ==
  ASSUME Agents!BrokerInv, NEW b \in Agent, ~Agents!At(b, "idle")
  PROVE  /\ agentCall[b].phase \in {"planning", "applying"} /\ agentCall[b].args \in Agents!Args
         /\ ArgFact(agentCall[b].args) /\ Agents!Tool(b) \in ToolNames
         /\ agentCall[b].pc \in Agents!Path(agentCall[b].phase, Agents!Tool(b))
         /\ Agents!SeenInv(b) /\ Agents!Allowed(b, agentCall[b].args)
         /\ Agents!Target(b) \in Folder
<1>1. AgentInv(b)
  BY AgentFields
<1>2. ArgFact(agentCall[b].args)
  BY <1>1, ArgFacts DEF AgentInv, Agents!OnItsPath
<1>3. QED
  BY <1>1, <1>2 DEF AgentInv, Agents!OnItsPath, ArgFact, Agents!Tool, Agents!Target

LEMMA CallToolStep ==
  ASSUME Agents!BrokerInv, Agents!Remember, NEW b \in Agent, NEW args \in Agents!Args,
         Agents!CallTool(b, args)
  PROVE  Agents!BrokerInv'
<1> DEFINE pc == IF args.tool = "plan_register_current_project" THEN "candidate" ELSE "open"
           c == [Agents!Idle EXCEPT !.pc = pc, !.phase = "planning", !.args = args]
<1>1. agentCall' = [agentCall EXCEPT ![b] = c] /\ Agents!At(b, "idle")
  BY DEF Agents!CallTool
<1>2. c \in Agents!CallRecord
  BY IdleType DEF Agents!CallRecord
<1>3. c.pc = pc /\ c.phase = "planning" /\ c.args = args /\ c.pc # "idle" /\ Agents!Allowed(b, args)
  BY IdleType DEF Agents!CallTool, Agents!Allowed, Agents!CallRecord
<1>4. args.tool \in ToolNames
  BY ArgFacts DEF ArgFact
<1> HIDE DEF c
<1>5. agentCall'[b] = c /\ \A a \in Agent \ {b} : agentCall'[a] = agentCall[a]
  BY <1>1, AgentFields
<1>6. agentCall' \in [Agent -> Agents!CallRecord]
  BY <1>1, <1>2, AgentFields
<1>7. agentPlans'[b] = agentPlans[b] /\ nextId'[b] = nextId[b] /\ agentSince'[b] = Agents!Record(b)
  BY DEF Agents!CallTool, Agents!Unchanged, Agents!Remember
<1>8. agentSince'[b].spent = agentSince[b].spent /\ agentSince'[b].late = agentSince[b].late
  BY <1>1, <1>3, <1>5, <1>7, BusyRecord DEF Agents!At
<1>9. c.pc \in Agents!Path("planning", args.tool)
  BY <1>3, <1>4 DEF Agents!Path, ToolNames
<1>10. Agents!OnItsPath(b)'
  BY <1>3, <1>5, <1>9 DEF Agents!OnItsPath, Agents!At, Agents!Tool, Agents!Allowed
<1>11. Agents!PlansInv(b)' /\ Agents!SpentInv(b)'
  BY <1>3, <1>5, <1>7, <1>8, AgentFields
    DEF AgentInv, Agents!PlansInv, Agents!SpentInv, Agents!Allowed, Agents!At
<1>12. Agents!SeenInv(b)'
  BY <1>3, <1>5 DEF Agents!SeenInv, Agents!At
<1>13. QED
  BY <1>5, <1>6, <1>10, <1>11, <1>12, CallStepOf DEF AgentInv, Agents!CallTool

LEMMA TakeStep ==
  ASSUME Agents!BrokerInv, Agents!Remember, NEW b \in Agent, NEW id \in DOMAIN agentPlans[b],
         Agents!Take(b, id)
  PROVE  Agents!BrokerInv'
<1> DEFINE plan == agentPlans[b][id]
           c == Agents!Applying(b, id)
<1>1. agentPlans[b] \in [DOMAIN agentPlans[b] -> Agents!PlanRecord] /\ DOMAIN agentPlans[b] \subseteq Nat /\ AgentInv(b)
  BY DEF Agents!BrokerInv, Agents!TypeOK, AgentInv
<1>2. plan \in Agents!PlanRecord /\ plan.args \in Agents!Args /\ id \in Nat /\ plan.args.tool \in ToolNames
  BY <1>1, ArgFacts DEF Agents!PlanRecord, ArgFact
<1>3. /\ id \in 1..(nextId[b] - 1) /\ id \notin agentSince[b].spent
      /\ plan.args.tool # "read_allowed_value" /\ Agents!Allowed(b, plan.args)
  BY <1>1 DEF AgentInv, Agents!PlansInv
<1>4. /\ agentPlans'[b] = [i \in DOMAIN agentPlans[b] \ {id} |-> agentPlans[b][i]]
      /\ \A a \in Agent \ {b} : agentPlans'[a] = agentPlans[a]
      /\ agentPlans' = [a \in Agent |-> agentPlans'[a]]
  <2>1. agentPlans = [a \in Agent |-> agentPlans[a]]
    BY DEF Agents!BrokerInv, Agents!TypeOK
  <2>2. agentPlans' = [agentPlans EXCEPT ![b] = [i \in DOMAIN agentPlans[b] \ {id} |-> agentPlans[b][i]]]
    BY DEF Agents!Take, Agents!Without
  <2>3. QED
    BY <2>1, <2>2
<1>5. agentPlans'[b] \in [DOMAIN agentPlans'[b] -> Agents!PlanRecord] /\ DOMAIN agentPlans'[b] \subseteq Nat
  BY <1>1, <1>4
<1>6. nextId' = nextId /\ project' = project /\ registered' = registered /\ now' = now
      /\ agentSince'[b] = Agents!Record(b) /\ Agents!At(b, "idle")
  BY DEF Agents!Take, Agents!Remember
<1>7. AgentInv(b)' /\ agentCall' \in [Agent -> Agents!CallRecord] /\ \A a \in Agent \ {b} : agentCall'[a] = agentCall[a]
  <2>1. CASE Agents!Late(b, id)
    <3>1. agentCall' = [agentCall EXCEPT ![b] = Agents!Idle]
      BY <2>1 DEF Agents!Take
    <3>2. agentCall'[b] = Agents!Idle /\ \A a \in Agent \ {b} : agentCall'[a] = agentCall[a]
      BY <3>1, AgentFields
    <3>3. agentCall' \in [Agent -> Agents!CallRecord]
      BY <3>1, AgentFields, IdleType
    <3>4. ~agentSince'[b].late /\ agentSince'[b].spent = agentSince[b].spent
      <4>1. /\ agentCall'[b].pc = "idle" /\ nextId'[b] \in Nat /\ nextId'[b] >= nextId[b]
            /\ agentCall[b].phase # "applying"
        BY <1>1, <1>6, <3>2, IdleType, AgentFields DEF AgentInv, Agents!OnItsPath
      <4>2. QED
        BY <1>6, <4>1, IdleRecord
    <3>5. Agents!OnItsPath(b)' /\ Agents!SeenInv(b)'
      BY <3>2, IdleType DEF Agents!OnItsPath, Agents!SeenInv, Agents!At
    <3>6. Agents!PlansInv(b)'
      BY <1>1, <1>4, <1>6, <3>4 DEF AgentInv, Agents!PlansInv, Agents!Allowed
    <3>7. Agents!SpentInv(b)'
      BY <1>1, <1>6, <3>2, <3>4, IdleType DEF AgentInv, Agents!SpentInv
    <3>8. QED
      BY <3>2, <3>3, <3>5, <3>6, <3>7 DEF AgentInv
  <2>2. CASE ~Agents!Late(b, id)
    <3>1. agentCall' = [agentCall EXCEPT ![b] = c]
      BY <2>2 DEF Agents!Take
    <3>2. c \in Agents!CallRecord
      BY <1>2, IdleType DEF Agents!CallRecord, Agents!Applying
    <3>3. /\ c.phase = "applying" /\ c.args = plan.args /\ c.id = id
          /\ c.pc = IF plan.args.tool = "plan_register_current_project" THEN "manifest" ELSE "open"
      BY <1>2, IdleType DEF Agents!Applying, Agents!CallRecord
    <3> HIDE DEF c
    <3>4. agentCall'[b] = c /\ \A a \in Agent \ {b} : agentCall'[a] = agentCall[a]
      BY <3>1, AgentFields
    <3>5. agentCall' \in [Agent -> Agents!CallRecord]
      BY <3>1, <3>2, AgentFields
    <3>6. agentSince'[b].spent = agentSince[b].spent /\ ~agentSince'[b].late
      <4>1. Agents!Late(b, agentCall'[b].id) = FALSE
        BY <2>2, <3>3, <3>4 DEF Agents!Late
      <4>2. agentCall'[b].pc # "idle" /\ agentCall'[b].phase = "applying"
        BY <3>3, <3>4
      <4>3. QED
        BY <1>6, <4>1, <4>2, BusyRecord
    <3>7. Agents!OnItsPath(b)'
      <4>1. c.pc \in Agents!Path("applying", plan.args.tool) /\ c.pc # "idle"
        BY <1>2, <1>3, <3>3 DEF Agents!Path, ToolNames
      <4>2. QED
        BY <1>2, <1>3, <3>3, <3>4, <4>1 DEF Agents!OnItsPath, Agents!At, Agents!Tool, Agents!Allowed
    <3>8. Agents!PlansInv(b)'
      BY <1>1, <1>4, <1>6, <3>6 DEF AgentInv, Agents!PlansInv, Agents!Allowed
    <3>9. Agents!SpentInv(b)'
      BY <1>1, <1>3, <1>4, <1>6, <3>3, <3>4, <3>6 DEF AgentInv, Agents!SpentInv, Agents!Tool
    <3>10. Agents!SeenInv(b)'
      BY <3>3, <3>4 DEF Agents!SeenInv, Agents!At, Agents!Registers, Agents!Tool, Agents!Writing
    <3>11. QED
      BY <3>4, <3>5, <3>7, <3>8, <3>9, <3>10 DEF AgentInv
  <2>3. QED
    BY <2>1, <2>2
<1>8. QED
  BY <1>4, <1>5, <1>6, <1>7, AgentStepOf DEF Agents!BrokerInv, Agents!TypeOK

\* A look at the registry, a policy or the source that succeeds, and leaves all else.
LEMMA LookStepOf ==
  ASSUME Agents!BrokerInv, Agents!Remember, Agents!Unchanged, NEW b \in Agent, ~Agents!At(b, "idle"),
         NEW c, Becomes(b, c), c.pc \in Agents!Path(agentCall[b].phase, Agents!Tool(b)),
         Agents!SeenInv(b)'
  PROVE  Agents!BrokerInv'
BY MoveStepOf DEF Agents!Unchanged, Agents!BrokerInv, Agents!TypeOK

\* What is recorded when such a look succeeds.
LEMMA LookSees ==
  ASSUME Agents!BrokerInv, Agents!Remember, Agents!Unchanged, NEW b \in Agent, ~Agents!At(b, "idle"),
         NEW c, Becomes(b, c), c.pc \in Agents!Path(agentCall[b].phase, Agents!Tool(b)),
         Agents!Matters(agentCall[b])
  PROVE  /\ agentSince[b].registered \subseteq agentSince'[b].registered
         /\ registered \cap Agents!About(agentCall[b].args) \subseteq agentSince'[b].registered
         /\ agentSince[b].open \subseteq agentSince'[b].open
         /\ { x \in Agents!Permitted : x[1] = Agents!Target(b) } \subseteq agentSince'[b].open
<1>1. registered' = registered /\ UNCHANGED <<agentPlans, nextId>> /\ Agents!Permitted' = Agents!Permitted
  BY DEF Agents!Unchanged, Agents!Permitted
<1>2. OpenNow(Agents!Target(b)) = { x \in Agents!Permitted : x[1] = Agents!Target(b) }
  BY <1>1 DEF OpenNow
<1>3. QED
  BY <1>1, <1>2, MoveSees

LEMMA OpenStep ==
  ASSUME Agents!BrokerInv, Agents!Remember, NEW b \in Agent, Agents!Open(b)
  PROVE  Agents!BrokerInv'
<1>1. Agents!At(b, "open") /\ Agents!Unchanged /\ ~Agents!At(b, "idle")
  BY DEF Agents!Open, Agents!At
<1>2. CASE ~Agents!Opens(Agents!Target(b))
  BY <1>1, <1>2, ReturnStepOf DEF Agents!Open
<1>3. CASE Agents!Opens(Agents!Target(b))
  <2>1. /\ Agents!Go(b, Agents!AfterOpen(b)) /\ agentCall[b].args \in Agents!Args
        /\ Agents!Tool(b) \in ToolNames /\ agentCall[b].phase \in {"planning", "applying"}
        /\ agentCall[b].pc \in Agents!Path(agentCall[b].phase, Agents!Tool(b))
    BY <1>1, <1>3, OnPath DEF Agents!Open
  <2>2. /\ Agents!AfterOpen(b) \in Agents!Path(agentCall[b].phase, Agents!Tool(b))
        /\ Agents!AfterOpen(b) \in {"policy", "source", "store", "file", "manifest"}
        /\ Agents!AfterOpen(b) = "file" => Agents!Tool(b) = "plan_add_variable"
        /\ Agents!AfterOpen(b) = "manifest" => Agents!Tool(b) = "plan_classification"
    BY <1>1, <2>1 DEF Agents!AfterOpen, Agents!Path, Agents!At, ToolNames
  <2>3. Becomes(b, agentCall'[b]) /\ agentCall'[b].pc = Agents!AfterOpen(b)
    BY <2>1, <2>2, GoFields DEF Places
  <2>4. agentCall[b].phase = "applying" => Agents!Target(b) \in agentSince'[b].registered
    BY <1>1, <1>3, <2>1, <2>2, <2>3, LookSees, AboutProject DEF Agents!Matters, Agents!Opens, Agents!Target
  <2>5. agentCall'[b].phase = agentCall[b].phase /\ agentCall'[b].args = agentCall[b].args
    BY <2>3 DEF Becomes
  <2>6. Agents!SeenInv(b)'
    BY <2>2, <2>3, <2>4, <2>5
      DEF Agents!SeenInv, Agents!At, Agents!Tool, Agents!Target, Agents!Registers, Agents!Writing
  <2>7. QED
    BY <1>1, <2>2, <2>3, <2>6, LookStepOf
<1>4. QED
  BY <1>2, <1>3

LEMMA CheckPolicyStep ==
  ASSUME Agents!BrokerInv, Agents!Remember, NEW b \in Agent, Agents!CheckPolicy(b)
  PROVE  Agents!BrokerInv'
<1>1. Agents!At(b, "policy") /\ Agents!Unchanged /\ ~Agents!At(b, "idle")
  BY DEF Agents!CheckPolicy, Agents!At
<1>2. CASE ~Agents!Permits(b)
  BY <1>1, <1>2, ReturnStepOf DEF Agents!CheckPolicy
<1>3. CASE Agents!Permits(b)
  <2>1. /\ Agents!Go(b, Agents!AfterPolicy(b)) /\ agentCall[b].args \in Agents!Args
        /\ ArgFact(agentCall[b].args) /\ Agents!SeenInv(b)
        /\ Agents!Tool(b) \in ToolNames /\ agentCall[b].phase \in {"planning", "applying"}
        /\ agentCall[b].pc \in Agents!Path(agentCall[b].phase, Agents!Tool(b))
    BY <1>1, <1>3, OnPath DEF Agents!CheckPolicy
  <2>2. /\ Agents!Tool(b) \in {"read_allowed_value", "plan_set_allowed_value"}
        /\ Agents!AfterPolicy(b) \in Agents!Path(agentCall[b].phase, Agents!Tool(b))
        /\ Agents!AfterPolicy(b) \in {"read", "store", "file"}
        /\ Agents!AfterPolicy(b) = "read" => Agents!Tool(b) = "read_allowed_value"
        /\ Agents!AfterPolicy(b) = "file" => agentCall[b].phase = "applying"
    BY <1>1, <2>1 DEF Agents!AfterPolicy, Agents!Path, Agents!At, ToolNames
  <2>3. Becomes(b, agentCall'[b]) /\ agentCall'[b].pc = Agents!AfterPolicy(b)
    BY <2>1, <2>2, GoFields DEF Places
  <2>4. <<Agents!Target(b), Agents!Key1(b)>> \in { x \in Agents!Permitted : x[1] = Agents!Target(b) }
    <3>1. Agents!Target(b) \in Folder /\ Agents!Key1(b) \in Key
      BY <2>1, <2>2 DEF ArgFact, Agents!Target, Agents!Key1, Agents!Tool
    <3>2. QED
      BY <1>3, <3>1 DEF Agents!Permitted, Agents!Permits
  <2>5. Agents!Matters(agentCall[b]) =>
          /\ <<Agents!Target(b), Agents!Key1(b)>> \in agentSince'[b].open
          /\ agentSince[b].registered \subseteq agentSince'[b].registered
    BY <1>1, <2>2, <2>3, <2>4, LookSees
  <2>6. Agents!AfterPolicy(b) # "store" => Agents!Matters(agentCall[b])
    BY <2>2 DEF Agents!Matters, Agents!Tool
  <2>7. Agents!AfterPolicy(b) = "file" => Agents!Target(b) \in agentSince[b].registered
    BY <1>1, <2>1, <2>2 DEF Agents!SeenInv, Agents!At
  <2>8. agentCall'[b].phase = agentCall[b].phase /\ agentCall'[b].args = agentCall[b].args
    BY <2>3 DEF Becomes
  <2>9. Agents!SeenInv(b)'
    BY <2>2, <2>3, <2>5, <2>6, <2>7, <2>8
      DEF Agents!SeenInv, Agents!At, Agents!Tool, Agents!Target, Agents!Key1, Agents!Writing
  <2>10. QED
    BY <1>1, <2>2, <2>3, <2>9, LookStepOf
<1>4. QED
  BY <1>2, <1>3

LEMMA CandidateStep ==
  ASSUME Agents!BrokerInv, Agents!Remember, NEW b \in Agent, Agents!Candidate(b)
  PROVE  Agents!BrokerInv'
<1>1. Agents!At(b, "candidate") /\ Agents!Unchanged /\ ~Agents!At(b, "idle")
  BY DEF Agents!Candidate, Agents!At
<1>2. CASE Agents!Opens(Agents!Target(b))
  BY <1>1, <1>2, ReturnStepOf DEF Agents!Candidate
<1>3. CASE ~Agents!Opens(Agents!Target(b))
  <2>1. Agents!Go(b, "store")
    BY <1>1, <1>3 DEF Agents!Candidate
  <2>2. "store" \in Agents!Path(agentCall[b].phase, Agents!Tool(b))
    BY <1>1, OnPath DEF Agents!Path, Agents!At, ToolNames
  <2>3. Becomes(b, agentCall'[b]) /\ agentCall'[b].pc = "store"
    BY <2>1, GoFields DEF Places
  <2>4. Agents!SeenInv(b)'
    BY <2>3 DEF Agents!SeenInv, Agents!At, Agents!Writing
  <2>5. QED
    BY <1>1, <2>2, <2>3, <2>4, LookStepOf
<1>4. QED
  BY <1>2, <1>3

LEMMA OpenSourceStep ==
  ASSUME Agents!BrokerInv, Agents!Remember, NEW b \in Agent, Agents!OpenSource(b)
  PROVE  Agents!BrokerInv'
<1> DEFINE source == agentCall[b].args.source
           value == project[source].values[Agents!Key1(b)]
           fits == /\ Agents!Opens(source) /\ source # Agents!Target(b) /\ value \in Value
                   /\ agentCall[b].phase = "planning" => project[Agents!Target(b)].values[Agents!Key1(b)] # Absent
<1>1. Agents!At(b, "source") /\ Agents!Unchanged /\ ~Agents!At(b, "idle")
  BY DEF Agents!OpenSource, Agents!At
<1>2. /\ agentCall[b].args \in Agents!Args /\ Agents!SeenInv(b)
      /\ Agents!Tool(b) \in ToolNames /\ agentCall[b].phase \in {"planning", "applying"}
      /\ agentCall[b].pc \in Agents!Path(agentCall[b].phase, Agents!Tool(b))
  BY <1>1, OnPath
<1>3. Agents!Tool(b) = "plan_copy_variable_from_project"
  BY <1>1, <1>2 DEF Agents!At, Agents!Path, ToolNames
<1>4. CASE ~fits
  BY <1>1, <1>4, ReturnStepOf DEF Agents!OpenSource
<1>5. CASE fits /\ agentCall[b].phase = "planning"
  <2>1. Agents!Go(b, "store")
    BY <1>5 DEF Agents!OpenSource
  <2>2. "store" \in Agents!Path(agentCall[b].phase, Agents!Tool(b))
    BY <1>3, <1>5 DEF Agents!Path
  <2>3. Becomes(b, agentCall'[b]) /\ agentCall'[b].pc = "store"
    BY <2>1, GoFields DEF Places
  <2>4. Agents!SeenInv(b)'
    BY <2>3 DEF Agents!SeenInv, Agents!At, Agents!Writing
  <2>5. QED
    BY <1>1, <2>2, <2>3, <2>4, LookStepOf
<1>6. CASE fits /\ agentCall[b].phase # "planning"
  <2> DEFINE c == [agentCall[b] EXCEPT !.pc = "file", !.held = value]
  <2>1. agentCall' = [agentCall EXCEPT ![b] = c]
    BY <1>6 DEF Agents!OpenSource
  <2>2. value \in Agents!Held
    BY <1>6 DEF Agents!Held
  <2>3. Becomes(b, c) /\ c.pc = "file"
    BY <2>1, <2>2, AgentFields DEF Agents!CallRecord, Becomes
  <2> HIDE DEF c
  <2>4. "file" \in Agents!Path(agentCall[b].phase, Agents!Tool(b)) /\ agentCall[b].phase = "applying"
    BY <1>2, <1>3, <1>6 DEF Agents!Path
  <2>5. /\ agentSince[b].registered \subseteq agentSince'[b].registered
        /\ registered \cap Agents!About(agentCall[b].args) \subseteq agentSince'[b].registered
    BY <1>1, <2>3, <2>4, LookSees DEF Agents!Matters
  <2>6. source \in agentSince'[b].registered
    BY <1>2, <1>3, <1>6, <2>5, AboutProject DEF Agents!Opens, Agents!Tool
  <2>7. Agents!Target(b) \in agentSince'[b].registered
    BY <1>1, <1>2, <2>4, <2>5 DEF Agents!SeenInv, Agents!At
  <2>8. agentCall'[b] = c /\ agentCall'[b].args = agentCall[b].args
    BY <2>3, BecomesFields DEF Becomes
  <2>9. Agents!SeenInv(b)'
    BY <1>3, <2>3, <2>6, <2>7, <2>8 DEF Agents!SeenInv, Agents!At, Agents!Tool, Agents!Target
  <2>10. QED
    BY <1>1, <2>3, <2>4, <2>9, LookStepOf
<1>7. QED
  BY <1>4, <1>5, <1>6

LEMMA StoreStep ==
  ASSUME Agents!BrokerInv, Agents!Remember, NEW b \in Agent, Agents!Store(b)
  PROVE  Agents!BrokerInv'
<1> DEFINE id == nextId[b]
           plan == [args |-> agentCall[b].args, expires |-> now + TTL]
<1>1. /\ Agents!At(b, "store") /\ Agents!Return(b) /\ UNCHANGED <<project, registered, now>>
      /\ AgentInv(b) /\ id \in Nat \ {0} /\ agentCall[b].args \in Agents!Args
  BY AgentFields DEF Agents!Store, Agents!At
<1>2. plan \in Agents!PlanRecord
  BY <1>1, AgentsAssumption
    DEF Agents!PlanRecord, Agents!BrokerInv, Agents!TypeOK, Agents!BrokerAssumption
<1>3. /\ agentPlans'[b] = [i \in DOMAIN agentPlans[b] \cup {id} |-> IF i = id THEN plan ELSE agentPlans[b][i]]
      /\ \A a \in Agent \ {b} : agentPlans'[a] = agentPlans[a]
      /\ agentPlans' = [a \in Agent |-> agentPlans'[a]]
  <2>1. agentPlans = [a \in Agent |-> agentPlans[a]]
    BY DEF Agents!BrokerInv, Agents!TypeOK
  <2>2. agentPlans' = [agentPlans EXCEPT ![b] = [i \in DOMAIN agentPlans[b] \cup {id} |->
                                         IF i = id THEN plan ELSE agentPlans[b][i]]]
    BY DEF Agents!Store
  <2>3. QED
    BY <2>1, <2>2
<1>4. agentPlans[b] \in [DOMAIN agentPlans[b] -> Agents!PlanRecord] /\ DOMAIN agentPlans[b] \subseteq Nat
  BY DEF Agents!BrokerInv, Agents!TypeOK
<1>5. agentPlans'[b] \in [DOMAIN agentPlans'[b] -> Agents!PlanRecord] /\ DOMAIN agentPlans'[b] \subseteq Nat
  BY <1>1, <1>2, <1>3, <1>4
<1>6. /\ nextId' \in [Agent -> Nat \ {0}] /\ nextId'[b] = id + 1
      /\ \A a \in Agent \ {b} : nextId'[a] = nextId[a]
  BY <1>1, AgentFields DEF Agents!Store
<1>7. /\ agentCall'[b].pc = "idle" /\ agentCall'[b].phase = "none"
      /\ \A a \in Agent \ {b} : agentCall'[a] = agentCall[a]
      /\ agentCall' \in [Agent -> Agents!CallRecord]
  BY <1>1, ReturnFields
<1>8. agentSince'[b] = Agents!Record(b)
  BY DEF Agents!Remember
<1>9. ~agentSince'[b].late /\ agentSince'[b].spent = agentSince[b].spent
  <2>1. nextId'[b] \in Nat /\ nextId'[b] >= nextId[b]
    BY <1>1, <1>6
  <2>2. agentCall[b].phase # "applying"
    BY <1>1, OnPath DEF Agents!Path, Agents!At, ToolNames
  <2>3. QED
    BY <1>7, <1>8, <2>1, <2>2, IdleRecord
<1>10. agentCall[b].args.tool # "read_allowed_value" /\ Agents!Allowed(b, agentCall[b].args)
  BY <1>1, OnPath DEF Agents!At, Agents!Path, Agents!Tool, ToolNames
<1>11. Agents!OnItsPath(b)' /\ Agents!SeenInv(b)'
  BY <1>7 DEF Agents!OnItsPath, Agents!SeenInv, Agents!At
<1>12. Agents!PlansInv(b)'
  <2>1. ASSUME NEW i \in DOMAIN agentPlans'[b]
        PROVE  /\ i \in 1..(nextId'[b] - 1) /\ i \notin agentSince'[b].spent
               /\ agentPlans'[b][i].args.tool # "read_allowed_value"
               /\ Agents!Allowed(b, agentPlans'[b][i].args)
    <3>1. CASE i = id
      <4>1. agentPlans'[b][i].args = agentCall[b].args
        BY <1>3, <3>1
      <4>2. i \notin agentSince'[b].spent
        BY <1>1, <1>9, <3>1 DEF AgentInv, Agents!SpentInv
      <4>3. i \in 1..(nextId'[b] - 1)
        BY <1>1, <1>6, <3>1
      <4>4. QED
        BY <1>10, <4>1, <4>2, <4>3
    <3>2. CASE i # id
      <4>1. i \in DOMAIN agentPlans[b] /\ agentPlans'[b][i] = agentPlans[b][i]
        BY <1>3, <3>2
      <4>2. i \in 1..(id - 1)
        BY <1>1, <4>1 DEF AgentInv, Agents!PlansInv
      <4>3. i \in 1..(nextId'[b] - 1)
        BY <1>1, <1>6, <4>2
      <4>4. QED
        BY <1>1, <1>9, <4>1, <4>3 DEF AgentInv, Agents!PlansInv
    <3>3. QED
      BY <3>1, <3>2
  <2>2. QED
    BY <2>1 DEF Agents!PlansInv, Agents!Allowed
<1>13. Agents!SpentInv(b)'
  <2>1. agentSince'[b].spent \subseteq 1..(nextId'[b] - 1)
    BY <1>1, <1>6, <1>9 DEF AgentInv, Agents!SpentInv
  <2>2. QED
    BY <1>7, <1>9, <2>1 DEF Agents!SpentInv
<1>14. project' = project /\ registered' = registered /\ now' = now
  BY <1>1
<1>15. QED
  BY <1>3, <1>5, <1>6, <1>7, <1>11, <1>12, <1>13, <1>14, AgentStepOf
    DEF Agents!BrokerInv, Agents!TypeOK, AgentInv

LEMMA ProjectTypes ==
  ASSUME Agents!BrokerInv
  PROVE  /\ project \in [Folder -> Agents!ProjectRecord]
         /\ \A p \in Folder : /\ project[p].values \in [Key -> Agents!Held]
                              /\ project[p].access \in [Key -> Agents!Policy]
BY DEF Agents!BrokerInv, Agents!TypeOK, Agents!ProjectRecord

LEMMA ValueDefaults == Empty \in Agents!Held /\ Absent \in Agents!Held
BY DEF Agents!Held

\* What a call writes keeps the types.
LEMMA WritingTypes ==
  ASSUME Agents!BrokerInv, NEW p \in Folder,
         \/ \E values \in [Key -> Agents!Held] : project' = [project EXCEPT ![p].values = values]
         \/ \E access \in [Key -> Agents!Policy] :
              project' = [project EXCEPT ![p].access = access, ![p].manifest = TRUE]
  PROVE  project' \in [Folder -> Agents!ProjectRecord]
<1>1. project \in [Folder -> Agents!ProjectRecord] /\ project[p] \in Agents!ProjectRecord
  BY ProjectTypes
<1>2. ASSUME NEW values \in [Key -> Agents!Held], project' = [project EXCEPT ![p].values = values]
      PROVE  project' \in [Folder -> Agents!ProjectRecord]
  BY <1>1, <1>2 DEF Agents!ProjectRecord
<1>3. ASSUME NEW access \in [Key -> Agents!Policy],
             project' = [project EXCEPT ![p].access = access, ![p].manifest = TRUE]
      PROVE  project' \in [Folder -> Agents!ProjectRecord]
  BY <1>1, <1>3 DEF Agents!ProjectRecord
<1>4. QED
  BY <1>2, <1>3

\* What a call keeps of what it has found out while it goes on.
LEMMA WritingSees ==
  ASSUME Agents!BrokerInv, Agents!Remember, UNCHANGED <<agentPlans, nextId>>,
         NEW b \in Agent, NEW c, Becomes(b, c),
         c.pc \in Agents!Path(agentCall[b].phase, Agents!Tool(b)),
         agentCall[b].phase = "applying", agentCall[b].pc \in Agents!Writing \cup {"scan"},
         c.pc \in {"compare", "replace"} => c.file \in [Key -> Agents!Held],
         c.pc \in {"scan", "save"} =>
           /\ c.manifest \in [Key -> Agents!Policy]
           /\ \A k \in Key : c.manifest[k] = "read-write" =>
                <<Agents!Target(b), k>> \in agentSince[b].open \cup OpenNow(Agents!Target(b))
  PROVE  Agents!SeenInv(b)'
<1>1. ~Agents!At(b, "idle") /\ Agents!Matters(agentCall[b])
  BY DEF Agents!At, Agents!Matters, Agents!Writing
<1>2. /\ Agents!SeenInv(b) /\ Agents!Tool(b) \in ToolNames
      /\ agentCall[b].pc \in Agents!Path("applying", Agents!Tool(b))
      /\ c.pc \in Agents!Path("applying", Agents!Tool(b))
  BY <1>1, OnPath
<1>3. /\ agentSince[b].registered \subseteq agentSince'[b].registered
      /\ agentSince[b].open \subseteq agentSince'[b].open
      /\ OpenNow(Agents!Target(b)) \subseteq agentSince'[b].open
  BY <1>1, MoveSees
<1>4. agentCall'[b] = c /\ c.phase = "applying" /\ c.args = agentCall[b].args
  BY BecomesFields DEF Becomes
<1>6. /\ Agents!Tool(b) = "plan_set_allowed_value" => <<Agents!Target(b), Agents!Key1(b)>> \in agentSince'[b].open
      /\ ~Agents!Registers(b) =>
           /\ Agents!Target(b) \in agentSince'[b].registered
           /\ Agents!Tool(b) = "plan_copy_variable_from_project" =>
                agentCall[b].args.source \in agentSince'[b].registered
  <2>1. agentCall[b].pc \in Agents!Writing \/ Agents!Tool(b) = "plan_register_current_project"
    BY <1>2 DEF Agents!Path, ToolNames
  <2>2. CASE agentCall[b].pc \in Agents!Writing
    BY <1>2, <1>3, <2>2 DEF Agents!SeenInv
  <2>3. CASE Agents!Tool(b) = "plan_register_current_project"
    BY <2>3 DEF Agents!Registers
  <2>4. QED
    BY <2>1, <2>2, <2>3
<1>7. c.pc # "read"
  BY <1>2 DEF Agents!Path, ToolNames, Agents!Writing
<1>8. c.pc \in {"policy", "source"} => ~Agents!Registers(b)
  BY <1>2 DEF Agents!Path, ToolNames, Agents!Registers
<1>9. QED
  BY <1>3, <1>4, <1>6, <1>7, <1>8
    DEF Agents!SeenInv, Agents!At, Agents!Tool, Agents!Target, Agents!Key1, Agents!Registers

LEMMA LoadFileStep ==
  ASSUME Agents!BrokerInv, Agents!Remember, NEW b \in Agent, Agents!LoadFile(b)
  PROVE  Agents!BrokerInv'
<1> DEFINE values == project[Agents!Target(b)].values
           c == [agentCall[b] EXCEPT !.pc = "compare", !.file = values]
<1>1. Agents!At(b, "file") /\ Agents!Unchanged /\ ~Agents!At(b, "idle")
  BY DEF Agents!LoadFile, Agents!At
<1>2. Agents!Return(b) \/ agentCall' = [agentCall EXCEPT ![b] = c]
  BY DEF Agents!LoadFile
<1>3. CASE agentCall' = [agentCall EXCEPT ![b] = c]
  <2>1. values \in [Key -> Agents!Held]
    BY <1>1, OnPath, ProjectTypes
  <2>2. Becomes(b, c) /\ c.pc = "compare" /\ c.file = values
    BY <1>3, <2>1, AgentFields DEF Agents!CallRecord, Becomes
  <2> HIDE DEF c, values
  <2>3. "compare" \in Agents!Path(agentCall[b].phase, Agents!Tool(b)) /\ agentCall[b].phase = "applying"
    BY <1>1, OnPath DEF Agents!Path, Agents!At, ToolNames
  <2>4. Agents!SeenInv(b)'
    BY <1>1, <2>1, <2>2, <2>3, WritingSees DEF Agents!Unchanged, Agents!At, Agents!Writing
  <2>5. QED
    BY <1>1, <2>2, <2>3, <2>4, LookStepOf
<1>4. QED
  BY <1>1, <1>2, <1>3, ReturnStepOf

LEMMA CompareFileStep ==
  ASSUME Agents!BrokerInv, Agents!Remember, NEW b \in Agent, Agents!CompareFile(b)
  PROVE  Agents!BrokerInv'
<1>1. Agents!At(b, "compare") /\ Agents!Unchanged /\ ~Agents!At(b, "idle")
  BY DEF Agents!CompareFile, Agents!At
<1>2. Agents!Return(b) \/ Agents!Go(b, "replace")
  BY DEF Agents!CompareFile
<1>3. CASE Agents!Go(b, "replace")
  <2>1. Becomes(b, agentCall'[b]) /\ agentCall'[b].pc = "replace" /\ agentCall'[b].file = agentCall[b].file
    BY <1>3, GoFields DEF Places
  <2>2. "replace" \in Agents!Path(agentCall[b].phase, Agents!Tool(b)) /\ agentCall[b].phase = "applying"
    BY <1>1, OnPath DEF Agents!Path, Agents!At, ToolNames
  <2>3. agentCall[b].file \in [Key -> Agents!Held]
    BY <1>1, OnPath DEF Agents!SeenInv, Agents!At
  <2>4. Agents!SeenInv(b)'
    BY <1>1, <2>1, <2>2, <2>3, WritingSees DEF Agents!Unchanged, Agents!At, Agents!Writing
  <2>5. QED
    BY <1>1, <2>1, <2>2, <2>4, LookStepOf
<1>4. QED
  BY <1>1, <1>2, <1>3, ReturnStepOf

LEMMA ReplaceFileStep ==
  ASSUME Agents!BrokerInv, Agents!Remember, NEW b \in Agent, Agents!ReplaceFile(b)
  PROVE  Agents!BrokerInv'
<1>1. /\ Agents!At(b, "replace") /\ ~Agents!At(b, "idle") /\ UNCHANGED <<registered, agentPlans, nextId, now>>
      /\ agentCall[b] \in Agents!CallRecord
  BY AgentFields DEF Agents!ReplaceFile, Agents!At
<1>2. /\ ArgFact(agentCall[b].args) /\ Agents!SeenInv(b) /\ Agents!Target(b) \in Folder
      /\ Agents!Tool(b) \in ToolNames /\ agentCall[b].phase \in {"planning", "applying"}
      /\ agentCall[b].pc \in Agents!Path(agentCall[b].phase, Agents!Tool(b))
  BY <1>1, OnPath
<1>3. agentCall[b].phase = "applying"
  BY <1>1, EffectApplies DEF Agents!At
<1>4. Agents!NewValue(b) \in Agents!Held
  BY <1>1, <1>2, ValueDefaults
    DEF Agents!NewValue, Agents!Adds, Agents!CallRecord, ArgFact, Agents!Tool, Agents!Held
<1>5. project' \in [Folder -> Agents!ProjectRecord]
  <2>1. [agentCall[b].file EXCEPT ![Agents!Key1(b)] = Agents!NewValue(b)] \in [Key -> Agents!Held]
    BY <1>1, <1>2, <1>4 DEF Agents!SeenInv, Agents!At
  <2>2. QED
    BY <1>2, <2>1, WritingTypes DEF Agents!ReplaceFile
<1>6. registered' \in SUBSET Folder
  BY <1>1 DEF Agents!BrokerInv, Agents!TypeOK
<1>7. CASE Agents!Return(b)
  BY <1>1, <1>5, <1>6, <1>7, EffectStepOf
<1>8. CASE Agents!Go(b, "manifest") /\ Agents!Adds(b)
  <2>1. Becomes(b, agentCall'[b]) /\ agentCall'[b].pc = "manifest"
    BY <1>8, GoFields DEF Places
  <2>2. "manifest" \in Agents!Path(agentCall[b].phase, Agents!Tool(b))
    BY <1>3, <1>8 DEF Agents!Path, Agents!Adds
  <2>3. Agents!SeenInv(b)'
    BY <1>1, <1>3, <2>1, <2>2, WritingSees DEF Agents!At, Agents!Writing
  <2>4. QED
    BY <1>1, <1>5, <1>6, <2>1, <2>2, <2>3, MoveStepOf
<1>9. QED
  BY <1>7, <1>8 DEF Agents!ReplaceFile

LEMMA LoadManifestStep ==
  ASSUME Agents!BrokerInv, Agents!Remember, NEW b \in Agent, Agents!LoadManifest(b)
  PROVE  Agents!BrokerInv'
<1> DEFINE access == project[Agents!Target(b)].access
           pc == IF Agents!Registers(b) THEN "scan" ELSE "save"
           c == [agentCall[b] EXCEPT !.pc = pc, !.manifest = access]
<1>1. Agents!At(b, "manifest") /\ Agents!Unchanged /\ ~Agents!At(b, "idle")
  BY DEF Agents!LoadManifest, Agents!At
<1>2. Agents!Return(b) \/ agentCall' = [agentCall EXCEPT ![b] = c]
  BY DEF Agents!LoadManifest
<1>3. CASE agentCall' = [agentCall EXCEPT ![b] = c]
  <2>1. access \in [Key -> Agents!Policy] /\ Agents!Target(b) \in Folder
    BY <1>1, OnPath, ProjectTypes
  <2>2. Becomes(b, c) /\ c.pc = pc /\ c.manifest = access
    BY <1>3, <2>1, AgentFields DEF Agents!CallRecord, Becomes
  <2> HIDE DEF c
  <2>3. pc \in Agents!Path(agentCall[b].phase, Agents!Tool(b)) /\ agentCall[b].phase = "applying"
    BY <1>1, OnPath DEF Agents!Path, Agents!At, ToolNames, Agents!Registers
  <2>4. \A k \in Key : access[k] = "read-write" => <<Agents!Target(b), k>> \in OpenNow(Agents!Target(b))
    <3>1. Agents!Permitted' = Agents!Permitted
      BY <1>1 DEF Agents!Permitted, Agents!Unchanged
    <3>2. QED
      BY <2>1, <3>1 DEF OpenNow, Agents!Permitted
  <2>5. pc \in {"scan", "save"}
    OBVIOUS
  <2> HIDE DEF access, pc
  <2>6. Agents!SeenInv(b)'
    BY <1>1, <2>1, <2>2, <2>3, <2>4, <2>5, WritingSees DEF Agents!Unchanged, Agents!At, Agents!Writing
  <2>7. QED
    BY <1>1, <2>2, <2>3, <2>6, LookStepOf
<1>4. QED
  BY <1>1, <1>2, <1>3, ReturnStepOf

LEMMA ScanStep ==
  ASSUME Agents!BrokerInv, Agents!Remember, NEW b \in Agent, Agents!Scan(b)
  PROVE  Agents!BrokerInv'
<1> DEFINE assigned == { k \in Key : project[Agents!Target(b)].values[k] # Absent }
           loaded == agentCall[b].manifest
<1>1. Agents!At(b, "scan") /\ Agents!Unchanged /\ ~Agents!At(b, "idle")
  BY DEF Agents!Scan, Agents!At
<1>2. PICK suggested \in SUBSET { k \in assigned : loaded[k] = "read-write" }, pc \in {"save", "register"} :
        agentCall' = [agentCall EXCEPT
          ![b].manifest = [k \in Key |-> IF k \in suggested THEN "unclassified"
                                         ELSE IF k \in assigned /\ loaded[k] = "none" THEN Default[k]
                                         ELSE loaded[k]],
          ![b].pc = pc]
  BY DEF Agents!Scan
<1> DEFINE scanned == [k \in Key |-> IF k \in suggested THEN "unclassified"
                                     ELSE IF k \in assigned /\ loaded[k] = "none" THEN Default[k]
                                     ELSE loaded[k]]
           c == [agentCall[b] EXCEPT !.manifest = scanned, !.pc = pc]
<1>3. /\ loaded \in [Key -> Agents!Policy]
      /\ \A k \in Key : loaded[k] = "read-write" => <<Agents!Target(b), k>> \in agentSince[b].open
  BY <1>1, OnPath DEF Agents!SeenInv, Agents!At
<1>4. Default \in [Key -> {"protected", "unclassified"}]
  BY AgentsAssumption DEF Agents!BrokerAssumption
<1> HIDE DEF assigned, loaded
<1>5. /\ scanned \in [Key -> Agents!Policy]
      /\ \A k \in Key : scanned[k] = "read-write" => <<Agents!Target(b), k>> \in agentSince[b].open
  BY <1>3, <1>4 DEF Agents!Policy
<1>6. agentCall' = [agentCall EXCEPT ![b] = c]
  BY <1>2 DEF loaded
<1> HIDE DEF scanned
<1>7. Becomes(b, c) /\ c.pc = pc /\ c.manifest = scanned
  BY <1>5, <1>6, AgentFields DEF Agents!CallRecord, Becomes
<1> HIDE DEF c
<1>8. pc \in Agents!Path(agentCall[b].phase, Agents!Tool(b)) /\ agentCall[b].phase = "applying"
  BY <1>1, OnPath DEF Agents!Path, Agents!At, ToolNames
<1>9. Agents!SeenInv(b)'
  <2>1. /\ UNCHANGED <<agentPlans, nextId>> /\ agentCall[b].pc \in Agents!Writing \cup {"scan"}
        /\ c.pc \notin {"compare", "replace"}
    BY <1>1, <1>7 DEF Agents!Unchanged, Agents!At
  <2>2. c.pc \in Agents!Path(agentCall[b].phase, Agents!Tool(b))
    BY <1>7, <1>8
  <2>3. /\ c.manifest \in [Key -> Agents!Policy]
        /\ \A k \in Key : c.manifest[k] = "read-write" =>
             <<Agents!Target(b), k>> \in agentSince[b].open \cup OpenNow(Agents!Target(b))
    BY <1>5, <1>7
  <2>4. QED
    BY <1>7, <1>8, <2>1, <2>2, <2>3, WritingSees
<1>10. QED
  BY <1>1, <1>7, <1>8, <1>9, LookStepOf

\* Whether a key is open in what is saved.
LEMMA NewPoliciesAre ==
  ASSUME Agents!BrokerInv, NEW b \in Agent, Agents!At(b, "save")
  PROVE  /\ Agents!NewPolicies(b) \in [Key -> Agents!Policy]
         /\ \A k \in Key : Agents!NewPolicies(b)[k] = "read-write" =>
              \/ <<Agents!Target(b), k>> \in agentSince[b].open
              \/ /\ Agents!Tool(b) = "plan_classification" /\ k = Agents!Key1(b)
                 /\ agentCall[b].args.access = "read-write"
<1>1. ~Agents!At(b, "idle") /\ agentCall[b].pc = "save"
  BY DEF Agents!At
<1>2. /\ ArgFact(agentCall[b].args) /\ Agents!SeenInv(b)
  BY <1>1, OnPath
<1>3. /\ agentCall[b].manifest \in [Key -> Agents!Policy]
      /\ \A k \in Key : agentCall[b].manifest[k] = "read-write" => <<Agents!Target(b), k>> \in agentSince[b].open
  BY <1>1, <1>2 DEF Agents!SeenInv
<1>4. Default \in [Key -> {"protected", "unclassified"}] /\ Access \subseteq Agents!Policy
  BY AgentsAssumption DEF Agents!BrokerAssumption, Agents!Policy
<1>5. CASE Agents!Adds(b)
  <2>1. Agents!NewPolicies(b) = [agentCall[b].manifest EXCEPT ![Agents!Key1(b)] = Default[Agents!Key1(b)]]
    BY <1>5 DEF Agents!NewPolicies, Agents!Adds
  <2>2. Agents!Key1(b) \in Key
    BY <1>2, <1>5 DEF ArgFact, Agents!Adds, Agents!Tool, Agents!Key1
  <2>3. Default[Agents!Key1(b)] \in Agents!Policy /\ Default[Agents!Key1(b)] # "read-write"
    BY <1>4, <2>2 DEF Agents!Policy
  <2>4. QED
    BY <1>3, <2>1, <2>2, <2>3
<1>6. CASE Agents!Tool(b) = "plan_classification"
  <2>1. Agents!NewPolicies(b) = [agentCall[b].manifest EXCEPT ![Agents!Key1(b)] = agentCall[b].args.access]
    BY <1>6 DEF Agents!NewPolicies, Agents!Adds
  <2>2. Agents!Key1(b) \in Key /\ agentCall[b].args.access \in Agents!Policy
    BY <1>2, <1>4, <1>6 DEF ArgFact, Agents!Tool, Agents!Key1
  <2>3. QED
    BY <1>3, <1>6, <2>1, <2>2
<1>7. CASE ~Agents!Adds(b) /\ Agents!Tool(b) # "plan_classification"
  BY <1>3, <1>7 DEF Agents!NewPolicies
<1>8. QED
  BY <1>5, <1>6, <1>7

LEMMA SaveManifestStep ==
  ASSUME Agents!BrokerInv, Agents!Remember, NEW b \in Agent, Agents!SaveManifest(b)
  PROVE  Agents!BrokerInv'
<1>1. /\ Agents!At(b, "save") /\ ~Agents!At(b, "idle") /\ UNCHANGED <<registered, agentPlans, nextId, now>>
  BY DEF Agents!SaveManifest, Agents!At
<1>2. Agents!Target(b) \in Folder
  BY <1>1, OnPath
<1>3. agentCall[b].phase = "applying"
  BY <1>1, EffectApplies DEF Agents!At
<1>4. project' \in [Folder -> Agents!ProjectRecord]
  BY <1>1, <1>2, NewPoliciesAre, WritingTypes DEF Agents!SaveManifest
<1>5. registered' \in SUBSET Folder
  BY <1>1 DEF Agents!BrokerInv, Agents!TypeOK
<1>6. CASE Agents!Return(b)
  BY <1>1, <1>4, <1>5, <1>6, EffectStepOf
<1>7. CASE Agents!Go(b, "register") /\ Agents!Registers(b)
  <2>1. Becomes(b, agentCall'[b]) /\ agentCall'[b].pc = "register"
    BY <1>7, GoFields DEF Places
  <2>2. "register" \in Agents!Path(agentCall[b].phase, Agents!Tool(b))
    BY <1>3, <1>7 DEF Agents!Path, Agents!Registers
  <2>3. Agents!SeenInv(b)'
    BY <1>1, <1>3, <2>1, <2>2, WritingSees DEF Agents!At, Agents!Writing
  <2>4. QED
    BY <1>1, <1>4, <1>5, <2>1, <2>2, <2>3, MoveStepOf
<1>8. QED
  BY <1>6, <1>7 DEF Agents!SaveManifest

LEMMA RestartStep ==
  ASSUME Agents!BrokerInv, Agents!Remember, NEW b \in Agent, Agents!Restart(b)
  PROVE  Agents!BrokerInv'
<1>1. /\ Agents!Return(b) /\ UNCHANGED <<project, registered, now>>
      /\ agentPlans' = [agentPlans EXCEPT ![b] = Agents!Nothing]
      /\ nextId' = [nextId EXCEPT ![b] = 1]
  BY DEF Agents!Restart
<1>2. /\ agentPlans'[b] = Agents!Nothing /\ \A a \in Agent \ {b} : agentPlans'[a] = agentPlans[a]
      /\ agentPlans' = [a \in Agent |-> agentPlans'[a]]
  <2>1. agentPlans = [a \in Agent |-> agentPlans[a]]
    BY DEF Agents!BrokerInv, Agents!TypeOK
  <2>2. QED
    BY <1>1, <2>1
<1>3. /\ nextId'[b] = 1 /\ \A a \in Agent \ {b} : nextId'[a] = nextId[a]
      /\ nextId' \in [Agent -> Nat \ {0}]
  BY <1>1, AgentFields
<1>4. agentPlans'[b] \in [DOMAIN agentPlans'[b] -> Agents!PlanRecord] /\ DOMAIN agentPlans'[b] \subseteq Nat
  BY <1>2 DEF Agents!Nothing
<1>5. AgentInv(b)'
  BY <1>1, <1>2, <1>3, ReturnFields, ReturningAgent DEF Agents!Remember
<1>6. QED
  BY <1>1, <1>2, <1>3, <1>4, <1>5, ReturnFields, AgentStepOf DEF Agents!BrokerInv, Agents!TypeOK

\* A step of nobody's call.
LEMMA OutsideStep ==
  ASSUME Agents!BrokerInv, Agents!Remember, UNCHANGED <<agentPlans, nextId, agentCall>>,
         now' \in Nat,
         project' \in [Folder -> Agents!ProjectRecord], registered' \in SUBSET Folder
  PROVE  Agents!BrokerInv'
<1>1. agentSince' \in [Agent -> SinceRecord]
  BY RecordTypes DEF Agents!Remember
<1>2. \A a \in Agent : AgentInv(a)'
  BY OtherAgent DEF Agents!Remember
<1>3. agentPlans' = agentPlans /\ nextId' = nextId /\ agentCall' = agentCall
  OBVIOUS
<1>4. Agents!TypeOK'
  BY <1>1, <1>3 DEF Agents!TypeOK, SinceRecord, Agents!BrokerInv
<1>5. QED
  BY <1>2, <1>4 DEF Agents!BrokerInv, AgentInv

LEMMA UserStep ==
  ASSUME Agents!BrokerInv, Agents!Remember, Agents!User
  PROVE  Agents!BrokerInv'
<1>1. project \in [Folder -> Agents!ProjectRecord] /\ registered \in SUBSET Folder /\ now \in Nat
  BY DEF Agents!BrokerInv, Agents!TypeOK
<1>2. ASSUME NEW p \in Folder, NEW access \in [Key -> Access \cup {"none"}], Agents!UserSaves(p, access)
      PROVE  Agents!BrokerInv'
  <2>1. access \in [Key -> Agents!Policy]
    BY AgentsAssumption DEF Agents!BrokerAssumption, Agents!Policy
  <2>2. project' \in [Folder -> Agents!ProjectRecord]
    BY <1>2, <2>1, WritingTypes DEF Agents!UserSaves
  <2>3. QED
    BY <1>1, <1>2, <2>2, OutsideStep DEF Agents!UserSaves
<1>3. ASSUME NEW p \in Folder, NEW k \in Key, NEW value \in Value \cup {Absent}, Agents!UserEdits(p, k, value)
      PROVE  Agents!BrokerInv'
  <2>1. value \in Agents!Held
    BY DEF Agents!Held
  <2>2. [project[p].values EXCEPT ![k] = value] \in [Key -> Agents!Held]
    BY <2>1, ProjectTypes
  <2>3. project' = [project EXCEPT ![p].values = [project[p].values EXCEPT ![k] = value]]
    BY <1>1, <1>3 DEF Agents!UserEdits
  <2>4. project' \in [Folder -> Agents!ProjectRecord]
    BY <2>2, <2>3, WritingTypes
  <2>5. QED
    BY <1>1, <1>3, <2>4, OutsideStep DEF Agents!UserEdits
<1>4. ASSUME NEW p \in Folder, Agents!UserRemoves(p) \/ Agents!UserRegisters(p)
      PROVE  Agents!BrokerInv'
  BY <1>1, <1>4, OutsideStep DEF Agents!UserRemoves, Agents!UserRegisters
<1>5. QED
  BY <1>2, <1>3, <1>4 DEF Agents!User

LEMMA TickStep ==
  ASSUME Agents!BrokerInv, Agents!Remember, Agents!Tick
  PROVE  Agents!BrokerInv'
BY OutsideStep DEF Agents!Tick, Agents!BrokerInv, Agents!TypeOK

LEMMA AgentStep ==
  ASSUME Agents!BrokerInv, Agents!Remember, NEW b \in Agent, Agents!Step(b)
  PROVE  Agents!BrokerInv'
<1>1. CASE Agents!Open(b) \/ Agents!CheckPolicy(b) \/ Agents!OpenSource(b) \/ Agents!Candidate(b) \/ Agents!Store(b)
  BY <1>1, OpenStep, CheckPolicyStep, OpenSourceStep, CandidateStep, StoreStep
<1>2. CASE Agents!ReadAllowed(b)
  <2>1. /\ Agents!At(b, "read") /\ Agents!Unchanged
        /\ agentCall' =
             [agentCall EXCEPT ![b] = [Agents!Idle EXCEPT !.held = project[Agents!Target(b)].values[Agents!Key1(b)]]]
    BY <1>2 DEF Agents!ReadAllowed
  <2>2. agentCall[b].args \in Agents!Args /\ Agents!OnItsPath(b) /\ agentCall \in [Agent -> Agents!CallRecord]
    BY <2>1, AgentFields DEF Agents!At, AgentInv
  <2>3. Agents!Tool(b) = "read_allowed_value"
    BY <2>1, <2>2, OnPath DEF Agents!Path, Agents!At, ToolNames
  <2>4. project[Agents!Target(b)].values[Agents!Key1(b)] \in Agents!Held
    <3>1. Agents!Target(b) \in Folder /\ Agents!Key1(b) \in Key
      BY <2>2, <2>3, ArgFacts DEF ArgFact, Agents!Tool, Agents!Target, Agents!Key1
    <3>2. QED
      BY <3>1 DEF Agents!BrokerInv, Agents!TypeOK, Agents!ProjectRecord
  <2>5. /\ agentCall'[b].pc = "idle" /\ agentCall'[b].phase = "none"
        /\ \A a \in Agent \ {b} : agentCall'[a] = agentCall[a]
        /\ agentCall' \in [Agent -> Agents!CallRecord]
    BY <2>1, <2>2, <2>4, IdleType DEF Agents!CallRecord
  <2>6. AgentInv(b)'
    BY <2>1, <2>5, ReturningAgent DEF Agents!Remember, Agents!Unchanged
  <2>7. QED
    BY <2>1, <2>5, <2>6, CallStepOf
<1>3. CASE \/ Agents!LoadFile(b) \/ Agents!CompareFile(b) \/ Agents!ReplaceFile(b)
           \/ Agents!LoadManifest(b) \/ Agents!Scan(b) \/ Agents!SaveManifest(b)
  BY <1>3, LoadFileStep, CompareFileStep, ReplaceFileStep, LoadManifestStep, ScanStep, SaveManifestStep
<1>4. CASE Agents!RegisterProject(b)
  <2>1. /\ Agents!At(b, "register") /\ Agents!Return(b)
        /\ UNCHANGED <<project, agentPlans, nextId, now>>
        /\ registered' = registered \cup {Agents!Target(b)} /\ agentCall[b].args \in Agents!Args
    BY <1>4, AgentFields DEF Agents!RegisterProject, Agents!At
  <2>2. Agents!Target(b) \in Folder
    BY <2>1, ArgFacts DEF ArgFact, Agents!Target
  <2>3. QED
    BY <2>1, <2>2, EffectStepOf DEF Agents!BrokerInv, Agents!TypeOK
<1>5. CASE Agents!Fails(b)
  BY <1>5, ReturnStepOf DEF Agents!Fails
<1>6. QED
  BY <1>1, <1>2, <1>3, <1>4, <1>5 DEF Agents!Step

LEMMA BrokerNext ==
  ASSUME Agents!BrokerInv, [Agents!Next]_(Agents!vars)
  PROVE  Agents!BrokerInv'
<1>1. CASE Agents!Next
  <2>1. Requests \subseteq Agents!Args
    BY AgentsAssumption DEF Agents!BrokerAssumption
  <2>2. QED
    BY <1>1, <2>1, CallToolStep, TakeStep, AgentStep, RestartStep, UserStep, TickStep DEF Agents!Next
<1>2. CASE UNCHANGED Agents!vars
  <2>1. UNCHANGED <<project, registered, agentPlans, nextId, now, agentCall, agentSince>>
    BY <1>2 DEF Agents!vars
  <2>2. Agents!TypeOK'
    BY <2>1 DEF Agents!BrokerInv, Agents!TypeOK
  <2>3. ASSUME NEW b \in Agent
        PROVE  Agents!OnItsPath(b)' /\ Agents!PlansInv(b)' /\ Agents!SpentInv(b)' /\ Agents!SeenInv(b)'
    <3>1. Agents!OnItsPath(b) /\ Agents!PlansInv(b) /\ Agents!SpentInv(b) /\ Agents!SeenInv(b)
      BY DEF Agents!BrokerInv
    <3>2. Agents!OnItsPath(b)'
      BY <2>1, <3>1 DEF Agents!OnItsPath, Agents!At, Agents!Tool, Agents!Allowed
    <3>3. Agents!PlansInv(b)'
      BY <2>1, <3>1 DEF Agents!PlansInv, Agents!Allowed
    <3>4. Agents!SpentInv(b)'
      BY <2>1, <3>1 DEF Agents!SpentInv, Agents!Tool
    <3>5. Agents!SeenInv(b)'
      BY <2>1, <3>1
      DEF Agents!SeenInv, Agents!At, Agents!Tool, Agents!Target, Agents!Key1, Agents!Registers
    <3>6. QED
      BY <3>2, <3>3, <3>4, <3>5
  <2>4. QED
    BY <2>2, <2>3 DEF Agents!BrokerInv
<1>3. QED
  BY <1>1, <1>2

LEMMA BrokerInit ==
  ASSUME Agents!Init
  PROVE  Agents!BrokerInv
<1>1. /\ \A b \in Agent : agentCall[b] = Agents!Idle /\ agentPlans[b] = Agents!Nothing /\ nextId[b] = 1
                       /\ agentSince[b] = [open |-> {}, registered |-> {}, spent |-> {}, late |-> FALSE]
  BY DEF Agents!Init
<1>2. project \in [Folder -> Agents!ProjectRecord]
  <2>1. Access \cup {"none"} \subseteq Agents!Policy /\ Value \cup {Absent} \subseteq Agents!Held
    BY AgentsAssumption DEF Agents!BrokerAssumption, Agents!Policy, Agents!Held
  <2>2. ASSUME NEW p \in Folder
        PROVE  project[p] \in Agents!ProjectRecord
    BY <2>1 DEF Agents!Init, Agents!ProjectRecord
  <2>3. QED
    BY <2>2 DEF Agents!Init
<1>3. Agents!TypeOK
  BY <1>2, IdleType DEF Agents!Init, Agents!TypeOK, Agents!Nothing
<1>4. ASSUME NEW b \in Agent
      PROVE  Agents!OnItsPath(b) /\ Agents!PlansInv(b) /\ Agents!SpentInv(b) /\ Agents!SeenInv(b)
  <2>1. /\ agentCall[b].pc = "idle" /\ agentCall[b].phase = "none" /\ DOMAIN agentPlans[b] = {}
        /\ agentSince[b].spent = {} /\ ~agentSince[b].late
    BY <1>1, IdleType DEF Agents!Nothing
  <2>2. QED
    BY <2>1 DEF Agents!OnItsPath, Agents!PlansInv, Agents!SpentInv, Agents!SeenInv, Agents!At
<1>5. QED
  BY <1>3, <1>4 DEF Agents!BrokerInv

\* What the agents' calls have found out and the plans they hold are what the properties need.
THEOREM BrokerInvariant == Agents!Spec => []Agents!BrokerInv
BY BrokerInit, BrokerNext, PTL DEF Agents!Spec

----------------------------------------------------------------------------
LEMMA EffectStage ==
  ASSUME Agents!BrokerInv, NEW b \in Agent, Agents!Effect(b)
  PROVE  /\ Agents!OnItsPath(b) /\ Agents!SpentInv(b) /\ Agents!SeenInv(b) /\ agentCall[b].phase = "applying"
         /\ agentCall[b].args \in Agents!Args /\ Agents!Allowed(b, agentCall[b].args)
         /\ agentCall[b].pc \in Agents!Path("applying", Agents!Tool(b))
<1>1. /\ Agents!OnItsPath(b) /\ Agents!SpentInv(b) /\ Agents!SeenInv(b)
      /\ agentCall[b].pc \in {"replace", "save", "register"}
  BY DEF Agents!BrokerInv, Agents!Effect
<1>2. agentCall[b].phase = "applying"
  BY <1>1, EffectApplies
<1>3. QED
  BY <1>1, <1>2 DEF Agents!OnItsPath, Agents!At

LEMMA NeedsAccess ==
  ASSUME Agents!BrokerInv, NEW b \in Agent,
         \/ Agents!At(b, "read") /\ agentCall'[b].held # Absent
         \/ Agents!Tool(b) = "plan_set_allowed_value" /\ Agents!Effect(b) /\ project' # project
  PROVE  <<Agents!Target(b), Agents!Key1(b)>> \in agentSince[b].open
<1>1. CASE Agents!At(b, "read")
  BY <1>1 DEF Agents!BrokerInv, Agents!SeenInv
<1>2. CASE Agents!Tool(b) = "plan_set_allowed_value" /\ Agents!Effect(b)
  <2>1. /\ Agents!SeenInv(b) /\ agentCall[b].phase = "applying"
        /\ agentCall[b].pc \in Agents!Path("applying", Agents!Tool(b))
        /\ agentCall[b].pc \in {"replace", "save", "register"}
    BY <1>2, EffectStage DEF Agents!Effect
  <2>2. agentCall[b].pc \in Agents!Writing
    BY <1>2, <2>1 DEF Agents!Path, Agents!Writing
  <2>3. QED
    BY <1>2, <2>1, <2>2 DEF Agents!SeenInv
<1>3. QED
  BY <1>1, <1>2

\* An agent sees a value, or replaces one by its own, only under a policy that permitted it at some
\* moment of the call: the look at the policy is of the same call, and of the same key.
LEMMA BrokerNeedsAccess == Agents!Spec => Agents!AgentNeedsAccess
<1>1. Agents!BrokerInv /\ [Agents!Next]_(Agents!vars) =>
        [ \A b \in Agent :
            (Agents!At(b, "read") /\ agentCall'[b].held # Absent)
              \/ (Agents!Tool(b) = "plan_set_allowed_value" /\ Agents!Effect(b) /\ project' # project)
            => <<Agents!Target(b), Agents!Key1(b)>> \in agentSince[b].open ]_(Agents!vars)
  BY NeedsAccess
<1>2. QED
  BY <1>1, BrokerInvariant, PTL DEF Agents!Spec, Agents!AgentNeedsAccess

\* The steps of a call that change a project.
LEMMA Touches ==
  ASSUME Agents!BrokerInv, NEW b \in Agent, Agents!Next, agentCall'[b] # agentCall[b],
         project' # project
  PROVE  Agents!ReplaceFile(b) \/ Agents!SaveManifest(b)
<1>1. agentCall' # agentCall
  OBVIOUS
<1>2. PICK c \in Agent : Agents!ReplaceFile(c) \/ Agents!SaveManifest(c)
  BY <1>1
    DEF Agents!Next, Agents!Step, Agents!User, Agents!Tick, Agents!CallTool, Agents!Take,
        Agents!Restart, Agents!Open, Agents!CheckPolicy, Agents!ReadAllowed, Agents!OpenSource,
        Agents!Candidate, Agents!Store, Agents!LoadFile, Agents!CompareFile, Agents!LoadManifest,
        Agents!Scan, Agents!RegisterProject, Agents!Fails, Agents!UserSaves,
        Agents!UserEdits, Agents!UserRemoves, Agents!UserRegisters, Agents!Unchanged
<1>3. Agents!Return(c) \/ Agents!Go(c, "register") \/ Agents!Go(c, "manifest")
  BY <1>2 DEF Agents!ReplaceFile, Agents!SaveManifest
<1>4. \A a \in Agent \ {c} : agentCall'[a] = agentCall[a]
  <2>1. "register" \in Places /\ "manifest" \in Places
    BY DEF Places
  <2>2. QED
    BY <1>3, <2>1, ReturnFields, GoFields, BecomesFields
<1>5. QED
  BY <1>2, <1>4

\* What a call changes and copies from was registered at some moment of it.
LEMMA BrokerOnlyRegistered == Agents!Spec => Agents!OnlyRegistered
<1>1. Agents!BrokerInv /\ [Agents!Next]_(Agents!vars) =>
        [ \A b \in Agent : Agents!Effect(b) /\ project' # project =>
            IF Agents!Registers(b) THEN Agents!Target(b) = Workspace[b]
            ELSE /\ Agents!Target(b) \in agentSince[b].registered
                 /\ Agents!Tool(b) = "plan_copy_variable_from_project" =>
                      agentCall[b].args.source \in agentSince[b].registered ]_(Agents!vars)
  <2>1. ASSUME Agents!BrokerInv, NEW b \in Agent, Agents!Effect(b)
        PROVE  IF Agents!Registers(b) THEN Agents!Target(b) = Workspace[b]
               ELSE /\ Agents!Target(b) \in agentSince[b].registered
                    /\ Agents!Tool(b) = "plan_copy_variable_from_project" =>
                         agentCall[b].args.source \in agentSince[b].registered
    <3>1. /\ Agents!SeenInv(b) /\ Agents!Allowed(b, agentCall[b].args) /\ agentCall[b].phase = "applying"
          /\ agentCall[b].pc \in Agents!Path("applying", Agents!Tool(b))
          /\ agentCall[b].pc \in {"replace", "save", "register"}
      BY <2>1, EffectStage DEF Agents!Effect
    <3>2. CASE Agents!Registers(b)
      BY <3>1, <3>2 DEF Agents!Allowed, Agents!Registers, Agents!Tool, Agents!Target
    <3>3. CASE ~Agents!Registers(b)
      <4>1. ~Agents!At(b, "idle")
        BY <3>1 DEF Agents!At
      <4>2. agentCall[b].pc \in Agents!Writing
        BY <2>1, <3>1, <3>3, <4>1, OnPath DEF Agents!Path, Agents!Registers, ToolNames, Agents!Writing
      <4>3. QED
        BY <3>1, <3>3, <4>2 DEF Agents!SeenInv
    <3>4. QED
      BY <3>2, <3>3
  <2>2. QED
    BY <2>1
<1>2. QED
  BY <1>1, BrokerInvariant, PTL DEF Agents!Spec, Agents!OnlyRegistered

\* A change is made for a plan that was not spent before and was taken in time.
LEMMA BrokerSingleUse == Agents!Spec => Agents!SingleUse
<1>1. Agents!BrokerInv /\ [Agents!Next]_(Agents!vars) =>
        [ \A b \in Agent :
            Agents!Effect(b) => agentCall[b].id \notin agentSince[b].spent /\ ~agentSince[b].late ]_(Agents!vars)
  <2>1. ASSUME Agents!BrokerInv, NEW b \in Agent, Agents!Effect(b)
        PROVE  agentCall[b].id \notin agentSince[b].spent /\ ~agentSince[b].late
    BY <2>1, EffectStage DEF Agents!SpentInv
  <2>2. QED
    BY <2>1
<1>2. QED
  BY <1>1, BrokerInvariant, PTL DEF Agents!Spec, Agents!SingleUse

\* Which keys a step opens.
LEMMA Opening ==
  ASSUME Agents!BrokerInv, NEW b \in Agent, NEW x \in Agents!Permitted' \ Agents!Permitted,
         Agents!Next, agentCall'[b] # agentCall[b]
  PROVE  \/ x \in agentSince[b].open
         \/ /\ Agents!Effect(b) /\ Agents!Tool(b) = "plan_classification"
            /\ x = <<Agents!Target(b), Agents!Key1(b)>> /\ agentCall[b].args.access = "read-write"
<1>1. PICK p \in Folder, k \in Key :
        /\ x = <<p, k>>
        /\ project'[p].access[k] = "read-write" /\ project[p].access[k] # "read-write"
  BY DEF Agents!Permitted
<1>2. project \in [Folder -> Agents!ProjectRecord] /\ project[p] \in Agents!ProjectRecord
  BY ProjectTypes
<1>3. CASE Agents!ReplaceFile(b)
  <2>1. PICK values : project' = [project EXCEPT ![Agents!Target(b)].values = values]
    BY <1>3 DEF Agents!ReplaceFile
  <2>2. project'[p].access = project[p].access
    BY <1>2, <2>1 DEF Agents!ProjectRecord
  <2>3. QED
    BY <1>1, <2>2
<1>4. CASE Agents!SaveManifest(b)
  <2>1. /\ Agents!At(b, "save")
        /\ project' = [project EXCEPT ![Agents!Target(b)].access = Agents!NewPolicies(b),
                                      ![Agents!Target(b)].manifest = TRUE]
    BY <1>4 DEF Agents!SaveManifest
  <2>2. p = Agents!Target(b) /\ Agents!NewPolicies(b)[k] = "read-write"
    BY <1>1, <1>2, <2>1 DEF Agents!ProjectRecord
  <2>3. Agents!Effect(b)
    BY <2>1 DEF Agents!Effect, Agents!At
  <2>4. QED
    BY <1>1, <2>1, <2>2, <2>3, NewPoliciesAre
<1>5. project' # project
  BY <1>1
<1>6. QED
  BY <1>3, <1>4, <1>5, Touches

\* A key that was closed before a call and during it is opened by that call only if it applies a
\* plan that classifies the key: a copy that is saved has nothing open that was not so when it was
\* loaded, and what is added to it does not open anything.
LEMMA BrokerOpensOnRequest == Agents!Spec => Agents!OpensOnRequest
<1>1. Agents!BrokerInv /\ [Agents!Next]_(Agents!vars) =>
        [ \A b \in Agent : agentCall'[b] # agentCall[b] =>
            \A x \in Agents!Permitted' \ Agents!Permitted :
              \/ x \in agentSince[b].open
              \/ /\ Agents!Effect(b) /\ Agents!Tool(b) = "plan_classification"
                 /\ x = <<Agents!Target(b), Agents!Key1(b)>> /\ agentCall[b].args.access = "read-write" ]_(Agents!vars)
  BY Opening
<1>2. QED
  BY <1>1, BrokerInvariant, PTL DEF Agents!Spec, Agents!OpensOnRequest

----------------------------------------------------------------------------
\* The least of a set of numbers is one of them.
LEMMA LeastIsIn ==
  ASSUME NEW S \in SUBSET Nat, S # {}
  PROVE  Actions!Min(S) \in S
<1> DEFINE less == { ss \in Nat \X Nat : ss[1] < ss[2] }
<1>1. IsWellFoundedOn(less, Nat)
  BY NatLessThanWellFounded DEF OpToRel
<1>2. \E x \in S : \A y \in S : ~(<<y, x>> \in less)
  <2> HIDE DEF less
  <2>1. QED
    BY <1>1, WFMin
<1>3. \E x \in S : \A y \in S : x <= y
  <2>1. PICK x \in S : \A y \in S : ~(<<y, x>> \in less)
    BY <1>2
  <2>2. ASSUME NEW y \in S
        PROVE  x <= y
    <3>1. x \in Nat /\ y \in Nat /\ ~(<<y, x>> \in less)
      BY <2>1
    <3>2. ~(y < x)
      BY <3>1
    <3>3. QED
      BY <3>1, <3>2
  <2>3. QED
    BY <2>2
<1>4. QED
  BY <1>3 DEF Actions!Min

LEMMA ManifestFacts ==
  ASSUME NEW m \in Manifest
  PROVE  /\ m.id \in Pack /\ m.bindings \subseteq Binding /\ m.kind \in {"cli", "http"}
         /\ m.kind = "cli" => DOMAIN m.profiles \subseteq Nat \ {0}
BY ActionsAssumption DEF Actions!ActionAssumption

\* The profile that is chosen is one for that version.
LEMMA ProfileIsFor ==
  ASSUME NEW m \in Manifest, m.kind = "cli", NEW version, Actions!ProfileFor(m, version) # 0
  PROVE  /\ Actions!ProfileFor(m, version) \in DOMAIN m.profiles
         /\ Actions!ProfileFor(m, version) \in Nat
         /\ version \in m.profiles[Actions!ProfileFor(m, version)].versions
<1> DEFINE fits == { i \in DOMAIN m.profiles : version \in m.profiles[i].versions }
<1>1. Actions!ProfileFor(m, version) = Actions!Min(fits) /\ fits # {}
  BY DEF Actions!ProfileFor
<1>2. fits \in SUBSET Nat
  BY ManifestFacts
<1>3. Actions!Min(fits) \in fits
  BY <1>1, <1>2, LeastIsIn
<1>4. QED
  BY <1>1, <1>2, <1>3

HostInv(h) == Actions!PackSeen(h) /\ Actions!StampsHold(h) /\ Actions!ProfileHolds(h)

HostFacts(h) ==
  /\ packCall[h] \in Actions!CallRecord
  /\ versions[h] \in [stamp : Nat, version : Version \cup {NoTool}]
  /\ packPlan[h] \in [pack : Pack \cup {NoPack}, bound : SUBSET Binding, shown : Manifest \cup {NoPack}]
  /\ packSince[h] \in [had : SUBSET (Manifest \cup {NoPack}), upgraded : BOOLEAN]
  /\ HostInv(h)

LEMMA HostStarts ==
  ASSUME Actions!PackInv
  PROVE  /\ packCall \in [Host -> Actions!CallRecord]
         /\ versions \in [Host -> [stamp : Nat, version : Version \cup {NoTool}]]
         /\ packPlan \in [Host -> [pack : Pack \cup {NoPack}, bound : SUBSET Binding, shown : Manifest \cup {NoPack}]]
         /\ packSince \in [Host -> [had : SUBSET (Manifest \cup {NoPack}), upgraded : BOOLEAN]]
         /\ tool.version \in Version \cup {NoTool} /\ tool.stamp \in Nat \ {0}
         /\ packs \in [Pack -> Manifest \cup {NoPack}]
         /\ \A h \in Host : HostFacts(h)
BY DEF Actions!PackInv, Actions!TypeOK, HostInv, HostFacts

LEMMA RestFacts ==
  Actions!Rest \in Actions!CallRecord /\ Actions!Rest.pc = "rest" /\ Actions!Rest.stamp = 0 /\ Actions!Rest.pack = NoPack
BY DEF Actions!Rest, Actions!CallRecord

LEMMA FreshFacts ==
  /\ Actions!Fresh \in [had : SUBSET (Manifest \cup {NoPack}), upgraded : BOOLEAN]
  /\ ~Actions!Fresh.upgraded
BY DEF Actions!Fresh

\* A step of one process keeps the invariant if it keeps its part and the types.
LEMMA HostStep ==
  ASSUME Actions!PackInv, NEW h \in Host, Actions!OthersStay, HostInv(h)',
         \A g \in Host \ {h} : /\ packCall'[g] = packCall[g] /\ versions'[g] = versions[g] /\ packPlan'[g] = packPlan[g]
                               /\ packSince'[g] = packSince[g],
         packCall' \in [Host -> Actions!CallRecord],
         versions' \in [Host -> [stamp : Nat, version : Version \cup {NoTool}]],
         packPlan' \in [Host -> [pack : Pack \cup {NoPack}, bound : SUBSET Binding, shown : Manifest \cup {NoPack}]],
         packSince' \in [Host -> [had : SUBSET (Manifest \cup {NoPack}), upgraded : BOOLEAN]]
  PROVE  Actions!PackInv'
<1>1. Actions!TypeOK'
  BY DEF Actions!PackInv, Actions!TypeOK, Actions!OthersStay, Actions!deskVars
<1>2. ASSUME NEW g \in Host
      PROVE  HostInv(g)'
  <2>1. CASE g = h
    BY <2>1
  <2>2. CASE g # h
    <3>1. HostInv(g) /\ packs' = packs /\ tool' = tool
      BY DEF Actions!PackInv, Actions!OthersStay, Actions!deskVars, HostInv
    <3>2. /\ packCall'[g] = packCall[g] /\ versions'[g] = versions[g]
          /\ packPlan'[g] = packPlan[g] /\ packSince'[g] = packSince[g]
      BY <2>2
    <3>3. QED
      BY <3>1, <3>2
        DEF HostInv, Actions!PackSeen, Actions!StampsHold, Actions!ProfileHolds, Actions!At
  <2>3. QED
    BY <2>1, <2>2
<1>3. QED
  BY <1>1, <1>2 DEF Actions!PackInv, HostInv

\* The parts of a process's state that a call leaves behind.
LEMMA PackReturnStep ==
  ASSUME Actions!PackInv, NEW h \in Host, Actions!OthersStay, Actions!Return(h),
         \/ versions' = versions
         \/ /\ versions'[h].stamp <= tool.stamp
            /\ versions'[h].stamp = tool.stamp => versions'[h].version = tool.version,
         \A g \in Host \ {h} : versions'[g] = versions[g] /\ packPlan'[g] = packPlan[g],
         packPlan'[h] = packPlan[h] \/ packPlan'[h].pack \in Pack,
         versions' \in [Host -> [stamp : Nat, version : Version \cup {NoTool}]],
         packPlan' \in [Host -> [pack : Pack \cup {NoPack}, bound : SUBSET Binding, shown : Manifest \cup {NoPack}]]
  PROVE  Actions!PackInv'
<1>1. /\ packCall'[h] = Actions!Rest /\ packCall' \in [Host -> Actions!CallRecord]
      /\ packSince'[h] = Actions!Fresh
      /\ packSince' \in [Host -> [had : SUBSET (Manifest \cup {NoPack}), upgraded : BOOLEAN]]
      /\ \A g \in Host \ {h} : packCall'[g] = packCall[g] /\ packSince'[g] = packSince[g]
  BY HostStarts, RestFacts, FreshFacts DEF Actions!Return
<1>2. tool' = tool /\ tool.stamp \in Nat
  BY HostStarts DEF Actions!OthersStay
<1>3. Actions!PackSeen(h)'
  <2>1. Actions!PackSeen(h)
    BY DEF Actions!PackInv
  <2>2. QED
    BY <1>1, <2>1, RestFacts DEF Actions!PackSeen, Actions!At
<1>4. Actions!StampsHold(h)'
  <2>1. Actions!StampsHold(h)
    BY DEF Actions!PackInv
  <2>2. QED
    BY <1>1, <1>2, <2>1, RestFacts DEF Actions!StampsHold
<1>5. Actions!ProfileHolds(h)'
  BY <1>1, RestFacts DEF Actions!ProfileHolds
<1>6. QED
  BY <1>1, <1>3, <1>4, <1>5, HostStep DEF HostInv

LEMMA LeaveStep ==
  ASSUME Actions!PackInv, NEW h \in Host, Actions!Leave(h)
  PROVE  Actions!PackInv'
<1>1. Actions!OthersStay /\ Actions!Return(h) /\ versions' = versions /\ packPlan' = packPlan
  BY DEF Actions!Leave
<1>2. \A g \in Host \ {h} : versions'[g] = versions[g] /\ packPlan'[g] = packPlan[g]
  BY <1>1
<1>3. /\ versions' \in [Host -> [stamp : Nat, version : Version \cup {NoTool}]]
      /\ packPlan' \in [Host -> [pack : Pack \cup {NoPack}, bound : SUBSET Binding, shown : Manifest \cup {NoPack}]]
  BY <1>1, HostStarts
<1>4. QED
  BY <1>1, <1>2, <1>3, PackReturnStep

\* A process that begins a call.
LEMMA EnterStep ==
  ASSUME Actions!PackInv, NEW h \in Host, NEW op \in {"plan", "execute"}, NEW pack \in Pack,
         NEW bound \in SUBSET Binding, Actions!Enter(h, op, pack, bound), versions' = versions,
         packPlan' = packPlan \/ packPlan' = [packPlan EXCEPT ![h] = Actions!NoPlan]
  PROVE  Actions!PackInv'
<1> DEFINE c == [Actions!Rest EXCEPT !.pc = "read", !.op = op, !.pack = pack, !.bound = bound]
           s == [Actions!Fresh EXCEPT !.had = {packs[pack]}]
<1>1. /\ packCall' = [packCall EXCEPT ![h] = c] /\ packSince' = [packSince EXCEPT ![h] = s]
      /\ Actions!OthersStay
  BY DEF Actions!Enter
<1>2. c \in Actions!CallRecord /\ c.pc = "read" /\ c.pack = pack /\ c.stamp = 0
  BY RestFacts DEF Actions!CallRecord
<1>3. packs[pack] \in Manifest \cup {NoPack}
  BY HostStarts
<1>4. s \in [had : SUBSET (Manifest \cup {NoPack}), upgraded : BOOLEAN] /\ s.had = {packs[pack]}
  BY <1>3, FreshFacts
<1> HIDE DEF c, s
<1>5. /\ packCall'[h] = c /\ packCall' \in [Host -> Actions!CallRecord]
      /\ packSince'[h] = s
      /\ packSince' \in [Host -> [had : SUBSET (Manifest \cup {NoPack}), upgraded : BOOLEAN]]
      /\ \A g \in Host \ {h} : packCall'[g] = packCall[g] /\ packSince'[g] = packSince[g]
  BY <1>1, <1>2, <1>4, HostStarts
<1>6. /\ Actions!NoPlan \in [pack : Pack \cup {NoPack}, bound : SUBSET Binding, shown : Manifest \cup {NoPack}]
  BY DEF Actions!NoPlan
<1>7. /\ packPlan' \in [Host -> [pack : Pack \cup {NoPack}, bound : SUBSET Binding, shown : Manifest \cup {NoPack}]]
      /\ packPlan'[h] = packPlan[h] \/ packPlan'[h] = Actions!NoPlan
      /\ \A g \in Host \ {h} : packPlan'[g] = packPlan[g]
  BY <1>6, HostStarts
<1>8. Actions!PackSeen(h) /\ Actions!StampsHold(h) /\ tool.stamp \in Nat
  BY HostStarts DEF Actions!PackInv
<1>9. packs' = packs /\ tool' = tool
  BY <1>1 DEF Actions!OthersStay, Actions!deskVars
<1>10. Actions!PackSeen(h)'
  BY <1>2, <1>4, <1>5, <1>7, <1>8, <1>9 DEF Actions!PackSeen, Actions!At
<1>11. Actions!StampsHold(h)'
  BY <1>2, <1>5, <1>8, <1>9 DEF Actions!StampsHold
<1>12. Actions!ProfileHolds(h)'
  BY <1>2, <1>5 DEF Actions!ProfileHolds
<1>13. versions' \in [Host -> [stamp : Nat, version : Version \cup {NoTool}]]
  BY HostStarts
<1>14. QED
  BY <1>1, <1>5, <1>7, <1>10, <1>11, <1>12, <1>13, HostStep DEF HostInv

LEMMA ApplyStep ==
  ASSUME Actions!PackInv, NEW h \in Host, Actions!Apply(h)
  PROVE  Actions!PackInv'
<1>1. packPlan[h].pack \in Pack /\ packPlan[h].bound \in SUBSET Binding
  BY HostStarts DEF Actions!Apply, Actions!PackInv, Actions!PackSeen
<1>2. QED
  BY <1>1, EnterStep DEF Actions!Apply

\* A process that goes on with its call.
LEMMA PackCallStep ==
  ASSUME Actions!PackInv, NEW h \in Host, Actions!OthersStay, NEW c \in Actions!CallRecord,
         packCall' = [packCall EXCEPT ![h] = c],
         packPlan' = packPlan, packSince' = packSince, ~Actions!At(h, "rest"),
         c.pack = packCall[h].pack, c.stamp <= tool.stamp, c.pc # "rest",
         c.pc \in {"probe", "ask", "bind", "values", "run"} => c.manifest \in packSince[h].had \cap Manifest,
         c.pc \in {"probe", "ask"} => c.manifest.kind = "cli",
         c.pc \in {"bind", "values", "run"} /\ c.manifest.kind = "cli" /\ ~packSince[h].upgraded =>
           /\ c.profile \in DOMAIN c.manifest.profiles
           /\ tool.version \in c.manifest.profiles[c.profile].versions,
         \A g \in Host \ {h} : versions'[g] = versions[g],
         versions'[h].stamp <= tool.stamp /\ (versions'[h].stamp = tool.stamp => versions'[h].version = tool.version),
         versions' \in [Host -> [stamp : Nat, version : Version \cup {NoTool}]]
  PROVE  Actions!PackInv'
<1>1. /\ packCall'[h] = c /\ packCall' \in [Host -> Actions!CallRecord] /\ \A g \in Host \ {h} : packCall'[g] = packCall[g]
  BY HostStarts
<1>2. packs' = packs /\ tool' = tool
  BY DEF Actions!OthersStay, Actions!deskVars
<1>3. Actions!PackSeen(h)
  BY DEF Actions!PackInv
<1>4. Actions!PackSeen(h)' /\ Actions!StampsHold(h)' /\ Actions!ProfileHolds(h)'
  BY <1>1, <1>2, <1>3 DEF Actions!PackSeen, Actions!StampsHold, Actions!ProfileHolds, Actions!At
<1>5. QED
  BY <1>1, <1>4, HostStep, HostStarts DEF HostInv

\* The cache of a step that leaves it.
LEMMA CacheStays ==
  ASSUME Actions!PackInv, NEW h \in Host, versions' = versions
  PROVE  /\ \A g \in Host \ {h} : versions'[g] = versions[g]
         /\ versions'[h].stamp <= tool.stamp
         /\ versions'[h].stamp = tool.stamp => versions'[h].version = tool.version
         /\ versions' \in [Host -> [stamp : Nat, version : Version \cup {NoTool}]]
         /\ packCall[h].stamp <= tool.stamp
BY DEF Actions!PackInv, Actions!TypeOK, Actions!StampsHold

LEMMA PackReadStep ==
  ASSUME Actions!PackInv, NEW h \in Host, Actions!Read(h)
  PROVE  Actions!PackInv'
<1> DEFINE m == packs[packCall[h].pack]
           c == [packCall[h] EXCEPT !.pc = IF m.kind = "cli" THEN "probe" ELSE "bind", !.manifest = m]
<1>1. /\ Actions!At(h, "read") /\ m # NoPack /\ packCall' = [packCall EXCEPT ![h] = c]
      /\ Actions!OthersStay /\ versions' = versions /\ packPlan' = packPlan
      /\ packSince' = packSince
  BY DEF Actions!Read
<1>2. /\ packCall[h] \in Actions!CallRecord /\ packCall[h].pack \in Pack /\ m \in packSince[h].had
      /\ m \in Manifest
  BY <1>1, HostStarts DEF Actions!PackInv, Actions!PackSeen, Actions!At
<1>3. /\ c \in Actions!CallRecord /\ c.pack = packCall[h].pack /\ c.stamp = packCall[h].stamp
      /\ c.manifest = m
      /\ c.pc = "probe" <=> m.kind = "cli"
      /\ c.pc \in {"probe", "bind"}
  BY <1>2 DEF Actions!CallRecord
<1> HIDE DEF c, m
<1>4. QED
  BY <1>1, <1>2, <1>3, PackCallStep, CacheStays DEF Actions!At

\* A version that was told or remembered chooses a profile for it.
LEMMA ChosenStep ==
  ASSUME Actions!PackInv, NEW h \in Host, packCall[h].pc \in {"probe", "ask"},
         Actions!Chosen(h, tool.version), Actions!OthersStay,
         packPlan' = packPlan, packSince' = packSince,
         \A g \in Host \ {h} : versions'[g] = versions[g],
         versions'[h].stamp <= tool.stamp /\ (versions'[h].stamp = tool.stamp => versions'[h].version = tool.version),
         versions' \in [Host -> [stamp : Nat, version : Version \cup {NoTool}]]
  PROVE  Actions!PackInv'
<1> DEFINE i == Actions!ProfileFor(packCall[h].manifest, tool.version)
           c == [packCall[h] EXCEPT !.pc = "bind", !.profile = i]
<1>1. i # 0 /\ packCall' = [packCall EXCEPT ![h] = c]
  BY DEF Actions!Chosen
<1>2. /\ packCall[h] \in Actions!CallRecord
      /\ packCall[h].manifest \in packSince[h].had \cap Manifest
      /\ packCall[h].manifest.kind = "cli"
      /\ packCall[h].stamp <= tool.stamp
  BY HostStarts DEF Actions!PackInv, Actions!PackSeen, Actions!StampsHold
<1>3. /\ i \in DOMAIN packCall[h].manifest.profiles /\ i \in Nat
      /\ tool.version \in packCall[h].manifest.profiles[i].versions
  BY <1>1, <1>2, ProfileIsFor
<1>4. /\ c \in Actions!CallRecord /\ c.pack = packCall[h].pack /\ c.stamp = packCall[h].stamp
      /\ c.manifest = packCall[h].manifest /\ c.profile = i /\ c.pc = "bind"
  BY <1>2, <1>3 DEF Actions!CallRecord
<1> HIDE DEF c, i
<1>5. QED
  BY <1>1, <1>2, <1>3, <1>4, PackCallStep DEF Actions!At

LEMMA KnownStep ==
  ASSUME Actions!PackInv, NEW h \in Host, Actions!Known(h)
  PROVE  Actions!PackInv'
<1>1. /\ Actions!At(h, "probe") /\ versions[h].stamp = tool.stamp
      /\ Actions!Chosen(h, versions[h].version)
      /\ Actions!OthersStay /\ versions' = versions /\ packPlan' = packPlan
      /\ packSince' = packSince
  BY DEF Actions!Known
<1>2. versions[h].version = tool.version
  BY <1>1 DEF Actions!PackInv, Actions!StampsHold
<1>3. QED
  BY <1>1, <1>2, ChosenStep, CacheStays DEF Actions!At

LEMMA UnknownStep ==
  ASSUME Actions!PackInv, NEW h \in Host, Actions!Unknown(h)
  PROVE  Actions!PackInv'
<1> DEFINE c == [packCall[h] EXCEPT !.pc = "ask", !.stamp = tool.stamp]
<1>1. /\ Actions!At(h, "probe") /\ packCall' = [packCall EXCEPT ![h] = c]
      /\ Actions!OthersStay /\ versions' = versions /\ packPlan' = packPlan
      /\ packSince' = packSince
  BY DEF Actions!Unknown
<1>2. /\ packCall[h] \in Actions!CallRecord
      /\ packCall[h].manifest \in packSince[h].had \cap Manifest
      /\ tool.stamp \in Nat /\ packCall[h].manifest.kind = "cli"
  BY <1>1, HostStarts DEF Actions!PackInv, Actions!PackSeen, Actions!At
<1>3. /\ c \in Actions!CallRecord /\ c.pack = packCall[h].pack /\ c.stamp = tool.stamp
      /\ c.manifest = packCall[h].manifest /\ c.pc = "ask"
  BY <1>2 DEF Actions!CallRecord
<1> HIDE DEF c
<1>4. c.stamp <= tool.stamp
  BY <1>2, <1>3
<1>5. QED
  BY <1>1, <1>2, <1>3, <1>4, PackCallStep, CacheStays DEF Actions!At

LEMMA AnsweredStep ==
  ASSUME Actions!PackInv, NEW h \in Host, Actions!Answered(h)
  PROVE  Actions!PackInv'
<1>1. /\ Actions!At(h, "ask") /\ Actions!OthersStay /\ packPlan' = packPlan
      /\ versions' = [versions EXCEPT ![h] = [stamp |-> packCall[h].stamp, version |-> tool.version]]
  BY DEF Actions!Answered
<1>2. /\ versions \in [Host -> [stamp : Nat, version : Version \cup {NoTool}]]
      /\ packCall[h].stamp \in Nat /\ tool.version \in Version \cup {NoTool}
      /\ packCall[h].stamp <= tool.stamp
  BY HostStarts DEF Actions!CallRecord, Actions!PackInv, Actions!StampsHold
<1>3. /\ \A g \in Host \ {h} : versions'[g] = versions[g]
      /\ versions'[h].stamp <= tool.stamp
      /\ versions'[h].stamp = tool.stamp => versions'[h].version = tool.version
      /\ versions' \in [Host -> [stamp : Nat, version : Version \cup {NoTool}]]
  BY <1>1, <1>2
<1>4. CASE Actions!Return(h)
  <2>1. /\ \A g \in Host \ {h} : versions'[g] = versions[g] /\ packPlan'[g] = packPlan[g]
        /\ packPlan' \in [Host -> [pack : Pack \cup {NoPack}, bound : SUBSET Binding, shown : Manifest \cup {NoPack}]]
    BY <1>1, <1>3, HostStarts
  <2>2. QED
    BY <1>1, <1>3, <1>4, <2>1, PackReturnStep
<1>5. CASE Actions!Chosen(h, tool.version) /\ UNCHANGED packSince
  BY <1>1, <1>3, <1>5, ChosenStep DEF Actions!At
<1>6. QED
  BY <1>4, <1>5 DEF Actions!Answered

LEMMA BindStep ==
  ASSUME Actions!PackInv, NEW h \in Host, Actions!Bind(h)
  PROVE  Actions!PackInv'
<1>1. /\ Actions!At(h, "bind") /\ Actions!OthersStay /\ versions' = versions /\ Actions!PackSeen(h)
      /\ Actions!ProfileHolds(h)
      /\ packCall[h] \in Actions!CallRecord
  BY HostStarts DEF Actions!Bind, Actions!PackInv
<1>2. packCall[h].pack \in Pack /\ packCall[h].manifest \in packSince[h].had \cap Manifest
  BY <1>1 DEF Actions!PackSeen, Actions!At
<1>3. CASE packCall[h].op = "plan"
  <2> DEFINE p == [pack |-> packCall[h].pack, bound |-> packCall[h].bound, shown |-> packCall[h].manifest]
  <2>1. packPlan' = [packPlan EXCEPT ![h] = p] /\ Actions!Return(h)
    BY <1>3 DEF Actions!Bind
  <2>2. /\ p \in [pack : Pack \cup {NoPack}, bound : SUBSET Binding, shown : Manifest \cup {NoPack}]
        /\ p.pack \in Pack
    BY <1>1, <1>2 DEF Actions!CallRecord
  <2> HIDE DEF p
  <2>3. /\ \A g \in Host \ {h} : versions'[g] = versions[g] /\ packPlan'[g] = packPlan[g]
        /\ packPlan'[h].pack \in Pack
        /\ packPlan' \in [Host -> [pack : Pack \cup {NoPack}, bound : SUBSET Binding, shown : Manifest \cup {NoPack}]]
    BY <1>1, <2>1, <2>2, HostStarts
  <2>4. QED
    BY <1>1, <2>1, <2>3, PackReturnStep, CacheStays
<1>4. CASE packCall[h].op # "plan"
  <2> DEFINE c == [packCall[h] EXCEPT !.pc = "values"]
  <2>1. packCall' = [packCall EXCEPT ![h] = c] /\ packPlan' = packPlan /\ packSince' = packSince
    BY <1>4 DEF Actions!Bind, Actions!Go
  <2>2. /\ c \in Actions!CallRecord /\ c.pack = packCall[h].pack /\ c.stamp = packCall[h].stamp
        /\ c.pc = "values"
        /\ c.manifest = packCall[h].manifest /\ c.profile = packCall[h].profile
    BY <1>1 DEF Actions!CallRecord
  <2> HIDE DEF c
  <2>3. QED
    BY <1>1, <1>2, <2>1, <2>2, PackCallStep, CacheStays DEF Actions!ProfileHolds, Actions!At
<1>5. QED
  BY <1>3, <1>4

LEMMA ValuesStep ==
  ASSUME Actions!PackInv, NEW h \in Host, Actions!Values(h)
  PROVE  Actions!PackInv'
<1> DEFINE c == [packCall[h] EXCEPT !.pc = "run"]
<1>1. /\ Actions!At(h, "values") /\ Actions!OthersStay /\ versions' = versions
      /\ packPlan' = packPlan /\ packSince' = packSince
      /\ packCall' = [packCall EXCEPT ![h] = c] /\ Actions!PackSeen(h) /\ Actions!ProfileHolds(h)
      /\ packCall[h] \in Actions!CallRecord
  BY HostStarts DEF Actions!Values, Actions!Go, Actions!PackInv
<1>2. /\ c \in Actions!CallRecord /\ c.pack = packCall[h].pack /\ c.stamp = packCall[h].stamp
      /\ c.pc = "run"
      /\ c.manifest = packCall[h].manifest /\ c.profile = packCall[h].profile
  BY <1>1 DEF Actions!CallRecord
<1> HIDE DEF c
<1>3. QED
  BY <1>1, <1>2, PackCallStep, CacheStays DEF Actions!ProfileHolds, Actions!PackSeen, Actions!At

LEMMA ResultStep ==
  ASSUME Actions!PackInv, NEW h \in Host, Actions!At(h, "run"),
         NEW result \in {"succeeded", "exited", "timeout", "error", "rejected"},
         Actions!Result(h, result)
  PROVE  Actions!PackInv'
<1> DEFINE c == [packCall[h] EXCEPT !.pc = "done", !.result = result]
<1>1. /\ Actions!OthersStay /\ versions' = versions /\ packPlan' = packPlan
      /\ packSince' = packSince
      /\ packCall' = [packCall EXCEPT ![h] = c] /\ packCall[h] \in Actions!CallRecord
  BY HostStarts DEF Actions!Result
<1>2. c \in Actions!CallRecord /\ c.pack = packCall[h].pack /\ c.stamp = packCall[h].stamp /\ c.pc = "done"
  BY <1>1 DEF Actions!CallRecord
<1> HIDE DEF c
<1>3. QED
  BY <1>1, <1>2, PackCallStep, CacheStays DEF Actions!At

----------------------------------------------------------------------------
\* A file of the directory changes.
LEMMA SeenStep ==
  ASSUME Actions!PackInv, NEW p \in Pack, NEW m \in Manifest \cup {NoPack},
         packs' = [packs EXCEPT ![p] = m],
         Actions!Seen, UNCHANGED <<tool, Actions!hostVars>>, installs' \in Nat,
         install' \in [pc : {"rest", "remove", "persist"}, manifest : Manifest \cup {NoPack}, replace : BOOLEAN],
         install'.pc # "rest" => install'.manifest \in Manifest
  PROVE  Actions!PackInv'
<1>1. /\ packs' \in [Pack -> Manifest \cup {NoPack}]
      /\ tool' = tool /\ versions' = versions /\ packPlan' = packPlan /\ packCall' = packCall
  BY HostStarts DEF Actions!hostVars
<1>2. ASSUME NEW h \in Host
      PROVE  /\ packSince'[h] \in [had : SUBSET (Manifest \cup {NoPack}), upgraded : BOOLEAN]
             /\ packSince[h].had \subseteq packSince'[h].had
             /\ packSince'[h].upgraded = packSince[h].upgraded
             /\ packCall[h].pack \in Pack => packs'[packCall[h].pack] \in packSince'[h].had
  <2>1. packSince'[h] = [packSince[h] EXCEPT !.had = IF packCall[h].pack \in Pack
                                               THEN packSince[h].had \cup {packs'[packCall[h].pack]} ELSE packSince[h].had]
    BY DEF Actions!Seen
  <2>2. packSince[h] \in [had : SUBSET (Manifest \cup {NoPack}), upgraded : BOOLEAN]
    BY HostStarts
  <2>3. packCall[h].pack \in Pack => packs'[packCall[h].pack] \in Manifest \cup {NoPack}
    BY <1>1
  <2>4. QED
    BY <2>1, <2>2, <2>3
<1>3. Actions!TypeOK'
  BY <1>1, <1>2 DEF Actions!PackInv, Actions!TypeOK, Actions!Seen
<1>4. ASSUME NEW h \in Host
      PROVE  HostInv(h)'
  <2>1. Actions!PackSeen(h) /\ Actions!StampsHold(h) /\ Actions!ProfileHolds(h)
    BY DEF Actions!PackInv
  <2>2. QED
    BY <1>1, <1>2, <2>1
      DEF HostInv, Actions!PackSeen, Actions!StampsHold, Actions!ProfileHolds, Actions!At
<1>5. QED
  BY <1>3, <1>4 DEF Actions!PackInv, HostInv

LEMMA DeskStays ==
  ASSUME Actions!PackInv, UNCHANGED <<packs, tool, packSince, Actions!hostVars>>, installs' \in Nat,
         install' \in [pc : {"rest", "remove", "persist"}, manifest : Manifest \cup {NoPack}, replace : BOOLEAN],
         install'.pc # "rest" => install'.manifest \in Manifest
  PROVE  Actions!PackInv'
BY
  DEF Actions!PackInv, Actions!TypeOK, Actions!hostVars, Actions!PackSeen, Actions!StampsHold,
      Actions!ProfileHolds, Actions!At

LEMMA DeskStep ==
  ASSUME Actions!PackInv,
         \/ \E m \in Manifest, replace \in BOOLEAN : Actions!Install(m, replace)
         \/ Actions!RemoveOld \/ Actions!Persist \/ Actions!InstallFails
         \/ \E p \in Pack : Actions!Uninstall(p)
  PROVE  Actions!PackInv'
<1>1. /\ install \in [pc : {"rest", "remove", "persist"}, manifest : Manifest \cup {NoPack}, replace : BOOLEAN]
      /\ installs \in Nat
      /\ install.pc # "rest" => install.manifest \in Manifest
      /\ Actions!NoInstall \in [pc : {"rest", "remove", "persist"}, manifest : Manifest \cup {NoPack}, replace : BOOLEAN]
      /\ Actions!NoInstall.pc = "rest"
  BY DEF Actions!PackInv, Actions!TypeOK, Actions!NoInstall
<1>2. ASSUME NEW m \in Manifest, NEW replace \in BOOLEAN, Actions!Install(m, replace)
      PROVE  Actions!PackInv'
  <2>1. /\ install' = [pc |-> IF packs[m.id] # NoPack THEN "remove" ELSE "persist",
                       manifest |-> m, replace |-> replace]
        /\ installs' \in Nat /\ UNCHANGED <<packs, tool, packSince, Actions!hostVars>>
    BY <1>1, <1>2 DEF Actions!Install
  <2>2. QED
    BY <2>1, DeskStays
<1>3. CASE Actions!RemoveOld
  <2>1. /\ packs' = [packs EXCEPT ![install.manifest.id] = NoPack] /\ install.pc = "remove"
        /\ install' = [install EXCEPT !.pc = "persist"] /\ Actions!Seen
        /\ UNCHANGED <<installs, tool, Actions!hostVars>>
    BY <1>3 DEF Actions!RemoveOld
  <2>2. install.manifest.id \in Pack
    BY <1>1, <2>1, ManifestFacts
  <2>3. /\ install' \in [pc : {"rest", "remove", "persist"}, manifest : Manifest \cup {NoPack}, replace : BOOLEAN]
        /\ install'.manifest \in Manifest
    BY <1>1, <2>1
  <2>4. QED
    BY <1>1, <2>1, <2>2, <2>3, SeenStep
<1>4. CASE Actions!Persist
  <2>1. /\ packs' = [packs EXCEPT ![install.manifest.id] = install.manifest]
        /\ install.pc = "persist"
        /\ install' = Actions!NoInstall /\ Actions!Seen
        /\ UNCHANGED <<installs, tool, Actions!hostVars>>
    BY <1>4 DEF Actions!Persist
  <2>2. install.manifest.id \in Pack
    BY <1>1, <2>1, ManifestFacts
  <2>3. QED
    BY <1>1, <2>1, <2>2, SeenStep
<1>5. CASE Actions!InstallFails
  BY <1>1, <1>5, DeskStays DEF Actions!InstallFails
<1>6. ASSUME NEW p \in Pack, Actions!Uninstall(p)
      PROVE  Actions!PackInv'
  <2>1. /\ packs' = [packs EXCEPT ![p] = NoPack] /\ installs' = installs + 1
        /\ install' = install /\ Actions!Seen /\ UNCHANGED <<tool, Actions!hostVars>>
    BY <1>6 DEF Actions!Uninstall
  <2>2. installs' \in Nat /\ install' = install
    BY <1>1, <2>1
  <2>3. QED
    BY <1>1, <2>1, <2>2, SeenStep
<1>7. QED
  BY <1>2, <1>3, <1>4, <1>5, <1>6

LEMMA UpgradeStep ==
  ASSUME Actions!PackInv, NEW version \in Version \cup {NoTool}, Actions!Upgrade(version)
  PROVE  Actions!PackInv'
<1>1. /\ tool' = [version |-> version, stamp |-> tool.stamp + 1] /\ tool.stamp \in Nat \ {0}
      /\ packs' = packs /\ install' = install /\ installs' = installs
      /\ versions' = versions /\ packPlan' = packPlan /\ packCall' = packCall
      /\ packSince' = [h \in Host |-> [packSince[h] EXCEPT !.upgraded = ~Actions!At(h, "rest")]]
  BY HostStarts DEF Actions!Upgrade, Actions!deskVars, Actions!hostVars
<1>2. /\ tool'.stamp = tool.stamp + 1 /\ tool'.version = version
      /\ tool' \in [version : Version \cup {NoTool}, stamp : Nat \ {0}]
  BY <1>1
<1>3. ASSUME NEW h \in Host
      PROVE  /\ packSince'[h] \in [had : SUBSET (Manifest \cup {NoPack}), upgraded : BOOLEAN]
             /\ packSince'[h].had = packSince[h].had
             /\ packSince'[h].upgraded = ~Actions!At(h, "rest")
  BY <1>1, HostStarts DEF Actions!At
<1>4. Actions!TypeOK'
  BY <1>1, <1>2, <1>3 DEF Actions!PackInv, Actions!TypeOK
<1>5. ASSUME NEW h \in Host
      PROVE  HostInv(h)'
  <2>1. Actions!PackSeen(h) /\ Actions!StampsHold(h) /\ versions[h].stamp \in Nat /\ packCall[h].stamp \in Nat
    BY HostStarts DEF Actions!PackInv, Actions!CallRecord
  <2>2. Actions!PackSeen(h)'
    BY <1>1, <1>3, <2>1 DEF Actions!PackSeen, Actions!At
  <2>3. Actions!StampsHold(h)'
    BY <1>1, <1>2, <2>1 DEF Actions!StampsHold
  <2>4. Actions!ProfileHolds(h)'
    BY <1>1, <1>3 DEF Actions!ProfileHolds, Actions!At
  <2>5. QED
    BY <2>2, <2>3, <2>4 DEF HostInv
<1>6. QED
  BY <1>4, <1>5 DEF Actions!PackInv, HostInv

LEMMA PackNext ==
  ASSUME Actions!PackInv, [Actions!Next]_(Actions!vars)
  PROVE  Actions!PackInv'
<1>1. ASSUME NEW h \in Host,
             \/ \E op \in {"plan", "execute"}, p \in Pack, bound \in SUBSET Binding : Actions!Ask(h, op, p, bound)
             \/ Actions!Read(h) \/ Actions!Known(h) \/ Actions!Unknown(h) \/ Actions!Answered(h)
             \/ Actions!Bind(h) \/ Actions!Values(h)
             \/ Actions!Cli(h) \/ Actions!Http(h) \/ Actions!Leave(h) \/ Actions!Apply(h)
      PROVE  Actions!PackInv'
  <2>1. CASE \E op \in {"plan", "execute"}, p \in Pack, bound \in SUBSET Binding : Actions!Ask(h, op, p, bound)
    BY <2>1, EnterStep DEF Actions!Ask
  <2>2. CASE Actions!Cli(h) \/ Actions!Http(h)
    BY <2>2, ResultStep DEF Actions!Cli, Actions!Http
  <2>3. CASE \/ Actions!Read(h) \/ Actions!Known(h) \/ Actions!Unknown(h) \/ Actions!Answered(h)
             \/ Actions!Bind(h) \/ Actions!Values(h) \/ Actions!Leave(h) \/ Actions!Apply(h)
    BY <2>3, PackReadStep, KnownStep, UnknownStep, AnsweredStep, BindStep, ValuesStep, LeaveStep,
       ApplyStep
  <2>4. QED
    BY <1>1, <2>1, <2>2, <2>3
<1>2. CASE UNCHANGED Actions!vars
  BY <1>2
    DEF Actions!vars, Actions!PackInv, Actions!TypeOK, Actions!PackSeen, Actions!StampsHold,
        Actions!ProfileHolds, Actions!At
<1>3. QED
  BY <1>1, <1>2, DeskStep, UpgradeStep DEF Actions!Next

LEMMA PackInit ==
  ASSUME Actions!Init
  PROVE  Actions!PackInv
<1>1. /\ Actions!NoVersion \in [stamp : Nat, version : Version \cup {NoTool}]
      /\ Actions!NoVersion.stamp = 0
      /\ Actions!NoPlan \in [pack : Pack \cup {NoPack}, bound : SUBSET Binding, shown : Manifest \cup {NoPack}]
      /\ Actions!NoInstall \in [pc : {"rest", "remove", "persist"}, manifest : Manifest \cup {NoPack}, replace : BOOLEAN]
      /\ Actions!NoInstall.pc = "rest"
  BY DEF Actions!NoVersion, Actions!NoPlan, Actions!NoInstall
<1>2. tool.stamp = 1 /\ tool \in [version : Version \cup {NoTool}, stamp : Nat \ {0}]
  BY DEF Actions!Init
<1>3. Actions!TypeOK
  BY <1>1, <1>2, RestFacts, FreshFacts DEF Actions!Init, Actions!TypeOK
<1>4. ASSUME NEW h \in Host
      PROVE  Actions!PackSeen(h) /\ Actions!StampsHold(h) /\ Actions!ProfileHolds(h)
  <2>1. packCall[h] = Actions!Rest /\ versions[h] = Actions!NoVersion /\ packPlan[h] = Actions!NoPlan
    BY DEF Actions!Init
  <2>2. QED
    BY <1>1, <1>2, <2>1, RestFacts
      DEF Actions!PackSeen, Actions!StampsHold, Actions!ProfileHolds, Actions!At
<1>5. QED
  BY <1>3, <1>4 DEF Actions!PackInv

\* What is known of a pack and of the tool's version is what a call goes by.
THEOREM PackInvariant == Actions!Spec => []Actions!PackInv
BY PackInit, PackNext, PTL DEF Actions!Spec

\* What runs was in the directory at some moment of the call that runs it.
LEMMA PacksRunWhatIsThere == Actions!Spec => Actions!RevokedPackNeverRuns
<1>1. Actions!PackInv /\ [Actions!Next]_(Actions!vars) =>
        [ \A h \in Host : Actions!Runs(h) => packCall[h].manifest \in packSince[h].had ]_(Actions!vars)
  BY DEF Actions!PackInv, Actions!PackSeen, Actions!Runs, Actions!At
<1>2. QED
  BY <1>1, PackInvariant, PTL DEF Actions!Spec, Actions!RevokedPackNeverRuns

\* What runs is for the version the tool has, unless the tool was exchanged during the call.
LEMMA PacksRunForTheTool == Actions!Spec => Actions!ProfileFitsTool
<1>1. Actions!PackInv /\ [Actions!Next]_(Actions!vars) =>
        [ \A h \in Host : Actions!Runs(h) /\ packCall[h].manifest.kind = "cli" /\ ~packSince[h].upgraded =>
            tool.version \in packCall[h].manifest.profiles[packCall[h].profile].versions ]_(Actions!vars)
  BY DEF Actions!PackInv, Actions!ProfileHolds, Actions!Runs, Actions!At
<1>2. QED
  BY <1>1, PackInvariant, PTL DEF Actions!Spec, Actions!ProfileFitsTool

----------------------------------------------------------------------------
\* A behaviour of all three is one of each.
LEMMA AllParts == AllSpec => Spec /\ Agents!Spec /\ Actions!Spec
<1>1. AllInit => Init /\ Agents!Init /\ Actions!Init
  BY DEF AllInit
<1>2. [AllNext]_allVars => [Next]_vars
  BY DEF AllNext, allVars, vars
<1>3. [AllNext]_allVars => [Agents!Next]_(Agents!vars)
  BY DEF AllNext, allVars, agentVars, Agents!vars
<1>4. [AllNext]_allVars => [Actions!Next]_(Actions!vars)
  BY DEF AllNext, allVars, packVars, Actions!vars
<1>5. QED
  BY <1>1, <1>2, <1>3, <1>4, PTL DEF AllSpec, Spec, Agents!Spec, Actions!Spec

\* What is said of projects.json above is so of the app beside its agents and packs.
THEOREM AllOfTheRegistry ==
  AllSpec => /\ []SelectedRegistered /\ UpdatesKeepTheRest
             /\ RemovedWithoutGrants /\ RecordedForRegistered
BY AllParts, SelectionIsRegistered, UpdatesKeep, RemovedWithout, RecordedOnly

\* And no label is lost, unless a second desktop starts meanwhile and cannot read a manifest.
THEOREM AllLabelsAreMoved ==
  ASSUME "io" \notin Fault \/ OneDesktopStarts
  PROVE  AllSpec => LabelsMigrate
BY AllParts, LabelsAreMoved

\* A value is answered, or replaced by one the agent has chosen, only if the key was read-write at
\* some moment of the call, whatever the policy was when the plan was made.
THEOREM AllNeedAccess == AllSpec => AgentNeedsAccess
BY AllParts, BrokerNeedsAccess DEF AgentNeedsAccess

\* A broker's calls change and copy from projects that were registered during the call, or that
\* the call itself registers.
THEOREM AllOnlyRegistered == AllSpec => OnlyRegistered
BY AllParts, BrokerOnlyRegistered DEF OnlyRegistered

\* Of one plan at most one change comes, and none when it had expired as it was taken, however
\* often and late its id is sent.
THEOREM AllSingleUse == AllSpec => SingleUse
BY AllParts, BrokerSingleUse DEF SingleUse

\* A key that was closed when a broker's call began, and stayed so, becomes readable for agents by a
\* step of that call only if the call applies a classification plan of this very key and project,
\* whatever manifest it has loaded meanwhile and saves over the one that is there.
THEOREM AllOpenOnRequest == AllSpec => OpensOnRequest
BY AllParts, BrokerOpensOnRequest DEF OpensOnRequest

\* Every manifest that runs was in the directory at some moment of the call that runs it.
THEOREM AllRunWhatIsThere == AllSpec => RevokedPackNeverRuns
BY AllParts, PacksRunWhatIsThere DEF RevokedPackNeverRuns

\* The profile a tool is run with is for the version it had at some moment of the call, or the
\* tool was exchanged while the call went on.
THEOREM AllRunForTheTool == AllSpec => ProfileFitsTool
BY AllParts, PacksRunForTheTool DEF ProfileFitsTool
=============================================================================
