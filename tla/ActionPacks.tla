----------------------------- MODULE ActionPacks -----------------------------
(***************************************************************************)
(* Action packs (crates/env-provider/src/action_pack): the user installs,  *)
(* replaces and removes manifests in the desktop app, each a file named    *)
(* after the pack; an execution resolves the pack's id anew, checks the    *)
(* version of the installed tool, reads the values that are bound to it    *)
(* and hands them to a tool's stdin or to a fixed URL.  An agent executes  *)
(* a plan that was resolved once before.  The files of personal provider   *)
(* packs (personal_provider.rs) are kept in the same way.                  *)
(*                                                                         *)
(* Every pack of kind "cli" runs the same tool here.  Arguments, headers   *)
(* and what an execution tells about its time are left out; how long a     *)
(* plan is good for, and that it is good once, is Broker's.                *)
(***************************************************************************)
EXTENDS Naturals, FiniteSets, Sequences, SequencesExt, FiniteSetsExt

CONSTANTS
  Host,         \* processes that execute packs, one call at a time each
  Pack,         \* ids
  Manifest,     \* what the user may have to install
  NoPack,       \* for a file that is not there
  Version,      \* versions of the tool
  NoTool,       \* for a tool that is not there
  Binding,      \* what of a tool or a request a value is bound to
  MaxUpgrades,  \* bound: how often the tool is exchanged
  MaxInstalls   \* bound: how often the user installs or removes

\* profiles: for each the versions it is for and how often its arguments name the variable;
\* legal: identifiers, texts, limits, the URL and the formats are as they have to be.
ActionAssumption ==
  /\ Manifest \subseteq
       [id : Pack, kind : {"cli"}, legal : BOOLEAN, bindings : SUBSET Binding,
        profiles : Seq([versions : SUBSET Version, slots : Nat])]
         \cup [id : Pack, kind : {"http"}, legal : BOOLEAN, bindings : SUBSET Binding]
  /\ NoPack \notin Manifest /\ NoTool \notin Version
  /\ MaxUpgrades \in Nat /\ MaxInstalls \in Nat

VARIABLES
  packs,     \* the directory of packs, by the names of its files
  install,   \* the installation the desktop is in
  installs,  \* how many there were, removals included
  tool,      \* the tool: its version, and a stamp for its path, length and time of change
  cache,     \* VERSION_CACHE of each process: the last version it was told, and the stamp then
  plan,      \* the plan each process has stored, and the manifest whose description the agent was given
  call,      \* the call of each process
  since      \* history: manifests the pack of the call has had, whether the tool was exchanged

vars == <<packs, install, installs, tool, cache, plan, call, since>>
deskVars == <<packs, install, installs>>
hostVars == <<cache, plan, call>>

NoPlan == [pack |-> NoPack, bound |-> { }, shown |-> NoPack]
NoVersion == [stamp |-> 0, version |-> NoTool]
Rest == [pc |-> "rest", op |-> "none", pack |-> NoPack, bound |-> { }, manifest |-> NoPack,
         stamp |-> 0, profile |-> 0, result |-> "none"]
Fresh == [had |-> { }, upgraded |-> FALSE]
NoInstall == [pc |-> "rest", manifest |-> NoPack, replace |-> FALSE]

Init ==
  /\ packs \in [Pack -> Manifest \cup {NoPack}]
  /\ install = NoInstall /\ installs = 0
  /\ tool \in [version : Version \cup {NoTool}, stamp : {1}]
  /\ cache = [h \in Host |-> NoVersion]
  /\ plan = [h \in Host |-> NoPlan]
  /\ call = [h \in Host |-> Rest]
  /\ since = [h \in Host |-> Fresh]

----------------------------------------------------------------------------
\* validate_manifest
Valid(m) ==
  /\ m.legal /\ m.bindings # { }
  /\ m.kind = "cli" =>
       /\ Cardinality(m.bindings) = 1 /\ m.profiles # << >>
       /\ \A i \in DOMAIN m.profiles : m.profiles[i].slots = 1

\* A file has changed, which a call that asks for it may find.
Seen ==
  since' = [h \in Host |->
    [since[h] EXCEPT !.had = IF call[h].pack \in Pack THEN @ \cup {packs'[call[h].pack]} ELSE @]]

\* A new installation: the source is read, the new file staged beside the others.
Install(m, replace) ==
  /\ install.pc = "rest" /\ installs < MaxInstalls
  /\ Valid(m) /\ (packs[m.id] # NoPack => replace)
  /\ install' = [pc |-> IF packs[m.id] # NoPack THEN "remove" ELSE "persist",
                 manifest |-> m, replace |-> replace]
  /\ installs' = installs + 1
  /\ UNCHANGED <<packs, tool, since, hostVars>>

RemoveOld ==
  /\ install.pc = "remove"
  /\ packs' = [packs EXCEPT ![install.manifest.id] = NoPack]
  /\ install' = [install EXCEPT !.pc = "persist"]
  /\ UNCHANGED <<installs, tool, hostVars>>
  /\ Seen

Persist ==
  /\ install.pc = "persist"
  /\ packs' = [packs EXCEPT ![install.manifest.id] = install.manifest]
  /\ install' = NoInstall
  /\ UNCHANGED <<installs, tool, hostVars>>
  /\ Seen

\* ACTION_PACK_STORAGE_FAILED, or the app dies: an old file that is gone does not come back.
InstallFails ==
  /\ install.pc # "rest" /\ install' = NoInstall
  /\ UNCHANGED <<packs, installs, tool, since, hostVars>>

Uninstall(p) ==
  /\ install.pc = "rest" /\ installs < MaxInstalls /\ packs[p] # NoPack
  /\ packs' = [packs EXCEPT ![p] = NoPack] /\ installs' = installs + 1
  /\ UNCHANGED <<install, tool, hostVars>>
  /\ Seen

----------------------------------------------------------------------------
At(h, pc) == call[h].pc = pc
Go(h, pc) == call' = [call EXCEPT ![h].pc = pc]
Return(h) == call' = [call EXCEPT ![h] = Rest] /\ since' = [since EXCEPT ![h] = Fresh]
OthersStay == UNCHANGED <<deskVars, tool>>

Enter(h, op, pack, bound) ==
  /\ At(h, "rest")
  /\ call' = [call EXCEPT ![h] = [Rest EXCEPT !.pc = "read", !.op = op, !.pack = pack,
                                              !.bound = bound]]
  /\ since' = [since EXCEPT ![h] = [Fresh EXCEPT !.had = {packs[pack]}]]
  /\ OthersStay

\* plan_action of a broker, or execute_action_pack of the desktop.
Ask(h, op, pack, bound) ==
  /\ Enter(h, op, pack, bound)
  /\ UNCHANGED <<cache, plan>>

\* Mutant: what was resolved for the plan is executed.
ApplyResolved(h) ==
  /\ plan[h] # NoPlan /\ At(h, "rest")
  /\ call' = [call EXCEPT ![h] =
       [Rest EXCEPT !.pc = IF plan[h].shown.kind = "cli" THEN "probe" ELSE "bind", !.op = "execute",
                    !.pack = plan[h].pack, !.bound = plan[h].bound, !.manifest = plan[h].shown]]
  /\ plan' = [plan EXCEPT ![h] = NoPlan]
  /\ since' = [since EXCEPT ![h] = [Fresh EXCEPT !.had = {packs[plan[h].pack]}]]
  /\ OthersStay /\ UNCHANGED cache

\* apply_plan: the pack is resolved anew.
Apply(h) ==
  /\ plan[h] # NoPlan
  /\ Enter(h, "execute", plan[h].pack, plan[h].bound)
  /\ plan' = [plan EXCEPT ![h] = NoPlan]
  /\ UNCHANGED cache

\* resolve: the file has to be there, to hold its own id, and to be valid.
Read(h) ==
  /\ At(h, "read")
  /\ LET m == packs[call[h].pack]
     IN  /\ m # NoPack /\ m.id = call[h].pack /\ Valid(m)
         /\ call' = [call EXCEPT ![h].pc = IF m.kind = "cli" THEN "probe" ELSE "bind",
                                 ![h].manifest = m]
  /\ OthersStay /\ UNCHANGED <<cache, plan, since>>

\* The first profile that is for this version, 0 if there is none.
ProfileFor(m, version) ==
  LET fits == { i \in DOMAIN m.profiles : version \in m.profiles[i].versions }
  IN  IF fits = { } THEN 0 ELSE Min(fits)

\* A version fails the call or chooses its profile.
Chosen(h, version) ==
  LET i == ProfileFor(call[h].manifest, version)
  IN  i # 0 /\ call' = [call EXCEPT ![h].pc = "bind", ![h].profile = i]

\* Mutant: the cache does not look at what the executable is now.
KnownByPath(h) ==
  /\ At(h, "probe") /\ tool.version # NoTool /\ cache[h].stamp # 0
  /\ Chosen(h, cache[h].version)
  /\ OthersStay /\ UNCHANGED <<cache, plan, since>>

\* probe_version: the cache knows this executable.
Known(h) ==
  /\ At(h, "probe") /\ tool.version # NoTool /\ cache[h].stamp = tool.stamp
  /\ Chosen(h, cache[h].version)
  /\ OthersStay /\ UNCHANGED <<cache, plan, since>>

\* It does not: the tool will be asked.
Unknown(h) ==
  /\ At(h, "probe") /\ tool.version # NoTool /\ cache[h].stamp # tool.stamp
  /\ call' = [call EXCEPT ![h].pc = "ask", ![h].stamp = tool.stamp]
  /\ OthersStay /\ UNCHANGED <<cache, plan, since>>

Answered(h) ==
  /\ At(h, "ask") /\ tool.version # NoTool
  /\ cache' = [cache EXCEPT ![h] = [stamp |-> call[h].stamp, version |-> tool.version]]
  /\ \/ ProfileFor(call[h].manifest, tool.version) = 0 /\ Return(h)
     \/ Chosen(h, tool.version) /\ UNCHANGED since
  /\ OthersStay /\ UNCHANGED plan

\* validate_bindings; here prepare ends and the broker stores the plan.
Bind(h) ==
  /\ At(h, "bind") /\ call[h].bound = call[h].manifest.bindings
  /\ IF call[h].op = "plan"
       THEN /\ plan' = [plan EXCEPT ![h] = [pack |-> call[h].pack, bound |-> call[h].bound,
                                          shown |-> call[h].manifest]]
            /\ Return(h)
       ELSE Go(h, "values") /\ UNCHANGED <<plan, since>>
  /\ OthersStay /\ UNCHANGED cache

\* provider_values: every key that is bound has a value.
Values(h) ==
  /\ At(h, "values")
  /\ Go(h, "run")
  /\ OthersStay /\ UNCHANGED <<cache, plan, since>>

Result(h, result) ==
  /\ call' = [call EXCEPT ![h].pc = "done", ![h].result = result]
  /\ OthersStay /\ UNCHANGED <<cache, plan, since>>

\* execute_cli: the tool ends in time or is killed; it was given the value or did not take all of it.
Cli(h) ==
  /\ At(h, "run") /\ call[h].manifest.kind = "cli" /\ tool.version # NoTool
  /\ \E result \in {"succeeded", "exited", "timeout", "error"} : Result(h, result)

\* execute_http: a status among the accepted ones, another one, or no answer.
Http(h) ==
  /\ At(h, "run") /\ call[h].manifest.kind = "http"
  /\ \E result \in {"succeeded", "rejected", "error"} : Result(h, result)

\* The end of a call, or an error: a condition of the next step does not hold, or reading or
\* starting fails.
Leave(h) == ~At(h, "rest") /\ Return(h) /\ OthersStay /\ UNCHANGED <<cache, plan>>

----------------------------------------------------------------------------
\* Somebody installs another tool, or none; its file changes.
Upgrade(version) ==
  /\ tool.stamp <= MaxUpgrades
  /\ tool' = [version |-> version, stamp |-> tool.stamp + 1]
  /\ since' = [h \in Host |-> [since[h] EXCEPT !.upgraded = ~At(h, "rest")]]
  /\ UNCHANGED <<deskVars, hostVars>>

Next ==
  \/ \E m \in Manifest, replace \in BOOLEAN : Install(m, replace)
  \/ RemoveOld \/ Persist \/ InstallFails
  \/ \E p \in Pack : Uninstall(p)
  \/ \E h \in Host :
       \/ \E op \in {"plan", "execute"}, p \in Pack, bound \in SUBSET Binding : Ask(h, op, p, bound)
       \/ Read(h) \/ Known(h) \/ Unknown(h) \/ Answered(h) \/ Bind(h) \/ Values(h)
       \/ Cli(h) \/ Http(h) \/ Leave(h) \/ Apply(h)
  \/ \E version \in Version \cup {NoTool} : Upgrade(version)

Spec == Init /\ [][Next]_vars

----------------------------------------------------------------------------
Runs(h) == At(h, "run") /\ call'[h].pc = "done"

\* "Run installed Action Pack" (tool-safety.md:25): what is executed was installed, under the
\* id that was asked for, at some moment of the call that executes it; a pack that was replaced or
\* removed after it was planned does not run.
RevokedPackNeverRuns ==
  [][ \A h \in Host : Runs(h) => call[h].manifest \in since[h].had ]_vars

\* A tool is given the arguments of a profile for its version ("Choose the narrowest
\* semantic-version range", action-packs.md:71), unless it is exchanged while the call runs.
ProfileFitsTool ==
  [][ \A h \in Host : Runs(h) /\ call[h].manifest.kind = "cli" /\ ~since[h].upgraded =>
        tool.version \in call[h].manifest.profiles[call[h].profile].versions ]_vars

----------------------------------------------------------------------------
CallRecord ==
  [pc : {"rest", "read", "probe", "ask", "bind", "values", "run", "done"},
   op : {"none", "plan", "execute"}, pack : Pack \cup {NoPack}, bound : SUBSET Binding,
   manifest : Manifest \cup {NoPack}, stamp : Nat, profile : Nat,
   result : {"none", "succeeded", "exited", "timeout", "error", "rejected"}]

\* The type invariant.
TypeOK ==
  /\ packs \in [Pack -> Manifest \cup {NoPack}]
  /\ install \in [pc : {"rest", "remove", "persist"}, manifest : Manifest \cup {NoPack}, replace : BOOLEAN]
  /\ install.pc # "rest" => install.manifest \in Manifest
  /\ installs \in Nat
  /\ tool \in [version : Version \cup {NoTool}, stamp : Nat \ {0}]
  /\ cache \in [Host -> [stamp : Nat, version : Version \cup {NoTool}]]
  /\ plan \in [Host -> [pack : Pack \cup {NoPack}, bound : SUBSET Binding, shown : Manifest \cup {NoPack}]]
  /\ call \in [Host -> CallRecord]
  /\ since \in [Host -> [had : SUBSET (Manifest \cup {NoPack}), upgraded : BOOLEAN]]

\* What a call finds out about its pack was so since it began; it knows the manifest from reading it on.
PackSeen(h) ==
  /\ ~At(h, "rest") => call[h].pack \in Pack /\ packs[call[h].pack] \in since[h].had
  /\ call[h].pc \in {"probe", "ask", "bind", "values", "run"} =>
       call[h].manifest \in since[h].had \cap Manifest
  /\ call[h].pc \in {"probe", "ask"} => call[h].manifest.kind = "cli"
  /\ plan[h] = NoPlan \/ plan[h].pack \in Pack

\* A stamp is that of one version, and no stamp comes back.
StampsHold(h) ==
  /\ cache[h].stamp <= tool.stamp /\ call[h].stamp <= tool.stamp
  /\ cache[h].stamp = tool.stamp => cache[h].version = tool.version

ProfileHolds(h) ==
  call[h].pc \in {"bind", "values", "run"} /\ call[h].manifest.kind = "cli" /\ ~since[h].upgraded =>
    /\ call[h].profile \in DOMAIN call[h].manifest.profiles
    /\ tool.version \in call[h].manifest.profiles[call[h].profile].versions

\* The inductive invariant behind the two properties.
PackInv ==
  /\ TypeOK
  /\ \A h \in Host : PackSeen(h) /\ StampsHold(h) /\ ProfileHolds(h)
=============================================================================
