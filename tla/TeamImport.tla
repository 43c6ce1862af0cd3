----------------------------- MODULE TeamImport -----------------------------
(***************************************************************************)
(* Importing a package (env-core/src/team_import) behind the single-use    *)
(* plans of the desktop app (src-tauri/src/runtime/plans.rs).  Planning    *)
(* compares the package with the project and keeps, for five minutes, the  *)
(* package, the manifest it loaded and the revision of every target.  The  *)
(* user looks at the preview, maps files to other targets and chooses      *)
(* which conflicting values to take; apply then builds the new contents,   *)
(* checks the links, checks the revisions, stages and renames.             *)
(*                                                                         *)
(* The commands run on the app's main thread, one at a time (planning from *)
(* a file, which runs beside it, only adds to the store).  The editor and  *)
(* other processes write the files and the manifest at any moment.         *)
(***************************************************************************)
EXTENDS TeamPackage

CONSTANTS
  NoPlan,
  ImportFault,   \* a subset of {"io", "undo", "crash"}
  MaxWrites      \* bound: writes of others from the planning to the end of the apply

ASSUME ImportFaultAssumption == ImportFault \subseteq {"io", "undo", "crash"}
ASSUME NoPlanAssumption == NoPlan \notin [stored : BOOLEAN]

VARIABLES
  disk,    \* the receiver's files
  links,   \* the links of the receiver's manifest
  plan,    \* the plan that is being made or stored; bound: one at a time
  apply    \* the apply under way

importVars == <<disk, links, plan, apply>>

Resting ==
  [pc |-> "rest", plan |-> NoPlan, chosen |-> {}, accepted |-> {}, changes |-> Nothing,
   todo |-> {}, prepared |-> << >>, at |-> 0, result |-> "none",
   before |-> Nothing, disturbed |-> FALSE]

ImportInit ==
  /\ links \in SUBSET Link
  /\ disk \in [File -> Content]
  /\ plan = NoPlan
  /\ apply = Resting

----------------------------------------------------------------------------
\* A plan has an entry for every file of the package: its target, and the target's content then.
Sources(p) == DOMAIN p.package
Target(p, src) == p.entries[src].target
Expected(p, src) == p.entries[src].expected

Occurrences(p) == { o \in File \X Key : o[1] \in Sources(p) /\ o[2] \in Assigned(p.package[o[1]]) }
Incoming(p, o) == p.package[o[1]][o[2]]

\* TeamImportOccurrenceState, against the content the plan has seen.
IsNew(p, o) == o[2] \notin Assigned(Expected(p, o[1]))
IsConflict(p, o) == ~IsNew(p, o) /\ Expected(p, o[1])[o[2]] # Incoming(p, o)
Conflicts(p) == { o \in Occurrences(p) : IsConflict(p, o) }

LinksOf(p, o) == { link \in p.links : link.key = o[2] /\ Target(p, o[1]) \in link.members }

\* validate_package_links: a link that is in the package is there with all its members and one
\* value.
PackageLinksHold(p) ==
  \A link \in p.links :
    LET present == { o \in Occurrences(p) : link \in LinksOf(p, o) }
    IN  present # {} =>
          /\ Cardinality(present) = Cardinality(link.members)
          /\ \E v \in Value : \A o \in present : Incoming(p, o) = v

\* expand_linked_conflicts
Expanded(p, chosen) ==
  chosen \cup { o \in Conflicts(p) : \E c \in chosen : LinksOf(p, o) \cap LinksOf(p, c) # {} }

\* What build_changes writes into the current content, or NoFile where it fails: an appended key
\* that is there by now is assigned twice, a key to replace has to be there.
Merged(p, src, now, accepted) ==
  IF Expected(p, src) = NoFile THEN p.package[src]
  ELSE IF now = NoFile \/ \E o \in accepted : o[1] = src /\ o[2] \notin Assigned(now)
    THEN NoFile
  ELSE [k \in Key |->
          IF <<src, k>> \notin Occurrences(p) THEN now[k]
          ELSE IF IsNew(p, <<src, k>>)
            THEN IF k \in Assigned(now) THEN Absent ELSE p.package[src][k]
          ELSE IF <<src, k>> \in accepted THEN p.package[src][k] ELSE now[k]]

\* Whether apply writes the entry at all.
Changes(p, src, accepted) ==
  \/ Expected(p, src) = NoFile
  \/ \E o \in Occurrences(p) : o[1] = src /\ (IsNew(p, o) \/ o \in accepted)

----------------------------------------------------------------------------
\* plan_encrypted_team_import: the manifest is loaded, then the package's files are compared with
\* their targets one after the other.  Bad packages are refused.
BeginPlan(package) ==
  /\ plan = NoPlan /\ apply.pc = "rest"
  /\ DOMAIN package # {}
  /\ \A f \in DOMAIN package : Assigned(package[f]) # {}
  /\ plan' = [package |-> package, links |-> links, todo |-> DOMAIN package,
              entries |-> Nothing, stored |-> FALSE, writes |-> 0]
  /\ UNCHANGED <<disk, links, apply>>

Planning == plan # NoPlan /\ ~plan.stored
Stored == plan # NoPlan /\ plan.stored

\* build_entry with inspect_target
BuildEntry ==
  /\ Planning
  /\ \E f \in Earliest(plan.todo) :
       plan' = [plan EXCEPT !.todo = @ \ {f},
                            !.entries = With(@, f, [target |-> f, expected |-> disk[f]])]
  /\ UNCHANGED <<disk, links, apply>>

\* store_team_import_plan, if the links of the package hold.
StorePlan ==
  /\ Planning /\ plan.todo = {}
  /\ plan' = IF PackageLinksHold(plan) THEN [plan EXCEPT !.stored = TRUE] ELSE NoPlan
  /\ UNCHANGED <<disk, links, apply>>

\* remap_team_import_file: another target, looked at now; refused if an entry has it or the links
\* do not hold any more.
Remapped(src, target) ==
  [plan EXCEPT !.entries[src] = [target |-> target, expected |-> disk[target]]]

Remap(src, target) ==
  /\ Stored /\ apply.pc = "rest"
  /\ src \in Sources(plan)
  /\ \A other \in Sources(plan) \ {src} : Target(plan, other) # target
  /\ PackageLinksHold(Remapped(src, target))
  /\ plan' = Remapped(src, target)
  /\ UNCHANGED <<disk, links, apply>>

\* The plan goes: discarded, or asked for by another project or too late.
DropPlan ==
  /\ Stored /\ apply.pc = "rest"
  /\ plan' = NoPlan
  /\ UNCHANGED <<disk, links, apply>>

----------------------------------------------------------------------------
Ends(result) == apply' = [Resting EXCEPT !.pc = "done", !.result = result]
Here == Earliest(apply.todo)
AllSources == Sources(apply.plan)

\* apply_team_import takes the plan out of the store, and the chosen ids have to be conflicts.
BeginApply(chosen) ==
  /\ Stored /\ apply.pc = "rest"
  /\ plan' = NoPlan
  /\ IF chosen \subseteq Conflicts(plan)
       THEN apply' = [Resting EXCEPT
              !.pc = "build", !.plan = plan, !.chosen = chosen,
              !.accepted = Expanded(plan, chosen), !.todo = Sources(plan),
              !.before = disk]
       ELSE Ends("invalid")
  /\ UNCHANGED <<disk, links>>

\* build_changes, one file: the target is read again, and not compared with the plan.
Build ==
  /\ apply.pc = "build"
  /\ \E src \in Here :
       LET f == Target(apply.plan, src)
           content == Merged(apply.plan, src, disk[f], apply.accepted)
       IN  IF content = NoFile
             THEN Ends("invalid")
             ELSE apply' = [apply EXCEPT
                    !.changes = With(@, f, content),
                    !.todo = IF @ = {src} THEN AllSources ELSE @ \ {src},
                    !.pc = IF apply.todo = {src} THEN "links" ELSE @]
  /\ UNCHANGED <<disk, links, plan>>

\* What a member of a link will hold: the proposal, or what is on the disk.
Proposed(f) == IF f \in DOMAIN apply.changes THEN apply.changes[f] ELSE disk[f]

\* Mutant: links are not checked.
CheckNoLinks ==
  /\ apply.pc = "links"
  /\ apply' = [apply EXCEPT !.pc = "verify"]
  /\ UNCHANGED <<disk, links, plan>>

\* validate_link_invariants, over the links of the manifest the plan was made with.  Its reads of
\* files outside the package are one step.
CheckLinks ==
  /\ apply.pc = "links"
  /\ IF \A link \in apply.plan.links : \E v \in Value : \A f \in link.members :
          link.key \in Assigned(Proposed(f)) /\ Proposed(f)[link.key] = v
       THEN apply' = [apply EXCEPT !.pc = "verify"]
       ELSE Ends("invalid")
  /\ UNCHANGED <<disk, links, plan>>

\* Mutant: the revisions are not compared.
VerifyNothing ==
  /\ apply.pc = "verify"
  /\ apply' = [apply EXCEPT !.todo = AllSources, !.pc = "stage"]
  /\ UNCHANGED <<disk, links, plan>>

\* verify_expected, one file
Verify ==
  /\ apply.pc = "verify"
  /\ \E src \in Here :
       IF disk[Target(apply.plan, src)] = Expected(apply.plan, src)
         THEN apply' = [apply EXCEPT
                !.todo = IF @ = {src} THEN AllSources ELSE @ \ {src},
                !.pc = IF apply.todo = {src} THEN "stage" ELSE @]
         ELSE Ends("changed")
  /\ UNCHANGED <<disk, links, plan>>

\* apply_entries, one file: an entry without a change is passed over; the others are staged, and
\* their target is read once more for the rollback.
Stage ==
  /\ apply.pc = "stage"
  /\ \E src \in Here :
       LET f == Target(apply.plan, src)
           item == [target |-> f, new |-> Expected(apply.plan, src) = NoFile, original |-> disk[f]]
           writes == Changes(apply.plan, src, apply.accepted)
           prepared == IF writes THEN Append(apply.prepared, item) ELSE apply.prepared
       IN  IF writes /\ ~item.new /\ disk[f] = NoFile
             THEN Ends("io")
           ELSE IF apply.todo # {src}
             THEN apply' = [apply EXCEPT !.prepared = prepared, !.todo = @ \ {src}]
           ELSE IF prepared = << >>
             THEN Ends("ok")
             ELSE apply' = [apply EXCEPT !.prepared = prepared, !.todo = {}, !.pc = "commit",
                                         !.at = 1]
  /\ UNCHANGED <<disk, links, plan>>

Item == apply.prepared[apply.at]

\* commit_prepared, one file: a new file must not replace one that has appeared.
Commit ==
  /\ apply.pc = "commit"
  /\ Item.new => disk[Item.target] = NoFile
  /\ disk' = [disk EXCEPT ![Item.target] = apply.changes[Item.target]]
  /\ IF apply.at = Len(apply.prepared) THEN Ends("ok") ELSE apply' = [apply EXCEPT !.at = @ + 1]
  /\ UNCHANGED <<links, plan>>

\* Mutant: what was renamed before stays.
CommitFailsWithoutRollback ==
  /\ apply.pc = "commit"
  /\ "io" \in ImportFault \/ (Item.new /\ disk[Item.target] # NoFile)
  /\ Ends("io")
  /\ UNCHANGED <<disk, links, plan>>

CommitFails ==
  /\ apply.pc = "commit"
  /\ "io" \in ImportFault \/ (Item.new /\ disk[Item.target] # NoFile)
  /\ IF apply.at = 1 THEN Ends("io") ELSE apply' = [apply EXCEPT !.pc = "undo", !.at = @ - 1]
  /\ UNCHANGED <<disk, links, plan>>

\* rollback, one file, newest first: the staged original, or no file.
Undo ==
  /\ apply.pc = "undo"
  /\ Item.new => disk[Item.target] # NoFile
  /\ disk' = [disk EXCEPT ![Item.target] = IF Item.new THEN NoFile ELSE Item.original]
  /\ IF apply.at = 1 THEN Ends("io") ELSE apply' = [apply EXCEPT !.at = @ - 1]
  /\ UNCHANGED <<links, plan>>

UndoFails ==
  /\ apply.pc = "undo"
  /\ "undo" \in ImportFault \/ (Item.new /\ disk[Item.target] = NoFile)
  /\ Ends("incomplete")
  /\ UNCHANGED <<disk, links, plan>>

\* Reading, parsing or staging fails before the first rename.
ApplyFails ==
  /\ "io" \in ImportFault
  /\ apply.pc \in {"build", "links", "stage"}
  /\ Ends("io")
  /\ UNCHANGED <<disk, links, plan>>

\* The app dies; the apply under way is gone, as its plan is already.
Die ==
  /\ "crash" \in ImportFault
  /\ apply.pc \notin {"rest", "done"}
  /\ Ends("crashed")
  /\ UNCHANGED <<disk, links, plan>>

\* The command returns.
Report == apply.pc = "done" /\ apply' = Resting /\ UNCHANGED <<disk, links, plan>>

----------------------------------------------------------------------------
\* Others write while there is a plan or an apply: earlier writes only make another beginning.
Counted ==
  \/ /\ plan # NoPlan /\ plan.writes < MaxWrites
     /\ plan' = [plan EXCEPT !.writes = @ + 1]
     /\ UNCHANGED apply
  \/ /\ apply.pc \notin {"rest", "done"} /\ apply.plan.writes < MaxWrites
     /\ apply' = [apply EXCEPT !.plan.writes = @ + 1, !.disturbed = TRUE]
     /\ UNCHANGED plan

\* An editor, another process, git.
Edit ==
  /\ \E f \in File, content \in Content :
       content # disk[f] /\ disk' = [disk EXCEPT ![f] = content]
  /\ Counted
  /\ UNCHANGED links

\* ProjectService links keys whose members agree, or takes a link back.
Relink ==
  /\ \E link \in Link :
       links' = IF link \in links THEN links \ {link} ELSE links \cup {link}
  /\ Counted
  /\ UNCHANGED disk

ApplyStep ==
  \/ Build \/ CheckLinks \/ Verify \/ Stage \/ Commit \/ CommitFails \/ Undo \/ UndoFails
  \/ ApplyFails \/ Die \/ Report

ImportNext ==
  \/ BuildEntry \/ StorePlan \/ DropPlan
  \/ \E src, target \in File : Remap(src, target)
  \/ Stored /\ \E chosen \in SUBSET Occurrences(plan) : BeginApply(chosen)
  \/ ApplyStep
  \/ Edit \/ Relink

----------------------------------------------------------------------------
\* The apply ends in this step with this result, and nobody wrote a file since it began.
EndsUndisturbed(result) ==
  apply.pc \notin {"rest", "done"} /\ apply'.pc = "done" /\ apply'.result = result /\ ~apply.disturbed

\* The value the user is asked about goes with the group it is linked in.
Wanted(o) ==
  \/ o \in apply.chosen
  \/ \E link \in apply.plan.links, c \in apply.chosen :
       /\ link.key = o[2] /\ link.key = c[2]
       /\ {Target(apply.plan, o[1]), Target(apply.plan, c[1])} \subseteq link.members

\* What the user was shown for file f, with the chosen values taken from the package.
Shown(f) ==
  IF \A src \in Sources(apply.plan) : Target(apply.plan, src) # f
    THEN apply.before[f]
    ELSE LET src == CHOOSE s \in Sources(apply.plan) : Target(apply.plan, s) = f
             kept == IF Expected(apply.plan, src) = NoFile THEN {} ELSE
               { k \in Assigned(Expected(apply.plan, src)) :
                   k \notin Assigned(apply.plan.package[src]) \/ ~Wanted(<<src, k>>) }
         IN  [k \in Key |-> IF k \in kept THEN Expected(apply.plan, src)[k]
                                          ELSE apply.plan.package[src][k]]

\* "Imports add missing variables, preserve receiver-only content [...]. Keep-local is the default;
\* each unlinked conflict is independent" (README.md:114): after an apply that succeeds, every file
\* is what the preview showed, with the chosen conflicts and what is linked with them taken over,
\* although files were mapped, and may have been edited, between preview and apply.
AppliedAsShown ==
  [][ EndsUndisturbed("ok") => \A f \in File : disk'[f] = Shown(f) ]_importVars

\* An apply that fails leaves every file as it was when it began, unless it says that it may not.
FailedImportChangesNothing ==
  [][ (\E result \in {"io", "invalid", "changed"} : EndsUndisturbed(result))
        => disk' = apply.before ]_importVars

\* "an existing linked group stays one atomic choice" (README.md:114): after an apply that succeeds
\* the members of every link of the plan have one value.
ImportKeepsLinks ==
  [][ EndsUndisturbed("ok") =>
        \A link \in apply.plan.links : \E v \in Value : \A f \in link.members :
          disk'[f] # NoFile /\ disk'[f][link.key] = v ]_importVars
=============================================================================
