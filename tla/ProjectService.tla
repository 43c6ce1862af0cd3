--------------------------- MODULE ProjectService ---------------------------
(***************************************************************************)
(* ProjectService of crates/env-core/src/service: the operations that the  *)
(* desktop app and the broker processes run on one project.  Each is a     *)
(* sequence of reads and writes of env files and of the manifest           *)
(* .env-manager.json, which holds the links between occurrences of a key   *)
(* and the access policy of every key.  Env files are written through      *)
(* TransactionPlan::commit (module Transaction); the manifest is loaded    *)
(* whole, changed in memory and saved whole, under no lock and with no     *)
(* revision.                                                               *)
(*                                                                         *)
(* The bytes of a file are represented by what Document reads from them:   *)
(* the value of each key.  A key that is assigned twice is refused like an *)
(* absent one and is left out.  Editors that write env files meanwhile are *)
(* a subject of Transaction and not repeated here.                         *)
(***************************************************************************)
EXTENDS Naturals, Sequences, FiniteSets, Functions, SequencesExt

CONSTANTS
  Process,       \* the desktop app and the brokers: one call at a time each
  FileOrder,     \* the env files in path order, the order of BTreeSet and of discovery
  Key,
  Value,         \* values a variable can have
  Empty,         \* the empty one
  Absent,        \* what a file that does not assign a key has for it
  Sensitive,     \* keys with a PROTECTED_INDICATORS name
  Ops,           \* the operations that are called: a subset of AllOps
  Fault,         \* the faults that happen: a subset of AllFaults
  Interference   \* as in Transaction

File == ToSet(FileOrder)
Bytes == [Key -> Value \cup {Absent}]

AllOps == {"save_value", "create_link", "detach_link_member", "delete_variable",
           "add_variable", "set_codex_access", "initialize"}
AllFaults == {"io", "undo", "crash", "manifest"}

ASSUME FilesAssumption == FileOrder \in Seq(File) /\ IsInjective(FileOrder)
ASSUME ValuesAssumption == Empty \in Value /\ Absent \notin Value
ASSUME SensitiveAssumption == Sensitive \subseteq Key
ASSUME OpsAssumption == Ops \subseteq AllOps
ASSUME ServiceInterferenceAssumption == Interference \in BOOLEAN
ASSUME ServiceFaultAssumption == Fault \subseteq AllFaults

VARIABLES
  disk, txn, disturbed,   \* of Transaction
  manifest,               \* .env-manager.json
  call,                   \* call[p]: the operation p is in, and its locals
  broken                  \* history: a process died, or its rollback failed, with files half done

T == INSTANCE Transaction WITH Writer <- Process, Fault <- Fault \ {"manifest"}

vars == <<disk, txn, disturbed, manifest, call, broken>>

----------------------------------------------------------------------------
Access == {"read-write", "protected", "unclassified"}
Source == {"heuristic", "user", "codex"}
Policy == [access : Access, by : Source]
NoPolicy == [access |-> "unclassified", by |-> "nobody"]

\* A link keeps the id it got from its first members.
Link == [id : SUBSET File, key : Key, members : SUBSET File]
Manifest == [links : SUBSET Link, policy : [Key -> Policy \cup {NoPolicy}]]

\* Manifest::validate; load and save both refuse anything else.
Valid(m) ==
  /\ \A link \in m.links : Cardinality(link.members) >= 2
  /\ \A a, b \in m.links : a.key = b.key /\ a.members \cap b.members # {} => a = b

LinksOf(m, file, key) == { link \in m.links : link.key = key /\ file \in link.members }

\* value_write_targets: all members of the link, or the file alone.
Targets(m, file, key) == {file} \cup UNION { link.members : link \in LinksOf(m, file, key) }

\* Mutant: the suggestion for an ordinary name is taken as the policy.
SuggestedAccess(key) == IF key \in Sensitive THEN "protected" ELSE "read-write"

\* default_access: a name can protect a key, never open it.
DefaultAccess(key) == IF key \in Sensitive THEN "protected" ELSE "unclassified"
DefaultPolicy(key) == [access |-> DefaultAccess(key), by |-> "heuristic"]

\* A loop over files takes them in path order: what it comes to next when it has S left, and the order
\* of a plan for the files of S.
Before(f, g) == \E i, j \in DOMAIN FileOrder : i < j /\ FileOrder[i] = f /\ FileOrder[j] = g
Earliest(S) == { f \in S : \A g \in S : ~Before(g, f) }
InPathOrder(S) ==
  { s \in T!Order : T!Members(s) = S /\ \A i, j \in DOMAIN s : i < j => Before(s[i], s[j]) }

Request ==
  [op : {"save_value", "add_variable"}, file : File, key : Key, value : Value]
    \cup [op : {"delete_variable"}, file : File, key : Key]
    \cup [op : {"create_link"}, files : SUBSET File, key : Key, source : File \cup {Absent}]
    \cup [op : {"detach_link_member"}, id : SUBSET File, file : File, key : Key]
    \cup [op : {"set_codex_access"}, key : Key, access : Access, by : {"user", "codex"}]
    \cup [op : {"initialize"}]

\* Maps: one without entries, and one with an entry that is new or replaces another.
Nothing == [f \in {} |-> {}]
With(map, x, y) == [z \in DOMAIN map \cup {x} |-> IF z = x THEN y ELSE map[z]]

NoRequest == [op |-> "none"]
NoManifest == [links |-> {}, policy |-> Nothing]

Idle(result) ==
  [pc |-> "idle", req |-> NoRequest, held |-> NoManifest, todo |-> {},
   files |-> {}, seen |-> Nothing, copies |-> Nothing, result |-> result]

Op(p) == call[p].req.op
At(p, pc) == call[p].pc = pc
Next1(p) == Earliest(call[p].todo)
LastOf(p, f) == call[p].todo = {f}

Return(p, result) == call' = [call EXCEPT ![p] = Idle(result)]

----------------------------------------------------------------------------
\* What the scan makes of a manifest once it has read the files: a key without a policy gets
\* the default, and read-write granted by an older heuristic is taken back.
Classified(m, contents) ==
  LET present == { k \in Key : \E f \in DOMAIN contents : contents[f][k] # Absent }
  IN  [m EXCEPT !.policy = [k \in Key |->
         IF k \notin present THEN m.policy[k]
         ELSE IF m.policy[k] = NoPolicy THEN DefaultPolicy(k)
         ELSE IF m.policy[k] = [access |-> "read-write", by |-> "heuristic"]
           THEN [access |-> "unclassified", by |-> "heuristic"]
         ELSE m.policy[k]]]

\* A registered project has been scanned.
Init ==
  /\ T!Init
  /\ manifest = Classified([links |-> {}, policy |-> [k \in Key |-> NoPolicy]],
                           [f \in File |-> disk[f].bytes])
  /\ call = [p \in Process |-> Idle("none")]
  /\ broken = FALSE

\* An operation is called.  add_variable is the one that reads no manifest first.
Invoke(p, req) ==
  /\ At(p, "idle")
  /\ req.op \in Ops
  /\ call' = [call EXCEPT ![p] =
       [Idle("none") EXCEPT !.req = req,
                            !.pc = IF req.op = "add_variable" THEN "load" ELSE "manifest",
                            !.todo = IF req.op = "add_variable" THEN {req.file} ELSE {}]]
  /\ UNCHANGED <<disk, txn, disturbed, manifest>>

\* ManifestStore::load, and what each operation first does with it.
LoadManifest(p, op) ==
  /\ At(p, "manifest") /\ Op(p) = op
  /\ UNCHANGED <<disk, txn, disturbed, manifest>>

Enter(p, pc, files) ==
  call' = [call EXCEPT ![p].held = manifest, ![p].files = files, ![p].todo = files,
                       ![p].pc = pc]

\* Mutant: the targets of a save are the file alone.
ResolveOnlyFile(p) ==
  /\ LoadManifest(p, "save_value")
  /\ call' = [call EXCEPT ![p].todo = {call[p].req.file}, ![p].files = {call[p].req.file},
                          ![p].pc = "check"]

\* save_value_inner: the link is resolved first, and the targets kept for two loops.
ResolveTargets(p) ==
  /\ LoadManifest(p, "save_value")
  /\ LET targets == Targets(manifest, call[p].req.file, call[p].req.key)
     IN  call' = [call EXCEPT ![p].todo = targets, ![p].files = targets, ![p].pc = "check"]

CheckTarget(p) ==
  /\ At(p, "check")
  /\ \E f \in Next1(p) :
       /\ disk[f].bytes[call[p].req.key] # Absent
       /\ call' = IF LastOf(p, f)
                   THEN [call EXCEPT ![p].todo = call[p].files, ![p].pc = "load"]
                   ELSE [call EXCEPT ![p].todo = @ \ {f}]
  /\ UNCHANGED <<disk, txn, disturbed, manifest>>

CheckTargetFails(p) ==
  /\ At(p, "check")
  /\ \E f \in Next1(p) : disk[f].bytes[call[p].req.key] = Absent
  /\ Return(p, "missing")
  /\ UNCHANGED <<disk, txn, disturbed, manifest>>

\* create_link: two or more files, none of them linked under the key.
EnterLink(p) ==
  /\ LoadManifest(p, "create_link")
  /\ Cardinality(call[p].req.files) >= 2
  /\ \A f \in call[p].req.files : LinksOf(manifest, f, call[p].req.key) = {}
  /\ Enter(p, "load", call[p].req.files)

RefuseLink(p) ==
  /\ LoadManifest(p, "create_link")
  /\ \/ Cardinality(call[p].req.files) < 2
     \/ \E f \in call[p].req.files : LinksOf(manifest, f, call[p].req.key) # {}
  /\ Return(p, "invalid")

\* delete_variable: a linked occurrence has to be detached first.
EnterDelete(p) ==
  /\ LoadManifest(p, "delete_variable")
  /\ LinksOf(manifest, call[p].req.file, call[p].req.key) = {}
  /\ Enter(p, "load", {call[p].req.file})

RefuseDelete(p) ==
  /\ LoadManifest(p, "delete_variable")
  /\ LinksOf(manifest, call[p].req.file, call[p].req.key) # {}
  /\ Return(p, "invalid")

\* The manifest without the member; a link of one member is no link.
WithoutMember(m, id, key, file) ==
  LET touched == { link \in m.links : link.id = id /\ link.key = key }
      rest == { [link EXCEPT !.members = @ \ {file}] : link \in touched }
  IN  [m EXCEPT !.links = (@ \ touched) \cup { link \in rest : Cardinality(link.members) >= 2 }]

\* detach_link_member: finds the link by its id and saves the manifest without the member.
Detach(p) ==
  /\ LoadManifest(p, "detach_link_member")
  /\ \E link \in manifest.links : link.id = call[p].req.id /\ link.key = call[p].req.key
  /\ call' = [call EXCEPT ![p].pc = "save", ![p].held =
       WithoutMember(manifest, call[p].req.id, call[p].req.key, call[p].req.file)]

RefuseDetach(p) ==
  /\ LoadManifest(p, "detach_link_member")
  /\ ~\E link \in manifest.links : link.id = call[p].req.id /\ link.key = call[p].req.key
  /\ Return(p, "invalid")

\* set_codex_access_by
SetAccess(p) ==
  /\ LoadManifest(p, "set_codex_access")
  /\ call' = [call EXCEPT ![p].pc = "save", ![p].held =
       [manifest EXCEPT !.policy[call[p].req.key] =
          [access |-> call[p].req.access, by |-> call[p].req.by]]]

\* initialize: the manifest, then every file.
EnterScan(p) == LoadManifest(p, "initialize") /\ Enter(p, "load", File)

----------------------------------------------------------------------------
\* load_document of the next file.  The operation goes on only if the file assigns the key, for
\* add_variable only if it does not.
Loadable(p, f) ==
  \/ Op(p) = "initialize"
  \/ Op(p) = "add_variable" /\ disk[f].bytes[call[p].req.key] = Absent
  \/ /\ Op(p) \in {"save_value", "create_link", "delete_variable"}
     /\ disk[f].bytes[call[p].req.key] # Absent

Load(p) ==
  /\ At(p, "load")
  /\ \E f \in Next1(p) :
       /\ Loadable(p, f)
       /\ call' = [call EXCEPT ![p].seen = With(@, f, disk[f].bytes), ![p].todo = @ \ {f},
                               ![p].pc = IF LastOf(p, f) THEN "plan" ELSE @]
  /\ UNCHANGED <<disk, txn, disturbed, manifest>>

LoadFails(p) ==
  /\ At(p, "load")
  /\ \E f \in Next1(p) : ~Loadable(p, f)
  /\ Return(p, IF Op(p) = "add_variable" THEN "duplicate" ELSE "missing")
  /\ UNCHANGED <<disk, txn, disturbed, manifest>>

\* The files of the plan with the key set to value: Absent takes the assignment out.
WithKey(contents, key, value) == [f \in DOMAIN contents |-> [contents[f] EXCEPT ![key] = value]]

Commit(p, expected, proposed) ==
  \E order \in InPathOrder(DOMAIN expected) : T!Begin(p, order, expected, proposed)

\* save_value, add_variable and delete_variable commit what they make of the loaded files.
CommitFiles(p) ==
  /\ At(p, "plan")
  /\ Op(p) \in {"save_value", "add_variable", "delete_variable"}
  /\ LET value == IF Op(p) = "delete_variable" THEN Absent ELSE call[p].req.value
     IN  Commit(p, call[p].seen, WithKey(call[p].seen, call[p].req.key, value))
  /\ call' = [call EXCEPT ![p].pc = "commit"]
  /\ UNCHANGED manifest

\* The distinct non-empty values of the files to link, and the source the caller chose.
Distinct(p) == { call[p].seen[f][call[p].req.key] : f \in call[p].req.files } \ {Empty}
SourceChosen(p) == call[p].req.source # Absent

\* create_link has no source: the caller's is not among the files, or the values conflict.
RefuseSource(p) ==
  /\ At(p, "plan") /\ Op(p) = "create_link"
  /\ IF SourceChosen(p) THEN call[p].req.source \notin call[p].req.files
                        ELSE Cardinality(Distinct(p)) > 1
  /\ Return(p, IF SourceChosen(p) THEN "invalid" ELSE "conflict")
  /\ UNCHANGED <<disk, txn, disturbed, manifest>>

SourceValue(p) ==
  IF SourceChosen(p) THEN call[p].seen[call[p].req.source][call[p].req.key]
  ELSE IF Distinct(p) = {} THEN Empty ELSE CHOOSE v \in Distinct(p) : TRUE

\* create_link: the link is added in memory; commit_files_then_manifest reads the files again.
AddLink(p) ==
  /\ At(p, "plan") /\ Op(p) = "create_link"
  /\ IF SourceChosen(p) THEN call[p].req.source \in call[p].req.files
                        ELSE Cardinality(Distinct(p)) <= 1
  /\ LET link == [id |-> call[p].req.files, key |-> call[p].req.key,
                  members |-> call[p].req.files]
     IN  call' = [call EXCEPT ![p].held.links = @ \cup {link},
                              ![p].todo = call[p].req.files, ![p].pc = "copy"]
  /\ UNCHANGED <<disk, txn, disturbed, manifest>>

\* commit_files_then_manifest: the bytes for a rollback of the files.
Copy(p) ==
  /\ At(p, "copy")
  /\ \E f \in Next1(p) :
       call' = [call EXCEPT ![p].copies = With(@, f, disk[f].bytes), ![p].todo = @ \ {f},
                            ![p].pc = IF LastOf(p, f) THEN "files" ELSE @]
  /\ UNCHANGED <<disk, txn, disturbed, manifest>>

CommitLinkedFiles(p) ==
  /\ At(p, "files")
  /\ Commit(p, call[p].seen, WithKey(call[p].seen, call[p].req.key, SourceValue(p)))
  /\ call' = [call EXCEPT ![p].pc = "commit"]
  /\ UNCHANGED manifest

\* The commit has returned an error, or its process is gone.
CommitFailed(p) ==
  /\ At(p, "commit")
  /\ ~T!Committing(p)
  /\ txn[p].result # "ok"
  /\ Return(p, txn[p].result)
  /\ UNCHANGED <<disk, txn, disturbed, manifest>>

\* The commit has returned: create_link goes on to save the manifest, add_variable to ensure_policy.
Committed(p) ==
  /\ At(p, "commit")
  /\ ~T!Committing(p)
  /\ txn[p].result = "ok"
  /\ CASE Op(p) = "create_link" -> call' = [call EXCEPT ![p].pc = "save"]
       [] Op(p) = "add_variable" -> call' = [call EXCEPT ![p].pc = "policy"]
       [] OTHER -> Return(p, "ok")
  /\ UNCHANGED <<disk, txn, disturbed, manifest>>

----------------------------------------------------------------------------
\* ensure_policy: loads the manifest and gives the new key the default policy.
EnsurePolicy(p) ==
  /\ At(p, "policy")
  /\ IF manifest.policy[call[p].req.key] # NoPolicy
       THEN Return(p, "ok")
       ELSE call' = [call EXCEPT ![p].pc = "save", ![p].held =
              [manifest EXCEPT !.policy[call[p].req.key] = DefaultPolicy(call[p].req.key)]]
  /\ UNCHANGED <<disk, txn, disturbed, manifest>>

\* initialize: saves the manifest if the scan changed it.
Classify(p) ==
  /\ At(p, "plan") /\ Op(p) = "initialize"
  /\ LET scanned == Classified(call[p].held, call[p].seen)
     IN  IF scanned = call[p].held
           THEN Return(p, "ok")
           ELSE call' = [call EXCEPT ![p].pc = "save", ![p].held = scanned]
  /\ UNCHANGED <<disk, txn, disturbed, manifest>>

\* ManifestStore::save: the held manifest replaces whatever is there by now.
SaveManifest(p) ==
  /\ At(p, "save")
  /\ Valid(call[p].held)
  /\ manifest' = call[p].held
  /\ Return(p, "ok")
  /\ UNCHANGED <<disk, txn, disturbed>>

\* Mutant: the files stay as the link made them.
SaveManifestFailsKeepsFiles(p) ==
  /\ At(p, "save")
  /\ "manifest" \in Fault \/ ~Valid(call[p].held)
  /\ Return(p, "io")
  /\ UNCHANGED <<disk, txn, disturbed, manifest>>

\* save fails.  create_link takes its files back: it reads what they hold now, and commits.
SaveManifestFails(p) ==
  /\ At(p, "save")
  /\ "manifest" \in Fault \/ ~Valid(call[p].held)
  /\ IF Op(p) = "create_link"
       THEN call' = [call EXCEPT ![p].pc = "reread", ![p].todo = DOMAIN call[p].copies,
                                 ![p].seen = Nothing]
       ELSE Return(p, "io")
  /\ UNCHANGED <<disk, txn, disturbed, manifest>>

Reread(p) ==
  /\ At(p, "reread")
  /\ \E f \in Next1(p) :
       call' = [call EXCEPT ![p].seen = With(@, f, disk[f].bytes), ![p].todo = @ \ {f},
                            ![p].pc = IF LastOf(p, f) THEN "restore" ELSE @]
  /\ UNCHANGED <<disk, txn, disturbed, manifest>>

\* A file cannot be read back: the error says that the files may not be restored.
RereadFails(p) ==
  /\ "io" \in Fault
  /\ At(p, "reread")
  /\ Return(p, "incomplete")
  /\ UNCHANGED <<disk, txn, disturbed, manifest>>

CommitCopies(p) ==
  /\ At(p, "restore")
  /\ Commit(p, call[p].seen, call[p].copies)
  /\ call' = [call EXCEPT ![p].pc = "restoring"]
  /\ UNCHANGED manifest

\* Mutant: a rollback of the files that fails is tried again.
RestoredRetries(p) ==
  /\ At(p, "restoring")
  /\ ~T!Committing(p)
  /\ IF txn[p].result \in {"ok", "crashed"}
       THEN Return(p, "io")
       ELSE call' = [call EXCEPT ![p].pc = "restore"]
  /\ UNCHANGED <<disk, txn, disturbed, manifest>>

Restored(p) ==
  /\ At(p, "restoring")
  /\ ~T!Committing(p)
  /\ Return(p, CASE txn[p].result = "ok" -> "io"
                 [] txn[p].result = "crashed" -> "crashed"
                 [] OTHER -> "incomplete")
  /\ UNCHANGED <<disk, txn, disturbed, manifest>>

\* The manifest or a file cannot be read, anywhere before the operation's writes; in
\* ensure_policy this is after the file has been committed.
ReadFails(p) ==
  /\ "io" \in Fault
  /\ call[p].pc \in {"manifest", "check", "load", "copy", "policy"}
  /\ Return(p, "io")
  /\ UNCHANGED <<disk, txn, disturbed, manifest>>

\* The process dies outside commit: before its writes, between the files and the manifest, or
\* before taking the files back.
Die(p) ==
  /\ "crash" \in Fault
  /\ call[p].pc \notin {"idle", "commit", "restoring"}
  /\ Return(p, "crashed")
  /\ UNCHANGED <<disk, txn, disturbed, manifest>>

----------------------------------------------------------------------------
\* Operations begin with what the caller saw: a link's id comes from an earlier projection.
Call(p) == \E req \in Request : Invoke(p, req)

FirstStep(p) ==
  \/ ResolveTargets(p) \/ CheckTarget(p) \/ CheckTargetFails(p)
  \/ EnterLink(p) \/ RefuseLink(p) \/ EnterDelete(p) \/ RefuseDelete(p)
  \/ Detach(p) \/ RefuseDetach(p) \/ SetAccess(p) \/ EnterScan(p)

FileStep(p) ==
  \/ Load(p) \/ LoadFails(p) \/ CommitFiles(p) \/ RefuseSource(p) \/ AddLink(p) \/ Copy(p)
  \/ CommitLinkedFiles(p) \/ CommitFailed(p) \/ Committed(p)
  \/ T!Step(p) /\ UNCHANGED <<manifest, call>>

ManifestStep(p) ==
  \/ EnsurePolicy(p) \/ Classify(p) \/ SaveManifest(p) \/ SaveManifestFails(p)
  \/ Reread(p) \/ RereadFails(p) \/ CommitCopies(p) \/ Restored(p)
  \/ ReadFails(p) \/ Die(p)

Step(p) == FirstStep(p) \/ FileStep(p) \/ ManifestStep(p)

Breaks ==
  \E p \in Process : txn'[p].result \in {"crashed", "incomplete"} \/ call'[p].result = "crashed"

Run(p) == Step(p) /\ broken' = (broken \/ Breaks)

Next ==
  \/ \E p \in Process : Call(p) /\ UNCHANGED broken
  \/ \E p \in Process : Run(p)

\* A call is straight-line code on its own thread.
Fairness == \A p \in Process : WF_vars(Run(p))

Spec == Init /\ [][Next]_vars
FairSpec == Spec /\ Fairness

----------------------------------------------------------------------------
Quiet == \A p \in Process : At(p, "idle")

\* "Edit from any member and save every linked occurrence together" (README.md:36): between
\* operations every member of a link has the same value, as long as none was broken off.
LinksAgree ==
  Quiet /\ ~broken => \A link \in manifest.links :
               \E v \in Value : \A f \in link.members : disk[f].bytes[link.key] = v

\* Whatever earlier operations broke off, crashed or left half rolled back: a save that reports
\* success has put its value into every occurrence that is linked with the one it was asked for.
LinkedSaveReachesAll ==
  [][ \A p \in Process :
        Op(p) = "save_value" /\ call'[p] = Idle("ok") =>
          \A f \in Targets(manifest, call[p].req.file, call[p].req.key) :
            disk[f].bytes[call[p].req.key] = call[p].req.value ]_vars

\* "Change a key to read-write only when the current task explicitly requests that agent access
\* change" (SKILL.md:74): no step opens a key but the save of a set_codex_access that says so.
AccessOnRequest ==
  [][ \A k \in Key :
        manifest'.policy[k].access = "read-write" /\ manifest.policy[k].access # "read-write" =>
          \E p \in Process :
            /\ At(p, "save") /\ call'[p] # call[p]
            /\ Op(p) = "set_codex_access"
            /\ call[p].req.key = k /\ call[p].req.access = "read-write" ]_vars

\* Every operation returns to its caller, whatever fails under it.
CallsReturn == \A p \in Process : ~At(p, "idle") ~> At(p, "idle")

----------------------------------------------------------------------------
\* The inductive invariant behind the safety properties above, for one caller at a time.
Result == T!Result \cup {"missing", "duplicate", "invalid", "conflict"}

\* What can be going on in each operation at each point of its code.
Stage ==
  ({"idle"} \X {"none"}) \cup ({"manifest"} \X (AllOps \ {"add_variable"}))
    \cup ({"check"} \X {"save_value"})
    \cup ({"load", "plan"} \X (AllOps \ {"detach_link_member", "set_codex_access"}))
    \cup ({"commit"} \X {"save_value", "add_variable", "delete_variable", "create_link"})
    \cup ({"policy"} \X {"add_variable"})
    \cup ({"copy", "files", "reread", "restore", "restoring"} \X {"create_link"})
    \cup ({"save"} \X (AllOps \ {"save_value", "delete_variable"}))

CallRecord ==
  [pc : {"idle", "manifest", "check", "load", "plan", "commit", "policy", "copy", "files", "save",
         "reread", "restore", "restoring"},
   req : Request \cup {NoRequest}, held : Manifest \cup {NoManifest}, todo : SUBSET File,
   files : SUBSET File, seen : T!Snapshot, copies : T!Snapshot, result : Result]

\* The type invariant of the files, the commits, the manifest and the operations.
TypeOK ==
  /\ T!TypeOK
  /\ manifest \in Manifest /\ Valid(manifest)
  /\ call \in [Process -> CallRecord]
  /\ \A p \in Process : <<call[p].pc, Op(p)>> \in Stage
  /\ broken \in BOOLEAN

\* The members of every link have one value in these files; and the files as they are with those
\* of a plan replaced.
Agrees(m, contents) ==
  \A link \in m.links : \E v \in Value : \A f \in link.members : contents[f][link.key] = v

Overlay(map) == [f \in File |-> IF f \in DOMAIN map THEN map[f] ELSE disk[f].bytes]

\* The links agree before a commit and after it, whatever mixture the files are in meanwhile.
AgreeInv(p) ==
  IF T!Committing(p)
    THEN /\ call[p].pc \in {"commit", "restoring"}
         /\ ~broken => Agrees(manifest, Overlay(txn[p].expected))
         /\ ~broken => Agrees(manifest, Overlay(txn[p].proposed))
    ELSE ~broken => Agrees(manifest, Overlay(Nothing))

\* The files an operation plans for, and what it writes to them.
Planned(p) == IF Op(p) = "add_variable" THEN {call[p].req.file} ELSE call[p].files
Written(p) ==
  WithKey(call[p].seen, call[p].req.key,
          CASE Op(p) = "delete_variable" -> Absent
            [] Op(p) = "create_link" -> SourceValue(p)
            [] OTHER -> call[p].req.value)

\* What an operation has read is what the files hold until it commits.
ReadInv(p) ==
  LET c == call[p] IN
  /\ c.pc \in {"manifest", "check"} => DOMAIN c.seen = {}
  /\ c.pc \in {"manifest", "check", "load", "plan"} => DOMAIN c.copies = {}
  /\ c.pc \in {"load", "plan", "copy", "files", "reread", "restore"} =>
       \A f \in DOMAIN c.seen : c.seen[f] = disk[f].bytes
  /\ c.pc \in {"load", "plan", "copy", "files", "commit"} /\ Op(p) \in {"save_value", "create_link"} =>
       \A f \in DOMAIN c.seen : c.seen[f][c.req.key] # Absent
  /\ c.pc \in {"load", "plan"} /\ Op(p) = "add_variable" =>
       \A f \in DOMAIN c.seen : c.seen[f][c.req.key] = Absent
  /\ c.pc \in {"load", "reread"} => DOMAIN c.seen \cup c.todo = Planned(p)
  /\ c.pc \in {"plan", "copy", "files", "commit", "restore"} => DOMAIN c.seen = Planned(p)
  /\ c.pc = "copy" => DOMAIN c.copies \cup c.todo = c.files
  /\ c.pc \in {"files", "commit", "save", "reread", "restore"} /\ Op(p) = "create_link" =>
       DOMAIN c.copies = c.files

\* A save writes to the targets the manifest names; delete_variable and create_link work on files
\* that no link has under the key, and create_link changes nothing else in them.
LinkInv(p) ==
  LET c == call[p] IN
  /\ Op(p) = "save_value" /\ c.pc # "manifest" => c.files = Targets(manifest, c.req.file, c.req.key)
  /\ Op(p) \in {"create_link", "delete_variable"} /\ c.pc # "manifest" =>
       \A f \in c.files : LinksOf(manifest, f, c.req.key) = {}
  /\ Op(p) = "create_link" /\ c.pc # "manifest" => c.files = c.req.files
  /\ Op(p) = "create_link" /\ c.pc \in {"copy", "files", "commit", "save", "reread", "restore"} =>
       \A f \in DOMAIN c.copies, k \in Key : k # c.req.key => c.copies[f][k] = disk[f].bytes[k]
  /\ c.pc \in {"copy", "files", "commit"} /\ Op(p) = "create_link" => SourceValue(p) \in Value

\* Where the files stand when the commit of an operation is under way and when it has returned.
WriteInv(p) ==
  call[p].pc = "commit" =>
    IF T!Committing(p)
      THEN txn[p].expected = call[p].seen /\ txn[p].proposed = Written(p)
      ELSE txn[p].result = "ok" =>
             \A f \in DOMAIN call[p].seen : disk[f].bytes = Written(p)[f]

\* The manifest an operation holds, before and after it has added its link, and when it saves it.
HeldInv(p) ==
  LET c == call[p] IN
  /\ c.pc \in {"load", "plan"} /\ Op(p) \in {"create_link", "initialize"} => c.held = manifest
  /\ c.pc \in {"copy", "files", "commit"} /\ Op(p) = "create_link" =>
       c.held = [manifest EXCEPT !.links = @ \cup
                  {[id |-> c.req.files, key |-> c.req.key, members |-> c.req.files]}]
  /\ c.pc = "save" =>
       /\ c.held \in Manifest
       /\ ~broken => Agrees(c.held, Overlay(Nothing))
       /\ \A k \in Key : c.held.policy[k].access = "read-write" =>
            \/ manifest.policy[k].access = "read-write"
            \/ Op(p) = "set_codex_access" /\ c.req.key = k /\ c.req.access = "read-write"

ServiceInv ==
  /\ TypeOK
  /\ T!CommitInv
  /\ \A p \in Process : ~disturbed[p]
  /\ \A p \in Process : AgreeInv(p) /\ ReadInv(p) /\ LinkInv(p) /\ WriteInv(p) /\ HeldInv(p)

----------------------------------------------------------------------------
\* Refinement.  Until create_link has saved the manifest, or has given up on its files, the files
\* count as holding what they held when it was called.
Linking(p) ==
  Op(p) = "create_link" /\ call[p].pc \in {"commit", "save", "reread", "restore", "restoring"}

LinkedFiles ==
  [f \in File |->
     IF \E p \in Process : Linking(p) /\ f \in DOMAIN call[p].copies
       THEN call[CHOOSE p \in Process : Linking(p) /\ f \in DOMAIN call[p].copies].copies[f]
       ELSE T!AbstractFiles[f]]

L == INSTANCE LinkedStore WITH files <- LinkedFiles, links <- manifest.links,
                          warned <- \E p \in Process : call[p].result = "incomplete",
                          linking <- \E p \in Process : Op(p) = "create_link"

\* What this needs of the state beyond ServiceInv.  A link is known by its id and key.
IdsOf(m) ==
  /\ \A link \in m.links : link.members \subseteq link.id
  /\ \A a, b \in m.links : a.id = b.id /\ a.key = b.key => a = b

\* The files of a create_link have, in these contents, one value, which one of them had before,
\* and are else what they were.
Unified(p, contents) ==
  LET c == call[p] IN
  \E v \in Value :
    /\ \E f \in c.files : c.copies[f][c.req.key] = v
    /\ \A f \in c.files : contents[f] = [c.copies[f] EXCEPT ![c.req.key] = v]

\* What an operation has found out about the files it plans for.
FoundInv(p) ==
  LET c == call[p] IN
  /\ c.pc # "idle" => c.result = "none"
  /\ c.pc \in {"load", "plan", "commit"} /\ Op(p) = "delete_variable" =>
       \A f \in DOMAIN c.seen : c.seen[f][c.req.key] # Absent
  /\ c.pc = "commit" /\ Op(p) = "add_variable" =>
       \A f \in DOMAIN c.seen : c.seen[f][c.req.key] = Absent
  /\ c.pc # "manifest" /\ Op(p) = "delete_variable" => c.files = {c.req.file}
  /\ c.pc # "manifest" /\ Op(p) = "create_link" => Cardinality(c.files) >= 2
  /\ c.pc \in {"copy", "files", "commit"} /\ Op(p) = "create_link" =>
       \E f \in c.files : c.seen[f][c.req.key] = SourceValue(p)

\* What a create_link can take its files back to, and where they stand.
CopiesInv(p) ==
  LET c == call[p] IN
  Op(p) = "create_link" =>
    /\ c.pc \in {"copy", "files"} => \A f \in DOMAIN c.copies : c.copies[f] = disk[f].bytes
    /\ c.pc = "commit" => c.copies = c.seen
    /\ c.pc = "commit" /\ ~T!Committing(p) /\ txn[p].result # "ok" /\ ~broken =>
         \A f \in c.files : disk[f].bytes = c.copies[f]
    /\ Linking(p) => DOMAIN c.copies = c.files /\ \A f \in c.files : c.copies[f][c.req.key] # Absent
    /\ c.pc \in {"save", "reread", "restore"} => Unified(p, Overlay(Nothing))
    /\ c.pc = "restoring" =>
         IF T!Committing(p)
           THEN Unified(p, txn[p].expected) /\ txn[p].proposed = c.copies
           ELSE /\ txn[p].result = "ok" => \A f \in c.files : disk[f].bytes = c.copies[f]
                /\ txn[p].result # "ok" /\ ~broken => Unified(p, Overlay(Nothing))

\* How the links an operation is about to save differ from those there are.
SavesLinks(p) ==
  LET c == call[p] IN
  c.pc = "save" =>
    /\ IdsOf(c.held)
    /\ Op(p) = "create_link" => c.held.links = manifest.links \cup
         {[id |-> c.req.files, key |-> c.req.key, members |-> c.req.files]}
    /\ Op(p) = "detach_link_member" =>
         /\ \E link \in manifest.links : link.id = c.req.id /\ link.key = c.req.key
         /\ c.held = WithoutMember(manifest, c.req.id, c.req.key, c.req.file)
    /\ Op(p) \notin {"create_link", "detach_link_member"} => c.held.links = manifest.links

StoreInv ==
  /\ IdsOf(manifest)
  /\ \A p \in Process : FoundInv(p) /\ CopiesInv(p) /\ SavesLinks(p)

\* One caller at a time: until a process dies or a rollback fails half way, every operation takes
\* effect on files and links at once or not at all.
Linked == L!Init /\ [][broken' \/ L!Next]_(L!vars)
=============================================================================
