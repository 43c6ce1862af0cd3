# Env Manager: specification and proofs

Env Manager keeps the `.env` files of a developer's projects. A desktop app (Tauri) and any number
of broker processes (one per coding agent) read and write the same files, the same per-project
manifest and the same application data, without a server between them. This directory holds TLA+
models of that code, the TLC configurations that check them and proofs that TLAPS checks.

Paths below are relative to the repository (`crates/...` is `src/crates/...` in `PROJECT.json`,
whose `map` gives the lines of every definition).

## 1. The system

### Parts, state, operations

| part | state it keeps | operations |
|---|---|---|
| `env-core` transaction (`transaction.rs`) | none; rewrites env files | `TransactionPlan::commit`, `rollback` |
| `env-core` project service (`service/*.rs`, `manifest.rs`, `policy.rs`) | `.env-manager.json` of a project: links, access policies, labels | save, add, delete, move, copy values; create and detach links; set access; scan; groups and descriptions; create files |
| `env-core` parser and edits of one file (`parser.rs`, `service/structure.rs`, `migration.rs`) | none | text to nodes, spans replaced by new text |
| `env-core` discovery, git safety (`discovery.rs`, `git_safety.rs`) | none; appends rules to `.gitignore` | find the env files; look at index, rules and history; guard |
| `env-core` effective values | none | a function of the project's files |
| `env-core` export and team import (`export.rs`, `team_import/`) | none; a plan is kept by the desktop | select and read files; plan, remap, apply a package |
| `env-registry` (`lib.rs`) | `projects.json` with `projects.lock` | `read`, `write`, `update` |
| desktop runtime (`src-tauri/src/runtime*`) | a cache of the registry, plans of five minutes, the selected project | register, rename, remove, select projects; connect channels; store receipts; plan and apply |
| `env-credentials` (`service.rs`) | `credentials.json` with a file lock, the OS secret store | create, update, delete, grant, block, revoke accounts |
| `env-broker` (`broker/*.rs`) | plans in memory | tool calls of an agent; two-step plans |
| `env-broker` audit log, desktop agent activity (`broker/audit.rs`, `runtime/agent_activity.rs`) | a log per project, its predecessor, and the logs of older brokers | append, rotate, migrate at start, show |
| `env-broker` opaque values (`stdin_value.rs`) | a directory of plan files | `create_plan`, `apply_plan` from a second process |
| `env-remote-verifier` (`lib.rs`) | marker files of answered requests | answer one encrypted comparison request |
| `env-provider` push and compare (`provider_push/`, `runtime_target.rs`) | none; writes to other people's services | push keys to GitHub, Cloudflare, EAS, AWS and personal packs through CLIs and SDKs; compare deployed values |
| `env-provider` packs (`action_pack/`, `personal_provider.rs`) | a directory of manifests, a cache of tool versions | install, replace, remove, resolve and run packs |
| `env-team` (`folder.rs`) | a shared folder per channel | connect, publish, fetch packages |
| desktop commands, integrations, user interface | none of their own | thin wrappers, installers, views |

### How they interact

Nothing is called across processes. The parts meet in shared files:

* env files are written only through `TransactionPlan::commit`, which compares a revision (a hash of
  the bytes) and renames staged files over their targets. No lock is held. The user's editor, git and
  build tools write the same files.
* `.env-manager.json` is loaded whole, changed in memory and saved whole, by the desktop app and by
  every broker, with neither lock nor revision.
* `projects.json` is read and updated under `projects.lock`; each desktop keeps a cache of it, each
  broker call reads it anew.
* `credentials.json` has a file lock per read and per write and a mutex per vault object; the secrets
  themselves live in the operating system's store.
* a team folder is on a NAS or in a sync client: files come into being there by a rename that does not
  replace, and nobody locks anything.
* the audit log is appended to by every broker of a project, renamed by whoever finds it too long, and
  merged with an older log by the desktop when it starts, all without a lock.
* plan files of opaque values are handed from the process that plans to the process that applies by a
  rename.

### What is hard here

`PROJECT.json` lists the hazards at their lines. They fall into these groups: several files changed by
one operation (a rename or a rollback fails half way, the process dies between two renames); a check
and a use far apart (revision, link targets, policy, registration, expiry); two stores kept together
(files and manifest, secret and registry); read-modify-write of a whole file by several processes;
single use under a clock (plans, replay markers); and calls of other programs that fail, hang or do
their work and then report a failure (provider pushes and packs). One part is hard without any of this: where
a value ends in a text with quotes, escapes and comments, and what a replaced span takes with it.

## 2. The modules

```
AtomicCommit  <=refines=  Transaction  <-INSTANCE-  ProjectService  =refines=>  LinkedStore
                                                        (links, policies, operations)
AtomicVault   <=refines=  CredentialVault
Document      <-EXTENDS-  DocumentEdits
TeamPackage   <-EXTENDS-  TeamChannel, TeamImport  <-EXTENDS-  TeamSharing

Programs         EXTENDS RemoteVerifier,  INSTANCE StdinValue
AppAndAgents     EXTENDS DesktopRegistry, INSTANCE Broker, ActionPacks
DesktopServices  EXTENDS Transaction,     INSTANCE ProviderPush, ActivityLog
ProjectFiles     EXTENDS GitGuard,        INSTANCE DocumentEdits
```

`TransactionProofs`, `ProjectServiceProofs`, `CredentialVaultProofs`, `TeamSharingProofs`,
`GitGuardProofs`, `AppAndAgentsProofs`, `ProgramsProofs` and `DesktopServicesProofs` EXTEND the module
they prove about; the last three also prove about the parts which that module puts side by side.
`MC*` modules give model values and symmetry to TLC and define nothing of the system. Operators whose
comment starts with "Mutant:" are plausible bugs; `PROJECT.json` pairs each with the property that
catches it.

The last four modules put parts side by side that share no state, as they do in the running program.
A behaviour of all is an interleaving of one behaviour of each, and every property speaks of one
part, so it is enough to look at one at a time: `running` says at which, and the others rest at the
first of their initial states. Where parts do share state, the module that owns it has the other's
steps among its own (`broker_register` in `DesktopRegistry`, the user's changes in `Broker`, editors
and other processes everywhere), and `ProjectService`, `TeamSharing` and `DocumentEdits` compose
theirs step by step.

### Transaction

`disk[f]` is the content and the mode of a file; `txn[w]` holds the locals of one call of `commit`.
The two loops of the code are the program counters `check` and `persist`, the rollback is `undo`, and
`at` is the file the loop stands at. One step handles one file, so everybody else can run between any
two files. `CheckMatches` reads a file, compares and stages it; `Persist` renames one staged file over
whatever its target holds by then; `PersistFails` starts the rollback, `Undo` renames one original
back, `UndoFails` stops it. `Edit` is any other program. A `FileRevision` is a hash of the bytes, so
comparing revisions is comparing bytes; path safety and serialisation are left out.

`disturbed[w]` is a history variable: somebody else wrote a file of `w`'s plan during its commit. The
promise for a commit that was disturbed is weak on purpose: the rename at `transaction.rs:82` replaces
a write that landed after the check at line 43, so `service/values.rs:60-61` ("optimistic
concurrency") describes a check, not a lock. What survives every interleaving is
`WritesOnlyCheckedPlans`.

`Undo` leaves the mode of a temporary file (`"private"`): `rollback` sets no permissions, unlike the
first pass. `AllOrNothing` therefore speaks of bytes after an error and of bytes and mode after success.

### ProjectService

Each operation is the sequence of reads and writes the code performs: load the manifest, load files
one at a time, hand a plan to `Transaction`, wait for it, save the manifest. `call[p]` holds the
operation's locals; `T!Step` runs the commit. The bytes of a file are the function from keys to
values that `Document` reads from them. `create_link` is the one operation that changes files and
manifest: it takes copies, commits, saves, and restores its copies when the save fails (`Copy` to
`Restored`, `persistence.rs:34-75`). `EnsurePolicy` runs after `add_variable` has committed its file.
`SaveManifest` writes the manifest the operation loaded, whatever is on disk by now.

`broken` is a history variable, set when a process dies or its rollback fails with files half done:
files and links may differ from then on. Editors are `Transaction`'s subject and take no part here.

`LinkedStore` is what a user believes: an operation acts on all files and links at once or not at
all. The one exception is an operation that reported "incomplete". `linking` tells it whether the
operation under way is a `create_link`; nothing else may change several files and the links.

### CredentialVault

`registry` is the metadata file, `store` the secret store, `mutex` one mutex per vault object. An
operation acquires the mutex, reads the whole registry, changes the secret, writes the whole
registry, and puts the secret back if it cannot (`Undo`). `Home` says which threads share a vault
object, so both one desktop and two can be modelled. `broken` is a history variable: it is set when
an operation that has changed the secret and not yet the registry dies, when its compensation fails,
or when `unlock` fails after the registry was persisted (`UnlockFails`), so that a compensation
follows a write that did happen. The code has no recovery from these, and no document promises one:
`Paired` and `Atomic` speak of the time until then, all else holds throughout. `AtomicVault` is the
user's view: an account is created, changed and deleted as a whole.

### DesktopRegistry

`registry` is `projects.json`, `lock` its exclusive lock, `cache[h]` the copy of it that a desktop
keeps, `legacy` the projects whose manifests still hold labels of files, `grants` the vault as
`AtomicVault` describes it. `Steps[op]` lists the reads and writes of a command in the order of the
code; a command of the main thread, one of the asynchronous thread and a broker take their steps in
any order. `Refresh` and `Cache` are apart because `refresh_registry` reads the file before it locks
the copy: a slower thread can put back an older one. `Read` is the reading half of `update` together
with the closure, `Write` the other. A start (`Format` to `Run`) reads without the exclusive lock and
writes its copy later (`Save`). `since[t]` is a history variable for what was so at some moment of a
call. Names and their order, paths and the watchers are left out.

### RemoteVerifier

`check[v]` is a verifier process between its time check, the cleanup of old markers and the claim of
its own (`create_new`). `clock` runs between any two steps, but no process is stopped for longer than
`Pause` on its way to the claim.

### StdinValue

The plan directory, the two processes that work with it, the guard of `values.rs` (targets, manifest
stamp, file stamps) and everybody who may write meanwhile. Files carry a stamp that every write moves,
which is what length and modification time are to the code. A loop over the targets takes them in the
order of the link (`FileOrder`, `Next1`); `todo` is what it has not come to. A commit is one step here;
`Transaction` says when that is right.

### Broker

One call of one tool at a time per broker, split where the code reads or writes shared state:
registration, policy, value, source project, and of the effect `LoadFile`, `CompareFile` and
`ReplaceFile`, `LoadManifest`, `Scan` and `SaveManifest`. `call[b].file` and `call[b].manifest` are the
copies a call has loaded: the file is replaced only if it is what was loaded, the manifest is saved over
whatever is there by then, entries of other keys included (`NewPolicies`). `UserSaves` is everybody
else who does the same: any manifest may be there after it. `since` records what held at some moment
since the call began, so that the properties can say "at some moment during this call", which is the
most that unlocked reads can promise. `add_variable` stands for the structural tools, which take the
same path.

### ProviderPush

`call` is one push or comparison with its locals, from `prepare` over `read` to the loop over the keys
and the receipt. `remote[a][k]` is what account `a` of the destination holds; a request means the
account "mine". Where a tool has a login of its own (`Place`), whatever it is logged in to at the
moment of a call decides where the value goes. One step is one call of a tool or an SDK: `RunFails`,
`CompletionFails` and `StoreFails` leave the value stored or not, for a killed or failing tool may
have done its work. `PrepareFails`, `ReadFails` and `BeginFails` may happen to any request. A
selection marks the keys whose kind a provider does not take (`odd`) and those whose name or argument
is too long for it (`long`), because the providers look at them at different times: EAS and AWS before
anything is read, Cloudflare and packs before anything is sent, GitHub (kinds) and AWS and packs
(lengths) only when the loop comes to the key. `others` is a history variable: what somebody else did
since the call began, or, for logins, since the check.

### Document and DocumentEdits

A text is a sequence of tokens: words, blanks, line ends and the characters that mean something to
`parser.rs`. `Parse` gives the nodes of a text (blank, comment, group directive, assignment, opaque)
with their spans; it is `RECURSIVE` over the text, so this module is for TLC only. A value ends where
`Closing` or `UnquotedEnd` says; `Encode` chooses quotes and escapes as `encode_value` does.
`DocumentEdits` has one action for each edit of a file: a guard from the early returns of the code and
a new text made by replacing spans, with the blank lines and line ends the code adds. What an edit must
not touch in the text is stated against `Entries`, another reader of it, written from what env files mean
to a program (a quoted value over several lines is one entry), so that a wrong span shows as a changed
entry. What the app itself reads and shows is stated over the nodes: `SavedValueReadsBack` with
`Assigning` and `Decode`, as `assignment` and `decoded_value` do, and `ShownAsAsked` with `Variables`,
which is `project_file`.

### TeamPackage, TeamChannel, TeamImport, TeamSharing

`TeamPackage` says what a package holds. `TeamChannel` has folders (each a descriptor with the id of a
channel, or none, a directory of packages, or none, and the packages, some perhaps from before:
`Earlier`), which of them is `mounted` at the path, the members with their registrations and the
command under way, and the projects that are published from (`origin`). `ConnectExisting` finds a
descriptor, `ConnectNew` none: it makes the directory of packages, or takes the one that is there,
and `Describe` puts a descriptor over it unless another member has. `BeginPublish` opens the channel,
resolves the selection and loads the links, `ExportFile` reads one file again (`write_zip`) while
others write the project (`OriginChanges`), `Persist` renames the package into the folder that is
mounted by then; it reads no descriptor. `Remount` mounts any folder at any moment, in the middle of
commands as well. Ids may collide. The recorded `opened` and `seen` say which folder a publish has
opened and what the project has been since. `TeamImport` is `team_import/` behind
the desktop's plans: `BuildEntry` compares file by file, `Remap` looks at another target, `BeginApply`
takes the plan out of the store and expands the choices to linked conflicts, then come building,
`CheckLinks`, `Verify`, `Stage`, `Commit` with its rollback. The end of a plan by time, by number or by
the user is `DropPlan`. `TeamSharing` joins them where a package is fetched. Encryption, the archive
and its limits are a nondeterministic failure.

### ActionPacks

`packs` is the directory of manifests, `plan[h]` what a broker has described to its agent, `call[h]` an
execution from resolving the id to the tool or the URL. `cache` is the version a process remembers for
an executable with this path, length and time of change (`stamp`). The user installs, replaces and
removes packs, and somebody exchanges the tool, between any two steps. Personal provider packs keep
their files and versions in the same way.

### ActivityLog

`names` maps the four file names to inodes and `bytes` the inodes to what they hold, since a broker
that has opened a log goes on writing to it after a rename. A line is two writes, the event and the
end of the line. `writer[w]` is one `append_audit_event` (open, compare the length, rotate, append),
`desk` the migration at the start of the app (read old and new logs, merge, remove, put the merged
one in place, remove the old ones). `since` remembers what was there when a migration began.

### GitGuard

`tree` says what there is at each path, `gitignore` is the text of the project's `.gitignore` as a
sequence of rules, comments and line ends, `index`, `history` and `remotes` are what Git tracks, has in
its branches and in its remote branches; the last two hold paths from the top of the repository, as
`git log` names them, and `Prefix` is the way from there to the project. A scan and a guard walk the
tree file by file (`Visit`), then read index, rules, history and remote branches in one step each
(`Open` to `Inspect`); a guard that has found unignored files goes on to `append_gitignore_patterns`
(`Read` to `Persist`, or `Create` and `Write` where there is no file). The user changes files, rules,
index and branches between any two steps (`User`). A rule counts only if it is a line of its own, and
the last one about a file decides, unless a folder below has its own (`Nested`): this is git, from how
the code uses it. `since` is a history variable: which files were there all the time of a scan, and
which were ignored, untracked, uncommitted and unpushed at some moment of it. `replaced` says that
somebody wrote `.gitignore` after a guard compared or created it. Names are split at their dots, as
`is_env_candidate` looks at them. That editors save by replacing the file is assumed, so a guard that
is still writing to the file it created loses its rules, and does not mix with the other text.

## 3. The runs

All bounds are CONSTANTS of the `.cfg` files. `PROJECT.json` names the properties of each run.

| run | instance | what it shows |
|---|---|---|
| `service` | 1 caller, 2 files, 1 key, 3 values; failing files and manifest, failing rollbacks, deaths; fairness | members of a link agree between operations; the service implements `LinkedStore`; a successful save has reached every linked file; only `set_codex_access` opens a key; every call returns |
| `service_access` | 2 callers, 1 key, no faults | *violation*: see findings |
| `programs` | values from stdin: 2 processes, 2 files, 2 plans, one foreign write, deaths; verifier: 2 processes, 1 request, skew 2, retention 6, pause 2, 20 seconds | a plan is claimed once and writes what it announced, in time; no request is answered twice |
| `vault` | 2 threads of one process, 2 accounts, 2 versions, every fault | grants come only from requests; until an operation half way is broken off, the two halves of an account stay paired and the vault refines `AtomicVault` |
| `vault_limit` | room for one account | *violation*: see findings |
| `app_and_agents` | registry: main and asynchronous thread of one desktop, 1 broker, 1 project, room for 1 receipt, every fault; broker: 2 folders with 1 variable each, the manifest of the first with 2 keys, 1 stored plan, others who change files, registry and whole manifests; packs: 1 process, 2 packs, 2 versions, 1 exchange of the tool, 2 installations | updates lose nothing; the selection is registered, and so is what receives a channel, a receipt or a grant; a removed project keeps no grant; labels move before they are deleted; values move only under a policy of that moment; no stale manifest opens a key that was closed all the time; plans are single use; a removed pack does not run, and a tool gets arguments for its version |
| `team_sharing` | 2 members, 2 folders, each empty or with a package from before, mounted in turn at any moment, 2 files, 1 key, 2 values, 2 channel ids, 1 package id, one write of others during an export and one during an import, failures and death | registered channels are described by a folder; a package appears whole or not at all, in the channel it is for if the folder was not exchanged, and never changes; an import applies what was shown, keeps links together, and changes nothing when it fails |
| `documents` | edits: files of three lines with 5 ways to write a value, 2 of the saved ones with a second line that assigns, 6 lines above, 3 below, both line ends; 2 edits after one another; repository: 2 scans or guards one after the other, 2 managed files and 2 others, the project at the top, 1 change by the user, failures | edits keep the rest, values read back, groups and descriptions are as asked; a project shown as protected is, and a guard's rules hold and keep the user's |
| `document_delete` | files whose last line is not ended, or with a value in one of 2 more ways; 1 edit | *violation*: see findings |
| `desktop_services` | commits: 2 writers, 2 files, 2 contents, every fault, an editor; providers: 7, one call after another, 2 keys, 2 values, 2 accounts, every failure, one change by others; log: a newer and an older broker, 3 events, room for 1 line, 2 starts, failures | undisturbed commits are all or nothing, a broken one leaves a prefix, nothing is written before every check; receipts and comparisons tell the truth, a refused push has sent nothing, only what was chosen is sent, and where it was checked; the migration of the log loses nothing |
| `activity_rotation` | 1 broker, 4 events, room for 2 lines, no failure | *violation*: see findings |
| `git_history` | 1 scan of 2 files, the project in a folder of its repository, no change and no failure | *violation*: see findings |

Why the bounds are enough to be interesting: two files are the least for a partial commit and for a
link; two contents tell old from new, a third is needed only where an operation proposes one of its
own (the writers of `Transaction` choose theirs freely among two, so a stale and a proposed value may
coincide, the harder case for revisions). Two processes suffice for every hazard listed: each is
between one process and "somebody else". Requests of the verifier do not interact except through the
cleanup, which takes any subset of the old markers, so one request already meets every cleanup; its
constants meet `RetentionAssumption` with equality, where an off-by-one shows. One project suffices
for the registry, since the entries of different projects meet only in the selection and the
receipts, and one receipt already overflows; the theorems of section 4 hold for any number. The
clocks of plans have two values with `TTL = 0`: before and after expiry. `MaxStamp = 1`, `MaxChanges =
1`, `MaxTorn = 1` and `MaxWrites = 1` allow one foreign write at any point, which is all that
`BoundToPlan`, the properties of pushes and those of imports need to be broken. Two keys are the least
for a loop that goes on after a failure. Of the refused selections of a push at most one key is `odd`
or `long`, so either may come first. Two channel ids let two members connect an empty folder at once,
one package id makes every second publication collide, and a package from before collides with the
first. A second folder is the other member's channel, or an empty one, between any two steps of a
command. A second key in a manifest is what a stale copy of it can bring back; the other folder is only
the source of copies. Two installations and one exchange replace or
remove a pack and then the tool at any step of an execution. Three lines give an edit a text before
and one behind; a second edit meets what the first has left. Two looks at the repository let a scan
show what a guard has written; one change by the user can come between any two of their steps. Three
events and room for one make a broker rotate twice, two starts let a second migration meet what the first has left behind when it
died.

Deadlock is checked except where a model is meant to stop, in one of its parts at least: the clock of
the verifier reaches its horizon and plan ids run out in `programs`, edits and calls are used up
in `documents`, changes and events in `desktop_services` and `activity_rotation`.

### Fairness

Only `service` assumes fairness: weak fairness of each caller's `Run`, which is straight-line code on
a thread of its own that waits for nobody (no lock is taken in `env-core`). That a call begins is not
fair. `CallsReturn` is the one liveness property, and `Linked` and the other properties of that run
hold without fairness. Nothing else in this code promises progress: plans may be left to expire,
tools may hang, a folder may never be mounted again.

### Findings

* `service_access` (documentation). `SKILL.md:74` allows read-write only on an explicit request. Two
  operations overlap: one loads the manifest while a key is read-write, the user protects the key, the
  first saves what it loaded. The key is open again.
* `vault_limit` (code). `read_registry_unlocked` refuses more than 500 accounts
  (`service.rs:347`), and `create` does not compare before it writes (`service.rs:98`). With 500
  accounts a create succeeds and every later operation fails.
* `git_history` (code). `git log --name-only` (`git_safety.rs:221`) names paths from the top of the
  repository, `inspect` compares them with paths from the project (`:187-196`). In a project that is a
  folder of its repository nothing is ever found in the history, and files that were committed and
  pushed are shown as protected as soon as they are ignored and untracked. The tests make the project
  the top of its repository (`:507-547`).
* `document_delete` (code). The node of a value quoted over several lines ends with its first line
  (`parser.rs:143-192`). `delete_variable` removes that line, and the rest of the value stays
  behind as lines of its own (`structure.rs:149-153`).
* `activity_rotation` (code). A broker that finds the log too long renames it to `.previous.jsonl`
  (`audit.rs:71-75`). The app reads a file of that name in the old directory only
  (`agent_activity.rs:17-21`), so after a rotation it shows next to nothing.

### Limits that the models make visible and no document denies

* A `create_link` that completes between `values.rs:94` and `:106` of another process's save, or
  between the link check and the commit of `delete_variable` (`structure.rs:141-154`), leaves a link
  whose members differ, or one whose member is gone. `LinksAgree` and `Linked` are therefore checked
  for one caller at a time. So is `AccessOnRequest`, which two callers break (`service_access`).
* A start that has labels or channels to migrate writes the registry it read before
  (`runtime/registry.rs:10-14`); what others registered in between is lost. `UpdatesKeepTheRest` is
  about `update` only.
* Two desktops that start together can lose the labels of a file: one migrates them and takes them out
  of the manifest; the other, which could not read that manifest (`runtime.rs:145-157`), saves a copy
  without them in between. `LabelsMigrate` is proved for one desktop, or when no file fails.
* `connect` puts a new descriptor over the packages it finds in a folder without one
  (`folder.rs:192-202`), so that they are listed in a channel they were not published for; `publish`
  does not read the descriptor again before its rename (`folder.rs:131-156`), so that a package goes into
  another channel if another folder is mounted during the command. `PackagesAreWhole` names the
  condition. That somebody takes descriptors or packages out of a folder by hand, and the conflicting
  copies a sync client may make of them, are not modelled.
* A call of a broker that has loaded the manifest while a key was read-write, and saves it after the
  user has protected the key, opens it again: `OpensOnRequest` is about keys that were closed when the
  call began and since. It is the broker's side of the finding of `service_access`.
* `root` looks a project up before the operation updates the registry, so a channel, a receipt or a
  grant can be recorded for a project that is removed in between. `RecordedForRegistered` says that it
  was registered at some moment of the call.
* Nothing keeps a second desktop from being started. Two desktop processes have two mutexes: one can
  write back a grant the other has revoked (`env-credentials/src/service.rs:192-204`). The theorems
  about the vault assume one process.
* A plan for a value from stdin is checked for expiry before stdin is read; a slow producer may write
  later. `BoundToPlan` speaks of the claim.
* A `.claimed` file whose process died is never removed.
* A push that meets a kind (GitHub) or a name (AWS, packs) it refuses in the middle of its loop returns
  an error without a list of keys, though earlier keys were sent; the same happens when the registry
  cannot take the receipt. `ErrorSentNothing` names these exceptions. "Report attempted, succeeded,
  and failed names" (`SKILL.md:123`) cannot be followed then.
* The login is checked before the values are read; nothing notices that it changes before they are
  sent. `project_matches` (`eas/access.rs:128`) accepts a project of the same name under another owner
  unless an id is configured or named, and an unconfigured Cloudflare account is whatever the login
  has: `OnlyWhatWasChosen` promises the account only where it is `pinned`. `tool-safety.md:60-62`
  says never to push to the project that happened to be logged in.
* A comparison with a store that cannot be read still reads the local values first
  (`engine.rs:158`), and `run_with_stdin` waits for its tool without a limit. Some AWS names are
  refused only when the loop comes to them (`aws/push.rs:93`).
* In `A= #x` the value is the empty span directly before `#` (`parser.rs:333`, `:416-431`). Saving `x`
  there makes `A=x#x`: the comment has become part of the value. `Plain` leaves it out.
* A value of several lines that is saved over one in single quotes, and has none itself, is put between
  them as it is (`parser.rs:434`). The node of the assignment ends with the first line (the cause of
  the finding of `document_delete`), and the others are read as lines of the file: after saving `x`,
  line end, `A=n` the key A is there twice and cannot be read or saved any more; after `x`, line
  end, `B=n` the app shows a variable B that no program sees. `RawLines` is exactly this case:
  `SavedValueReadsBack` allows the second A in it, `ShownAsAsked` leaves it out.
* A `.gitignore` that changes between the comparison and the rename of a guard (`git_safety.rs:363-369`)
  loses the change, and a folder's own `.gitignore` may undo a rule the guard has added, which then adds
  it again each time. `GuardAddsRules` names both.
* A variable on a last line that is not ended is moved without a line end and runs into what follows;
  one that is moved behind such a line runs into it. A move into no group takes the first group's
  start, and if the block ends where the target group does, `structure.rs:195` does not move the
  position up: the block lands too far down, or the splice panics. `documents` leaves these cases out
  by `Plain` and `PlainEdit`. A block that is moved to the end of a group lands under a comment
  that introduces the next one, and a line of a description that begins with "@group" becomes a
  directive (`service.rs:323`).
* The links an import looks at are those of the manifest at the time of planning (`package.rs:69`,
  `AppliedAsShown` and `ImportKeepsLinks` say so); a link made since is not checked. A registration whose folder
  has another descriptor by now makes `list_team_channels` fail for all channels of the project.
* A replaced pack that an agent was shown runs as its successor, since `apply_plan` resolves the id
  again; `RevokedPackNeverRuns` says that what runs was installed at some moment of the call.
  `storage.rs:63` removes the old pack before the new one is in place, and a failure there leaves
  none. Values for the same header overwrite each other (`engine.rs:230`).
* The migration of the log removes the file before it puts the merged one in its place
  (`agent_activity.rs:137-139`), takes a log it cannot read for empty (`:83-85`) and then removes it
  with its events if it is an old one, and loses what a broker appends meanwhile. An event is written in
  many small writes (`audit.rs:80`), so lines of two
  brokers can mix. `MigrationKeepsActivity` is only about migrations that could read every file.

## 4. The proofs

TLAPS proves the following for any number of processes, files, keys, accounts and requests.

`TransactionProofs`. `CommitInv` is inductive: types, `Checked` (what the first pass has read is what
the plan expects) and, for an undisturbed commit, `Holds`, which gives the content of every file of
the plan from the program counter alone: behind `at` one thing, from `at` on another. Neither
`AllOrNothing` nor `BrokenCommitIsPrefix` is inductive by itself, since both speak of the moment of
return; with `Holds` they follow from the step that returns. `disturbed` makes this work for several
writers: a foreign write either misses the files of a plan or sets the flag.

The same module proves the refinement `CommitIsAtomic`. With nobody else writing once a commit checks,
no death and no failing rollback, `Spec` implements `AtomicCommit`. `AloneInv` adds two parts to
`CommitInv`: at most one commit is past its first check, and the files a commit has passed hold what
its program counter says (`Known`). The abstract files are the real ones while nobody renames; while
one does, its files count as unchanged until the last rename. So the last rename is the abstract
commit, and every other step of the loops, the rollback included, is a stutter.

`ProjectServiceProofs`, for one caller (`OneCaller`) and every fault. With two callers `LinksAgree`,
`AccessOnRequest` and the refinement are false (`service_access`, and the first of the limits above):
the manifest is loaded, changed and saved under no lock. `ServiceInv` is inductive. That the members of
a link agree (`AgreeInv`) is not, because it fails in the middle of a commit; the invariant therefore
says it of the files as they will be seen by each operation: as they are when nobody commits, and of
what a commit expects and of what it proposes while it is under way. For that it has to know that what
an operation has read is what is there (`ReadInv`), that it works on the files the manifest names
(`LinkInv`), what its commit has been handed (`WriteInv`) and how the manifest it holds differs from
the stored one (`HeldInv`). The commits are not proved again: `TransactionProofs` is instantiated for
the commits of the service (`TP`), every commit step of the service is one of its steps, and `CommitInv`
gives the files at the end. From this follow `LinkedFilesAgree`, `SavesReachAll` (the two phases of a
save reach every occurrence, whatever was broken off before) and `AccessOpensOnRequest`.

`ServiceIsLinkedStore` is the refinement of `LinkedStore`. `StoreInv` adds what the abstract guards
ask for (`FoundInv`), where a `create_link` stands between its files and the manifest, and what its
copies can still restore (`CopiesInv`), and how the links about to be saved differ from those on disk
(`SavesLinks`). The abstract files are the real ones, but while a commit runs they are what it expects,
and while a `create_link` has not saved its manifest they are its copies (`View`, equal to the mapping
`LinkedFiles` by `ServiceShows`). Hence the last rename of a commit is the abstract write; the save of
the manifest is the abstract link, with all of its files; a commit that fails and rolls back, and a
`create_link` that restores its copies, are stutters; the warning of a `create_link` that could not is
`LinkedStore`'s incomplete link. A death or a broken rollback sets `broken`, from which on nothing is
promised.

`CredentialVaultProofs`. `Serial` (one process, any fault): who is past the lock holds the mutex and
has read the registry that is still in the file; hence `GrantOnRequest`. `VaultInv` adds, while
nothing is `broken`, `Agree` and, for operations half way, `Halves`: what each knows of the two halves
of its own account. `Agree` is not inductive without it, since `Undo` restores what `Halves` says was
there. Of the breaking steps only those that meet nobody half way leave `broken` false, and they
change neither half.

The refinement `VaultIsAtomic` follows from `SecretInv`, which adds `Keeps`: the secret an operation
would put back is the one that is stored until it changes it, and its new one afterwards. The abstract
account has the secret `Settled` says: while an operation is half way, the old one. So the write of the
registry is the abstract operation, the change of the secret before it and the compensation are
stutters, and a step that sets `broken` ends the promise. That at most one operation is half way on an
account, without which `Settled` would choose among several, is `Serial`.

`ProgramsProofs`, the remote verifier. `ReplayInv`: an answered request has its marker, or so much
time has passed that nobody on its way can still hold it (`TooLate`), and who is on its way checked the
time at most `Pause` ago. It needs `RetentionAssumption`, `Retention >= 2 * Skew + Pause`. The code
keeps markers for 600 seconds and accepts 90 seconds of skew, which covers every pause up to 420
seconds.

`ProgramsProofs`, values from stdin. `OneClaim` is inductive with the statuses of the plan files
(`InTime`): the rename that claims a file takes it away from everybody else, and nobody writes a
claimed one. `BoundToPlan` speaks of the moment of the save. `ValueInv` carries to that moment that
the stamps compared so far are still those of the plan (`FilesBound`), unless somebody wrote since the
comparison began; that the manifest has not gone back below the plan's stamp (`PlanBound`,
`ManifestBound`), so that links read before the manifest was compared are the plan's if the comparison
succeeds; that the project was registered since the value came (`WasRegistered`). Stamps only grow, which
is why an equal stamp means that nothing was written. `ProgramsClaimOnce`, `ProgramsKeepToThePlan` and
`ProgramsNoReplay` lift these to the composition, each part of which stutters while the other moves.

`AppAndAgentsProofs`, the registry. Five invariants, for any number of desktops, threads, brokers and projects.
`Shapes`: what a call holds to write is a registry whose selection is registered, for every closure
keeps it so and a start reads such a file; hence `SelectedRegistered`. `Locked`: who stands between
the two halves of an update has the lock, and what it holds is its closure applied to the registry
that is there; hence `UpdatesKeepTheRest`, since nobody else writes or takes the lock in between.
`Revoked`: a removal that is past its revocation has left only grants made since; hence
`RemovedWithoutGrants`. `Records`: the copy of a desktop, and what its threads have read and not yet
copied, was registered at some moment of every call under way that can still look there; hence
`RecordedForRegistered`, however a slower thread sets the copy back. `LabelsInv`: the copy a start is
going to save has a label for every project it has migrated, and, when no file fails, for every
manifest that still has some (`LabelledCall`); so once a migration has written the registry, each label
it still has to take stays there, unless the project has been removed (`LabelKept`): no update takes a
label from a project that stays (`EffectLabels`), and a start that writes back an older copy is either
the migration itself or has read the same manifests. Hence `LabelsMigrate`. The hypothesis, that only
one desktop is started and registers projects (`OneDesktopStarts`) or that no file fails, is needed: TLC finds
labels lost for two desktops with failing files (section 3).

`AppAndAgentsProofs`, the broker. `BrokerInv` has four parts, none inductive alone: a call is at a
step of the path its tool takes (`OnItsPath`, which also says that what is planned is allowed); an id
is given once and is stored, taken or spent (`PlansInv`, `SpentInv`); what a call has found out, the
policy of its target or the registration, was so since it began, and every key that is read-write in the
manifest it holds has been so at some moment since (`SeenInv`). The user may close a key or remove a
project at any step, so nothing is said of the present. `AgentNeedsAccess` and `OnlyRegistered` follow
from `SeenInv` at the step that acts, `SingleUse` from `SpentInv`. For `OpensOnRequest` the saved copy is
compared with the one that was loaded: what is open in it was open since the call began (`SeenInv`), or is
the key of the classification plan; a default never opens (`NewPoliciesAre`), for which
`BrokerAssumption` says that `Default` yields no read-write, as `default_access` does.

`AppAndAgentsProofs`, the packs. `PackInv`: the manifest a call works with was in the directory since
the call began (`PackSeen`; hence `RevokedPackNeverRuns`, whatever was installed or removed since); a
remembered version belongs to the stamp it is remembered for, and stamps do not come back
(`StampsHold`); hence the profile fits the tool or the tool was exchanged since (`ProfileHolds`,
`ProfileFitsTool`), also when the version is taken from the cache of an earlier call.

In `AppAndAgents` a part that rests takes no step, and its variables keep their values; so a
behaviour of the composition is one of each part with stutters, and what is proved of a part holds of
the whole (`AllOfTheRegistry`, `AllNeedAccess` and the rest). `ProgramsProofs` and
`DesktopServicesProofs` argue in the same way.

`DesktopServicesProofs`. `PushInv` says of every point of a push what it has done: before its loop
nothing (`NothingDone`), in the loop every key behind `at` is acknowledged or failed (`LoopsAccount`),
what was acknowledged is stored with the value that was read unless somebody else wrote it
(`AckedIsStored`), and what was looked at is so (`LookedIsTrue`). `ReceiptIsTrue`, `ErrorSentNothing`
and `ComparisonIsTrue` are parts of it, since what a call has returned stays until the next;
`OnlyWhatWasChosen` needs `ChecksHold` and `ValuesHold`: the place that was checked, and what was read
there.

The migration of the log, in the same module. `LogInv` says of each step of a migration that no broker
disturbs and that did not fail while the log was exchanged (`OnItsWay`) what has been read, what is in
memory and what is back in a file. No induction over the text is needed: `Lines` describes the merged
text as a sequence of the retained events in the order of time, each followed by an end of the line,
and that reading it gives the retained events back (`LinesRead`) is an argument about odd and even
places. That no more than `MaxLines` are retained, and that a newest event of all logs is among the
newest of the union that was read, are lemmas about the cardinality of what is newer.

`GitGuardProofs`, scans. `ProtectedIsTrue` is not inductive, since it speaks of the answer only.
`ScanInv` adds what a scan on its way has seen: the files that were there at every moment so far are
among those it has found or has still to look at (`Follows`), and what it read of each of index, rules
and history was so at that moment and therefore counts as seen (`Covers`). The proof needs
`Prefix = << >>`: the project is the top of its repository. Without it the theorem is false, see
`git_history`; the step that fails is the one that takes a path out of the history for the path of a
file. The rules in folders below, the paths and the number of calls and changes are arbitrary.

`GitGuardProofs`, guards. `GuardInv` says that a guard on its way to the rename has in hand the text
that is in the file unless somebody replaced it (`HasTheRules`), and that of all guards that saw no
file only one created it and still has it (`OneCreator`). Two details came out of the proof. A guard
whose write fails leaves the comment without rules, possibly under another that has found an empty
file and is about to replace it; the rules are kept since the comment is none. And that a missing
`.gitignore` has no text holds only together with the guards' invariant, so it is part of `GuardInv` and
not of the types. That the new text ignores the files, and begins with the old one, is a lemma about the
text for any arrangement of the patterns (`ProposedKeeps`). `GuardsKeepRules` holds for any `Prefix`.
Both theorems have `GuardAssumption` as a hypothesis, which `documents` evaluates for its instance. They
are about `GitGuard`, the module that `ProjectFiles` extends; `ProjectFiles` itself also holds the recursive
`Parse` and is out of the prover's reach.

`TeamSharingProofs`. `ChannelInv` says what a command relies on (`Holds`): a member that has found or made
a descriptor has the id of one that is still in some folder, for none is ever changed
(`DescriptorsStay`); the folder a publish has opened has still the descriptor it was opened for; and
what is in the package so far is every selected file that was passed, as the project has had it since
(`PartHolds`). Hence `RegisteredChannelsExist` and, at the rename, `PackagesAreWhole`
(`NewPackage`). Nothing is assumed of what folders hold at first or of when they are exchanged.
`ImportInv` follows the application of a plan: which targets are built, verified and
staged (`PreparedOnce`: each target once), and, as long as nobody else writes, that each file is the
outcome if its rename was made and the original if not (`DiskFollows`). From it follow, at the step that
returns, `AppliedAsShown`, `FailedImportChangesNothing` and `ImportKeepsLinks`, for which
`LinksChecked` carries the check of the links through to the renames.

Assumptions on constants are named in the modules and evaluated by TLC in the runs.

Only model-checked, and why:

* `CallsReturn`: liveness under fairness is out of the prover's reach.
* `PlainEditsKeepTheRest`, `SavedValueReadsBack` and `ShownAsAsked` of the documents: `Parse` is a
  recursive operator.

## 5. Not modelled

`PROJECT.json` has a note for every component. In short:

* *I/O without state that others share*: the watchers, the installers of the desktop's integrations, and `create_env_file` (one file that must
  not be there).
* *Pure functions whose correctness is their table*: the guard's predicate over a tool call, the JSON
  schemas of the tools, and which file wins for a framework profile (effective values).
* *Display*: inspection for agents, lists of packs, repositories and environments, the log's
  categories, commands that pass calls on, and the user interface.
* *Another form of what is modelled*: the batch form of `set_codex_access` (in `Broker` one of the saves of others), plans of provider pushes
  and team channels in the broker, editing of runtime targets.
* *Cryptography and formats*: encryption of packages and requests, the archive, limits on sizes. Each
  is a nondeterministic failure where it can fail.

## 6. Plan

1. *Two service callers and an editor* as a run of their own: which effects on one key an operation on
   another keeps, and an abstract specification that says what a lost update may be.
2. *Effective values* as functions over short lists of files.
3. *Proofs*: an abstract registry whose updates are single steps, and that `DesktopRegistry` implements
   it as long as no start has anything to migrate; what two service callers keep (item 1).
