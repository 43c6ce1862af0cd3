------------------------------ MODULE GitGuard ------------------------------
(***************************************************************************)
(* Whether Git would take the env files of a project                       *)
(* (crates/env-core/src/git_safety.rs), and the rules the app adds to      *)
(* .gitignore against it, over the walk that finds the files               *)
(* (crates/env-core/src/discovery.rs).  A scan and a guard look at the     *)
(* directory, at the index, at the rules and at the history one after the  *)
(* other, while the user goes on working in the repository.                *)
(*                                                                         *)
(* A path is a directory and a name, both sequences: of folders, and of    *)
(* what the dots of the name separate.  .gitignore is a sequence of rules, *)
(* comments and ends of lines.                                             *)
(***************************************************************************)
EXTENDS Naturals, Sequences, FiniteSets, SequencesExt, FiniteSetsExt

CONSTANTS
  File,        \* paths, relative to the project
  IgnoredFiles, IgnoredDirectories,   \* what the manifest excludes from the scan
  Nested,      \* rules in folders below the project's: they win over those of the project
  Prefix,      \* the way from the top of the repository to the project
  Call,        \* scans and guards that may run at the same time
  MaxCalls,    \* bound on the calls
  MaxEdits,    \* bound on what the user does meanwhile
  GitFails     \* whether git and the file system fail

GuardAssumption ==
  /\ IsFiniteSet(File) /\ File \subseteq [dir : Seq(STRING), name : Seq(STRING)]
  /\ Prefix \in Seq(STRING)
  /\ Nested \in [File -> {"none", "ignore", "keep"}]
  /\ MaxCalls \in Nat /\ MaxEdits \in Nat /\ GitFails \in BOOLEAN

VARIABLES
  tree,        \* what there is at each path a walk may find
  gitignore,   \* .gitignore of the project: whether it is a file, and its text
  index,       \* the files Git tracks
  history,     \* the paths, from the top of the repository, that its branches hold
  remotes,     \* those that its remote-tracking branches hold
  call,        \* the scans and guards
  calls, edits,
  since        \* history: what was so at some moment, or at every moment, of each call

vars == <<tree, gitignore, index, history, remotes, call, calls, edits, since>>

----------------------------------------------------------------------------
(* Paths and rules. *)

FromTop(f) == [f EXCEPT !.dir = Prefix \o @]

DefaultExcluded ==
  {".git", ".hg", ".svn", "node_modules", "dist", "build", "out", "target", ".next", ".nuxt", ".turbo",
   ".cache", "coverage", "vendor", "Pods", "DerivedData"}
Markers == {"example", "sample", "template", "dist"}

\* is_env_candidate: ".env" at the end, or in front of a dot; ".dev.vars" in front.
IsCandidate(name) ==
  /\ Range(name) \cap Markers = {}
  /\ \/ \E i \in 2..Len(name) : name[i] = "env"
     \/ IsPrefix(<<"", "dev", "vars">>, name)

\* The files a walk finds where they are regular files.
Candidates ==
  { f \in File : /\ Range(f.dir) \cap (DefaultExcluded \cup IgnoredDirectories) = {}
                /\ IsCandidate(f.name) /\ f \notin IgnoredFiles }

Managed == { f \in DOMAIN tree : tree[f] = "file" }

NewLine == <<"newline">>
Comment == <<"comment">>
\* exact_gitignore_pattern: the pattern of this path and of no other, whatever characters it holds.
ExactPattern(f) == <<"ignore", f>>
Keep(f) == <<"keep", f>>

\* A rule counts if it is a line.
Rules(text) ==
  { i \in DOMAIN text :
      /\ Head(text[i]) \in {"ignore", "keep"}
      /\ i = 1 \/ text[i - 1] = NewLine
      /\ i = Len(text) \/ text[i + 1] = NewLine }

\* git check-ignore: the nearest file decides, and in it the last rule.
Ignores(text, f) ==
  LET about == { i \in Rules(text) : text[i][2] = f }
  IN  \/ Nested[f] = "ignore"
      \/ Nested[f] = "none" /\ about # {} /\ text[Max(about)] = ExactPattern(f)

----------------------------------------------------------------------------
(* The calls. *)

NoCall == [pc |-> "rest", kind |-> "none", todo |-> {}, found |-> {}, tracked |-> {}, ignored |-> {},
           past |-> {}, existing |-> << >>, replaced |-> FALSE, result |-> "none"]

At(c, pc) == call[c].pc = pc
Go(c, pc) == call' = [call EXCEPT ![c].pc = pc]
Done(c, result) == [NoCall EXCEPT !.pc = "done", !.kind = call[c].kind, !.result = result]
Returns(c, result) == call' = [call EXCEPT ![c] = Done(c, result)]
Scans(c) == call[c].kind = "scan"
Guards(c) == call[c].kind = "guard"
Missing(c) == call[c].found \ call[c].ignored

\* What a scan shows, and a guard returns, when git cannot be asked.
Refuses(c, state) == Returns(c, IF Scans(c) THEN state ELSE "error")

repository == <<gitignore, index, history, remotes>>

Begin(c, kind) ==
  /\ call[c].pc \in {"rest", "done"} /\ calls < MaxCalls
  /\ calls' = calls + 1
  /\ call' = [call EXCEPT ![c] = [NoCall EXCEPT !.pc = "visit", !.kind = kind, !.todo = DOMAIN tree]]

\* visit_directory: links are passed over; a file that is too large fails the walk.
Visit(c) ==
  /\ At(c, "visit")
  /\ \E f \in call[c].todo :
       IF tree[f] = "large"
         THEN Returns(c, "error")
         ELSE call' = [call EXCEPT ![c].todo = @ \ {f}, ![c].found = @ \cup ({f} \cap Managed)]
  /\ UNCHANGED calls

Visited(c) ==
  /\ At(c, "visit") /\ call[c].todo = {}
  /\ Go(c, IF Scans(c) THEN "load" ELSE "open")
  /\ UNCHANGED calls

\* A scan loads every file it has found.
Load(c) ==
  /\ At(c, "load")
  /\ IF \A f \in call[c].found : tree[f] = "file" THEN Go(c, "open") ELSE Returns(c, "error")
  /\ UNCHANGED calls

\* GitInspector::open reads the index.
Open(c) ==
  /\ At(c, "open")
  /\ \/ call' = [call EXCEPT ![c].pc = "ignored", ![c].tracked = index]
     \/ GitFails /\ \E state \in {"unavailable", "not-repository"} : Refuses(c, state)
  /\ UNCHANGED calls

\* Without files git is not asked.
Asks(c) == call[c].found # {}
AskFails(c) == Asks(c) /\ GitFails /\ Refuses(c, "unavailable")

IgnoredPaths(c) ==
  /\ At(c, "ignored")
  /\ \/ call' = [call EXCEPT ![c].pc = "history",
                   ![c].ignored = { f \in call[c].found : Ignores(gitignore.text, f) }]
     \/ AskFails(c)
  /\ UNCHANGED calls

\* git log is asked for the files that were found, and names them from the top of the repository.
Logged(paths, c) == paths \cap { FromTop(f) : f \in call[c].found }
Holds(paths, c) == call[c].found \cap Logged(paths, c)

HistoryPaths(c) ==
  /\ At(c, "history")
  /\ \/ call' = [call EXCEPT ![c].pc = "remotes", ![c].past = Holds(history, c)]
     \/ AskFails(c)
  /\ UNCHANGED calls

\* Mutant: what Git tracks already does not count.
UnsafeUntracked(c, pushed) == Missing(c) \cup call[c].past \cup pushed

Unsafe(c, pushed) ==
  Missing(c) \cup (call[c].found \cap call[c].tracked) \cup call[c].past \cup pushed

Inspect(c) ==
  /\ At(c, "remotes")
  /\ \/ IF Guards(c)
          THEN IF Missing(c) = {} THEN Returns(c, "complete") ELSE Go(c, "read")
          ELSE Returns(c, IF Unsafe(c, Holds(remotes, c)) = {} THEN "protected" ELSE "attention")
     \/ AskFails(c)
  /\ UNCHANGED calls

----------------------------------------------------------------------------
(* append_gitignore_patterns *)

EndsWith(text, end) ==
  Len(end) <= Len(text) /\ \A i \in DOMAIN end : text[Len(text) - Len(end) + i] = end[i]

\* Each pattern on a line of its own.
PatternLines(block) ==
  [j \in 1..2 * Len(block) |-> IF j % 2 = 1 THEN ExactPattern(block[(j + 1) \div 2]) ELSE NewLine]

Proposed(existing, files) ==
  LET ended == IF existing # << >> /\ ~EndsWith(existing, <<NewLine>>)
               THEN Append(existing, NewLine) ELSE existing
      apart == IF ended # << >> /\ ~EndsWith(ended, <<NewLine, NewLine>>)
               THEN Append(ended, NewLine) ELSE ended
  IN  apart \o <<Comment, NewLine>> \o PatternLines(SetToSeq(files))

Block(c) == Proposed(call[c].existing, Missing(c))

Read(c) ==
  /\ At(c, "read")
  /\ \/ /\ gitignore.kind \in {"none", "file"}
        /\ call' = [call EXCEPT ![c].existing = gitignore.text, ![c].pc = "place"]
     \/ (GitFails \/ gitignore.kind = "other") /\ Returns(c, "error")
  /\ UNCHANGED <<gitignore, calls>>

\* A file that is not there is created; of another one the permissions are read, and it is replaced.
Place(c) ==
  /\ At(c, "place")
  /\ \/ /\ call[c].existing = << >> /\ gitignore.kind = "none" /\ Go(c, "create")
     \/ /\ call[c].existing # << >> \/ gitignore.kind # "none"
        /\ IF gitignore.kind = "none" THEN Returns(c, "error") ELSE Go(c, "check")
  /\ UNCHANGED <<gitignore, calls>>

\* What others have in hand is no longer what is in the file.
Replaces(c, new) ==
  /\ gitignore' = new
  /\ call' = [b \in Call |-> IF b # c THEN [call[b] EXCEPT !.replaced = TRUE]
                             ELSE Done(c, "added")]

Create(c) ==
  /\ At(c, "create")
  /\ IF gitignore.kind # "none"
       THEN Returns(c, "error") /\ UNCHANGED gitignore
       ELSE /\ gitignore' = [kind |-> "file", text |-> << >>]
            /\ call' = [call EXCEPT ![c].pc = "write", ![c].replaced = FALSE]
  /\ UNCHANGED calls

\* The text goes to the file that was created, which may have been replaced since.
Write(c) ==
  /\ At(c, "write")
  /\ IF call[c].replaced
       THEN Returns(c, "added") /\ UNCHANGED gitignore
       ELSE Replaces(c, [gitignore EXCEPT !.text = Block(c)])
  /\ UNCHANGED calls

\* A text that cannot be written whole stays as far as it came.
WriteFails(c) ==
  /\ GitFails /\ At(c, "write") /\ Returns(c, "error")
  /\ IF call[c].replaced
       THEN UNCHANGED gitignore
       ELSE gitignore' = [gitignore EXCEPT !.text = <<Comment, NewLine>>]
  /\ UNCHANGED calls

\* Mutant: the file is not compared again.
CheckNothing(c) ==
  /\ At(c, "check")
  /\ call' = [call EXCEPT ![c].pc = "persist", ![c].replaced = FALSE]
  /\ UNCHANGED <<gitignore, calls>>

\* The copy is staged; then the file is compared with what was read.
Check(c) ==
  /\ At(c, "check")
  /\ IF gitignore.kind = "file" /\ gitignore.text = call[c].existing
       THEN call' = [call EXCEPT ![c].pc = "persist", ![c].replaced = FALSE]
       ELSE Returns(c, "error")
  /\ UNCHANGED <<gitignore, calls>>

Persist(c) ==
  /\ At(c, "persist")
  /\ Replaces(c, [kind |-> "file", text |-> Block(c)])
  /\ UNCHANGED calls

\* A call of the file system fails, or the app dies.
Break(c) ==
  /\ GitFails /\ call[c].pc \notin {"rest", "done"}
  /\ Returns(c, "error")
  /\ UNCHANGED <<gitignore, calls>>

----------------------------------------------------------------------------
(* What the user does in the repository. *)

Another == edits < MaxEdits /\ edits' = edits + 1

EditTree ==
  /\ \E f \in DOMAIN tree, kind \in {"none", "file", "large", "symlink"} :
       kind # tree[f] /\ tree' = [tree EXCEPT ![f] = kind]
  /\ UNCHANGED <<repository, call>>

\* Rules about files for which a folder below has its own decide nothing.
UserRules == UNION { {ExactPattern(f), Keep(f)} : f \in { g \in DOMAIN tree : Nested[g] = "none" } }

\* A rule is added as the last line, without its end, or the file is removed.
EditIgnore ==
  /\ \/ /\ gitignore.kind # "other"
        /\ \E rule \in UserRules :
             gitignore' = [kind |-> "file", text |-> gitignore.text \o <<NewLine, rule>>]
     \/ gitignore.kind = "file" /\ gitignore' = [kind |-> "none", text |-> << >>]
  /\ call' = [b \in Call |-> [call[b] EXCEPT !.replaced = TRUE]]
  /\ UNCHANGED <<tree, index, history, remotes>>

Track == \E f \in Managed : index' = index \cup {f} /\ UNCHANGED <<history, remotes>>
Untrack == \E f \in index : index' = index \ {f} /\ UNCHANGED <<history, remotes>>
Commit == history' = history \cup { FromTop(f) : f \in index } /\ UNCHANGED <<index, remotes>>
Push == remotes' = remotes \cup history /\ UNCHANGED <<index, history>>

User ==
  /\ Another /\ UNCHANGED calls
  /\ EditTree \/ EditIgnore \/ ((Track \/ Untrack \/ Commit \/ Push) /\ UNCHANGED <<tree, gitignore, call>>)

----------------------------------------------------------------------------
\* What is so of the files now, and what was so of them during a scan.
Now == [there |-> Managed, ignored |-> { f \in DOMAIN tree : Ignores(gitignore.text, f) },
        untracked |-> DOMAIN tree \ index, uncommitted |-> { f \in DOMAIN tree : FromTop(f) \notin history },
        unpushed |-> { f \in DOMAIN tree : FromTop(f) \notin remotes }]

Resting(c) == call[c].pc \in {"rest", "done"}

Nothing == [there |-> {}, ignored |-> {}, untracked |-> {}, uncommitted |-> {}, unpushed |-> {}]

\* There at every moment, and so at some moment.
Joined(past, now) ==
  [there |-> past.there \cap now.there, ignored |-> past.ignored \cup now.ignored,
   untracked |-> past.untracked \cup now.untracked, uncommitted |-> past.uncommitted \cup now.uncommitted,
   unpushed |-> past.unpushed \cup now.unpushed]

Watch ==
  since' = [c \in Call |->
    IF call'[c].kind # "scan" THEN Nothing
    ELSE IF ~Resting(c) THEN Joined(since[c], Now')
    ELSE IF Resting(c)' THEN since[c] ELSE Now']

StartTexts == {<< >>} \cup { <<rule>> : rule \in UserRules }

Init ==
  /\ tree \in [Candidates -> {"none", "file"}]
  /\ gitignore \in {[kind |-> kind, text |-> << >>] : kind \in {"none", "other"}}
                     \cup { [kind |-> "file", text |-> text] : text \in StartTexts }
  /\ index \in {{}, Managed}
  /\ history \in {{}, { FromTop(f) : f \in Candidates }}
  /\ remotes \in {{}, history}
  /\ call = [c \in Call |-> NoCall]
  /\ calls = 0 /\ edits = 0
  /\ since = [c \in Call |-> Nothing]

Step(c) ==
  /\ \/ /\ \/ \E kind \in {"scan", "guard"} : Begin(c, kind)
           \/ Visit(c) \/ Visited(c) \/ Load(c) \/ Open(c)
           \/ IgnoredPaths(c) \/ HistoryPaths(c) \/ Inspect(c)
        /\ UNCHANGED gitignore
     \/ Read(c) \/ Place(c) \/ Create(c) \/ Write(c) \/ WriteFails(c) \/ Check(c) \/ Persist(c) \/ Break(c)
  /\ UNCHANGED <<tree, index, history, remotes, edits>>

Next == ((\E c \in Call : Step(c)) \/ User) /\ Watch

Spec == Init /\ [][Next]_vars

----------------------------------------------------------------------------
\* "Git ignore rules cover all {count} managed files, and none are currently tracked" (en.ts:373), and
\* what it says of files in the history (en.ts:395-399): a scan that shows the project as protected has found
\* every file that was there all the time, and each of them was ignored, not tracked, in no branch and
\* in no remote branch, if not at the same moment then at one moment of the scan each.
ProtectedIsTrue ==
  \A c \in Call : At(c, "done") /\ call[c].result = "protected" =>
    since[c].there \subseteq since[c].ignored \cap since[c].untracked \cap since[c].uncommitted
                               \cap since[c].unpushed

\* What a guard writes keeps the rules the file had, in front of its own, as long as nobody replaces the
\* file between the comparison, or the creation, and the writing: there is no lock on it.  And every
\* file the guard has found unignored is ignored then, whatever the file said of it before, unless a
\* .gitignore in a folder below says otherwise.
GuardAddsRules ==
  [][ gitignore' # gitignore =>
        \A c \in Call : call'[c].pc # call[c].pc =>
          /\ ~call[c].replaced => /\ IsPrefix(gitignore.text, gitignore'.text)
                                  /\ Rules(gitignore.text) \subseteq Rules(gitignore'.text)
          /\ call'[c].result = "added" =>
               \A f \in Missing(c) : Nested[f] # "keep" => Ignores(gitignore.text, f)'
    ]_vars

Rule == {NewLine, Comment} \cup { ExactPattern(f) : f \in File } \cup { Keep(f) : f \in File }

CallRecord ==
  [pc : {"rest", "visit", "load", "open", "ignored", "history", "remotes", "read", "place", "create",
         "write", "check", "persist", "done"},
   kind : {"none", "scan", "guard"},
   todo : SUBSET Candidates, found : SUBSET Candidates, tracked : SUBSET Candidates,
   ignored : SUBSET Candidates, past : SUBSET Candidates,
   existing : Seq(Rule), replaced : BOOLEAN,
   result : {"none", "error", "unavailable", "not-repository", "complete", "protected", "attention",
             "added"}]

\* The type invariant.
TypeOK ==
  /\ tree \in [Candidates -> {"none", "file", "large", "symlink"}]
  /\ gitignore \in [kind : {"none", "file", "other"}, text : Seq(Rule)]
  /\ index \in SUBSET Candidates
  /\ history \in SUBSET { FromTop(f) : f \in Candidates }
  /\ remotes \in SUBSET { FromTop(f) : f \in Candidates }
  /\ call \in [Call -> CallRecord]
  /\ calls \in Nat /\ edits \in Nat
  /\ since \in [Call -> [there : SUBSET Candidates, ignored : SUBSET Candidates,
                         untracked : SUBSET Candidates, uncommitted : SUBSET Candidates,
                         unpushed : SUBSET Candidates]]

\* What was seen at every moment so far, and at some moment, against what is so now.
Covers(seen, now) ==
  /\ seen.there \subseteq now.there /\ now.ignored \subseteq seen.ignored
  /\ now.untracked \subseteq seen.untracked /\ now.uncommitted \subseteq seen.uncommitted
  /\ now.unpushed \subseteq seen.unpushed

\* A scan has found what was there all the time, and what it has read since was so at that moment.
Follows(scan, seen) ==
  /\ seen.there \subseteq scan.found \cup (IF scan.pc = "visit" THEN scan.todo ELSE {})
  /\ scan.pc \in {"ignored", "history", "remotes"} => Candidates \ scan.tracked \subseteq seen.untracked
  /\ scan.pc \in {"history", "remotes"} => scan.ignored \subseteq seen.ignored
  /\ scan.pc = "remotes" => scan.found \ scan.past \subseteq seen.uncommitted

ScanSaw(c) ==
  /\ call[c].kind # "scan" => since[c] = Nothing
  /\ call[c].kind = "scan" /\ ~Resting(c) => Covers(since[c], Now) /\ Follows(call[c], since[c])

\* The inductive invariant behind ProtectedIsTrue, of a project at the top of its repository.
ScanInv == TypeOK /\ (\A c \in Call : ScanSaw(c)) /\ ProtectedIsTrue

\* A guard about to write has the rules of the file in hand, unless somebody has replaced it; only
\* the comment in front of rules that could not be written may have come since.
HasTheRules(c) ==
  /\ ~Resting(c) => call[c].result = "none"
  /\ call[c].pc \in {"create", "write"} => call[c].existing = << >>
  /\ At(c, "write") /\ ~call[c].replaced => gitignore = [kind |-> "file", text |-> << >>]
  /\ At(c, "persist") /\ ~call[c].replaced =>
       /\ gitignore.kind = "file"
       /\ \/ gitignore.text = call[c].existing
          \/ call[c].existing = << >> /\ gitignore.text = <<Comment, NewLine>>

OneCreator ==
  \A c, d \in Call : At(c, "write") /\ ~call[c].replaced /\ At(d, "write") /\ ~call[d].replaced => c = d

\* The inductive invariant behind GuardAddsRules.
GuardInv ==
  /\ TypeOK /\ (gitignore.kind # "file" => gitignore.text = << >>)
  /\ OneCreator /\ \A c \in Call : HasTheRules(c)
=============================================================================
