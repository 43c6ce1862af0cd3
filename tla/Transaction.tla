---------------------------- MODULE Transaction ----------------------------
(***************************************************************************)
(* TransactionPlan::commit of crates/env-core/src/transaction.rs: the one  *)
(* way an env file is rewritten.  A plan names files, the bytes each was   *)
(* loaded with (FileRevision is a hash of the bytes, so comparing          *)
(* revisions is comparing bytes) and the bytes to put there.  The commit   *)
(* has two passes over the files: check and stage every one, then rename   *)
(* every staged file over its target.  A rename that fails starts a        *)
(* rollback that renames the bytes read by the check pass back, newest     *)
(* first.                                                                  *)
(*                                                                         *)
(* No lock is held: several writers (threads of the desktop app, broker    *)
(* processes) and the user's own editor interleave with every step.        *)
(***************************************************************************)
EXTENDS Naturals, Sequences, FiniteSets

CONSTANTS
  Writer,        \* threads and processes that commit plans
  File,          \* env files of the project
  Bytes,         \* what a file can hold
  Fault,         \* the faults that happen: a subset of AllFaults
  Interference   \* FALSE: nobody else writes between a plan's first check and its end

AllFaults == {"io", "undo", "crash", "edit"}

ASSUME FaultAssumption == Fault \subseteq AllFaults
ASSUME InterferenceAssumption == Interference \in BOOLEAN

VARIABLES
  disk,      \* disk[f]: the bytes and the permission bits of file f
  txn,       \* txn[w]: the locals of w's call of commit
  disturbed  \* history: somebody else wrote a file of w's plan while w was committing

vars == <<disk, txn, disturbed>>

Mode == {"shared", "private"}   \* "private": the 0600 a NamedTempFile is created with
Content == [bytes : Bytes, mode : Mode]

\* The plans of the callers name each file once, in a fixed order.
Order == { s \in UNION { [1..n -> File] : n \in 1..Cardinality(File) } :
             \A i, j \in DOMAIN s : s[i] = s[j] => i = j }

Members(s) == { s[i] : i \in DOMAIN s }

NoBytes == [f \in {} |-> {}]

Idle(result) ==
  [pc |-> "idle", at |-> 0, order |-> << >>, expected |-> NoBytes, proposed |-> NoBytes,
   original |-> << >>, result |-> result]

Committing(w) == txn[w].pc # "idle"

\* The file the writer's loop stands at.
Here(w) == txn[w].order[txn[w].at]
Last(w) == txn[w].at = Len(txn[w].order)

\* From the first revision check on, somebody else's write goes unnoticed.
InWindow(w) == Committing(w) /\ (txn[w].pc # "check" \/ txn[w].at > 1)
Alone(w) == Interference \/ \A v \in Writer \ {w} : ~InWindow(v)

----------------------------------------------------------------------------
Init ==
  /\ disk \in [File -> [bytes : Bytes, mode : {"shared"}]]
  /\ txn = [w \in Writer |-> Idle("none")]
  /\ disturbed = [w \in Writer |-> FALSE]

\* Marks every other commit that has f in its plan.
Disturb(f, w) ==
  disturbed' = [v \in Writer |-> \/ disturbed[v]
                                 \/ v # w /\ Committing(v) /\ f \in Members(txn[v].order)]

\* TransactionPlan::new, with what the caller loaded and what it proposes.
Begin(w, order, expected, proposed) ==
  /\ ~Committing(w)
  /\ txn' = [txn EXCEPT ![w] =
       [pc |-> "check", at |-> 1, order |-> order, expected |-> expected,
        proposed |-> proposed, original |-> << >>, result |-> "none"]]
  /\ disturbed' = [disturbed EXCEPT ![w] = FALSE]
  /\ UNCHANGED disk

Return(w, result) == txn' = [txn EXCEPT ![w] = Idle(result)]

\* Mutant: the revision is not compared.
CheckWithoutRevision(w) ==
  /\ txn[w].pc = "check"
  /\ txn[w].at = 1 => Alone(w)
  /\ txn' = [txn EXCEPT ![w].original = Append(@, disk[Here(w)]),
                        ![w].pc = IF Last(w) THEN "persist" ELSE "check",
                        ![w].at = IF Last(w) THEN 1 ELSE @ + 1]
  /\ UNCHANGED <<disk, disturbed>>

\* First pass, one file: the bytes are the planned ones and are staged with the file's mode.
CheckMatches(w) ==
  /\ txn[w].pc = "check"
  /\ txn[w].at = 1 => Alone(w)
  /\ disk[Here(w)].bytes = txn[w].expected[Here(w)]
  /\ txn' = [txn EXCEPT ![w].original = Append(@, disk[Here(w)]),
                        ![w].pc = IF Last(w) THEN "persist" ELSE "check",
                        ![w].at = IF Last(w) THEN 1 ELSE @ + 1]
  /\ UNCHANGED <<disk, disturbed>>

\* First pass, one file: changed since it was loaded (FILE_CHANGED_EXTERNALLY).
CheckStale(w) ==
  /\ txn[w].pc = "check"
  /\ disk[Here(w)].bytes # txn[w].expected[Here(w)]
  /\ Return(w, "changed")
  /\ UNCHANGED <<disk, disturbed>>

\* First pass: reading, parsing the proposal or staging fails; nothing was renamed yet.
CheckFails(w) ==
  /\ "io" \in Fault
  /\ txn[w].pc = "check"
  /\ Return(w, "io")
  /\ UNCHANGED <<disk, disturbed>>

\* Mutant: the files are renamed in the opposite order.
PersistLastFirst(w) ==
  /\ txn[w].pc = "persist"
  /\ LET i == Len(txn[w].order) + 1 - txn[w].at
         f == txn[w].order[i]
     IN  /\ disk' = [disk EXCEPT ![f] = [bytes |-> txn[w].proposed[f],
                                         mode |-> txn[w].original[i].mode]]
         /\ Disturb(f, w)
  /\ IF Last(w) THEN Return(w, "ok") ELSE txn' = [txn EXCEPT ![w].at = @ + 1]

\* Second pass, one file: the staged file replaces the target, whatever it holds by now.
Persist(w) ==
  /\ txn[w].pc = "persist"
  /\ disk' = [disk EXCEPT ![Here(w)] = [bytes |-> txn[w].proposed[Here(w)],
                                        mode |-> txn[w].original[txn[w].at].mode]]
  /\ IF Last(w) THEN Return(w, "ok") ELSE txn' = [txn EXCEPT ![w].at = @ + 1]
  /\ Disturb(Here(w), w)

\* Mutant: a failed rename is reported without undoing the earlier ones.
PersistFailsWithoutRollback(w) ==
  /\ "io" \in Fault
  /\ txn[w].pc = "persist"
  /\ Return(w, "io")
  /\ UNCHANGED <<disk, disturbed>>

\* Second pass: a rename fails; what was renamed before is to be undone.
PersistFails(w) ==
  /\ "io" \in Fault
  /\ txn[w].pc = "persist"
  /\ IF txn[w].at = 1
       THEN Return(w, "io")
       ELSE txn' = [txn EXCEPT ![w].pc = "undo", ![w].at = @ - 1]
  /\ UNCHANGED <<disk, disturbed>>

\* rollback, one file: the checked bytes come back in a fresh temporary file, and with
\* its mode: unlike the first pass, rollback sets no permissions.
Undo(w) ==
  /\ txn[w].pc = "undo"
  /\ disk' = [disk EXCEPT ![Here(w)] = [bytes |-> txn[w].original[txn[w].at].bytes,
                                        mode |-> "private"]]
  /\ IF txn[w].at = 1 THEN Return(w, "io") ELSE txn' = [txn EXCEPT ![w].at = @ - 1]
  /\ Disturb(Here(w), w)

\* rollback stops at its first error; the caller learns that the files are not restored.
UndoFails(w) ==
  /\ "undo" \in Fault
  /\ txn[w].pc = "undo"
  /\ Return(w, "incomplete")
  /\ UNCHANGED <<disk, disturbed>>

\* The process dies; there is no journal, so nothing finishes the commit later.
Crash(w) ==
  /\ "crash" \in Fault
  /\ Committing(w)
  /\ Return(w, "crashed")
  /\ UNCHANGED <<disk, disturbed>>

\* The user's editor, a build tool, git: anything that writes f in place.
Edit(f, bytes) ==
  /\ "edit" \in Fault
  /\ Interference \/ \A w \in Writer : ~InWindow(w)
  /\ bytes # disk[f].bytes
  /\ disk' = [disk EXCEPT ![f].bytes = bytes]
  /\ disturbed' = [v \in Writer |-> \/ disturbed[v]
                                    \/ Committing(v) /\ f \in Members(txn[v].order)]
  /\ UNCHANGED txn

----------------------------------------------------------------------------
\* A caller loads the files of its plan and proposes new bytes for each.
Start(w) ==
  \E order \in Order :
    \E proposed \in [Members(order) -> Bytes] :
      Begin(w, order, [f \in Members(order) |-> disk[f].bytes], proposed)

\* One step of a commit that is under way.
Step(w) ==
  \/ CheckMatches(w) \/ CheckStale(w) \/ CheckFails(w)
  \/ Persist(w) \/ PersistFails(w)
  \/ Undo(w) \/ UndoFails(w)
  \/ Crash(w)

EditorWrites == \E f \in File, bytes \in Bytes : Edit(f, bytes)

Next ==
  \/ \E w \in Writer : Start(w) \/ Step(w)
  \/ EditorWrites

Spec == Init /\ [][Next]_vars

----------------------------------------------------------------------------
Snapshot == UNION { [S -> Bytes] : S \in SUBSET File }
Result == {"none", "ok", "changed", "io", "incomplete", "crashed"}

Call == [pc : {"idle", "check", "persist", "undo"}, at : Nat, order : Seq(File),
         expected : Snapshot, proposed : Snapshot, original : Seq(Content), result : Result]

\* What holds of the locals of a commit that is under way.
CallOK(t) ==
  t.pc # "idle" =>
    /\ t.order \in Order
    /\ t.at \in 1..Len(t.order)
    /\ DOMAIN t.expected = Members(t.order)
    /\ DOMAIN t.proposed = Members(t.order)
    /\ Len(t.original) = IF t.pc = "check" THEN t.at - 1 ELSE Len(t.order)

\* The type invariant of commit's locals and of the files.
TypeOK ==
  /\ disk \in [File -> Content]
  /\ txn \in [Writer -> Call]
  /\ \A w \in Writer : CallOK(txn[w])
  /\ disturbed \in [Writer -> BOOLEAN]

\* What the check pass has established, and where an undisturbed commit of w stands: in the
\* files it has passed, and in those it has still to come to.
Checked(w) ==
  \A i \in 1..Len(txn[w].original) :
    txn[w].original[i].bytes = txn[w].expected[txn[w].order[i]]

CheckHolds(t, content) ==
  \A i \in 1..Len(t.order) :
    /\ content[t.order[i]].bytes = t.expected[t.order[i]]
    /\ i < t.at => content[t.order[i]] = t.original[i]

PersistHolds(t, content) ==
  \A i \in 1..Len(t.order) :
    content[t.order[i]] = IF i < t.at
                            THEN [bytes |-> t.proposed[t.order[i]], mode |-> t.original[i].mode]
                            ELSE t.original[i]

UndoHolds(t, content) ==
  \A i \in 1..Len(t.order) :
    content[t.order[i]].bytes = IF i <= t.at THEN t.proposed[t.order[i]] ELSE t.original[i].bytes

Holds(t, content) ==
  /\ t.pc = "check" => CheckHolds(t, content)
  /\ t.pc = "persist" => PersistHolds(t, content)
  /\ t.pc = "undo" => UndoHolds(t, content)

\* The inductive invariant behind the action properties below.
CommitInv ==
  /\ TypeOK
  /\ \A w \in Writer : Checked(w)
  /\ \A w \in Writer : ~disturbed[w] => Holds(txn[w], disk)

\* This step is the return of w's commit with this result.
Returns(w, result) == Committing(w) /\ txn'[w] = Idle(result)

\* All or nothing: a commit nobody interfered with either returns success with every file of
\* the plan holding the proposal under its old permission bits, or returns an error (a stale
\* file, an I/O error in either pass) with every file holding the bytes it was planned on.
AllOrNothing ==
  [][ \A w \in Writer : ~disturbed[w] =>
        /\ Returns(w, "ok") =>
             \A i \in DOMAIN txn[w].order :
               disk'[txn[w].order[i]] = [bytes |-> txn[w].proposed[txn[w].order[i]],
                                         mode |-> txn[w].original[i].mode]
        /\ Returns(w, "io") \/ Returns(w, "changed") =>
             \A f \in Members(txn[w].order) : disk'[f].bytes = txn[w].expected[f] ]_vars

\* No rename before every check: a step of w that changes a file, be it a rename or a rollback,
\* happens only after all files of w's plan were checked and each held the bytes the plan was
\* computed from.  So a plan with one stale file leaves its other files alone.
WritesOnlyCheckedPlans ==
  [][ \A w \in Writer : txn'[w] # txn[w] /\ disk' # disk =>
        /\ Len(txn[w].original) = Len(txn[w].order)
        /\ \A i \in DOMAIN txn[w].order :
             txn[w].original[i].bytes = txn[w].expected[txn[w].order[i]] ]_vars

\* A commit that is broken off, by the death of its process or by a rollback that fails, and that
\* nobody interfered with leaves a prefix of the plan's files at the proposal and the rest at the
\* bytes they had: there is no journal, but also no other mixture.
BrokenCommitIsPrefix ==
  [][ \A w \in Writer : ~disturbed[w] /\ (Returns(w, "crashed") \/ Returns(w, "incomplete")) =>
        \E n \in 0..Len(txn[w].order) : \A i \in DOMAIN txn[w].order :
          disk'[txn[w].order[i]].bytes =
            (IF i <= n THEN txn[w].proposed ELSE txn[w].expected)[txn[w].order[i]] ]_vars

----------------------------------------------------------------------------
\* Refinement.  Files already renamed by a commit still count as holding the checked bytes; they
\* all change in the step that renames the last one.
Renamed(w) ==
  CASE txn[w].pc = "persist" -> 1..(txn[w].at - 1)
    [] txn[w].pc = "undo" -> 1..txn[w].at
    [] OTHER -> {}

AbstractFiles ==
  [f \in File |->
     IF \E w \in Writer : \E i \in Renamed(w) : txn[w].order[i] = f
       THEN LET w == CHOOSE w \in Writer : \E i \in Renamed(w) : txn[w].order[i] = f
                i == CHOOSE i \in Renamed(w) : txn[w].order[i] = f
            IN  txn[w].original[i].bytes
       ELSE disk[f].bytes]

AbstractCall ==
  [w \in Writer |-> [active |-> Committing(w), expected |-> txn[w].expected,
                     proposed |-> txn[w].proposed, result |-> txn[w].result]]

A == INSTANCE AtomicCommit WITH files <- AbstractFiles, call <- AbstractCall

\* Without interference in the window, crashes and failing rollbacks, commit is atomic.
Atomic == A!Spec
=============================================================================
