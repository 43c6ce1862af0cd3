----------------------------- MODULE ActivityLog -----------------------------
(***************************************************************************)
(* The log of what agents did in one project                               *)
(* (crates/env-broker/src/broker/audit.rs), which brokers append to        *)
(* without a lock, and its reader in the desktop app                       *)
(* (src-tauri/src/runtime/agent_activity.rs), which at every start moves   *)
(* what older brokers have written in the directory of temporary files to  *)
(* the directory of the app.                                               *)
(*                                                                         *)
(* A line is written with many calls of write, here one for the event and  *)
(* one for the end of the line.  A file is known by its inode: who has     *)
(* opened it goes on writing to it after it was renamed or removed.        *)
(* Events are numbered by the time they carry, and are all equally long.   *)
(***************************************************************************)
EXTENDS Naturals, Sequences, FiniteSets, SequencesExt, FiniteSetsExt

CONSTANTS
  Writer,     \* brokers
  Directory,  \* Directory[w]: "app", or "legacy" for an older broker
  MaxLines,   \* how many lines MAX_AUDIT_BYTES are
  MaxShown,   \* how many events the app shows (200 in the code)
  MaxEvents,  \* bound on the events recorded
  MaxStarts,  \* bound on the starts of the app
  CanFail     \* whether calls of the file system fail and processes die

LogAssumption ==
  /\ Directory \in [Writer -> {"app", "legacy"}]
  /\ MaxLines \in Nat \ {0} /\ MaxShown \in Nat /\ MaxEvents \in Nat /\ MaxStarts \in Nat
  /\ CanFail \in BOOLEAN

VARIABLES
  names,    \* the inode of each file, 0 if it is not there
  bytes,    \* what the inodes hold
  events,   \* how many events there were
  writer,   \* the append_audit_event each broker is in
  desk,     \* the migration the app is in
  starts,   \* how often the app was started
  since     \* history: what was there when the migration began, and what happened since

vars == <<names, bytes, events, writer, desk, starts, since>>

Name == {"log", "previous", "legacyLog", "legacyPrevious"}
Log(w) == IF Directory[w] = "app" THEN "log" ELSE "legacyLog"
Previous(w) == IF Directory[w] = "app" THEN "previous" ELSE "legacyPrevious"

\* A file is a sequence of events, ends of lines, and pieces of events that were not written whole.
EndOfLine == 0
Fragment == MaxEvents + 1
MaxBytes == 2 * MaxLines

Resting == [pc |-> "rest", event |-> 0, inode |-> 0]
NoMigration == [pc |-> "rest", found |-> {}, target |-> {}]

Init ==
  /\ names = [n \in Name |-> 0] /\ bytes = << >> /\ events = 0
  /\ writer = [w \in Writer |-> Resting]
  /\ desk = NoMigration /\ starts = 0
  /\ since = [legacy |-> {}, app |-> {}, disturbed |-> FALSE, failed |-> FALSE]

----------------------------------------------------------------------------
(* What a reader finds. *)

Held(n) == IF names[n] = 0 THEN << >> ELSE bytes[names[n]]

\* read_recent_bytes: of a file that is too long the end, from the first whole line on.
Recent(text) ==
  IF Len(text) <= MaxBytes THEN text
  ELSE LET end == SubSeq(text, Len(text) - MaxBytes + 1, Len(text))
           ends == { i \in DOMAIN end : end[i] = EndOfLine }
       IN  IF ends = {} THEN << >> ELSE SubSeq(end, Min(ends) + 1, Len(end))

\* read_events: the lines that are one event and nothing else.
EventsIn(text) ==
  { e \in 1..MaxEvents : \E i \in DOMAIN text :
      /\ text[i] = e
      /\ i = 1 \/ text[i - 1] = EndOfLine
      /\ i = Len(text) \/ text[i + 1] = EndOfLine }

ReadEvents(n) == EventsIn(Recent(Held(n)))

Newest(set, max) == { e \in set : Cardinality({ f \in set : f > e }) < max }

Legacy == ReadEvents("legacyPrevious") \cup ReadEvents("legacyLog")

\* load_agent_activity
Activity == Newest(ReadEvents("log") \cup Legacy, MaxShown)

----------------------------------------------------------------------------
(* append_audit_event *)

At(w, pc) == writer[w].pc = pc
Go(w, pc) == writer' = [writer EXCEPT ![w].pc = pc]
Disturbs == since' = [since EXCEPT !.disturbed = TRUE]

Record(w) ==
  /\ At(w, "rest") /\ events < MaxEvents
  /\ events' = events + 1
  /\ writer' = [writer EXCEPT ![w] = [pc |-> "size", event |-> events + 1, inode |-> 0]]
  /\ UNCHANGED <<names, bytes>>

CheckSize(w) ==
  /\ At(w, "size")
  /\ Go(w, IF Len(Held(Log(w))) > MaxBytes THEN "discard" ELSE "open")
  /\ UNCHANGED <<names, bytes, events>>

\* A failure is ignored, here and when the file is renamed.
Discard(w) ==
  /\ At(w, "discard") /\ Go(w, "rotate")
  /\ \/ names' = [names EXCEPT ![Previous(w)] = 0]
     \/ CanFail /\ UNCHANGED names
  /\ UNCHANGED <<bytes, events>>

Rotate(w) ==
  /\ At(w, "rotate") /\ Go(w, "open")
  /\ \/ /\ names[Log(w)] # 0
        /\ names' = [[names EXCEPT ![Previous(w)] = names[Log(w)]] EXCEPT ![Log(w)] = 0]
     \/ (CanFail \/ names[Log(w)] = 0) /\ UNCHANGED names
  /\ UNCHANGED <<bytes, events>>

Open(w) ==
  /\ At(w, "open")
  /\ IF names[Log(w)] # 0
       THEN UNCHANGED <<names, bytes>>
       ELSE /\ bytes' = Append(bytes, << >>)
            /\ names' = [names EXCEPT ![Log(w)] = Len(bytes')]
  /\ writer' = [writer EXCEPT ![w].pc = "write", ![w].inode = names'[Log(w)]]
  /\ UNCHANGED <<events>>

Puts(w, piece) == bytes' = [bytes EXCEPT ![writer[w].inode] = Append(@, piece)]

Write(w) ==
  /\ \/ At(w, "write") /\ Puts(w, writer[w].event) /\ Go(w, "end")
     \/ /\ At(w, "end") /\ Puts(w, EndOfLine)
        /\ writer' = [writer EXCEPT ![w] = Resting]
  /\ UNCHANGED <<names, events>>

\* The directory or the file cannot be opened, a write fails, or the broker dies.
GiveUp(w) ==
  /\ CanFail /\ ~At(w, "rest")
  /\ writer' = [writer EXCEPT ![w] = Resting]
  /\ UNCHANGED bytes \/ (At(w, "write") /\ Puts(w, Fragment))
  /\ UNCHANGED <<names, events>>

----------------------------------------------------------------------------
(* migrate_legacy_agent_activity *)

Begin ==
  /\ desk.pc = "rest" /\ starts < MaxStarts
  /\ starts' = starts + 1
  /\ desk' = [NoMigration EXCEPT !.pc = "legacyPrevious"]
  /\ since' = [legacy |-> Legacy, app |-> ReadEvents("log"), disturbed |-> FALSE, failed |-> FALSE]
  /\ UNCHANGED <<names, bytes>>

Ends == desk' = NoMigration

\* What a step of the migration finds in a file: nothing if it cannot be read.
Reads(n, Found(_)) ==
  \/ Found(ReadEvents(n)) /\ UNCHANGED since
  \/ CanFail /\ Found({}) /\ since' = [since EXCEPT !.failed = TRUE]

ReadSource ==
  /\ \/ /\ desk.pc = "legacyPrevious"
        /\ LET Found(set) == desk' = [desk EXCEPT !.pc = "legacyLog", !.found = set]
           IN  Reads("legacyPrevious", Found)
     \/ /\ desk.pc = "legacyLog"
        /\ LET Found(set) == IF desk.found \cup set = {} THEN Ends
                             ELSE desk' = [desk EXCEPT !.pc = "target", !.found = @ \cup set]
           IN  Reads("legacyLog", Found)
  /\ UNCHANGED <<names, bytes, starts>>

\* Mutant: what the app's log holds already is forgotten.
ReadNoTarget ==
  /\ desk.pc = "target"
  /\ desk' = [desk EXCEPT !.pc = "remove"]
  /\ UNCHANGED <<names, bytes, starts, since>>

ReadTarget ==
  /\ desk.pc = "target"
  /\ LET Found(set) == desk' = [desk EXCEPT !.pc = "remove", !.target = set]
     IN  Reads("log", Found)
  /\ UNCHANGED <<names, bytes, starts>>

\* write_recent_events: the new file is staged; the old one goes first.
RemoveTarget ==
  /\ desk.pc = "remove"
  /\ names' = [names EXCEPT !["log"] = 0]
  /\ desk' = [desk EXCEPT !.pc = "persist"]
  /\ UNCHANGED <<bytes, starts, since>>

Retained == Newest(desk.found \cup desk.target, MaxLines)

\* The events of a set in the order of time, each on a line of its own.
Lines(set) ==
  { [j \in 1..2 * Cardinality(set) |-> IF j % 2 = 1 THEN order[(j + 1) \div 2] ELSE EndOfLine] :
      order \in { o \in [1..Cardinality(set) -> set] :
                    /\ \A e \in set : \E i \in DOMAIN o : o[i] = e
                    /\ \A i, j \in DOMAIN o : i < j => o[i] < o[j] } }

Persist ==
  /\ desk.pc = "persist"
  /\ \E text \in Lines(Retained) : bytes' = Append(bytes, text)
  /\ names' = [names EXCEPT !["log"] = Len(bytes')]
  /\ desk' = [desk EXCEPT !.pc = "removePrevious"]
  /\ UNCHANGED <<starts, since>>

\* A failure is ignored.
RemoveSource(n, pc) ==
  /\ desk.pc = pc
  /\ names' = [names EXCEPT ![n] = 0] \/ (CanFail /\ UNCHANGED names)
  /\ IF pc = "removePrevious" THEN desk' = [desk EXCEPT !.pc = "removeLog"] ELSE Ends
  /\ UNCHANGED <<bytes, starts, since>>

\* A directory or a file cannot be written, or the app dies.
Break ==
  /\ CanFail /\ desk.pc # "rest" /\ Ends
  /\ since' = [since EXCEPT !.failed = @ \/ desk.pc = "persist"]
  /\ UNCHANGED <<names, bytes, starts>>

Audit(w) ==
  /\ \/ Record(w) \/ CheckSize(w) \/ Discard(w) \/ Rotate(w) \/ Open(w) \/ Write(w) \/ GiveUp(w)
  /\ Disturbs /\ UNCHANGED <<desk, starts>>

Migrate ==
  /\ \/ Begin \/ ReadSource \/ ReadTarget \/ RemoveTarget \/ Persist
     \/ RemoveSource("legacyPrevious", "removePrevious") \/ RemoveSource("legacyLog", "removeLog")
     \/ Break
  /\ UNCHANGED <<events, writer>>

Next == (\E w \in Writer : Audit(w)) \/ Migrate

Spec == Init /\ [][Next]_vars

----------------------------------------------------------------------------
\* This is about migrations that could read every file there was and at which no broker writes: a
\* file that cannot be read, one of the old place as well, is taken for an empty one
\* (agent_activity.rs:83-85), and an old one is then removed with all its events, which no document
\* promises otherwise.  Of the newest events, as many as the log may hold, such a migration loses none
\* of the old place, wherever it fails or dies, and none of the new one unless it breaks off between
\* removing the file and putting the new one in its place (agent_activity.rs:137).
MigrationKeepsActivity ==
  LET kept == Newest(since.legacy \cup since.app, MaxLines)
      there == ReadEvents("log") \cup Legacy
  IN  ~since.disturbed /\ ~since.failed =>
        /\ since.legacy \cap kept \subseteq there
        /\ desk.pc # "persist" => since.app \cap kept \subseteq there

\* The type invariant.
TypeOK ==
  /\ bytes \in Seq(Seq(Nat))
  /\ names \in [Name -> 0..Len(bytes)]
  /\ events \in 0..MaxEvents
  /\ writer \in [Writer -> [pc : {"rest", "size", "discard", "rotate", "open", "write", "end"},
                            event : Nat, inode : Nat]]
  /\ desk \in [pc : {"rest", "legacyPrevious", "legacyLog", "target", "remove", "persist",
                     "removePrevious", "removeLog"},
               found : SUBSET (1..MaxEvents), target : SUBSET (1..MaxEvents)]
  /\ starts \in Nat
  /\ since \in [legacy : SUBSET (1..MaxEvents), app : SUBSET (1..MaxEvents),
                disturbed : BOOLEAN, failed : BOOLEAN]

\* What a migration that no broker disturbs has read, and where the events are meanwhile.
OnItsWay ==
  LET pc == desk.pc
      there == ReadEvents("log") \cup Legacy
      kept == Newest(since.legacy \cup since.app, MaxLines)
  IN  /\ pc = "rest" => (since.legacy \cup since.app) \cap kept \subseteq there
      /\ pc \in {"legacyPrevious", "legacyLog", "target", "remove", "persist"} =>
           since.legacy = Legacy
      /\ pc \in {"legacyPrevious", "legacyLog", "target", "remove"} => since.app = ReadEvents("log")
      /\ pc = "legacyPrevious" => desk.found = {}
      /\ pc = "legacyLog" => desk.found = ReadEvents("legacyPrevious")
      /\ pc \in {"target", "remove", "persist"} => desk.found = since.legacy
      /\ pc \in {"remove", "persist"} => desk.target = since.app
      /\ pc \in {"removePrevious", "removeLog"} => ReadEvents("log") = kept

\* The inductive invariant behind MigrationKeepsActivity.
LogInv == TypeOK /\ (~since.disturbed /\ ~since.failed => OnItsWay)

\* "See broker structure checks, value-read attempts, mutations" (README.md:158): if nothing failed,
\* the app shows the newest of the events that were recorded.
NewestAreShown ==
  LET recorded == (1..events) \ { writer[w].event : w \in Writer }
  IN  ~CanFail => Newest(recorded, MaxShown) \subseteq Activity
=============================================================================
