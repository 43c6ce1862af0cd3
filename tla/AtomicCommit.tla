---------------------------- MODULE AtomicCommit ----------------------------
(***************************************************************************)
(* What TransactionPlan::commit promises its callers: a plan is applied to *)
(* all of its files in one step, and only if every file still holds the    *)
(* bytes the plan was computed from; otherwise no file changes.            *)
(* Permission bits are not part of the promise.                            *)
(***************************************************************************)
CONSTANTS Writer, File, Bytes, Order

VARIABLES
  files,   \* files[f]: the bytes of f
  call     \* call[w]: the plan w's commit is carrying out, or how its last one ended

vars == <<files, call>>

NoBytes == [f \in {} |-> {}]
Ended(result) == [active |-> FALSE, expected |-> NoBytes, proposed |-> NoBytes, result |-> result]
Members(s) == { s[i] : i \in DOMAIN s }

Init ==
  /\ files \in [File -> Bytes]
  /\ call = [w \in Writer |-> Ended("none")]

\* A caller hands over a plan; the bytes it was computed from may be out of date by now.
Submit(w) ==
  /\ ~call[w].active
  /\ \E order \in Order : \E expected, proposed \in [Members(order) -> Bytes] :
       call' = [call EXCEPT ![w] =
         [active |-> TRUE, expected |-> expected, proposed |-> proposed, result |-> "none"]]
  /\ UNCHANGED files

\* The plan takes effect on all of its files at once.
Succeed(w) ==
  /\ call[w].active
  /\ \A f \in DOMAIN call[w].proposed : files[f] = call[w].expected[f]
  /\ files' = [f \in File |-> IF f \in DOMAIN call[w].proposed
                                THEN call[w].proposed[f] ELSE files[f]]
  /\ call' = [call EXCEPT ![w] = Ended("ok")]

\* The plan is refused or fails; no file changes.
Fail(w) ==
  /\ call[w].active
  /\ \E result \in {"changed", "io"} : call' = [call EXCEPT ![w] = Ended(result)]
  /\ UNCHANGED files

\* Somebody else writes a file.
Edit ==
  /\ \E f \in File, bytes \in Bytes : files' = [files EXCEPT ![f] = bytes]
  /\ UNCHANGED call

Next ==
  \/ \E w \in Writer : Submit(w) \/ Succeed(w) \/ Fail(w)
  \/ Edit

Spec == Init /\ [][Next]_vars
=============================================================================
