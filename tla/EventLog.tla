------------------------------ MODULE EventLog ------------------------------
(***************************************************************************)
(* What the Event Recorder promises of the event bucket (spec.md sections *)
(* 4.3 and 6): a cycle's event is appended to the log, a stored event is   *)
(* never changed or removed, and an event equal to one already stored      *)
(* ("findEquivalent" finds it) is not appended again.                      *)
(***************************************************************************)
EXTENDS Sequences, SequencesExt

CONSTANT Events   \* the events a cycle can build

VARIABLE log      \* the bucket, in insertion order

Init == log = <<>>

\* A cycle records its event: appended unless an equal one is stored.
Record(e) ==
  /\ ~Contains(log, e)
  /\ log' = Append(log, e)

\* Some event of Events is recorded.  The only witness of
\* \E e \in Events : Record(e) is the event the step appends, so the step
\* names it rather than trying every event.
Next == Len(log') = Len(log) + 1 /\ Last(log') \in Events /\ Record(Last(log'))

Spec == Init /\ [][Next]_log
=============================================================================
