--------------------------- MODULE OrderedEvents ---------------------------
(***************************************************************************)
(* What the event queue of aiobp/nats/_events.py promises: "events of all  *)
(* subscriptions are handled one by one in the order they arrived".  Ids   *)
(* are given in the order of arrival.  An event is handled at most once,   *)
(* never before one that arrived earlier; it may be dropped.               *)
(***************************************************************************)
EXTENDS Naturals, Sequences, SequencesExt

CONSTANT Ids

VARIABLES
  waiting,  \* ids of the events that wait, oldest first
  handled,  \* ids of the events handed to their handlers so far, in order
  working   \* the worker is handling the last of them

vars == <<waiting, handled, working>>

Init == waiting = <<>> /\ handled = <<>> /\ working = FALSE

\* An event arrives; it is younger than every event seen so far.
Arrive(i) ==
  /\ \A j \in ToSet(waiting) \cup ToSet(handled) : j < i
  /\ waiting' = Append(waiting, i)
  /\ UNCHANGED <<handled, working>>

\* The oldest event is handed to its handlers.
Handle ==
  /\ ~working /\ waiting # <<>>
  /\ handled' = Append(handled, Head(waiting))
  /\ waiting' = Tail(waiting)
  /\ working' \in BOOLEAN

\* Nobody subscribes to the oldest event any more.
Drop ==
  /\ ~working /\ waiting # <<>>
  /\ waiting' = Tail(waiting)
  /\ UNCHANGED <<handled, working>>

Finish == working /\ working' = FALSE /\ UNCHANGED <<waiting, handled>>

Next == (\E i \in Ids : Arrive(i)) \/ Handle \/ Drop \/ Finish

Spec == Init /\ [][Next]_vars

=============================================================================
