------------------------------- MODULE Blocks -------------------------------
(***************************************************************************)
(* What the code of a service may rely on: tasks enter and leave blocks,   *)
(* each with the exceptions it keeps from going further, and an exception  *)
(* is kept or goes on by these alone, traced or not.                       *)
(***************************************************************************)
EXTENDS Naturals, Sequences, SequencesExt

CONSTANTS Task, Main, Exception, Quiet  \* Quiet: "none", no exception

VARIABLES
  state,   \* of each task: "new", "run" or "done"
  blocks,  \* of each task: the sets of exceptions its blocks keep, outermost first
  flying   \* of each task: the exception that is on its way out of them

vars == <<state, blocks, flying>>

Init == /\ state = [t \in Task |-> IF t = Main THEN "run" ELSE "new"]
        /\ blocks = [t \in Task |-> <<>>]
        /\ flying = [t \in Task |-> Quiet]

Enter(t) ==
  /\ state[t] = "run" /\ flying[t] = Quiet
  /\ \E kept \in SUBSET Exception : blocks' = [blocks EXCEPT ![t] = Append(@, kept)]
  /\ UNCHANGED <<state, flying>>

Raise(t) ==
  /\ state[t] = "run" /\ flying[t] = Quiet
  /\ \E e \in Exception : flying' = [flying EXCEPT ![t] = e]
  /\ UNCHANGED <<state, blocks>>

Leave(t) ==
  /\ blocks[t] # <<>> 
  /\ blocks' = [blocks EXCEPT ![t] = Front(@)]
  /\ flying' = [flying EXCEPT ![t] = IF @ \in Last(blocks[t]) THEN Quiet ELSE @]
  /\ UNCHANGED state

Spawn(t, u) ==
  /\ state[t] = "run" /\ flying[t] = Quiet /\ state[u] = "new"
  /\ state' = [state EXCEPT ![u] = "run"]
  /\ UNCHANGED <<blocks, flying>>

Finish(t) ==
  /\ state[t] = "run" /\ blocks[t] = <<>>
  /\ state' = [state EXCEPT ![t] = "done"]
  /\ flying' = [flying EXCEPT ![t] = Quiet]
  /\ UNCHANGED blocks

Next == \E t \in Task : Enter(t) \/ Raise(t) \/ Leave(t) \/ Finish(t) \/ \E u \in Task : Spawn(t, u)

Spec == Init /\ [][Next]_vars
=============================================================================
