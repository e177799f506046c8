----------------------------- MODULE MCShutdown -----------------------------
(* Instances of Shutdown for TLC. *)
EXTENDS Shutdown

CONSTANTS svc, a, b, c, x, y

\* Spare tasks and callables are interchangeable, unless one has no name.
Symmetric == Permutations(Tid \ {svc}) \cup (IF Nameless = {} THEN Permutations(Coro) ELSE {})
=============================================================================
