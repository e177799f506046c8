---------------------------- MODULE MCEventQueue ----------------------------
(* Instances of EventQueue for TLC. *)
EXTENDS EventQueue

CONSTANTS f, g, u, v, k1, k2

\* User tasks and keys are interchangeable, handlers unless one is raw.
Symmetric ==
  Permutations(User) \cup Permutations(Key)
    \cup (IF RawHandler = {} THEN Permutations(Handler) ELSE {})
=============================================================================
