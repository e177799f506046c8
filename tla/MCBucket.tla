------------------------------ MODULE MCBucket ------------------------------
(* Instances of Bucket: the tasks and keys are interchangeable. *)
EXTENDS Bucket, TLC

Symmetry == Permutations(Task)
=============================================================================
