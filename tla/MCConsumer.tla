----------------------------- MODULE MCConsumer -----------------------------
(* Model values and configurations for the instances of Consumer that TLC checks. *)
EXTENDS Consumer, TLC

CONSTANTS c1, c2, m1, m2, Half

\* The consumers are interchangeable, and so are messages.
Symmetric == Permutations(Con) \cup Permutations(Msg)

Of(half, subject) == [half |-> half, subject |-> subject]
OneSubject == [m \in Msg |-> "a.b"]

\* Instances of one version of a service, and the durable consumers they may find.
Same == [c \in Con |-> Of(Half, "a.b")]
Fresh == {None}
AnyLeft == {None, Of(Half, "a.b"), Of(Half, "a.c")}

\* Two subjects with one durable name, and two versions that differ in ack_wait.
TwoSubjects == [c \in Con |-> IF c = c1 THEN Of(Half, "a.b") ELSE Of(Half, "a_b")]
TwoOn == [m \in Msg |-> IF m = m1 THEN "a.b" ELSE "a_b"]
=============================================================================
