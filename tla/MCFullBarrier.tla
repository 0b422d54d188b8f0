--------------------------- MODULE MCFullBarrier ---------------------------
(* Instances of FullBarrier for TLC.                                       *)
EXTENDS FullBarrier, TLC

\* The last machine calls the first twice.
LastToFirst == [p \in Proc |-> [q \in Proc |-> IF p = N-1 /\ q = 0 THEN 2 ELSE 0]]

\* The threads of a machine are alike.
AnyThread == Permutations(Handlers)

=============================================================================
