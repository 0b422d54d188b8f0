---------------------- MODULE MCDistributedChandyMisra ----------------------
(* Instances of DistributedChandyMisra for TLC.                            *)
EXTENDS DistributedChandyMisra

Edge(k, s, t) == [on |-> k, source |-> s, target |-> t]

\* One machine and three neighbours.
Triangle == {Edge(0, 1, 2), Edge(0, 2, 3), Edge(0, 3, 1)}
\* Two machines, and an edge between the same two vertices on each, or one edge
\* where no master is.
CutPair == {Edge(0, 1, 2), Edge(1, 2, 1)}
Away == {Edge(1, 1, 2)}

AllHere == [v \in Vertex |-> 0]
Spread == [v \in Vertex |-> IF v = 1 THEN 0 ELSE 1]
\* How often each vertex eats.
Once  == [v \in Vertex |-> 1]
Twice == [v \in Vertex |-> 2]

=============================================================================
