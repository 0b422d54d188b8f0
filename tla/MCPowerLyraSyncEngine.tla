----------------------- MODULE MCPowerLyraSyncEngine -----------------------
(* Instances of PowerLyraSyncEngine for TLC.                               *)
EXTENDS PowerLyraSyncEngine

\* Vertex 1 has two in-edges and is HIGH with a threshold of 1.  Machine 0 has
\* the edges 3 -> 1 and 2 -> 3, machine 1 has 2 -> 1 and 1 -> 2.
Edges == {<<2, 1>>, <<3, 1>>, <<1, 2>>, <<2, 3>>}
HashOdd == [v \in Vertex |-> IF v = 2 THEN 1 ELSE 0]

Simple == [gather |-> {"in"}, scatter |-> {"out"}, lazy |-> FALSE, cache |-> "no",
           plain |-> FALSE, by_id |-> FALSE, stops |-> FALSE, sched_allv |-> FALSE]
Delta == [Simple EXCEPT !.cache = "delta"]
ById == [Simple EXCEPT !.by_id = TRUE]
Everything == {Simple, Delta, ById,
  [Delta EXCEPT !.sched_allv = TRUE, !.plain = TRUE],
  [Simple EXCEPT !.gather = {"in", "out"}, !.scatter = {"in", "out"}, !.cache = "clear",
                 !.stops = TRUE],
  [Simple EXCEPT !.gather = {"out"}, !.scatter = {"in"}, !.lazy = TRUE]}
SimpleOnly == {Simple}

All == {Vertex}
AllOrOne == {Vertex, {1}}
=============================================================================
