---------------------------- MODULE MCAsyncEngine ----------------------------
(* Instances of AsyncEngine for TLC.                                       *)
EXTENDS AsyncEngine, TLC

CONSTANTS f1, f2, f3

\* One vertex, with its master on machine 0 and a mirror on machine 1, that
\* signals itself from both; it has been signalled once.
MasterOn0 == [v \in Vertex |-> 0]
Everywhere == [v \in Vertex |-> Machine]
Itself == [v \in Vertex |-> {v}]
Once == <<1>>

\* Two fibers where the program runs, one where the mirror is.
TwoAndOne == [k \in Machine |-> IF k = 0 THEN {f1, f2} ELSE {f3}]
FibersAlike == Permutations({f1, f2})

=============================================================================
