-------------------------- MODULE MCAsyncConsensus --------------------------
(* Instances of AsyncConsensus for TLC.                                    *)
EXTENDS AsyncConsensus

\* Machine 0 has exchanged one call with machine N-1 before the run: as after
\* loading a graph, its counters are not zero when it first sees the token.
GraphWasLoaded ==
  [p \in Proc |-> IF p \in {0, N-1} THEN [sent |-> 1, received |-> 1]
                                    ELSE [sent |-> 0, received |-> 0]]

\* At most one task per machine at the start of a run.
AtMostOneTask == [Proc -> 0 .. 1]

\* The first machine has at most one task at the start, the others none.
AtMostOneOnFirst == {q0 \in [Proc -> 0 .. 1] : \A p \in Proc \ {0} : q0[p] = 0}

=============================================================================
