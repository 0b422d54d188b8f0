---------------------------- MODULE GasPrograms ----------------------------
(***************************************************************************)
(* The vertex programs that the synchronous engine runs, as far as it can  *)
(* tell them apart: gather_edges(), gather(), apply(), scatter_edges() and *)
(* scatter() of a program written for the engine's interface               *)
(* (vertex_program/ivertex_program.hpp).                                   *)
(*                                                                         *)
(* The data of a vertex counts its applies and keeps what the last one was *)
(* given.  gather() along an edge contributes the count at its other end,  *)
(* and a sum of contributions is a vector with a component per edge, so    *)
(* that no contribution can stand for another.  A message carries the edge *)
(* it was sent along.                                                      *)
(***************************************************************************)
EXTENDS Integers

CONSTANTS Vertex, Edge      \* edges are pairs <<source, target>>

ASSUME EdgeAssumption == Edge \subseteq {e \in Vertex \X Vertex : e[1] # e[2]}

\* What a program does:
\*   gather, scatter  the edges it gathers from and scatters along
\*   lazy             does not gather when it is signalled from outside
\*   cache            "no", or how scatter keeps its neighbours' caches right
\*   plain            signals without a message
\*   by_id            signals by vertex id
\*   stops            may call context.stop() in apply
\* and the engine option sched_allv.
Direction == SUBSET {"in", "out"}
Mode == [gather : Direction, scatter : Direction, lazy : BOOLEAN,
         cache : {"no", "delta", "clear"}, plain : BOOLEAN, by_id : BOOLEAN,
         stops : BOOLEAN, sched_allv : BOOLEAN]

Start == <<>>                \* the message of signal() before the start
Message == Edge \cup {Start}

Along(v, direction) ==
  {e \in Edge : \/ "in" \in direction /\ e[2] = v
                \/ "out" \in direction /\ e[1] = v}
Other(e, v) == IF e[1] = v THEN e[2] ELSE e[1]

Zero == [e \in Edge |-> 0]
Plus(a, b) == [e \in Edge |-> a[e] + b[e]]

\* A program: the messages init() was given, and whether scatter() signals.
DefaultProgram == [message |-> {}, signals |-> FALSE]
Program == [message : SUBSET Message, signals : BOOLEAN]

gather_edges(mode, program) ==
  IF mode.lazy /\ Start \in program.message THEN {} ELSE mode.gather

\* A program whose neighbours cache must tell them what has changed.
scatter_edges(mode, program) ==
  IF program.signals \/ mode.cache # "no" THEN mode.scatter ELSE {}

InitialData == [applies |-> 1, message |-> {}, total |-> Zero]
Applied(d, message, total) ==
  [applies |-> d.applies + 1, message |-> message, total |-> total]

=============================================================================
