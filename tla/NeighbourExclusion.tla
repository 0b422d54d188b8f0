------------------------- MODULE NeighbourExclusion -------------------------
(***************************************************************************)
(* What the distributed locks promise the engine, without forks, replicas  *)
(* or messages: "adjacent vertices are never executed simultaneously".     *)
(***************************************************************************)
EXTENDS Naturals

CONSTANTS Vertex,        \* the vertices of the graph
          Neighbours     \* Neighbours[v]: the vertices v shares an edge with

VARIABLE client          \* the program of each vertex

TypeOK == client \in [Vertex -> {"thinking", "hungry", "eating", "stopping"}]

Init == client = [v \in Vertex |-> "thinking"]

GetHungry(v) ==
  client[v] = "thinking" /\ client' = [client EXCEPT ![v] = "hungry"]

Eat(v) ==
  /\ client[v] = "hungry"
  /\ \A w \in Neighbours[v] : client[w] # "eating"
  /\ client' = [client EXCEPT ![v] = "eating"]

Stop(v) ==
  client[v] = "eating" /\ client' = [client EXCEPT ![v] = "stopping"]

Rest(v) ==
  client[v] = "stopping" /\ client' = [client EXCEPT ![v] = "thinking"]

Next == \E v \in Vertex : GetHungry(v) \/ Eat(v) \/ Stop(v) \/ Rest(v)

Spec == Init /\ [][Next]_client

\* Two vertices that share an edge never execute at the same time.
Exclusion ==
  \A v \in Vertex : \A w \in Neighbours[v] :
    ~(client[v] = "eating" /\ client[w] = "eating")

=============================================================================
