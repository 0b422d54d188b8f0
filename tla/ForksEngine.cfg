SPECIFICATION Spec
CONSTANTS
  Machine = {0, 1}
  Vertex = {1, 2}
  Owner <- AllHere
  Edges <- Away
  Workers = {w1}
  Handlers = {h1, h2}
  Client = "replica"
  MaxMeals <- Twice
INVARIANTS
  NeighboursExclude
  ReadyHaveForks
  CounterCovers
  StopsOnlyTheServed
PROPERTIES
  ImplementsExclusion
\* A mirror that is made to eat too late can leave a vertex waiting for ever.
CHECK_DEADLOCK FALSE
