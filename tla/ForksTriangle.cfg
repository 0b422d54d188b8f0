SPECIFICATION FairSpec
CONSTANTS
  Machine = {0}
  Vertex = {1, 2, 3}
  Owner <- AllHere
  Edges <- Triangle
  Workers = {w1, w2}
  Handlers = {h1}
  Client = "threads"
  MaxMeals <- Twice
INVARIANTS
  TypeOK
  ForksCounted
  ConsistentAtRest
PROPERTIES
  ImplementsExclusion
  HungryEats
\* A vertex that waits for ever violates HungryEats.
CHECK_DEADLOCK FALSE
