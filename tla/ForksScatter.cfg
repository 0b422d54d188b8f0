SPECIFICATION Spec
CONSTANTS
  Machine = {0, 1}
  Vertex = {1, 2}
  Owner <- Spread
  Edges <- CutPair
  Workers = {w1}
  Handlers = {h1}
  Client = "replica"
  MaxMeals <- Once
INVARIANTS
  StopsOnlyTheEating
