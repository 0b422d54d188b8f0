SPECIFICATION Spec
CONSTANTS
  f1 = f1
  f2 = f2
  f3 = f3
  Machine = {0, 1}
  Vertex = {1}
  Owner <- MasterOn0
  ReplicasOf <- Everywhere
  Targets <- Itself
  FibersOf <- TwoAndOne
  Handlers = {h1}
  Queue = {q1}
  Start <- Once
  TimedTermination = TRUE
  MaxMessages = 3
SYMMETRY FibersAlike
INVARIANTS
  TypeOK
  NothingStranded
  ReplicasAgree
PROPERTIES
  ImplementsVertexExecution
