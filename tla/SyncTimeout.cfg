SPECIFICATION Spec
CONSTANTS
  Vertex = {1, 2, 3}
  Edge <- Edges
  Machine = {0, 1}
  Hash <- HashOdd
  threshold = 1
  max_iterations = 2
  Modes <- SimpleOnly
  StartSets <- All
  TimedTermination = TRUE
INVARIANTS
  SameBarrier
