SPECIFICATION Spec
CONSTANTS
  Vertex = {1, 2, 3}
  Edge <- Edges
  Machine = {0, 1}
  Hash <- HashOdd
  threshold = 1
  max_iterations = 3
  Modes <- Everything
  StartSets <- AllOrOne
  TimedTermination = FALSE
INVARIANTS
  MastersOnly
  MirrorsCurrent
  CachesExact
PROPERTIES
  ImplementsBulkSynchronous
\* Machines that hear of stop() at different times wait for each other for ever.
CHECK_DEADLOCK FALSE
