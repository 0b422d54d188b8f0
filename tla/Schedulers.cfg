SPECIFICATION FairSpec
CONSTANTS
  Kinds = {"fifo", "priority", "queued_fifo", "sweep"}
  num_vertices = 5
  ncpus = 2
  multi = 1
  sub_queue_size = 1
  min_priority = 1
  randomizer = 2
  nfibers = 2
  Handlers = {h1}
  Signallable = {1, 2}
  MaxSignals = 3
INVARIANTS
  QueuedOnce
  IdleMeansEmpty
PROPERTIES
  EverySignalTaken
\* The signals come to an end.
CHECK_DEADLOCK FALSE
