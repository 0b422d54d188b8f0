SPECIFICATION Spec
CONSTANTS
  N = 3
  NCpus = 1
  Handlers = {h1}
  PriorCalls <- GraphWasLoaded
  InitialTasks <- AtMostOneOnFirst
  MaxTasks = 1
  MaxRuns = 2
  Wakers = {"cancel"}
  CpuHint = 0
INVARIANTS
  DoneMeansNoWork
PROPERTIES
  ImplementsTerminationDetection
