SPECIFICATION FairSpec
CONSTANTS
  N = 2
  NCpus = 2
  Handlers = {h1}
  PriorCalls <- GraphWasLoaded
  InitialTasks <- AtMostOneTask
  MaxTasks = 1
  MaxRuns = 1
  Wakers = {"cancel", "cancel_one"}
  CpuHint = 0
INVARIANTS
  TypeOK
  NumActiveCountsAwake
  OneToken
  NoLostWakeup
PROPERTIES
  EveryRunEnds
  ImplementsTerminationDetection
