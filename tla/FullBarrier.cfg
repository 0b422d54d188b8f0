SPECIFICATION Spec
CONSTANTS
  N = 3
  Branch = 1
  Handlers = {h1, h2}
  MaxRounds = 3
  MaxCalls <- LastToFirst
SYMMETRY AnyThread
INVARIANTS
  GatherAgrees
  CompletedUnlessLate
  IncompleteCounted
  WakesWhenComplete
  UnpacksInOrder
PROPERTIES
  ImplementsCallBarrier
