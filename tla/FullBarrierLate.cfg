SPECIFICATION Spec
CONSTANTS
  N = 2
  Branch = 2
  Handlers = {h1}
  MaxRounds = 2
  MaxCalls <- LastToFirst
INVARIANTS
  CompletedBeforeReturn
