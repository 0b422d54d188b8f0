SPECIFICATION FairSpec
CONSTANTS
  Worker = {w1, w2}
  Waker = {k1}
  Main = main
  Fiber = {f1, f2}
  Null = null
  MaxWaits = 1
INVARIANTS
  NoWorkerSleepsOverWork
  WokenOnlyWhenDescheduled
  NoUseAfterDelete
PROPERTIES
  ImplementsFiberScheduling
  EverythingEnds
\* Everything ends.
CHECK_DEADLOCK FALSE
