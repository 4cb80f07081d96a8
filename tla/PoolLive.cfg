\* One slot, two dispatchers, one replacement, Destroy at any time: queued calls
\* are taken, Destroy returns and has run what it was notified of.
SPECIFICATION FairSpec
CONSTANTS
  d1 = d1
  d2 = d2
  Dispatchers <- TwoDispatchers
  NumThreads = 1
  ItemPerAlloc = 2
  MaxItems = 2
  MaxCalls = 2
  MaxTids = 2
  MaxSnaps = 1
  MaxDestroys = 1
  PipeCap = 2
  TimersOnly = FALSE
INVARIANTS TypeOK DrainedOnDestroy
PROPERTIES CallsTaken DestroyReturns
CHECK_DEADLOCK FALSE
