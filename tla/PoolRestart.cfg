\* Two dispatchers race on two slots; a noted thread may be long replaced when
\* RestartThread is called with it.
SPECIFICATION Spec
CONSTANTS
  d1 = d1
  d2 = d2
  Dispatchers <- TwoDispatchers
  NumThreads = 2
  ItemPerAlloc = 2
  MaxItems = 4
  MaxCalls = 2
  MaxTids = 4
  MaxSnaps = 2
  MaxDestroys = 0
  PipeCap = 2
  TimersOnly = FALSE
SYMMETRY DispatcherSymmetry
INVARIANTS ItemHeldOnce QueueMatchesPipe NoNullPop
PROPERTIES CancelNamesRunningCall ImplementsCallService
CHECK_DEADLOCK FALSE
