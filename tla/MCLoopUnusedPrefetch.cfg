SPECIFICATION Spec
CONSTANTS
  None = None
  p1 = p1
  p2 = p2
  Root = None
  UnitCount = 2
  Params <- MCParams
  Owned <- MCOwned
  MicroCount = 1
  GradPath = "copy_in"
  Reshard <- AllReshard
  Finalize = TRUE
  Prefetch = TRUE
  Timing = "pre_backward"
  MaxForwardPrefetch = 1
  MaxBackwardPrefetch = 1
  MaxActive = 2
  MaxPendingReduces = 1
  Forwards <- ChainOrSkip
  DeferredForwards <- NoPrograms
  Reaches <- FullReach
  Scopes <- AllUnits
  MaxContexts = 0
  ContextUse = "any"
  EvalForwards = FALSE
  SyncedAccumulation = TRUE
  StepAfterDeferred = FALSE
  Abandon = TRUE
  ZeroModes = {TRUE, FALSE}
CHECK_DEADLOCK FALSE
INVARIANTS
  UnusedPrefetchNeverFailsStep
