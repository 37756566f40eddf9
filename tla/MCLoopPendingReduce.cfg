SPECIFICATION Spec
CONSTANTS
  None = None
  p1 = p1
  p2 = p2
  Root = 2
  UnitCount = 2
  Params <- MCParams
  Owned <- MCOwned
  MicroCount = 2
  GradPath = "copy_in"
  Reshard <- AllReshard
  Finalize = TRUE
  Prefetch = TRUE
  Timing = "pre_backward"
  MaxForwardPrefetch = 1
  MaxBackwardPrefetch = 1
  MaxActive = 2
  MaxPendingReduces = 1
  Forwards <- NestedOnly
  DeferredForwards <- NoPrograms
  Reaches <- FullReach
  Scopes <- AllUnits
  MaxContexts = 1
  ContextUse = "any"
  EvalForwards = TRUE
  SyncedAccumulation = TRUE
  StepAfterDeferred = FALSE
  Abandon = TRUE
  ZeroModes = {TRUE, FALSE}
CHECK_DEADLOCK FALSE
INVARIANTS
  NoGatherOverPendingReduce
