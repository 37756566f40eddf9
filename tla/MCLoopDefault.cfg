SPECIFICATION Spec
CONSTANTS
  None = None
  p1 = p1
  p2 = p2
  Root = None
  UnitCount = 3
  Params <- MCParams
  Owned <- MCOwned
  MicroCount = 3
  GradPath = "copy_in"
  Reshard <- AllButLast
  Finalize = TRUE
  Prefetch = TRUE
  Timing = "pre_backward"
  MaxForwardPrefetch = 1
  MaxBackwardPrefetch = 1
  MaxActive = 2
  MaxPendingReduces = 1
  Forwards <- Chains
  DeferredForwards <- NoPrograms
  Reaches <- FullReach
  Scopes <- AllUnits
  MaxContexts = 2
  ContextUse = "any"
  EvalForwards = TRUE
  SyncedAccumulation = TRUE
  StepAfterDeferred = FALSE
  Abandon = TRUE
  ZeroModes = {TRUE, FALSE}
CHECK_DEADLOCK FALSE
INVARIANTS
  TypeOK
  RunsWithoutError
  ParametersGatheredWhenUsed
  ReducesTracked
  PrefetchWithinBudget
  ReducedGroupsReshard
PROPERTIES
  PrefetchKeepsMemoryCap
  AccumulatesGradients
