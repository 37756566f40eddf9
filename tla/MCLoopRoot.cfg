SPECIFICATION FairSpec
CONSTANTS
  None = None
  p1 = p1
  p2 = p2
  Root = 3
  UnitCount = 3
  Params <- MCParams
  Owned <- MCOwned
  MicroCount = 4
  GradPath = "zero_copy"
  Reshard <- AllReshard
  Finalize = TRUE
  Prefetch = TRUE
  Timing = "post_reshard"
  MaxForwardPrefetch = 2
  MaxBackwardPrefetch = 1
  MaxActive = 3
  MaxPendingReduces = 2
  Forwards <- NestedOnly
  DeferredForwards <- NestedFirstOnly
  Reaches <- FirstPartly
  Scopes <- AllUnits
  MaxContexts = 2
  ContextUse = "one_pass"
  EvalForwards = TRUE
  SyncedAccumulation = FALSE
  StepAfterDeferred = FALSE
  Abandon = FALSE
  ZeroModes = {TRUE, FALSE}
CHECK_DEADLOCK FALSE
INVARIANTS
  ParametersGatheredWhenUsed
  ReducesTracked
PROPERTIES
  GathersAreWaitedFor
  OnlyLeavingNoSyncRaises
  AccumulatesGradients
