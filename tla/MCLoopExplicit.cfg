SPECIFICATION FairSpec
CONSTANTS
  None = None
  p1 = p1
  p2 = p2
  Root = None
  UnitCount = 3
  Params <- MCParams
  Owned <- MCOwned
  MicroCount = 3
  GradPath = "flat"
  Reshard <- FirstReshards
  Finalize = FALSE
  Prefetch = TRUE
  Timing = "post_reshard"
  MaxForwardPrefetch = 1
  MaxBackwardPrefetch = 1
  MaxActive = 2
  MaxPendingReduces = 1
  Forwards <- ChainOrSkip
  DeferredForwards <- NoPrograms
  Reaches <- FirstPartly
  Scopes <- AllUnits
  MaxContexts = 1
  ContextUse = "one_pass"
  EvalForwards = FALSE
  SyncedAccumulation = FALSE
  StepAfterDeferred = FALSE
  Abandon = FALSE
  ZeroModes = {TRUE, FALSE}
CHECK_DEADLOCK FALSE
INVARIANTS
  RunsWithoutError
PROPERTIES
  AccumulatesGradients
  CommunicationEnds
