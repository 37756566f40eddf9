SPECIFICATION CheckpointSpec
CONSTANTS
  None = None
  Wraps <- MCWraps
  Counts = {1, 2, 3}
  Planners = {"even", "boundary", "boundary_largest", "owner_tail", "load_balanced",
              "expert", "chunk", "ordered", "blocks", "rows",
              "balanced", "min_comm", "max_balance", "muon_full_matrix",
              "zero_copy_friendly", "muon_zero_copy", "muon_shard_aware", "debug",
              "round_robin", "owner_tail_rotated", "role_greedy", "scope_greedy", "cost_aware"}
  Hows <- MCHows
  Works <- MCWorks
  Limits = {0, 1}
  MaxVersion = 1
INVARIANTS
  ExchangeTypeOK
  EveryElementIsKeptOnce
  BalancedOwnersDifferByOneRole
  MuonPlansKeepParametersWhole
  GatheredParametersAreWhole
  ReducedShardsSumTheirElements
  RanksIssueTheSameCollectives
  LeasedWorkspacesAreReturned
  NoRankWaitsForever
  LoadedStateIsTheSaved
