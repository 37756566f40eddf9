SPECIFICATION Spec
CONSTANTS
  r1 = r1
  r2 = r2
  Ranks = {r1, r2}
  UnitCount = 3
  Policies <- MCPolicies
INVARIANTS
  TypeOK
  PrefetchesNeverOverlapReduces
PROPERTIES
  ImplementsCollectiveOrder
  EnteredCollectivesRun
  EveryRankKeepsStepping
