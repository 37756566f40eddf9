SPECIFICATION Spec
CONSTANTS
  r1 = r1
  r2 = r2
  Ranks = {r1, r2}
  UnitCount = 3
  Policies <- CappedPolicies
CHECK_DEADLOCK FALSE
INVARIANTS
  RanksAgreeOnOrder
