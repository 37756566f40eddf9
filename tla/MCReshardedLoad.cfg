SPECIFICATION CheckpointSpec
CONSTANTS
  None = None
  Wraps <- MCWraps
  Counts = {1, 2}
  Planners = {"chunk"}
  Hows <- MCHows
  Works <- MCWorks
  Limits = {1}
  MaxVersion = 1
INVARIANT ReshardedLoadRestoresParameters
