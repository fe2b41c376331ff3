CONSTANTS
  o1 = o1
  o2 = o2
  o3 = o3
  o4 = o4
  b1 = b1
  b2 = b2
  Boards = {b1, b2}
  Owners = {o1, o2, o3, o4}
  BoardOf <- Board
  HolderOf <- Agent
  Regions <- Paths
  Roles = {"executor", "reviewer"}
  Writers = {"executor"}
  RegionOf <- Declared
  StepOf <- Step
  JobsOf <- TwoTeams
  MaxParallel = 4
  Limit = 2
  None = None
SPECIFICATION FairSpec
INVARIANTS WorkersApart RegionsKept
PROPERTIES BatchEnds
CHECK_DEADLOCK FALSE
