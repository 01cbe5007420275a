SPECIFICATION FairSpec
CONSTANTS
  Ioas = {1, 2}
  Kind <- MCKind
  Controls <- MCControls
  SetValues <- MCSetValues
  SetQualities <- MCSetQualities
  Schedules = {"None", "RandomWalk", "StepUp"}
  Policies <- MCPolicies
  Budgets <- MCBudgets
  MaxQueue = 3
  Requests = {1, 2}
  IntKeys = {"general", "MeNc"}
  CmdKeys = {"C_SC 100"}
  CollectorCap = 3
INVARIANTS
  TypeOK NoStrayEntry SnapshotUnbroken CompleteWhenAlone CacheWithinDeadband
 
CHECK_DEADLOCK FALSE
