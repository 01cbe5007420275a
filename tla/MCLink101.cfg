SPECIFICATION Spec
CONSTANTS
  MasterAddress = 1
  OutstationAddress = 1
  AckTimeout = 1
  MaxRetries = 1
  MaxAsdu <- MCMaxAsdu
  MaxPoll = 1
  MaxReset = 1
  MaxRestart = 1
  MaxLoss = 2
  MaxForeign = 1
  MaxFault = 2
CHECK_DEADLOCK FALSE
INVARIANTS
  TypeOK
  AtMostOnceInOrder
  
  FailsOnlyAfterRetries
  
