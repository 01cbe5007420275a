SPECIFICATION FairSpec
CONSTANTS
  MasterAddress = 1
  OutstationAddress = 1
  AckTimeout = 1
  MaxRetries = 1
  MaxAsdu <- MCOneAsdu
  MaxPoll = 1
  MaxReset = 0
  MaxRestart = 0
  MaxLoss = 0
  MaxForeign = 0
  MaxFault = 0
CHECK_DEADLOCK FALSE
PROPERTY QueueIsServed
