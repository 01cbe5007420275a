CONSTANTS
  MODULUS = 8
  K = 2
  W = 2
  T1 = 2
  T2 = 1
  T3 = 3
  MaxSubmit <- MCMaxSubmit
SPECIFICATION Spec
INVARIANTS AckedWasDelivered NoFalseProtocolError CleanStopDeliveredAll
PROPERTIES ReliableDelivery
CHECK_DEADLOCK FALSE
