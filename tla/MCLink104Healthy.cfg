CONSTANTS
  MODULUS = 5
  K = 2
  W = 2
  T1 = 3
  T2 = 2
  T3 = 4
  MaxSubmit <- MCMaxSubmitWrap
SPECIFICATION HealthySpec
INVARIANTS TypeOK 
PROPERTIES EventuallyDelivered
CHECK_DEADLOCK FALSE
