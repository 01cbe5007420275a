CONSTANTS
  MODULUS = 4
  K = 2
  W = 2
  T1 = 2
  T2 = 1
  T3 = 3
  MaxSubmit = 6
SPECIFICATION Spec
INVARIANTS TypeOK SendWindow SentInOrder AcksByW CleanStopDrained
CHECK_DEADLOCK FALSE
