CONSTANTS
  s1 = s1
  s2 = s2
  s3 = s3
  a = a
  b = b
  None = None
  Session = {s1, s2, s3}
  Addr = {a, b}
  AddrOf <- MCAddrOf
  Allowed = {s2, s3}
  MaxPeers = 2
  EvtCap = 1
  InboxCap = 1
  FileProvider = FALSE
SPECIFICATION Spec
INVARIANTS TypeOK OnlyAllowedHeard SlotSettles
CHECK_DEADLOCK FALSE
