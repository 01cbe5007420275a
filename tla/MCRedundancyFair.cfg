CONSTANTS
  s1 = s1
  s2 = s2
  s3 = s3
  a = a
  b = b
  None = None
  Session = {s1, s2}
  Addr = {a, b}
  AddrOf <- MCAddrOf
  Allowed = {s1, s2}
  MaxPeers = 2
  EvtCap = 1
  InboxCap = 1
  FileProvider = FALSE
SPECIFICATION FairSpec
PROPERTIES OneTransferAgain
CHECK_DEADLOCK FALSE
