SPECIFICATION Spec
CONSTANTS
  a = a
  b = b
  c = c
  sa = sa
  sb1 = sb1
  sb2 = sb2
  sc = sc
  NoSession = NoSession
  Addr = {a, b}
  Session = {sa, sb1, sb2}
  AddrOf <- MCAddrOf
  SendBufferSize = 2
  FlushBatchSize = 1
  MaxPerAgent = 2
  RateLimiting = FALSE
  Burst = 1
  Traffic <- MCTraffic
  FrameKinds = {"msg"}
  BlockPairs = {}
  Unstable = {sb1, sb2}
  Expiry = FALSE
  MaxSent = 3
  MaxCrash = 0
  MaxFaults = 0
INVARIANT NeverPanics
CHECK_DEADLOCK FALSE
