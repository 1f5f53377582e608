SPECIFICATION FairSpec
CONSTANTS
  a = a
  b = b
  c = c
  sa = sa
  sb1 = sb1
  sb2 = sb2
  sc = sc
  NoSession = NoSession
  Addr = {a, b}
  Session = {sa, sb1}
  AddrOf <- MCAddrOf
  SendBufferSize = 2
  FlushBatchSize = 1
  MaxPerAgent = 2
  RateLimiting = FALSE
  Burst = 1
  Traffic <- MCTraffic
  FrameKinds = {"msg"}
  BlockPairs = {}
  Unstable = {sb1}
  Expiry = FALSE
  MaxSent = 3
  MaxCrash = 0
  MaxFaults = 0
PROPERTY FlushingEnds
PROPERTY DeadSessionFreed
PROPERTY BacklogFlushed
CHECK_DEADLOCK FALSE
