SPECIFICATION Spec
CONSTANTS
  a = a
  b = b
  c = c
  sa = sa
  sb1 = sb1
  sb2 = sb2
  sc = sc
  NoSession = NoSession
  Addr = {a, b}
  Session = {sa, sb1}
  AddrOf <- MCAddrOf
  SendBufferSize = 2
  FlushBatchSize = 1
  MaxPerAgent = 1
  RateLimiting = TRUE
  Burst = 1
  Traffic <- MCTraffic
  FrameKinds = {"msg", "junk"}
  BlockPairs <- MCBlockPairs
  Unstable = {sb1}
  Expiry = TRUE
  MaxSent = 2
  MaxCrash = 1
  MaxFaults = 1
CONSTRAINT MCBudget
INVARIANT QueueDurable
 
CHECK_DEADLOCK FALSE
