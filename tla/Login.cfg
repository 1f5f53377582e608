SPECIFICATION Spec
CONSTANTS
  k = k
  c1 = c1
  Key = {k}
  Code = {c1}
  Me = k
  TTL = 1
  SweepEvery = 1
  MaxDraws = 2
  MaxClock = 2
  MaxStops = 1
  MaxSweepFaults = 1
  MaxSockets = 3
  MaxAttempts = 2
  AutoReconnect = TRUE
  MaxCuts = 1
  LockedMode = TRUE
  MaxFrames = 1
INVARIANT OneOfEach
INVARIANT LossIsHandled
INVARIANT LoginAgreed
 
PROPERTY ClaimedInTime
CHECK_DEADLOCK FALSE
INVARIANT ConnectIsTimed
CONSTRAINT MCBudget
