SPECIFICATION FairSpec
CONSTANTS
  a = a
  b = b
  m1 = m1
  m2 = m2
  Agent = {a, b}
  Msg = {m1, m2}
  From <- MCFrom
  To <- MCTo
  Reader = {b}
  MaxEnds = 1
  MaxFaults = 1
INVARIANT DeliveredIsStored
 
INVARIANT NothingVanishes
INVARIANT FlushedIsStored
 
PROPERTY FlushWaitEnds
CHECK_DEADLOCK FALSE
