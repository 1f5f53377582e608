SPECIFICATION Spec
CONSTANTS
  t1 = t1
  t2 = t2
  t3 = t3
  Tool = {t1, t2, t3}
  MaxAlive = 2
  MaxClock = 2
  MaxId = 3
  MaxFaults = 1
CONSTRAINT MCBudget
SYMMETRY MCSymmetry
INVARIANT SavedStays
 
INVARIANT OneIdentity
INVARIANT ChainVerifies
INVARIANT ChangeIsDetected
CHECK_DEADLOCK FALSE
