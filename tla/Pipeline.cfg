SPECIFICATION Spec
CONSTANTS
  Msg = {m1, m2}
  Level = {"notify", "auto_respond"}
  Gates = {0, 1}
  Answer = {"allow", "error"}
  Ops = {"autonomy", "permissions", "approve", "renew", "activate", "revoke"}
  FloodThreshold = 2
  FloodWindow = 1
  ViolationThreshold = 2
  ViolationWindow = 1
  BoundaryProbeThreshold = 2
  BoundaryProbeWindow = 2
  MaxTime = 1
  MaxOps = 2
  MaxCrashes = 1
  File = TRUE
SYMMETRY MCSymmetry
CONSTRAINT MCBudget
INVARIANT TypeOK
INVARIANT TrippedIsManual
INVARIANT FloodBound
 
INVARIANT ConfirmedIsSettled
PROPERTY DowngradeHolds
PROPERTY ApprovalStands
CHECK_DEADLOCK FALSE
