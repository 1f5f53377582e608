SPECIFICATION FairSpec
CONSTANTS
  Msg = {m1, m2}
  Level = {"full_manual", "notify", "auto_respond", "full_auto"}
  Gates = {0, 1}
  Answer = {"allow", "deny", "escalate", "error"}
  Ops = {"autonomy", "mute", "passthrough"}
  FloodThreshold = 2
  FloodWindow = 2
  ViolationThreshold = 2
  ViolationWindow = 2
  BoundaryProbeThreshold = 2
  BoundaryProbeWindow = 2
  MaxTime = 0
  MaxOps = 1
  MaxCrashes = 1
  File = TRUE
PROPERTY HandlingEnds
CHECK_DEADLOCK FALSE
