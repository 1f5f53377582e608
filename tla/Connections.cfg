SPECIFICATION Spec
CONSTANTS
  Agent = {a, b}
  Ops = {"request", "approve", "reject", "block", "unblock", "revoke", "expire"}
  File = TRUE
  MaxOps = 3
  MaxRestarts = 1
  MaxFaults = 1
SYMMETRY MCSymmetry
CONSTRAINT MCBudget
INVARIANT TypeOK
INVARIANT ConsentBehindActive
CHECK_DEADLOCK FALSE
