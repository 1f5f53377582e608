SPECIFICATION Spec
CONSTANTS
  Agent = {a, b}
  Ops = {"request", "approve"}
  File = FALSE
  MaxOps = 7
  MaxRestarts = 0
  MaxFaults = 0
INVARIANT OpenAgreement
INVARIANT ResponseFindsRecord
CHECK_DEADLOCK FALSE
