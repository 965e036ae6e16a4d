SPECIFICATION Spec
CONSTANTS
  Bad = Bad
  Absent = Absent
  Lower <- LowerNames
  SecretKeys = {}
  Inputs <- GoesElsewhere
INVARIANTS
  PreserveOnlyIsReported
CHECK_DEADLOCK FALSE
