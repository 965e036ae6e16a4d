SPECIFICATION Spec
CONSTANTS
  Bad = Bad
  Absent = Absent
  Lower <- LowerNames
  SecretKeys = {}
  Inputs <- AllInputs
INVARIANTS
  OrderIsRight
  ProblemsAreReported
  GraphsAreWhole
PROPERTIES
  ComesToAnEnd
CHECK_DEADLOCK FALSE
