SPECIFICATION Spec
CONSTANTS
  Bad = Bad
  Absent = Absent
  Item = Item
  Lower <- LowerNames
  Tokens <- TokenNames
  SecretKeys = {"token"}
  Secrets = {"token", "authorization"}
  SecretLike = {"token", "authorization"}
  Segments <- PathSegments
  Singular <- SingularWords
  Bearers = {"bearerAuth"}
  Inputs <- AllInputs
INVARIANTS
  NothingDeclaredIsLost
  SuggestionsAreSound
  CutsAreSaid
CHECK_DEADLOCK FALSE
