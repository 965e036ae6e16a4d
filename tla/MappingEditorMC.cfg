SPECIFICATION DialogSpec
CONSTANTS
  Schemas <- SomeSchemas
  Absent = Absent
  Apis <- SomeApis
  Secrets = {"token"}
  Authorizations = {"Authorization"}
  Texts = {"0", "1", "9007199254740993"}
  Numerals = {"0", "1", "9007199254740993"}
  Indices = {"0", "1"}
  Templates = {"", "fixed", "with value"}
  Proper = {"with value"}
  MaxTokens = 4
  Instances <- Some
INVARIANTS
  EditsAreGuaranteed

  
