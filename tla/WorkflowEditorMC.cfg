SPECIFICATION FairSpec
CONSTANTS
  Nodes = {"post", "get", "search"}
  MappingIds = {"m1", "m2", "m3"}
  Outputs = {"id", "name"}
  Parameters = {"id", "body"}
  StepIds <- Ids
  Blank = ""
  Unquotable = {"a b"}
  Unsupported = {}
  Nothing = Nothing
  ResponseId = "id"
  PathId = "id"
  MockPairs <- Pairs
  BaseId <- Numbered
  TypedIds = {"", "read"}
  Loadable <- SomeDrafts
  Graphs <- SomeGraphs
  NoDraft = NoDraft
  NoArtifact = NoArtifact
  Failure = Failure
  NoCheck = NoCheck
  NoResult = NoResult
  NoRun = NoRun
  MaxSteps = 3
  MaxSelected = 3
  MaxObjects = 2
  MaxRequests = 2
  MaxRevision = 2
INVARIANTS
  OfferIsCurrent
  SelectionIsKept
  BusyMeansPending
  RunIsOfThis
PROPERTIES
  RequestsEnd
CHECK_DEADLOCK FALSE
