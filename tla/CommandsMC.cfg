SPECIFICATION Spec
CONSTANTS
  Processes = {"p1", "p2"}
  Nobody = "nobody"
  Words = {"api", "set", "plan", "path", "yaml", "json", "http:", "0", "1", "0.5", "2", "99999"}
  Urls = {"http:"}
  Number <- Numbers
  NaN = NaN
  Lines <- EveryLine
INVARIANTS
  
  TornIsKnown
  SuccessDelivers
  ProcessesAreSound
PROPERTIES
  ImplementsArtifact
CHECK_DEADLOCK FALSE
