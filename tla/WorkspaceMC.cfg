SPECIFICATION Spec
CONSTANTS
  Operations = {"a", "b", "c"}
  MethodOf <- Methods
  TagsOf <- SomeTags
  Finds <- Terms
  Mentions <- Words
  Declared <- Link
  Candidates <- SomeCandidates
  MaxCanvas = 2
  MaxPreview = 2
  Entries = {"plain", "project"}
  Snapshots <- SomeSnapshots
  Projects <- SomeProjects
  Tags = {"", "Untagged"}
  Shown = {"low", "accepted"}
  MethodSets <- SomeMethods
  MaxLoads = 3
  MaxJobs = 2
  MaxGestures = 4
INVARIANTS
  CanvasIsTrue
  
PROPERTIES
  OpenStaysOpen
  SuggestionsAreAtHand
  CanvasComes
CHECK_DEADLOCK FALSE
