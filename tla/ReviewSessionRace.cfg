SPECIFICATION SessionSpec
CONSTANTS
  CandidateIds = {1, 2, 3, 4}
  Candidates <- SomeCandidates
  Mappings = {"m1", "m2", "m3"}
  Editable = {"m1", "m2"}
  Placed = {"ab"}
  Declared <- DeclaredLinks
  Baselines <- NoBaseline
  Files <- DatedFile
  MaxRevision = 100
  MaxFileEntries = 100
  MaxDrafts = 1
INVARIANTS
  ImportNeverKills
