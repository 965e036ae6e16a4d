SPECIFICATION Spec
CONSTANTS
  blank = blank
  draft = draft
  other = other
  Payloads = {blank, draft}
  Initial = blank
  MaxSafeInteger = 50
  Clock = {4}
  Tabs = {t1, t2}
  InitialRecords <- SharedRecords
  MaxActions = 4
SYMMETRY Symmetric
INVARIANTS
  
  SilentCloseIsSafe
  SavedIsTrue
CHECK_DEADLOCK FALSE
PROPERTIES
  GenerationGrows
  
  ImplementsRegister
