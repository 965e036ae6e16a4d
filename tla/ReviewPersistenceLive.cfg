SPECIFICATION FairSpec
CONSTANTS
  blank = blank
  draft = draft
  other = other
  Payloads = {blank, draft, other}
  Initial = blank
  MaxSafeInteger = 50
  Clock = {1, 4}
  Tabs = {t1}
  InitialRecords <- EarlierRecords
  MaxActions = 5
PROPERTIES
  
  TasksEnd
CHECK_DEADLOCK FALSE
