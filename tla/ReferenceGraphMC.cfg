SPECIFICATION Spec
CONSTANTS
  Uris = {"a", "b", "c", "entry", "alias"}
  Docs = {"a", "b", "c"}
  Bytes <- Length
  Unread = Unread
  Budgets = {"probe", "walk"}
  MaxDocuments = 3
  MaxTotalBytes = 4
  MaxReferenceDepth = 1
  Entry = "entry"
  Invalid = Invalid
  Worlds <- Files
INVARIANTS
  CompleteWhenClean
  NothingSilent
  ResolvedIsRight
  TablesAgree
CHECK_DEADLOCK FALSE
