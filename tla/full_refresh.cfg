SPECIFICATION Spec
CONSTANTS
  Null = Null
  Rows <- FiveRows
  Columns = 2
  Tables <- Truncated
  Limit = 2
  Exact = 4
  NullsFirst = FALSE
  MaxAttempts = 2
  MaxChanges = 0
INVARIANT FullRefresh
