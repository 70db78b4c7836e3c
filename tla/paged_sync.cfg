SPECIFICATION Spec
CONSTANTS
  Null = Null
  Rows <- FiveRows
  Columns = 2
  Tables <- SampleTables
  Limit = 2
  Exact = 4
  NullsFirst = FALSE
  MaxAttempts = 2
  MaxChanges = 1
INVARIANTS CopiesEveryRow OldRowsHaveCause ConflictsHaveCause
PROPERTY Termination
