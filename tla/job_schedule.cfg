SPECIFICATION Spec
CONSTANTS
  None = None
  Calls = {c1, c2}
  Values <- TwoValues
  Runs <- OneRun
  Requested <- Asked
  MaxFaults = 1
INVARIANTS RowAndScheduleAgree OrphansHaveCause HalfJobsHaveCause
PROPERTIES NoRunAfterDelete DeleteCompletes
