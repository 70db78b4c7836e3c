SPECIFICATION Spec
CONSTANTS
  Jobs <- ColumnJobs
  MaxConcurrency = 2
  PollModes = {FALSE}
INVARIANTS
  ConfigDependenciesSatisfied
