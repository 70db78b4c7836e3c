SPECIFICATION Spec
CONSTANTS
  Jobs <- SmallJobs
  MaxConcurrency = 2
  PollModes = {TRUE}
INVARIANTS
  InvalidAccountMeansBadCheck
