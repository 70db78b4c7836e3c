SPECIFICATION Spec
CONSTANTS
  Jobs <- SampleJobs
  MaxConcurrency = 2
  PollModes = {TRUE, FALSE}
INVARIANTS
  ConcurrencyBound
  ParentsWrittenFirst
  UpdatesAfterInserts
  TrackerCountsSuccesses
  LookupHashComplete
  SuccessMeansEverything
  CanceledMeansUser
PROPERTIES
  NoStartAfterCancel
  ImplementsSyncSchedule
  Termination
  ChildrenStop
