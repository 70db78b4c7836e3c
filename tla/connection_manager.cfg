SPECIFICATION Spec
CONSTANTS
  s1 = s1
  s2 = s2
  s3 = s3
  run1 = run1
  run2 = run2
  Sessions <- ThreeSessions
  Groups <- TwoGroups
  GroupOf <- TwoRuns
  Connections = {pg, my}
  Modes <- BothModes
  MaxClients = 3
INVARIANTS HeldClientsAreOpen MapsMatchClients NoIdleClients
PROPERTIES IdleClientsAreReaped ShutdownClosesClients
CHECK_DEADLOCK FALSE
