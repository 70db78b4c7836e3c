SPECIFICATION Spec
CONSTANTS
  None = None
  Dials = {d1, d2}
  Clients = {c1, c2}
INVARIANT ClientIsOwned
PROPERTY NothingWaitsForEver
