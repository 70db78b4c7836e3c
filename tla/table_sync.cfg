SPECIFICATION Spec
CONSTANTS
  Tokens <- OneColumn
  Inputs <- SourceValues
  BlockSize = 2
  Pages = 2
  RowsPerPage = 1
  MaxIterations = 1
  MaxAttempts = 2
  MaxGiveUps = 1
INVARIANTS IdentitiesAreFresh DrainedBeforeClosing PagesFollowEachOther
PROPERTY Termination
