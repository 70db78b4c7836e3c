SPECIFICATION Spec
CONSTANTS
  Schemas <- AllSchemas
  MaxKeys = 4
INVARIANTS
  WritesEveryColumnOnce
  RefusesOnlyMandatoryCircles
  GroupsAreComponents
  GroupsArePartitionInOrder
  NeverStuck
  ReferencedColumnsWritten
