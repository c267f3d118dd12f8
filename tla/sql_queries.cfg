SPECIFICATION FairSpec
CONSTANTS
  MaxRows = 6
  BatchSize = 2
  Slots = 1
INVARIANTS
  BatchesPartitionRows
PROPERTIES
  EndsUnlessPoolIsExhausted
  CancelFreesConnections
