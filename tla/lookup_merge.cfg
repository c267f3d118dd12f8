SPECIFICATION Spec
CONSTANTS
  Id = {1, 2}
  NullId = NullId
  IdColumn <- ShortColumns
  MaxBatches = 2
  MaxAppRows = 2
  LookupBatchSize = 2
INVARIANTS
  PairsInOrder
  JoinIsComplete
PROPERTIES
  ImplementsJoin
