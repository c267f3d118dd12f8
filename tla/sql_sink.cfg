SPECIFICATION FairSpec
CONSTANTS
  Caller = {c1, c2}
  MaxCalls = 2
  Batches <- SinkBatches
  NumCols <- SinkNumCols
  MaxPlaceholders = 4
  MaxRowsPerConsume = 5
  NoSchema = NoSchema
  NoBatch = NoBatch
INVARIANTS
  AllOrNothing
  ResultIsTrue
  TxResolved
  OneSchema
PROPERTIES
  FinalAfterFinish
  SinkIsFreed
