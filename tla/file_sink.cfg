SPECIFICATION Spec
CONSTANTS
  MaxBatches = 2
  NoObject = NoObject
INVARIANTS
  NoPartialObject
  FinishCommits
  WriterReleased
PROPERTIES
  CancelledRunBeginsNoPublication
