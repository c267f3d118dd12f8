SPECIFICATION FairSpec
CONSTANTS
  Node <- EndlessNode
  Kind <- EndlessKind
  Edge <- EndlessEdge
  From <- EndlessFrom
  To <- EndlessTo
  Out <- EndlessOut
  Limit <- EndlessLimit
  Aborter <- EndlessAborter
  Faulty <- EndlessFaulty
  Endless <- EndlessSource
  Cap = 0
  Cancellable = TRUE
  Traced = FALSE
  NoNode = NoNode
  NoBatch = NoBatch
PROPERTIES
  CancelUnwinds
  FailureUnwinds
