SPECIFICATION FairSpec
CONSTANTS
  Node <- DiamondNode
  Kind <- DiamondKind
  Edge <- DiamondEdge
  From <- DiamondFrom
  To <- DiamondTo
  Out <- DiamondOut
  Limit <- DiamondLimit
  Aborter <- DiamondAborter
  Faulty <- DiamondFaulty
  Endless <- NoStage
  Cap = 0
  Cancellable = FALSE
  Traced = TRUE
  NoNode = NoNode
  NoBatch = NoBatch
INVARIANTS
  InOrder
  FinishBarrier
  RefBalance
PROPERTIES
  Terminates
