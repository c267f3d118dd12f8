SPECIFICATION Spec
CONSTANTS
  Node <- ChainNode
  Kind <- ChainKind
  Edge <- ChainEdge
  From <- ChainFrom
  To <- ChainTo
  Out <- ChainOut
  Limit <- ChainLimit
  Aborter <- ChainAborter
  Faulty <- NoStage
  Endless <- NoStage
  Cap = 1
  Cancellable = TRUE
  Traced = TRUE
  NoNode = NoNode
  NoBatch = NoBatch
INVARIANTS
  OnlyStageErrorsReported
