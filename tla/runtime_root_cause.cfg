SPECIFICATION Spec
CONSTANTS
  Node <- ChainNode
  Kind <- ChainKind
  Edge <- ChainEdge
  From <- ChainFrom
  To <- ChainTo
  Out <- ChainOut
  Limit <- ChainLimit
  Aborter <- ChainAborter
  Faulty <- ChainNode
  Endless <- NoStage
  Cap = 1
  Cancellable = FALSE
  Traced = TRUE
  NoNode = NoNode
  NoBatch = NoBatch
INVARIANTS
  RootCauseReported
