SPECIFICATION FairSpec
CONSTANTS
  Node <- ChainNode
  Kind <- ChainKind
  Edge <- ChainEdge
  From <- ChainFrom
  To <- ChainTo
  Out <- ChainOut
  Limit <- ChainLimit
  Aborter <- ChainAborter
  Faulty <- ChainFaulty
  Endless <- NoStage
  Cap = 1
  Cancellable = TRUE
  Traced = TRUE
  NoNode = NoNode
  NoBatch = NoBatch
INVARIANTS
  TypeOK
  FinishXorAbort
  RefBalance
  NilMeansComplete
  ErrorPreference
  NothingLeftBehind
  CancelHasCause
PROPERTIES
  ImplementsLifecycle
