SPECIFICATION FairSpec
CONSTANTS
  p = p
  q = q
  Pipeline <- TwoPipelines
  Caller = {c1, c2}
  MaxNodes <- ThreeAndOne
  MaxInputs = 2
  Nobody = Nobody
INVARIANTS
  GraphIsBuilt
  RunsOnceAndValid
PROPERTIES
  GraphIsFrozen
  MutexIsFreed
