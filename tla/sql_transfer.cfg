SPECIFICATION Spec
CONSTANTS
  MinInt <- MCMinInt
  MaxInt = 3
  Ticks <- MCTicks
  Minute = 4
  LocalOffset <- MCLocalOffset
  Reserved = {"select"}
  Conf <- MCConf
  MaxRuns = 2
  NoBatch = NoBatch
INVARIANTS StatementsAreAccepted TransferIsComplete ValuesRoundTrip NaiveTextIsLocalTime
