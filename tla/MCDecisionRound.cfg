SPECIFICATION Spec
CONSTANTS
  BarsTotal = 2
  Retries = 1
  Destinations = {d1}
  Garbled = garbled
  MaxBlocks = 2
  LogCap = 1
  Outcomes <- MCOutcomes
INVARIANTS
  RepliesAreOwnAndInTime
  CountsAreTheLog
PROPERTIES
  KeepsProtocol
  RunEnds
