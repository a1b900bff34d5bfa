SPECIFICATION Spec
CONSTANTS
  RateScale = 100
  LevScale = 1
  QtyScale = 1
  CostScale = 1
  TickSize = 1
  QtyStep = 2
  StartNav = 1000
  BarsTotal = 3
  OpeningMark = 100
  MaxFinalBlocks = 1
  GrossCap = 3
  TurnoverCap = 600
  KillLimit = 20
  NearLiqThreshold = 10
  BpScale = 1
  StressMultiplier = 2
  NoLimit = NoLimit
  Market <- MCMarket
  Bars <- MCBars
  Decisions <- MCDecisions
INVARIANTS
  TypeOK
  CashConserved
  PositionIsMargined
  LedgerIsTheEpisode
  DecisionsProject
PROPERTIES
  KilledNeverTrades
  MovesAreLogged
  EpisodeEnds
