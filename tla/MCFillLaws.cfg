SPECIFICATION Spec
CONSTANTS
  RateScale = 100
  LevScale = 1
  QtyScale = 3
  CostScale = 10
  TickSize = 2
  QtyStep = 2
  Orders <- MCOrders
  Venues <- MCVenues
  Leverages <- MCLeverages
  MaintRates <- MCMaintRates
  FundingRates <- MCFundingRates
  Prices <- MCPrices
INVARIANTS
  StressNeverCheaper
  RoundingNeverPays
  PricesAreExact
CHECK_DEADLOCK FALSE
