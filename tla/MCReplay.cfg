SPECIFICATION Spec
CONSTANTS
  BarsTotal = 2
  Policies = {0, 1}
  Decimals = 2
  MaxTargetLev = 999
  MaxSlippage = 10
  NoLimit = NoLimit
  NoTurn = NoTurn
  Facts <- MCFacts
  MaxFacts = 2
  Ruinous <- MCRuinous
  Answers <- MCAnswers
INVARIANTS
  ReplayFollows
  RecordedIsReplayable
