SPECIFICATION Spec
CONSTANTS
  p1 = p1
  p2 = p2
  trade = trade
  funding = funding
  Procs = {p1, p2}
  Archives <- MCArchives
  Cached = {funding}
  Retries = 1
  MaxPublishes = 1
  MaxMishaps = 2
  Homes = {"nothing", "manifest"}
  MaxRuns = 2
SYMMETRY ProcSymmetry
INVARIANTS
  CacheIsAsPublished
  CalmRunsDoNotFail
PROPERTIES
  KeepsThePin
CHECK_DEADLOCK FALSE
