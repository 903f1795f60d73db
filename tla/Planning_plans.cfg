SPECIFICATION Spec
CONSTANTS
  w1 = w1
  w2 = w2
  s1 = s1
  s2 = s2
  Whs = {w1, w2}
  Stores = {s1, s2}
  WhOf <- WhOfDef
  Order <- OrderDef
  InitStocks <- SomeStocks
  Safety <- SafetyDef
  Desired <- Wanted
  Demand <- DemandDef
  MinRow = 2
  MinEoq = 3
  Eoq = 3
  DecideQtys = {2}
  NewQtys = {}
  NewTargets = {s2}
  Planners = {p}
  Modes = {"INACTIVE"}
  Ids = {1, 2}
  None = None
CHECK_DEADLOCK FALSE
INVARIANTS GreedyIsOverlap PlanWithinGaps ShortagePlanned OneProposalPerPair
PROPERTIES OnlyProposalsReplaced
