SPECIFICATION Spec
CONSTANTS
  c1 = c1
  c2 = c2
  Keys <- AllKeys
  Cost <- Costs
  Cap <- Caps
  Routes <- AllRoutes
  Clients = {c1, c2}
  MaxKeys = 2
  EvictAge = 3
  MaxDelay = 1
  MaxTime = 5
INVARIANTS TypeOK RateHolds BurstIsFree
SYMMETRY Symmetry
CHECK_DEADLOCK FALSE
