SPECIFICATION FairSpec
CONSTANTS
  Tickets = {t1, t2}
  Matches = {m1, m2}
  Workers = {w1, w2}
  p1 = p1
  p2 = p2
  p3 = p3
  Players = {p1, p2}
  Parties <- SomeParties
  TeamSize = 1
  Teams = 2
  MaxAttempts = 2
  Faults = {"serverCrash"}
  NoMatch = NoMatch
CHECK_DEADLOCK FALSE
PROPERTIES ClaimIsResolved AllocationIsResolved DeadServerIsNoticed
