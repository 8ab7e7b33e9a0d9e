SPECIFICATION FairSpec
CONSTANTS
  w1 = w1
  w2 = w2
  w3 = w3
  e1 = e1
  e2 = e2
  Events = {e1, e2}
  ResultEvents = {e1}
  Workers = {w1, w2, w3}
  Consumer <- Three
  BatchSize = 2
  MaxAttempts = 2
  Faults = {"crash", "dbError", "slow"}
  FaultBudget = 1
CHECK_DEADLOCK FALSE
INVARIANTS EveryCallIsAnAttempt DeadAfterMaxAttempts DuplicatesNeedFaults OneHolder
PROPERTIES EveryEventIsSettled ImplementsDelivery
