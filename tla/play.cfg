SPECIFICATION Spec
CONSTANTS
  a = a
  b = b
  c1 = c1
  c2 = c2
  full = full
  part = part
  other = other
  None = None
  Roster = {a, b}
  Calls = {c1, c2}
  Sequences = {1, 2}
  Payloads = {full, part, other}
  Submissions <- Sent
  PlayersOf <- Named
  HasReward = TRUE
  Joiners = {a}
  TTL = 1
  MaxDelay = 1
  MaxTime = 3
SYMMETRY Symmetry
CHECK_DEADLOCK FALSE
INVARIANTS TypeOK OneResult  AcknowledgedIsStored DisputesHaveEvidence
PROPERTY BarredIsKeptOut
