SPECIFICATION FairSpec
CONSTANTS
  p1 = p1
  p2 = p2
  k1 = k1
  k2 = k2
  k3 = k3
  None = None
  Players = {p1, p2}
  Keys = {k1, k2, k3}
  Calls = {1, 2, 3, 4, 5, 6}
  CallOf <- Overlapping
  Interrupts = 1
CHECK_DEADLOCK FALSE
INVARIANTS TypeOK DeletionIsReal PatchesAnswerAlike
PROPERTY RetryFinalizes
