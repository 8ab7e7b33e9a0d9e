SPECIFICATION FairSpec
CONSTANTS
  r1 = r1
  r2 = r2
  r3 = r3
  s1 = s1
  s2 = s2
  s3 = s3
  s4 = s4
  Players = {1, 2}
  Requests = {r1, r2, r3}
  Submissions = {s1, s2, s3}
  RequestOf <- Three
  Commands <- Mixed
  MaxCommandAmount = 2
  Lower <- AtLeastZero
  Upper <- Tight
  Grants <- ZeroGrant
  OncePerPlayer = TRUE
  Start <- SecondFunded
  Faults = {}
CHECK_DEADLOCK FALSE
PROPERTY EverySubmissionEnds
