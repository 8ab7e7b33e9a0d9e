SPECIFICATION Spec
CONSTANTS
  alice = alice
  bob = bob
  carol = carol
  h1 = h1
  h2 = h2
  b1 = b1
  b2 = b2
  Revisions = {1, 2}
  Bodies = {b1, b2}
  Environments = {"dev", "prod"}
  Production = {"prod"}
  Actors = {alice, bob, carol}
  Handlers = {h1, h2}
  MaxRequests = 5
  None = None
SYMMETRY Symmetry
CHECK_DEADLOCK FALSE
INVARIANTS TypeOK PublicationIsFinal EndpointsNeedTwoActors OneActivatedUnlessOverlapped ActiveIsAudited
