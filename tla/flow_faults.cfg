SPECIFICATION Spec
CONSTANTS
  Tickets = {t1, t2}
  Matches = {m1, m2}
  Workers = {w1, w2}
  p1 = p1
  p2 = p2
  p3 = p3
  Players = {p1, p2}
  Parties <- NoParties
  TeamSize = 1
  Teams = 2
  MaxAttempts = 2
  Faults = {"crash", "dbError", "lostReply", "serverCrash"}
  NoMatch = NoMatch
CHECK_DEADLOCK FALSE
SYMMETRY Symmetry
INVARIANTS MatchedTicketIsSeated RetriesAreBounded
PROPERTY OnlySilentServersTimeOut
