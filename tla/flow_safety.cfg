SPECIFICATION Spec
CONSTANTS
  Tickets = {t1, t2, t3}
  Matches = {m1, m2}
  Workers = {w1, w2}
  p1 = p1
  p2 = p2
  p3 = p3
  Players = {p1, p2}
  Parties <- NoParties
  TeamSize = 1
  Teams = 2
  MaxAttempts = 2
  Faults = {"crash", "dbError", "serverCrash"}
  NoMatch = NoMatch
SYMMETRY Symmetry
CHECK_DEADLOCK FALSE
INVARIANTS ClaimedTicketsAreOwned OneLaunchPerTicket
PROPERTY SettledTicketsStaySettled
