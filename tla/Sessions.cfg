SPECIFICATION Spec
CONSTANTS
  People = {k1, k2}
  Emails = {e1}
  Requests = {p1, p2}
  Ids = {s1, s2}
  Nobody = Nobody
  SESSION_TTL = 2
  TOKEN_TTL = 1
  MaxSkew = 1
  MaxTime = 5
SYMMETRY Symmetry
INVARIANTS
  TypeOK
  AccountsKeepTheirOwner
  EndedSessionsStayEnded
  SessionsServeTheirTerm
CHECK_DEADLOCK FALSE
