SPECIFICATION Spec
CONSTANTS
  Approvals = {a1, a2}
  Denials = {n1}
  Polls = {p1, p2}
  a1 = a1
  a2 = a2
  n1 = n1
  NoToken = NoToken
  p1 = p1
  p2 = p2
  Ttl = 3
  DeniedTtl = 1
  MaxAge = 5
INVARIANTS HandedOnce DenialStands
CHECK_DEADLOCK FALSE
