\* Two requests of one address in the server at once, in a dev build, over a second's end.
SPECIFICATION Spec
CONSTANTS
  v1 = v1
  v2 = v2
  v3 = v3
  v4 = v4
  p1 = p1
  ip1 = ip1
  ip2 = ip2
  summer1 = summer1
  summer2 = summer2
  Request = {v3, v4}
  Candidate = {summer1, summer2}
  Ip = {ip1, ip2}
  Ballot <- MCBallot
  From <- MCFrom
  Spoiled = spoiled
  Poll = poll
  Never = never
  Hasty = {ip2}
  OverflowChecks = TRUE
  Modulus = 8
  MaxClock = 1
INVARIANTS NoPanic
CHECK_DEADLOCK FALSE
