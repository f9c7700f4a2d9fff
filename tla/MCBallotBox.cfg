\* A vote and a spoiled one of an address that does not wait, two votes and a poll of an
\* address that does, in a dev build.
SPECIFICATION FairSpec
CONSTANTS
  v1 = v1
  v2 = v2
  v3 = v3
  v4 = v4
  p1 = p1
  ip1 = ip1
  ip2 = ip2
  summer1 = summer1
  summer2 = summer2
  Request = {v1, v2, v3, v4, p1}
  Candidate = {summer1, summer2}
  Ip = {ip1, ip2}
  Ballot <- MCBallot
  From <- MCFrom
  Spoiled = spoiled
  Poll = poll
  Never = never
  Hasty = {ip1}
  OverflowChecks = TRUE
  Modulus = 8
  MaxClock = 1
INVARIANTS TypeOK ReportIsCurrent
PROPERTIES Answered KeepsLedger
CHECK_DEADLOCK FALSE
