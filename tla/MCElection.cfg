\* Three names, one of them no competitor; counts 0 to 3, of which 3 does not fit.
SPECIFICATION Spec
CONSTANTS
  summer1 = summer1
  summer2 = summer2
  other = other
  Name = {summer1, summer2, other}
  Competitor = {summer1, summer2}
  Unknown = unknown
  FromStr <- MCFromStr
  Blank = blank
  Answers <- MCAnswers
  MaxU32 = 2
INVARIANTS TypeOK LoopInv NamesTheWinner FailsForAReason
CHECK_DEADLOCK FALSE
