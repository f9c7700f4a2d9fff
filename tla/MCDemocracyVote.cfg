\* A program that may end and a thread that main did not launch, which change affinity, and
\* Ctrl-C; the second CPU is offline.
SPECIFICATION DemocracySpec
CONSTANTS
  m1 = m1
  m2 = m2
  o1 = o1
  summer1 = summer1
  summer2 = summer2
  Candidate = {summer1}
  Owner <- MCOwner
  Leads = {summer1}
  NoWinner = nowinner
  Interruptible = TRUE
  Task = {m1, o1}
  PinnedKthread = {}
  Mortal = {m1, o1}
  Usersched = u
  Cpu = {c1, c2}
  Online = {c1}
  SharedDsq = shared
  AnyCpu = any
  NoCpu = nocpu
  NoTask = notask
  NoMessage = nomsg
  NoEntry = noentry
  Override = {}
  Announced = {0}
  MaxEnqueued = 2
  MaxDispatched = 1
  MaxDispatchSlot = 2
  MaxCpumaskCnt = 1
  NrCap = 1
CONSTRAINT OnlyPrograms
INVARIANTS NotEjected ManagedNotLost
PROPERTIES VoteDecides
