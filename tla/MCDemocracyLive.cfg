\* Two managed programs that share a CPU, of which one never leads.
SPECIFICATION FairDemocracySpec
CONSTANTS
  m1 = m1
  m2 = m2
  o1 = o1
  summer1 = summer1
  summer2 = summer2
  Candidate = {summer1, summer2}
  Owner <- MCOwner
  Leads = {summer1}
  NoWinner = nowinner
  Interruptible = FALSE
  Task = {m1, m2}
  PinnedKthread = {}
  Mortal = {}
  Usersched = u
  Cpu = {c1}
  Online = {c1}
  SharedDsq = shared
  AnyCpu = any
  NoCpu = nocpu
  NoTask = notask
  NoMessage = nomsg
  NoEntry = noentry
  Override = {}
  Announced = {0}
  MaxEnqueued = 3
  MaxDispatched = 1
  MaxDispatchSlot = 2
  MaxCpumaskCnt = 0
  NrCap = 1
PROPERTIES BackendSpec VoteMandates QueueServed WinnerScheduled
