\* One task that changes affinity, two CPUs.
SPECIFICATION Spec
CONSTANTS
  Task = {t1}
  PinnedKthread = {}
  Mortal = {}
  Usersched = u
  Cpu = {c1, c2}
  Online = {c1, c2}
  SharedDsq = shared
  AnyCpu = any
  NoCpu = nocpu
  NoTask = notask
  NoMessage = nomsg
  NoEntry = noentry
  Override = {any}
  Announced = {}
  MaxEnqueued = 1
  MaxDispatched = 1
  MaxDispatchSlot = 2
  MaxCpumaskCnt = 1
  NrCap = 1
INVARIANTS MaskRespected FreshDecision
SYMMETRY Symmetry
