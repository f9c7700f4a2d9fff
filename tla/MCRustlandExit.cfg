\* Two tasks on one CPU; one exits and its pid is used again, the other is a per-CPU
\* kernel thread.  A client may get the scheduler ejected, and then nothing more happens.
SPECIFICATION Spec
CONSTANTS
  Task = {t1, k1}
  PinnedKthread = {k1}
  Mortal = {t1}
  Usersched = u
  Cpu = {c1}
  Online = {c1}
  SharedDsq = shared
  AnyCpu = any
  NoCpu = nocpu
  NoTask = notask
  NoMessage = nomsg
  NoEntry = noentry
  Override = {any}
  Announced = {0, 1}
  MaxEnqueued = 1
  MaxDispatched = 2
  MaxDispatchSlot = 2
  MaxCpumaskCnt = 0
  NrCap = 1
INVARIANTS TypeOK CpuOwnership SlotsRespected
CHECK_DEADLOCK FALSE
