\* Two programs; one of two CPUs comes and goes.
SPECIFICATION FairSpec
CONSTANTS
  k = k
  t1 = t1
  t2 = t2
  NrCpus = 2
  Hot = {1}
  Core <- MCCore
  Task = {t1, t2}
  Kthread = {}
  CpusPtr <- MCCpusPtr
  Weight <- MCWeight
  Rates <- MCRates
  PrioDsq = prio
  SharedDsq = shared
  NoTask = notask
  Within = within
  LocalKthreads = TRUE
  SmtEnabled = TRUE
  NvcswThresh = 1
  SliceNs = 2
  SliceNsMin = 1
  SliceNsLag = 0
  StarvationThreshNs = 2
  SliceDfl = 3
  PrioPerCpu = 1
INVARIANTS TypeOK CountersExact StrandedSeen
PROPERTIES QueuedRuns
