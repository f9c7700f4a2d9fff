\* A program that voluntarily gives way at times, a kernel thread on the same CPU.
SPECIFICATION FairSpec
CONSTANTS
  k = k
  t1 = t1
  t2 = t2
  NrCpus = 1
  Hot = {}
  Core <- MCCore
  Task = {k, t1}
  Kthread = {k}
  CpusPtr <- MCCpusPtr
  Weight <- MCWeight
  Rates <- MCRates4
  PrioDsq = prio
  SharedDsq = shared
  NoTask = notask
  Within = within
  LocalKthreads = TRUE
  SmtEnabled = TRUE
  NvcswThresh = 1
  SliceNs = 2
  SliceNsMin = 1
  SliceNsLag = 0
  StarvationThreshNs = 2
  SliceDfl = 3
  PrioPerCpu = 1
PROPERTIES Demoted
