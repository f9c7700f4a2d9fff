-------------------------- MODULE InKernelProofs ---------------------------
(***************************************************************************)
(* InKernel.tla for any number of CPUs and tasks, any masks and weights:   *)
(* its types, its counters, and that no task is left on the queue of a CPU *)
(* that nobody looks at.                                                   *)
(***************************************************************************)
EXTENDS InKernel, InKernelLemmas, FiniteSetTheorems, TLAPS

\* A CPU that the idle mask still shows although it is not online is one that went
\* offline after the start, and the CPUs that never go are online.
IdleSeen == idle \ online \subseteq offline_cpumask
NeverHotOnline == Cpu \ Hot \subseteq online
SeenInv ==
  /\ DOMAIN dsq = Dsq /\ idle \subseteq Cpu
  /\ IdleSeen /\ NeverHotOnline /\ StrandedSeen

\* A task is at one place at most: on one queue, once, or on one CPU, which is online.
Placed ==
  /\ Once(dsq)
  /\ \A c \in Cpu : running[c] # NoTask => c \in online /\ ~On(dsq, running[c])
  /\ \A c, d \in Cpu : running[c] # NoTask /\ running[c] = running[d] => c = d
\* vtime_now has caught up with every task that runs, so that the charge at the end of
\* its turn is all by which it can be ahead.
NotAhead == \A c \in Cpu : running[c] # NoTask => vtime[running[c]] <= 0

\* What the counters count.
Runners == {p \in Task : Running(p)}
InteractiveRunners == {p \in Task : Running(p) /\ is_interactive[p]}

\* The inductive invariant: types rest on Placed and NotAhead, and these on the types.
InKernelInv == TypeOK /\ CountersExact /\ Placed /\ NotAhead

-----------------------------------------------------------------------------
\* The only CPU of a pinned task is one of those that never go offline.
LEMMA PinnedStays ==
  ASSUME NEW p \in Task, Pinned(p)
  PROVE  (CHOOSE c \in CpusPtr[p] : TRUE) \in Cpu \ Hot
<1>1. CpusPtr[p] \in SUBSET Cpu /\ CpusPtr[p] \ Hot # {}
  BY TaskAssumption
<1>2. Cardinality(CpusPtr[p]) = 1
  BY DEF Pinned
<1>3. IsFiniteSet(0..NrCpus - 1)
  BY FS_Interval, CpuAssumption
<1>4. IsFiniteSet(CpusPtr[p])
  BY <1>1, <1>3, FS_Subset DEF Cpu
<1>5. PICK x : CpusPtr[p] = {x}
  BY <1>2, <1>4, FS_Singleton
<1>6. (CHOOSE c \in CpusPtr[p] : TRUE) \in CpusPtr[p]
  BY <1>5
<1> QED BY <1>1, <1>5, <1>6

\* democracy_enqueue gives a task to such a CPU or to a queue that all CPUs look at.
LEMMA TargetSeen ==
  ASSUME NEW p, NEW queues, NEW int, NEW c \in Cpu, Target(p, queues, int) = c
  PROVE  c \notin Hot
<1>1. LocalKthreads /\ p \in Kthread /\ Pinned(p)
  BY CpuAssumption DEF Target
<1>2. p \in Task
  BY <1>1, TaskAssumption
<1> QED BY <1>1, <1>2, PinnedStays DEF Target

\* Putting a task on one queue leaves the others alone; so does taking it off, which
\* does not fill an empty queue.
LEMMA DispatchElsewhere ==
  ASSUME NEW queues, NEW d, NEW p, NEW vt, NEW e \in DOMAIN queues, e # d
  PROVE  /\ DispatchVtime(queues, d, p, vt)[e] = queues[e]
BY DEF DispatchVtime

LEMMA DispatchDomain ==
  ASSUME NEW queues, NEW d, NEW p, NEW vt
  PROVE  DOMAIN DispatchVtime(queues, d, p, vt) = DOMAIN queues
BY DEF DispatchVtime

LEMMA ConsumeEmpty ==
  ASSUME NEW c, NEW d, NEW e \in DOMAIN dsq, dsq[e] = <<>>
  PROVE  Without(d, Consumable(c, d))[e] = <<>>
<1>1. CASE e # d
  BY <1>1 DEF Without
<1>2. CASE e = d
  <2>1. Consumable(c, d) = 0
    BY <1>2 DEF Consumable, SelectInSeq
  <2>2. RemoveAt(<<>>, 0) = <<>>
    BY DEF RemoveAt
  <2> QED BY <1>2, <2>1, <2>2 DEF Without
<1> QED BY <1>1, <1>2

\* pick_idle_cpu names a CPU of the idle mask, or none.
LEMMA PickIsIdle ==
  ASSUME NEW p \in Task, NEW prev, NEW cpu \in PickIdleCpu(p, prev), cpu # {}
  PROVE  (CHOOSE c \in cpu : TRUE) \in idle
<1>1. (CHOOSE c \in cpu : TRUE) \in cpu
  OBVIOUS
<1>2. ASSUME NEW mask, mask \subseteq idle, cpu \in AnyOnline(p, mask)
      PROVE  cpu \subseteq idle
  BY <1>2 DEF AnyOnline
<1>3. CASE Pinned(p)
  BY <1>1, <1>3 DEF PickIdleCpu
<1>4. CASE ~Pinned(p)
  <2> DEFINE full == {c \in idle : \A d \in Cpu : Core[d] = Core[c] => d \in idle}
  <2>1. \/ cpu = {prev} /\ prev \in idle
        \/ cpu \in AnyOnline(p, full) \/ cpu \in AnyOnline(p, idle)
    BY <1>4 DEF PickIdleCpu
  <2>2. full \subseteq idle
    OBVIOUS
  <2> HIDE DEF full
  <2> QED BY <1>1, <1>2, <2>1, <2>2
<1> QED BY <1>3, <1>4

\* democracy_enqueue gives a task to a queue that exists.
LEMMA TargetIsDsq ==
  ASSUME NEW p \in Task, NEW queues, NEW int
  PROVE  Target(p, queues, int) \in Dsq
BY PinnedStays DEF Target, Dsq

\* The two ways to say that a task is queued.
LEMMA QueuedIsOn ==
  ASSUME TypeOK, NEW p
  PROVE  Queued(p) <=> On(dsq, p)
<1>1. \A d \in Dsq : DOMAIN dsq[d] = 1..Len(dsq[d])
  BY LenProperties DEF TypeOK
<1> QED BY <1>1 DEF Queued, On, ToSet

\* What each action that moves tasks does to places: a wake-up queues a blocked task, ...
LEMMA WakeupPlaces ==
  ASSUME TypeOK, Placed, NEW p \in Task, Wakeup(p)
  PROVE  /\ SeqOK(dsq') /\ Once(dsq') /\ \A q : On(dsq', q) <=> q = p \/ On(dsq, q)
         /\ ~Running(p) /\ UNCHANGED <<running, online>>
<1>1. ~On(dsq, p) /\ ~Running(p) /\ UNCHANGED <<running, online>>
  BY QueuedIsOn DEF Wakeup, Blocked
<1>2. PICK d, vt : d \in Dsq /\ dsq' = DispatchVtime(dsq, d, p, vt)
  <2>1. PICK sync \in BOOLEAN, prev \in CpusPtr[p] : \E cpu \in PickIdleCpu(p, prev) : \E int, vt :
          dsq' = DispatchVtime(dsq, IF cpu # {} THEN CHOOSE c \in cpu : TRUE
                                    ELSE Target(p, dsq, int), p, vt)
    BY DEF Wakeup
  <2>2. PICK cpu \in PickIdleCpu(p, prev) : \E int, vt :
          dsq' = DispatchVtime(dsq, IF cpu # {} THEN CHOOSE c \in cpu : TRUE
                                    ELSE Target(p, dsq, int), p, vt)
    BY <2>1
  <2>3. PICK int, vt :
          dsq' = DispatchVtime(dsq, IF cpu # {} THEN CHOOSE c \in cpu : TRUE
                                    ELSE Target(p, dsq, int), p, vt)
    BY <2>2
  <2>4. (IF cpu # {} THEN CHOOSE c \in cpu : TRUE ELSE Target(p, dsq, int)) \in Dsq
    BY PickIsIdle, TargetIsDsq DEF Dsq, TypeOK
  <2> QED BY <2>3, <2>4
<1>3. SeqOK(dsq) /\ Once(dsq)
  BY DEF SeqOK, TypeOK, Placed
<1> QED BY <1>1, <1>2, <1>3, DispatchVtimeElements

\* ... a dispatch takes a queued one, ...
LEMMA QueuedTaken ==
  ASSUME TypeOK, Placed, NEW c \in Cpu, HasWork(c),
         NEW p, p = dsq[From(c)][Consumable(c, From(c))],
         NEW queues, queues = Without(From(c), Consumable(c, From(c)))
  PROVE  /\ p \in Task /\ ~Running(p) /\ On(dsq, p)
         /\ SeqOK(queues) /\ Once(queues)
         /\ \A q : On(queues, q) <=> q # p /\ On(dsq, q)
<1>1. SeqOK(dsq) /\ Once(dsq) /\ offline_cpumask \subseteq Cpu
  BY DEF SeqOK, TypeOK, Placed
<1>2. From(c) \in Dsq /\ Consumable(c, From(c)) \in 1..Len(dsq[From(c)])
  BY <1>1, FromHasWork
<1>3. /\ p \in Task /\ SeqOK(queues) /\ Once(queues)
      /\ \A q : On(queues, q) <=> q # p /\ On(dsq, q)
  BY <1>1, <1>2, WithoutElements
<1>4. On(dsq, p)
  BY <1>2 DEF On
<1>5. ~Running(p)
  BY <1>3, <1>4, TaskAssumption DEF Running, Placed
<1> QED BY <1>3, <1>4, <1>5

LEMMA DispatchPlaces ==
  ASSUME TypeOK, Placed, NEW c \in Cpu, Dispatch(c)
  PROVE  \E p \in Task :
           /\ SeqOK(dsq') /\ Once(dsq') /\ \A q : On(dsq', q) <=> q # p /\ On(dsq, q)
           /\ ~Running(p) /\ running[c] = NoTask /\ c \in online
           /\ running' = [running EXCEPT ![c] = p] /\ UNCHANGED online
           /\ vtime' = VtimeRunning(p, vtime)
           /\ slice' = [slice EXCEPT ![p] = SliceRunning(p)]
           /\ nr_interactive' = nr_interactive + Count(p)
<1> DEFINE p == dsq[From(c)][Consumable(c, From(c))]
           queues == Without(From(c), Consumable(c, From(c)))
<1>1. /\ HasWork(c) /\ running[c] = NoTask /\ c \in online /\ UNCHANGED online
      /\ dsq' = queues
      /\ running' = [running EXCEPT ![c] = p]
      /\ vtime' = VtimeRunning(p, vtime)
      /\ slice' = [slice EXCEPT ![p] = SliceRunning(p)]
      /\ nr_interactive' = nr_interactive + Count(p)
  BY DEF Dispatch
<1> HIDE DEF p, queues
<1>2. /\ p \in Task /\ ~Running(p)
      /\ SeqOK(queues) /\ Once(queues) /\ \A q : On(queues, q) <=> q # p /\ On(dsq, q)
  BY <1>1, QueuedTaken DEF p, queues
<1> QED BY <1>1, <1>2

\* ... and a switch puts the running task back and takes a queued one.
LEMMA SwitchPlaces ==
  ASSUME TypeOK, Placed, NEW c \in Cpu, NEW rate, Switch(c, rate)
  PROVE  \E p, q \in Task : \E vt :
           /\ p = running[c] /\ ~Running(q) /\ UNCHANGED online
           /\ SeqOK(dsq') /\ Once(dsq')
           /\ \A x : On(dsq', x) <=> x = p \/ (x # q /\ On(dsq, x))
           /\ running' = [running EXCEPT ![c] = q]
           /\ vt = [VtimeStopping(p) EXCEPT ![p] = TaskVtime(p, VtimeStopping(p))]
           /\ vtime' = VtimeRunning(q, vt)
           /\ slice' = SliceSwitched(p, q)
           /\ nr_interactive' = nr_interactive - Count(p) + Count(q)
           /\ Classify(p, rate)
<1> DEFINE p == running[c]
           q == dsq[From(c)][Consumable(c, From(c))]
           queues == Without(From(c), Consumable(c, From(c)))
           vt == [VtimeStopping(p) EXCEPT ![p] = TaskVtime(p, VtimeStopping(p))]
<1>1. HasWork(c) /\ p # NoTask /\ UNCHANGED online
  BY DEF Switch
<1>1a. running' = [running EXCEPT ![c] = q]
  BY ZenonT(60) DEF Switch
<1>1b. nr_interactive' = nr_interactive - Count(p) + Count(q)
  BY DEF Switch
<1>1c. Classify(p, rate)
  BY DEF Switch
<1>0. slice' = SliceSwitched(p, q)
  BY DEF Switch
<1>2. vtime' = VtimeRunning(q, vt)
  BY DEF Switch
<1>3. PICK vt1 : dsq' = DispatchVtime(queues, Target(p, queues, InteractiveStopping(p, rate)), p, vt1)
  BY DEF Switch
<1> HIDE DEF p, q, queues, vt
<1>4. /\ q \in Task /\ ~Running(q) /\ On(dsq, q)
      /\ SeqOK(queues) /\ Once(queues) /\ \A x : On(queues, x) <=> x # q /\ On(dsq, x)
  BY <1>1, QueuedTaken DEF q, queues
<1>5. p \in Task /\ ~On(dsq, p)
  BY <1>1 DEF p, TypeOK, Placed
<1>6. /\ SeqOK(dsq') /\ Once(dsq') /\ \A x : On(dsq', x) <=> x = p \/ On(queues, x)
  BY <1>3, <1>4, <1>5, TargetIsDsq, DispatchVtimeElements
<1>7. p = running[c] /\ vt = [VtimeStopping(p) EXCEPT ![p] = TaskVtime(p, VtimeStopping(p))]
  BY DEF p, vt
<1>8. \A x : On(dsq', x) <=> x = p \/ (x # q /\ On(dsq, x))
  BY <1>4, <1>5, <1>6
<1> QED BY <1>0, <1>1, <1>1a, <1>1b, <1>1c, <1>2, <1>4, <1>5, <1>6, <1>7, <1>8

-----------------------------------------------------------------------------
\* No more tasks run than there are CPUs.
LEMMA RunnersBound ==
  ASSUME NEW on, NEW R, \A p \in R : \E c \in Cpu : on[c] = p
  PROVE  IsFiniteSet(R) /\ Cardinality(R) \in 0..NrCpus
<1> DEFINE f == [p \in R |-> CHOOSE c \in Cpu : on[c] = p]
<1>1. IsFiniteSet(Cpu) /\ Cardinality(Cpu) = NrCpus
  BY FS_Interval, CpuAssumption DEF Cpu
<1>2. \A p \in R : f[p] \in Cpu /\ on[f[p]] = p
  OBVIOUS
<1>3. f \in Injection(R, Cpu)
  <2>1. f \in [R -> Cpu]
    BY <1>2
  <2>2. \A p, q \in R : f[p] = f[q] => p = q
    BY <1>2
  <2> HIDE DEF f
  <2> QED BY <2>1, <2>2 DEF Injection, IsInjective
<1>4. IsFiniteSet(R) /\ Cardinality(R) <= NrCpus
  BY <1>1, <1>3, FS_Injection
<1> QED BY <1>4, FS_CardinalityType

\* Nor are more CPUs online than there are.
LEMMA CpusBound ==
  ASSUME NEW C \in SUBSET Cpu
  PROVE  IsFiniteSet(C) /\ Cardinality(C) \in 0..NrCpus
<1>1. IsFiniteSet(Cpu) /\ Cardinality(Cpu) = NrCpus
  BY FS_Interval, CpuAssumption DEF Cpu
<1> QED BY <1>1, FS_Subset, FS_CardinalityType, CpuAssumption

\* The charge at the end of a turn, and vtime_now following the next task, keep virtual
\* times in range.
LEMMA StoppedVtime ==
  ASSUME TypeOK, NotAhead, NEW c \in Cpu, NEW p \in Task, running[c] = p
  PROVE  LET vt == [VtimeStopping(p) EXCEPT ![p] = TaskVtime(p, VtimeStopping(p))] IN
         /\ vt \in [Task -> -(SliceNsLag + MaxCharge)..MaxCharge]
         /\ \A q \in Task \ {p} : vt[q] = vtime[q]
<1> DEFINE vt == [VtimeStopping(p) EXCEPT ![p] = TaskVtime(p, VtimeStopping(p))]
<1>1. MaxCharge \in Nat /\ Charge(p) \in 0..MaxCharge /\ SliceNsLag \in Nat
  BY ChargeBound, TimeAssumption
<1>2. /\ vtime \in [Task -> -(SliceNsLag + MaxCharge)..MaxCharge]
      /\ p # NoTask /\ vtime[p] <= 0
  BY TaskAssumption DEF TypeOK, NotAhead
<1> DEFINE charged == vtime[p] + Charge(p)
<1>3. charged \in -(SliceNsLag + MaxCharge)..MaxCharge
  BY <1>1, <1>2
<1>4. vt = [vtime EXCEPT ![p] = AtLeast(-SliceNsLag, charged)]
  BY <1>2 DEF VtimeStopping, TaskVtime
<1> HIDE DEF charged, vt
<1>5. AtLeast(-SliceNsLag, charged) \in -(SliceNsLag + MaxCharge)..MaxCharge
  BY <1>1, <1>3 DEF AtLeast
<1> QED BY <1>2, <1>4, <1>5 DEF vt

LEMMA FollowedVtime ==
  ASSUME TypeOK, NEW p \in Task, NEW vt \in [Task -> -(SliceNsLag + MaxCharge)..MaxCharge]
  PROVE  /\ VtimeRunning(p, vt) \in [Task -> -(SliceNsLag + MaxCharge)..MaxCharge]
         /\ \A q \in Task : q = p \/ vt[q] <= 0 => VtimeRunning(p, vt)[q] <= 0
<1>1. MaxCharge \in Nat /\ SliceNsLag \in Nat
  BY ChargeBound, TimeAssumption
<1> SUFFICES ASSUME NEW q \in Task
             PROVE  /\ VtimeRunning(p, vt)[q] \in -(SliceNsLag + MaxCharge)..MaxCharge
                    /\ q = p \/ vt[q] <= 0 => VtimeRunning(p, vt)[q] <= 0
  BY DEF VtimeRunning
<1>2. Floor(q) \in -(SliceNsLag + MaxCharge)..0
  BY <1>1 DEF Floor
<1>3. VtimeRunning(p, vt)[q] = AtLeast(Floor(q), vt[q] - AtLeast(0, vt[p]))
  BY DEF VtimeRunning
<1>4. /\ vt[p] \in -(SliceNsLag + MaxCharge)..MaxCharge
      /\ vt[q] \in -(SliceNsLag + MaxCharge)..MaxCharge
  OBVIOUS
<1> HIDE DEF Floor
<1> QED BY <1>1, <1>2, <1>3, <1>4 DEF AtLeast

-----------------------------------------------------------------------------
\* No step puts a task at two places, or on a CPU that is not online.
LEMMA PlacedStep ==
  ASSUME TypeOK, Placed, [Next]_vars
  PROVE  Placed'
<1>0. NoTask \notin Task /\ running \in [Cpu -> Task \cup {NoTask}]
  BY TaskAssumption DEF TypeOK
<1>1. ASSUME NEW p \in Task, Wakeup(p) PROVE Placed'
  <2>1. /\ Once(dsq') /\ \A q : On(dsq', q) <=> q = p \/ On(dsq, q)
        /\ ~Running(p) /\ UNCHANGED <<running, online>>
    BY <1>1, WakeupPlaces
  <2> QED BY <2>1 DEF Placed, Running
<1>2. ASSUME NEW c \in Cpu, Dispatch(c) PROVE Placed'
  <2>1. PICK p \in Task :
           /\ Once(dsq') /\ \A q : On(dsq', q) <=> q # p /\ On(dsq, q)
           /\ ~Running(p) /\ c \in online
           /\ running' = [running EXCEPT ![c] = p] /\ UNCHANGED online
    BY <1>2, DispatchPlaces
  <2> QED BY <1>0, <2>1 DEF Placed, Running
<1>3. ASSUME NEW c \in Cpu, NEW rate, Switch(c, rate) PROVE Placed'
  <2>1. PICK p, q \in Task :
           /\ p = running[c] /\ ~Running(q) /\ UNCHANGED online
           /\ Once(dsq')
           /\ \A x : On(dsq', x) <=> x = p \/ (x # q /\ On(dsq, x))
           /\ running' = [running EXCEPT ![c] = q]
    BY <1>3, SwitchPlaces
  <2>2. q # p
    BY <2>1 DEF Running
  <2> QED BY <1>0, <2>1, <2>2 DEF Placed, Running
<1>4. ASSUME NEW c \in Cpu, NEW rate, Block(c, rate) PROVE Placed'
  <2>1. running' = [running EXCEPT ![c] = NoTask] /\ UNCHANGED <<online, dsq>>
    BY <1>4 DEF Block
  <2> QED BY <1>0, <2>1 DEF Placed
<1>5. ASSUME NEW c \in Cpu, CpuOnline(c) \/ CpuOffline(c) PROVE Placed'
  <2>1. UNCHANGED <<running, dsq>> /\ \A d \in online : d \in online' \/ running[d] = NoTask
    BY <1>5 DEF CpuOnline, CpuOffline
  <2> QED BY <2>1 DEF Placed
<1>6. ASSUME UNCHANGED <<running, online, dsq>> PROVE Placed'
  BY <1>6 DEF Placed
<1>7. ASSUME NEW c \in Cpu, Tick \/ GoIdle(c) \/ Yield(c) \/ Refill(c)
      PROVE  UNCHANGED <<running, online, dsq>>
  BY <1>7 DEF Tick, GoIdle, Yield, Refill, core
<1>8. 0 \in Cpu
  BY CpuAssumption DEF Cpu
<1>9. CASE UNCHANGED vars
  BY <1>6, <1>9 DEF vars, core
<1> QED BY <1>1, <1>2, <1>3, <1>4, <1>5, <1>6, <1>7, <1>8, <1>9 DEF Next

\* No step makes a running task run ahead.
LEMMA NotAheadStep ==
  ASSUME TypeOK, Placed, NotAhead, [Next]_vars
  PROVE  NotAhead'
<1>0. /\ NoTask \notin Task /\ running \in [Cpu -> Task \cup {NoTask}]
      /\ vtime \in [Task -> -(SliceNsLag + MaxCharge)..MaxCharge]
  BY TaskAssumption DEF TypeOK
<1>1. ASSUME NEW p \in Task, Wakeup(p) PROVE NotAhead'
  <2>1. ~Running(p) /\ UNCHANGED running
    BY <1>1, WakeupPlaces
  <2>2. vtime' = [vtime EXCEPT ![p] = TaskVtime(p, vtime)]
    BY <1>1 DEF Wakeup
  <2> QED BY <1>0, <2>1, <2>2 DEF NotAhead, Running
<1>2. ASSUME NEW c \in Cpu, Dispatch(c) PROVE NotAhead'
  <2>1. PICK p \in Task : /\ running' = [running EXCEPT ![c] = p]
                          /\ vtime' = VtimeRunning(p, vtime)
    BY <1>2, DispatchPlaces
  <2>2. \A q \in Task : q = p \/ vtime[q] <= 0 => vtime'[q] <= 0
    BY <1>0, <2>1, FollowedVtime
  <2> QED BY <1>0, <2>1, <2>2 DEF NotAhead
<1>3. ASSUME NEW c \in Cpu, NEW rate, Switch(c, rate) PROVE NotAhead'
  <2>1. PICK p, q \in Task : \E vt :
           /\ p = running[c] /\ ~Running(q)
           /\ running' = [running EXCEPT ![c] = q]
           /\ vt = [VtimeStopping(p) EXCEPT ![p] = TaskVtime(p, VtimeStopping(p))]
           /\ vtime' = VtimeRunning(q, vt)
    BY <1>3, SwitchPlaces
  <2>2. PICK vt : /\ vt = [VtimeStopping(p) EXCEPT ![p] = TaskVtime(p, VtimeStopping(p))]
                  /\ vtime' = VtimeRunning(q, vt)
    BY <2>1
  <2>3. /\ vt \in [Task -> -(SliceNsLag + MaxCharge)..MaxCharge]
        /\ \A x \in Task \ {p} : vt[x] = vtime[x]
    BY <2>1, <2>2, StoppedVtime
  <2>4. \A x \in Task : x = q \/ vt[x] <= 0 => vtime'[x] <= 0
    BY <2>2, <2>3, FollowedVtime
  <2>5. \A d \in Cpu : d # c => running[d] # p
    BY <1>0, <2>1 DEF Placed
  <2>6. ASSUME NEW d \in Cpu, running'[d] # NoTask PROVE vtime'[running'[d]] <= 0
    <3>1. CASE d = c
      BY <1>0, <2>1, <2>4, <3>1
    <3>2. CASE d # c
      <4>1. running'[d] = running[d] /\ running[d] \in Task \ {p}
        BY <1>0, <2>1, <2>5, <2>6, <3>2
      <4>2. vt[running[d]] <= 0
        BY <2>3, <2>6, <4>1 DEF NotAhead
      <4> QED BY <2>4, <4>1, <4>2
    <3> QED BY <3>1, <3>2
  <2> QED BY <2>6 DEF NotAhead
<1>4. ASSUME NEW c \in Cpu, NEW rate, Block(c, rate) PROVE NotAhead'
  <2> DEFINE p == running[c]
  <2>1. /\ running' = [running EXCEPT ![c] = NoTask]
        /\ vtime' = [vtime EXCEPT ![p] = TaskVtime(p, VtimeStopping(p))]
        /\ p # NoTask
    BY <1>4 DEF Block
  <2>2. \A d \in Cpu : d # c => running[d] # p
    BY <2>1 DEF Placed
  <2> QED BY <1>0, <2>1, <2>2 DEF NotAhead
<1>5. ASSUME UNCHANGED <<running, vtime>> PROVE NotAhead'
  BY <1>5 DEF NotAhead
<1>6. ASSUME NEW c \in Cpu, Tick \/ GoIdle(c) \/ Yield(c) \/ Refill(c) \/ CpuOnline(c) \/ CpuOffline(c)
      PROVE  UNCHANGED <<running, vtime>>
  BY <1>6 DEF Tick, GoIdle, Yield, Refill, CpuOnline, CpuOffline, core, tasks
<1>7. 0 \in Cpu
  BY CpuAssumption DEF Cpu
<1>8. CASE UNCHANGED vars
  BY <1>5, <1>8 DEF vars, core, tasks
<1> QED BY <1>1, <1>2, <1>3, <1>4, <1>5, <1>6, <1>7, <1>8 DEF Next

-----------------------------------------------------------------------------
\* Only the task of the callback is looked at.
LEMMA ClassifyOthers ==
  ASSUME TypeOK, NEW p \in Task, NEW rate, Classify(p, rate)
  PROVE  /\ is_interactive' \in [Task -> BOOLEAN]
         /\ \A q \in Task \ {p} : is_interactive'[q] = is_interactive[q]
<1>1. is_interactive' = [q \in Task |-> q \in InteractiveStopping(p, rate)]
  BY DEF Classify
<1>2. \A q \in Task \ {p} : q \in InteractiveStopping(p, rate) <=> q \in Interactive
  BY DEF InteractiveStopping
<1>3. \A q \in Task : q \in Interactive <=> is_interactive[q] = TRUE
  BY DEF Interactive, TypeOK
<1>4. \A q \in Task : is_interactive[q] \in BOOLEAN
  BY DEF TypeOK
<1>5. \A q \in Task \ {p} : is_interactive'[q] = is_interactive[q]
  BY <1>1, <1>2, <1>3, <1>4
<1>6. is_interactive' \in [Task -> BOOLEAN]
  BY <1>1
<1> QED BY <1>5, <1>6

\* A synchronous wake-up makes only the task that wakes interactive.
LEMMA WakeupOthers ==
  ASSUME TypeOK, NEW p \in Task, Wakeup(p)
  PROVE  /\ is_interactive' \in [Task -> BOOLEAN]
         /\ \A q \in Task \ {p} : is_interactive'[q] = is_interactive[q]
<1>1. PICK int : /\ is_interactive' = [q \in Task |-> q \in int]
                 /\ int = Interactive \/ int = Interactive \cup {p}
  BY DEF Wakeup
<1>2. \A q \in Task \ {p} : q \in int <=> q \in Interactive
  BY <1>1
<1>3. \A q \in Task : q \in Interactive <=> is_interactive[q] = TRUE
  BY DEF Interactive, TypeOK
<1>4. \A q \in Task : is_interactive[q] \in BOOLEAN
  BY DEF TypeOK
<1>5. \A q \in Task \ {p} : is_interactive'[q] = is_interactive[q]
  BY <1>1, <1>2, <1>3, <1>4
<1>6. is_interactive' \in [Task -> BOOLEAN]
  BY <1>1
<1> QED BY <1>5, <1>6

-----------------------------------------------------------------------------
\* Each callback counts the task it is called for as it was counted when it started.
LEMMA CountersStep ==
  ASSUME TypeOK, Placed, CountersExact, [Next]_vars
  PROVE  CountersExact'
<1> DEFINE R == Runners  IR == InteractiveRunners
<1>0. /\ NoTask \notin Task /\ running \in [Cpu -> Task \cup {NoTask}]
      /\ \A p \in Task : is_interactive[p] \in BOOLEAN
  BY TaskAssumption DEF TypeOK
<1>1. /\ IsFiniteSet(R) /\ IsFiniteSet(IR) /\ IsFiniteSet(online)
      /\ Cardinality(R) \in Nat /\ Cardinality(IR) \in Nat /\ Cardinality(online) \in Nat
  <2>1. \A p \in R \cup IR : \E c \in Cpu : running[c] = p
    BY DEF Runners, InteractiveRunners, Running
  <2> HIDE DEF R, IR
  <2>2. online \in SUBSET Cpu
    BY DEF TypeOK
  <2> QED BY <2>1, <2>2, RunnersBound, CpusBound
<1>2. nr_running = Cardinality(R) /\ nr_interactive = Cardinality(IR) /\ nr_online_cpus = Cardinality(online)
  BY DEF CountersExact, Runners, InteractiveRunners
<1>3. ASSUME nr_running' = Cardinality(R') /\ nr_interactive' = Cardinality(IR')
             /\ nr_online_cpus' = Cardinality(online')
      PROVE  CountersExact'
  BY <1>3 DEF CountersExact, Runners, InteractiveRunners
<1>4. ASSUME NEW p \in Task, Wakeup(p) PROVE CountersExact'
  <2>1. ~Running(p) /\ UNCHANGED <<running, online>>
    BY <1>4, WakeupPlaces
  <2>2. \A q \in Task \ {p} : is_interactive'[q] = is_interactive[q]
    BY <1>4, WakeupOthers
  <2>3. R' = R /\ IR' = IR
    BY <2>1, <2>2 DEF Runners, InteractiveRunners, Running
  <2>4. UNCHANGED counters
    BY <1>4 DEF Wakeup
  <2> QED BY <1>2, <1>3, <2>1, <2>3, <2>4 DEF counters
<1>5. ASSUME NEW c \in Cpu, Dispatch(c) PROVE CountersExact'
  <2>1. PICK p \in Task :
           /\ ~Running(p) /\ running[c] = NoTask /\ UNCHANGED online
           /\ running' = [running EXCEPT ![c] = p]
           /\ nr_interactive' = nr_interactive + Count(p)
    BY <1>5, DispatchPlaces
  <2>2. nr_running' = nr_running + 1 /\ UNCHANGED <<is_interactive, nr_online_cpus>>
    BY <1>5 DEF Dispatch
  <2>3. \A x \in Task : Running(x)' <=> x = p \/ Running(x)
    BY <1>0, <2>1 DEF Running
  <2>4. R' = R \cup {p} /\ p \notin R /\ p \notin IR
    BY <2>1, <2>3 DEF Runners, InteractiveRunners
  <2>5. IR' = IF is_interactive[p] THEN IR \cup {p} ELSE IR
    BY <2>2, <2>3 DEF InteractiveRunners
  <2> HIDE DEF R, IR
  <2>6. Cardinality(R') = Cardinality(R) + 1
    BY <1>1, <2>4, FS_AddElement
  <2>7. Cardinality(IR') = Cardinality(IR) + Count(p)
    <3>1. Cardinality(IR \cup {p}) = Cardinality(IR) + 1
      BY <1>1, <2>4, FS_AddElement
    <3>2. CASE is_interactive[p]
      BY <2>5, <3>1, <3>2 DEF Count
    <3>3. CASE ~is_interactive[p]
      BY <1>1, <2>5, <3>3 DEF Count
    <3> QED BY <3>2, <3>3
  <2> QED BY <1>2, <1>3, <2>1, <2>2, <2>6, <2>7
<1>6. ASSUME NEW c \in Cpu, NEW rate, Block(c, rate) PROVE CountersExact'
  <2> DEFINE p == running[c]
  <2>1. /\ running' = [running EXCEPT ![c] = NoTask]
        /\ nr_interactive' = nr_interactive - Count(p)
        /\ p # NoTask /\ nr_running' = nr_running - 1
        /\ Classify(p, rate) /\ UNCHANGED <<online, nr_online_cpus>>
    BY <1>6 DEF Block
  <2>2. p \in Task /\ \A d \in Cpu : d # c => running[d] # p
    BY <1>0, <2>1 DEF Placed
  <2>3. \A q \in Task \ {p} : is_interactive'[q] = is_interactive[q]
    BY <2>1, <2>2, ClassifyOthers
  <2>4. \A x \in Task : Running(x)' <=> x # p /\ Running(x)
    BY <1>0, <2>1, <2>2 DEF Running
  <2>5. Running(p)
    BY DEF Running
  <2> HIDE DEF p
  <2>6. R' = R \ {p} /\ p \in R
    BY <2>2, <2>4, <2>5 DEF Runners
  <2>7. IR' = IR \ {p} /\ (p \in IR <=> is_interactive[p])
    BY <2>2, <2>3, <2>4, <2>5 DEF InteractiveRunners
  <2> HIDE DEF R, IR
  <2>8. Cardinality(R') = Cardinality(R) - 1
    BY <1>1, <2>6, FS_RemoveElement
  <2>9. Cardinality(IR') = Cardinality(IR) - Count(p)
    <3>1. CASE is_interactive[p]
      <4>1. p \in IR /\ Count(p) = 1
        BY <2>7, <3>1 DEF Count
      <4> QED BY <1>1, <2>7, <4>1, FS_RemoveElement
    <3>2. CASE ~is_interactive[p]
      <4>1. IR' = IR /\ Count(p) = 0
        BY <2>7, <3>2 DEF Count
      <4> QED BY <1>1, <4>1
    <3> QED BY <3>1, <3>2
  <2> QED BY <1>2, <1>3, <2>1, <2>8, <2>9
<1>7. ASSUME NEW c \in Cpu, NEW rate, Switch(c, rate) PROVE CountersExact'
  <2>1. PICK p, q \in Task :
           /\ p = running[c] /\ ~Running(q) /\ UNCHANGED online
           /\ running' = [running EXCEPT ![c] = q]
           /\ nr_interactive' = nr_interactive - Count(p) + Count(q)
           /\ Classify(p, rate)
    BY <1>7, SwitchPlaces
  <2>2. UNCHANGED <<nr_running, nr_online_cpus>>
    BY <1>7 DEF Switch
  <2>3. Running(p) /\ p # q /\ \A d \in Cpu : d # c => running[d] # p
    BY <1>0, <2>1 DEF Placed, Running
  <2>4. \A x \in Task \ {p} : is_interactive'[x] = is_interactive[x]
    BY <2>1, ClassifyOthers
  <2>5. \A x \in Task : Running(x)' <=> x = q \/ (x # p /\ Running(x))
    BY <1>0, <2>1, <2>3 DEF Running
  <2> DEFINE R1 == R \ {p}  IR1 == IR \ {p}
  <2>6. R' = R1 \cup {q} /\ p \in R /\ q \notin R1
    BY <2>1, <2>3, <2>5 DEF Runners
  <2>7. /\ IR' = IF is_interactive[q] THEN IR1 \cup {q} ELSE IR1
        /\ q \notin IR1 /\ (p \in IR <=> is_interactive[p])
    BY <2>1, <2>3, <2>4, <2>5 DEF InteractiveRunners
  <2> HIDE DEF R, IR
  <2>8. IsFiniteSet(R1) /\ Cardinality(R1) = Cardinality(R) - 1
    BY <1>1, <2>6, FS_RemoveElement
  <2>9. IsFiniteSet(IR1) /\ Cardinality(IR1) = Cardinality(IR) - Count(p)
    <3>1. CASE is_interactive[p]
      <4>1. p \in IR /\ Count(p) = 1
        BY <2>7, <3>1 DEF Count
      <4> QED BY <1>1, <4>1, FS_RemoveElement
    <3>2. CASE ~is_interactive[p]
      <4>1. IR1 = IR /\ Count(p) = 0
        BY <2>7, <3>2 DEF Count
      <4> QED BY <1>1, <4>1
    <3> QED BY <3>1, <3>2
  <2> HIDE DEF R1, IR1
  <2>10. Cardinality(R') = Cardinality(R)
    <3>1. Cardinality(R1 \cup {q}) = Cardinality(R1) + 1
      BY <2>6, <2>8, FS_AddElement
    <3> QED BY <1>1, <2>6, <2>8, <3>1
  <2>11. Cardinality(IR') = Cardinality(IR) - Count(p) + Count(q)
    <3>1. Cardinality(IR1 \cup {q}) = Cardinality(IR1) + 1 /\ Cardinality(IR1) \in Nat
      BY <2>7, <2>9, FS_AddElement, FS_CardinalityType
    <3>2. Cardinality(IR') = Cardinality(IR1) + Count(q)
      <4>1. CASE is_interactive[q]
        BY <2>7, <3>1, <4>1 DEF Count
      <4>2. CASE ~is_interactive[q]
        BY <2>7, <3>1, <4>2 DEF Count
      <4> QED BY <4>1, <4>2
    <3> QED BY <2>9, <3>2
  <2> QED BY <1>2, <1>3, <2>1, <2>2, <2>10, <2>11
<1>8. ASSUME UNCHANGED <<running, is_interactive>> PROVE UNCHANGED <<R, IR>>
  BY <1>8 DEF Runners, InteractiveRunners, Running
<1>9. ASSUME NEW c \in Cpu, CpuOnline(c) \/ CpuOffline(c) PROVE CountersExact'
  <2>1. /\ UNCHANGED <<running, is_interactive, nr_running, nr_interactive>>
        /\ \/ c \notin online /\ online' = online \cup {c} /\ nr_online_cpus' = nr_online_cpus + 1
           \/ c \in online /\ online' = online \ {c} /\ nr_online_cpus' = nr_online_cpus - 1
    BY <1>9 DEF CpuOnline, CpuOffline, tasks
  <2>2. nr_online_cpus' = Cardinality(online')
    <3>1. /\ c \notin online => Cardinality(online \cup {c}) = Cardinality(online) + 1
          /\ c \in online => Cardinality(online \ {c}) = Cardinality(online) - 1
      BY <1>1, FS_AddElement, FS_RemoveElement
    <3> QED BY <1>1, <1>2, <2>1, <3>1
  <2>3. UNCHANGED <<R, IR>>
    BY <1>8, <2>1
  <2> HIDE DEF R, IR
  <2> QED BY <1>2, <1>3, <2>1, <2>2, <2>3
<1>10. ASSUME UNCHANGED <<running, is_interactive, online, counters>> PROVE CountersExact'
  BY <1>10 DEF CountersExact, counters, Running
<1>11. ASSUME NEW c \in Cpu, Tick \/ GoIdle(c) \/ Yield(c) \/ Refill(c)
       PROVE  UNCHANGED <<running, is_interactive, online, counters>>
  BY <1>11 DEF Tick, GoIdle, Yield, Refill, core, tasks
<1>12. 0 \in Cpu
  BY CpuAssumption DEF Cpu
<1>13. CASE UNCHANGED vars
  BY <1>10, <1>13 DEF vars, core, tasks
<1> HIDE DEF R, IR
<1> QED BY <1>4, <1>5, <1>6, <1>7, <1>9, <1>10, <1>11, <1>12, <1>13 DEF Next

-----------------------------------------------------------------------------
LEMMA InvInit == Init => InKernelInv
<1> SUFFICES ASSUME Init PROVE InKernelInv
  OBVIOUS
<1>0. /\ running = [c \in Cpu |-> NoTask] /\ dsq = [d \in Dsq |-> <<>>]
      /\ online \in SUBSET Cpu /\ NoTask \notin Task
  BY TaskAssumption DEF Init
<1>1. \A d \in Dsq : Len(dsq[d]) = 0 /\ dsq[d] = <<>>
  BY <1>0
<1>2. Placed /\ NotAhead
  BY <1>0, <1>1 DEF Placed, NotAhead, Once, On
<1>3. CountersExact
  <2>1. /\ {p \in Task : Running(p)} = {}
        /\ {p \in Task : Running(p) /\ is_interactive[p]} = {}
    BY <1>0 DEF Running
  <2> QED BY <2>1, FS_EmptySet DEF Init, CountersExact
<1>4. TypeOK
  <2>1. nr_online_cpus \in 0..NrCpus
    BY <1>0, CpusBound DEF Init
  <2>2. nr_running \in 0..NrCpus /\ nr_interactive \in 0..NrCpus
    BY CpuAssumption DEF Init
  <2>3. vtime \in [Task -> -(SliceNsLag + MaxCharge)..MaxCharge]
    <3> SUFFICES ASSUME NEW p \in Task PROVE 0 \in -(SliceNsLag + MaxCharge)..MaxCharge
      BY DEF Init
    <3>1. MaxCharge \in Nat
      BY FullCharge
    <3> QED BY <3>1, TimeAssumption
  <2>4. slice \in [Task -> 0..SliceDfl]
    BY TimeAssumption DEF Init
  <2>5. shared_age \in 0..Old /\ prio_age \in 0..Old
    BY TimeAssumption DEF Init, Old
  <2>6. dsq \in [Dsq -> Seq(Task)]
    BY <1>0
  <2>7. offline_cpumask \subseteq Cpu /\ idle \subseteq Cpu
    BY <1>0 DEF Init
  <2> QED BY <1>0, <2>1, <2>2, <2>3, <2>4, <2>5, <2>6, <2>7 DEF Init, TypeOK
<1> QED BY <1>2, <1>3, <1>4 DEF InKernelInv

-----------------------------------------------------------------------------
\* Slices stay between 0 and what the core gives, averages never go below 0, stamps are
\* reset or left alone.
LEMMA SliceRange ==
  ASSUME TypeOK, NEW p \in Task
  PROVE  TaskSlice(p) \in 0..SliceDfl /\ SliceRunning(p) \in 0..SliceDfl
<1>1. slice[p] \in 0..SliceDfl
  BY DEF TypeOK
<1>2. (slice[p] + SliceNsMin) \div 2 \in Int
  BY <1>1, TimeAssumption
<1> DEFINE half == (slice[p] + SliceNsMin) \div 2
<1>3. TaskSlice(p) = AtLeast(SliceNsMin, AtMost(SliceNs, half))
  BY DEF TaskSlice
<1> HIDE DEF half
<1> QED BY <1>1, <1>2, <1>3, TimeAssumption DEF SliceRunning, AtLeast, AtMost, half

LEMMA AvgRange ==
  ASSUME TypeOK, NEW p \in Task, NEW rate \in Rates[p] \cup {Within}
  PROVE  NewAvg(p, rate) \in Nat
<1>1. avg_nvcsw[p] \in Nat
  BY DEF TypeOK
<1>2. ASSUME NEW old \in Nat, NEW new \in Nat PROVE CalcAvg(old, new) \in Nat
  BY DivNat DEF CalcAvg
<1>3. rate = Within \/ rate \in Nat
  BY TaskAssumption
<1> QED BY <1>1, <1>2, <1>3 DEF NewAvg

LEMMA ConsumeRange ==
  ASSUME TypeOK, NEW d, Consume(d)
  PROVE  shared_age' \in 0..Old /\ prio_age' \in 0..Old
BY TimeAssumption DEF Consume, TypeOK, Old

\* What TypeOK says of the variables, apart from the counters.
TypesButCounters ==
  /\ running \in [Cpu -> Task \cup {NoTask}]
  /\ ran \in [Cpu -> BOOLEAN]
  /\ idle \subseteq Cpu /\ online \subseteq Cpu /\ offline_cpumask \subseteq Cpu
  /\ SeqOK(dsq)
  /\ slice \in [Task -> 0..SliceDfl]
  /\ vtime \in [Task -> -(SliceNsLag + MaxCharge)..MaxCharge]
  /\ is_interactive \in [Task -> BOOLEAN]
  /\ avg_nvcsw \in [Task -> Nat]
  /\ shared_age \in 0..Old /\ prio_age \in 0..Old

\* One lemma for each callback sequence.
LEMMA TypesWakeup ==
  ASSUME TypeOK, Placed, NEW p \in Task, Wakeup(p)
  PROVE  TypesButCounters'
<1>1. SeqOK(dsq')
  BY WakeupPlaces
<1>2. is_interactive' \in [Task -> BOOLEAN]
  BY WakeupOthers
<1>3. /\ vtime' = [vtime EXCEPT ![p] = TaskVtime(p, vtime)]
      /\ slice' = [slice EXCEPT ![p] = TaskSlice(p)]
      /\ idle' \subseteq idle
      /\ UNCHANGED <<running, ran, online, avg_nvcsw, counters, offline_cpumask, ages>>
  BY DEF Wakeup
<1>4. TaskVtime(p, vtime) \in -(SliceNsLag + MaxCharge)..MaxCharge
  <2>1. MaxCharge \in Nat /\ SliceNsLag \in Nat
    BY FullCharge, TimeAssumption
  <2>2. vtime[p] \in -(SliceNsLag + MaxCharge)..MaxCharge
    BY DEF TypeOK
  <2> QED BY <2>1, <2>2 DEF TaskVtime, AtLeast
<1>5. TaskSlice(p) \in 0..SliceDfl
  BY SliceRange
<1> QED BY <1>1, <1>2, <1>3, <1>4, <1>5 DEF TypeOK, TypesButCounters, ages

LEMMA TypesDispatch ==
  ASSUME TypeOK, Placed, NEW c \in Cpu, Dispatch(c)
  PROVE  TypesButCounters'
<1>1. PICK p \in Task :
           /\ SeqOK(dsq')
           /\ running' = [running EXCEPT ![c] = p] /\ UNCHANGED online
           /\ vtime' = VtimeRunning(p, vtime)
           /\ slice' = [slice EXCEPT ![p] = SliceRunning(p)]
  BY DispatchPlaces
<1>2. /\ ran' = [ran EXCEPT ![c] = FALSE]
      /\ idle' = idle \ {c}
      /\ UNCHANGED <<online, is_interactive, avg_nvcsw, nr_online_cpus, offline_cpumask>>
      /\ Consume(From(c))
  BY DEF Dispatch
<1>3. vtime' \in [Task -> -(SliceNsLag + MaxCharge)..MaxCharge]
  BY <1>1, FollowedVtime DEF TypeOK
<1>4. SliceRunning(p) \in 0..SliceDfl
  BY SliceRange
<1>5. shared_age' \in 0..Old /\ prio_age' \in 0..Old
  BY <1>2, ConsumeRange
<1> QED BY <1>1, <1>2, <1>3, <1>4, <1>5 DEF TypeOK, TypesButCounters

LEMMA TypesBlock ==
  ASSUME TypeOK, Placed, NotAhead, NEW c \in Cpu, NEW rate \in Evaluations(c), Block(c, rate)
  PROVE  TypesButCounters'
<1> DEFINE p == running[c]
<1>1. /\ p # NoTask /\ Classify(p, rate)
      /\ vtime' = [vtime EXCEPT ![p] = TaskVtime(p, VtimeStopping(p))]
      /\ running' = [running EXCEPT ![c] = NoTask]
      /\ ran' = [ran EXCEPT ![c] = FALSE]
      /\ UNCHANGED <<idle, online, dsq, slice, nr_online_cpus, offline_cpumask, ages>>
  BY DEF Block
<1>2. p \in Task /\ rate \in Rates[p] \cup {Within}
  BY <1>1 DEF TypeOK, Evaluations
<1> HIDE DEF p
<1>3. is_interactive' \in [Task -> BOOLEAN]
  BY <1>1, <1>2, ClassifyOthers
<1>4. avg_nvcsw' \in [Task -> Nat]
  BY <1>1, <1>2, AvgRange DEF Classify, TypeOK
<1>5. TaskVtime(p, VtimeStopping(p)) \in -(SliceNsLag + MaxCharge)..MaxCharge
  <2> DEFINE vt == [VtimeStopping(p) EXCEPT ![p] = TaskVtime(p, VtimeStopping(p))]
  <2>1. vt \in [Task -> -(SliceNsLag + MaxCharge)..MaxCharge]
    BY <1>2, StoppedVtime DEF p
  <2>2. vt[p] = TaskVtime(p, VtimeStopping(p))
    BY <1>2 DEF VtimeStopping, TypeOK
  <2> HIDE DEF vt
  <2> QED BY <1>2, <2>1, <2>2
<1> HIDE DEF p
<1> QED BY <1>1, <1>2, <1>3, <1>4, <1>5 DEF TypeOK, TypesButCounters, SeqOK, ages

LEMMA TypesSwitch ==
  ASSUME TypeOK, Placed, NotAhead, NEW c \in Cpu, NEW rate \in Evaluations(c), Switch(c, rate)
  PROVE  TypesButCounters'
<1>1. PICK p, q \in Task : \E vt :
           /\ p = running[c]
           /\ SeqOK(dsq')
           /\ running' = [running EXCEPT ![c] = q]
           /\ vt = [VtimeStopping(p) EXCEPT ![p] = TaskVtime(p, VtimeStopping(p))]
           /\ vtime' = VtimeRunning(q, vt)
           /\ slice' = SliceSwitched(p, q)
           /\ Classify(p, rate)
  BY SwitchPlaces
<1>2. PICK vt : /\ vt = [VtimeStopping(p) EXCEPT ![p] = TaskVtime(p, VtimeStopping(p))]
                /\ vtime' = VtimeRunning(q, vt)
  BY <1>1
<1>3. vt \in [Task -> -(SliceNsLag + MaxCharge)..MaxCharge]
  BY <1>1, <1>2, StoppedVtime
<1>4. vtime' \in [Task -> -(SliceNsLag + MaxCharge)..MaxCharge]
  BY <1>2, <1>3, FollowedVtime
<1>5. TaskSlice(p) \in 0..SliceDfl /\ SliceRunning(q) \in 0..SliceDfl
  BY SliceRange
<1>6. slice' \in [Task -> 0..SliceDfl]
  BY <1>1, <1>5 DEF SliceSwitched, TypeOK
<1>7. rate \in Rates[p] \cup {Within}
  BY <1>1, TaskAssumption DEF Evaluations
<1>8. is_interactive' \in [Task -> BOOLEAN]
  BY <1>1, ClassifyOthers
<1>9. avg_nvcsw' \in [Task -> Nat]
  BY <1>1, <1>7, AvgRange, SMTT(30) DEF Classify, TypeOK
<1>10. Consume(From(c))
  BY DEF Switch
<1>11. shared_age' \in 0..Old /\ prio_age' \in 0..Old
  BY <1>10, ConsumeRange
<1>12. /\ ran' = [ran EXCEPT ![c] = FALSE]
       /\ UNCHANGED <<idle, online, nr_running, nr_online_cpus, offline_cpumask>>
  BY DEF Switch
<1> QED BY <1>1, <1>4, <1>6, <1>8, <1>9, <1>11, <1>12 DEF TypeOK, TypesButCounters

LEMMA TypesTick ==
  ASSUME TypeOK, Placed, Tick
  PROVE  TypesButCounters'
<1>1. ASSUME NEW p \in Task, Running(p) PROVE slice[p] - 1 \in 0..SliceDfl
  <2>1. PICK c \in Cpu : running[c] = p
    BY <1>1 DEF Running
  <2>2. c \in online /\ p # NoTask
    BY <2>1, TaskAssumption DEF Placed
  <2>3. slice[p] > 0
    BY <2>1, <2>2 DEF Tick
  <2> QED BY <2>3, TimeAssumption, SMTT(30) DEF TypeOK
<1>2. slice' \in [Task -> 0..SliceDfl]
  BY <1>1 DEF Tick, TypeOK
<1>3. shared_age' \in 0..Old /\ prio_age' \in 0..Old
  BY TimeAssumption, SMTT(30) DEF Tick, TypeOK, Old, AtMost
<1>4. ran' \in [Cpu -> BOOLEAN]
  BY DEF Tick
<1>5. UNCHANGED <<running, idle, online, dsq, vtime, is_interactive, avg_nvcsw, offline_cpumask>>
  BY DEF Tick
<1> QED BY <1>2, <1>3, <1>4, <1>5 DEF TypeOK, TypesButCounters, SeqOK

LEMMA TypesRest ==
  ASSUME TypeOK, NEW c \in Cpu,
         \/ GoIdle(c) \/ Yield(c) \/ Refill(c) \/ CpuOnline(c) \/ CpuOffline(c) \/ UNCHANGED vars
  PROVE  TypesButCounters'
<1>1. CASE GoIdle(c)
  BY <1>1 DEF GoIdle, TypeOK, TypesButCounters, SeqOK, tasks, ages
<1>2. CASE Yield(c)
  BY <1>2, TimeAssumption, SMTT(30) DEF Yield, TypeOK, TypesButCounters, SeqOK, core, ages
<1>3. CASE Refill(c)
  BY <1>3, TimeAssumption, SMTT(30) DEF Refill, TypeOK, TypesButCounters, SeqOK, ages
<1>4. CASE CpuOnline(c)
  BY <1>4 DEF CpuOnline, TypeOK, TypesButCounters, SeqOK, tasks, ages
<1>5. CASE CpuOffline(c)
  BY <1>5 DEF CpuOffline, TypeOK, TypesButCounters, SeqOK, tasks, ages
<1>6. CASE UNCHANGED vars
  BY <1>6 DEF vars, core, TypeOK, TypesButCounters, SeqOK, tasks, ages
<1> QED BY <1>1, <1>2, <1>3, <1>4, <1>5, <1>6

LEMMA TypesStep ==
  ASSUME TypeOK, Placed, NotAhead, [Next]_vars
  PROVE  TypesButCounters'
<1>1. 0 \in Cpu
  BY CpuAssumption DEF Cpu
<1> QED BY <1>1, TypesWakeup, TypesDispatch, TypesBlock, TypesSwitch, TypesTick, TypesRest DEF Next

\* The counters are in range because they count what they should.
LEMMA InvStep == InKernelInv /\ [Next]_vars => InKernelInv'
<1> SUFFICES ASSUME TypeOK, CountersExact, Placed, NotAhead, [Next]_vars PROVE InKernelInv'
  BY DEF InKernelInv
<1>1. Placed'
  BY PlacedStep
<1>2. NotAhead'
  BY NotAheadStep
<1>3. CountersExact'
  BY CountersStep
<1>4. TypesButCounters'
  BY TypesStep
<1>5. nr_running' \in 0..NrCpus /\ nr_interactive' \in 0..NrCpus /\ nr_online_cpus' \in 0..NrCpus
  <2>1. \A p \in {p \in Task : Running(p)'} : \E c \in Cpu : running'[c] = p
    BY DEF Running
  <2>2. \A p \in {p \in Task : Running(p)' /\ is_interactive'[p]} : \E c \in Cpu : running'[c] = p
    BY DEF Running
  <2>3. online' \in SUBSET Cpu
    BY <1>4 DEF TypesButCounters
  <2> QED BY <1>3, <2>1, <2>2, <2>3, RunnersBound, CpusBound DEF CountersExact
<1>6. TypeOK'
  BY <1>4, <1>5 DEF TypesButCounters, TypeOK, SeqOK
<1> QED BY <1>1, <1>2, <1>3, <1>6 DEF InKernelInv

\* Slices never go below 0, virtual times stay in the window that SliceNsLag and the
\* largest charge span, and the counters between 0 and the number of CPUs.
THEOREM InKernelTypeOK == Spec => []TypeOK
<1>1. InKernelInv => TypeOK
  BY DEF InKernelInv
<1> QED BY <1>1, InvInit, InvStep, PTL DEF Spec

\* nr_running and nr_interactive are the numbers of tasks on CPUs, of all and of those that
\* are interactive, whatever tasks become while they run; nr_online_cpus is the number of
\* CPUs that are online.
THEOREM CountersNeverDrift == Spec => []CountersExact
<1>1. InKernelInv => CountersExact
  BY DEF InKernelInv
<1> QED BY <1>1, InvInit, InvStep, PTL DEF Spec

-----------------------------------------------------------------------------
LEMMA SeenInit == Init => SeenInv
BY DEF Init, SeenInv, IdleSeen, NeverHotOnline, StrandedSeen, Cpu, Dsq

\* A step that leaves queues and hotplug alone and marks only online CPUs as idle.
LEMMA SeenQuiet ==
  ASSUME SeenInv, UNCHANGED <<online, dsq, offline_cpumask>>,
         idle' \subseteq Cpu, idle' \subseteq idle \cup online
  PROVE  SeenInv'
BY DEF SeenInv, IdleSeen, NeverHotOnline, StrandedSeen

\* A step that fills only queues of CPUs that are online or in the mask.
LEMMA SeenFill ==
  ASSUME SeenInv, UNCHANGED <<online, offline_cpumask>>, idle' \subseteq idle,
         DOMAIN dsq' = DOMAIN dsq,
         \A c \in Cpu : dsq[c] = <<>> /\ dsq'[c] # <<>> => c \in online \cup offline_cpumask
  PROVE  SeenInv'
BY DEF SeenInv, IdleSeen, NeverHotOnline, StrandedSeen

LEMMA SeenWakeup ==
  ASSUME SeenInv, NEW p \in Task, Wakeup(p)
  PROVE  SeenInv'
<1>1. PICK sync \in BOOLEAN, prev \in CpusPtr[p] : \E cpu \in PickIdleCpu(p, prev) : \E int, vt :
        /\ dsq' = DispatchVtime(dsq, IF cpu # {} THEN CHOOSE c \in cpu : TRUE
                                     ELSE Target(p, dsq, int), p, vt)
        /\ idle' = idle \ cpu
  BY DEF Wakeup
<1>2. PICK cpu \in PickIdleCpu(p, prev) : \E int, vt :
        /\ dsq' = DispatchVtime(dsq, IF cpu # {} THEN CHOOSE c \in cpu : TRUE
                                     ELSE Target(p, dsq, int), p, vt)
        /\ idle' = idle \ cpu
  BY <1>1
<1>3. PICK int, vt :
         /\ dsq' = DispatchVtime(dsq, IF cpu # {} THEN CHOOSE c \in cpu : TRUE
                                      ELSE Target(p, dsq, int), p, vt)
         /\ idle' = idle \ cpu
  BY <1>2
<1>4. ASSUME NEW c \in Cpu, dsq[c] = <<>>, dsq'[c] # <<>>
      PROVE  c \in online \cup offline_cpumask
  <2>1. c = IF cpu # {} THEN CHOOSE k \in cpu : TRUE ELSE Target(p, dsq, int)
    BY <1>3, <1>4, DispatchElsewhere DEF SeenInv, Dsq
  <2>2. CASE cpu # {}
    BY <2>1, <2>2, PickIsIdle DEF SeenInv, IdleSeen
  <2>3. CASE cpu = {}
    BY <2>1, <2>3, TargetSeen DEF SeenInv, NeverHotOnline
  <2> QED BY <2>2, <2>3
<1>5. DOMAIN dsq' = DOMAIN dsq
  BY <1>3, DispatchDomain
<1>6. UNCHANGED <<online, offline_cpumask>>
  BY DEF Wakeup
<1> QED BY <1>3, <1>4, <1>5, <1>6, SeenFill

LEMMA SeenDispatch ==
  ASSUME SeenInv, NEW c \in Cpu, Dispatch(c)
  PROVE  SeenInv'
<1>1. /\ dsq' = Without(From(c), Consumable(c, From(c)))
      /\ idle' \subseteq idle
      /\ UNCHANGED <<online, offline_cpumask>>
  BY DEF Dispatch
<1>2. \A e \in Cpu : dsq[e] = <<>> => dsq'[e] = <<>>
  BY <1>1, ConsumeEmpty DEF SeenInv, Dsq
<1>3. DOMAIN dsq' = DOMAIN dsq
  BY <1>1 DEF Without
<1> QED BY <1>1, <1>2, <1>3, SeenFill

LEMMA SeenSwitch ==
  ASSUME SeenInv, NEW c \in Cpu, NEW rate, Switch(c, rate)
  PROVE  SeenInv'
<1> DEFINE queues == Without(From(c), Consumable(c, From(c)))
<1>1. PICK int, vt :
        dsq' = DispatchVtime(queues, Target(running[c], queues, int), running[c], vt)
  BY DEF Switch
<1>2. \A e \in Cpu : dsq[e] = <<>> => queues[e] = <<>>
  BY ConsumeEmpty DEF SeenInv, Dsq
<1>3. DOMAIN queues = DOMAIN dsq
  BY DEF Without
<1> HIDE DEF queues
<1>4. ASSUME NEW e \in Cpu, dsq[e] = <<>>, dsq'[e] # <<>>
      PROVE  e \in online \cup offline_cpumask
  <2>1. e = Target(running[c], queues, int)
    BY <1>1, <1>2, <1>3, <1>4, DispatchElsewhere DEF SeenInv, Dsq
  <2> QED BY <2>1, TargetSeen DEF SeenInv, NeverHotOnline
<1>5. DOMAIN dsq' = DOMAIN dsq
  BY <1>1, <1>3, DispatchDomain
<1>6. UNCHANGED <<idle, online, offline_cpumask>>
  BY DEF Switch
<1> QED BY <1>4, <1>5, <1>6, SeenFill

LEMMA SeenStep == SeenInv /\ [Next]_vars => SeenInv'
<1> SUFFICES ASSUME SeenInv, [Next]_vars PROVE SeenInv'
  OBVIOUS
<1>1. ASSUME NEW p \in Task, Wakeup(p) PROVE SeenInv'
  BY <1>1, SeenWakeup
<1>2. ASSUME NEW c \in Cpu, Dispatch(c) PROVE SeenInv'
  BY <1>2, SeenDispatch
<1>3. ASSUME NEW c \in Cpu, NEW rate, Switch(c, rate) PROVE SeenInv'
  BY <1>3, SeenSwitch
<1>4. ASSUME NEW c \in Cpu, CpuOnline(c) PROVE SeenInv'
  BY <1>4 DEF CpuOnline, SeenInv, IdleSeen, NeverHotOnline, StrandedSeen
<1>5. ASSUME NEW c \in Cpu, CpuOffline(c) PROVE SeenInv'
  BY <1>5 DEF CpuOffline, SeenInv, IdleSeen, NeverHotOnline, StrandedSeen
<1>6. ASSUME NEW c \in Cpu, NEW rate, \/ Tick \/ GoIdle(c) \/ Yield(c) \/ Refill(c)
                                      \/ Block(c, rate)
      PROVE  SeenInv'
  <2>1. UNCHANGED <<online, dsq, offline_cpumask>>
    BY <1>6 DEF Tick, GoIdle, Yield, Refill, Block, core
  <2>2. idle' = idle \/ (c \in online /\ idle' = idle \cup {c})
    BY <1>6 DEF Tick, GoIdle, Yield, Refill, Block, core
  <2> QED BY <2>1, <2>2, SeenQuiet DEF SeenInv
<1>7. CASE UNCHANGED vars
  BY <1>7, SeenQuiet DEF vars, core, SeenInv
<1>8. 0 \in Cpu
  BY CpuAssumption DEF Cpu
<1> QED BY <1>1, <1>2, <1>3, <1>4, <1>5, <1>6, <1>7, <1>8 DEF Next

\* A task that was given to a CPU which is not online is on a queue where the other CPUs
\* look, for any hotplug, stale idle bits, and CPUs offline from the start.
THEOREM NothingStrands == Spec => []StrandedSeen
<1>1. SeenInv => StrandedSeen
  BY DEF SeenInv
<1> QED BY <1>1, SeenInit, SeenStep, PTL DEF Spec
===============================================================================
