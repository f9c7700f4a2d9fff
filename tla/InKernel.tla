------------------------------ MODULE InKernel ------------------------------
(***************************************************************************)
(* The in-kernel scheduler of democracy-scheduler/src/bpf/main.bpf.c:      *)
(* DSQs ordered by virtual time, one of each CPU, one of interactive tasks *)
(* and one of all others, against CPUs that come and go.                   *)
(*                                                                         *)
(* Times are kept as differences, which is all the code compares: the      *)
(* vtime of a task is p->scx.dsq_vtime - vtime_now, a starvation stamp is  *)
(* the time since it, up to the point from which all values are alike.     *)
(* Time passes while tasks run: the callbacks take none.                   *)
(***************************************************************************)
EXTENDS Integers, FiniteSets, SequencesExt

CONSTANTS
  NrCpus,           \* scx_bpf_nr_cpu_ids()
  Hot,              \* CPUs that may go offline and come back
  Core,             \* the core of each CPU, for idle_smtmask
  Task,
  Kthread,
  CpusPtr,          \* the CPUs each task may run on
  Weight,           \* p->scx.weight
  Rates,            \* voluntary switches per second that a task may show
  PrioDsq, SharedDsq,
  NoTask,
  Within,           \* a task stops within a second of its last evaluation
  LocalKthreads, SmtEnabled, NvcswThresh,
  SliceNs, SliceNsMin, SliceNsLag, StarvationThreshNs,
  SliceDfl,         \* SCX_SLICE_DFL of the core
  PrioPerCpu        \* 4 in the code

Cpu == 0..NrCpus - 1
Dsq == Cpu \cup {PrioDsq, SharedDsq}
Pinned(p) == Cardinality(CpusPtr[p]) = 1

ASSUME CpuAssumption ==
  /\ NrCpus \in Nat \ {0} /\ Hot \subseteq Cpu
  /\ {PrioDsq, SharedDsq} \cap Cpu = {} /\ PrioDsq # SharedDsq
  /\ DOMAIN Core = Cpu
\* What a CPU leaves behind when it goes offline can run elsewhere: per-CPU threads are
\* parked before, and the kernel widens the mask of a task that has no other CPU.
ASSUME TaskAssumption ==
  /\ Kthread \subseteq Task /\ NoTask \notin Task
  /\ CpusPtr \in [Task -> SUBSET Cpu]
  /\ \A p \in Task : CpusPtr[p] \ Hot # {}
  /\ Weight \in [Task -> Nat \ {0}]
  /\ Rates \in [Task -> SUBSET Nat] /\ Within \notin Nat
ASSUME TimeAssumption ==
  /\ {SliceNs, SliceNsMin, SliceNsLag, StarvationThreshNs, SliceDfl} \subseteq Nat
  /\ 0 < SliceNsMin /\ SliceNsMin <= SliceNs /\ SliceNs < SliceDfl
ASSUME OptionAssumption ==
  /\ LocalKthreads \in BOOLEAN /\ SmtEnabled \in BOOLEAN
  /\ NvcswThresh \in Nat /\ PrioPerCpu \in Nat

VARIABLES
  \* the sched_ext core
  running,          \* the task on each CPU
  ran,              \* whether it has run for a unit of time
  idle,             \* the idle mask
  online,           \* the online mask
  dsq,
  slice, vtime,     \* p->scx.slice, p->scx.dsq_vtime
  \* main.bpf.c
  is_interactive, avg_nvcsw,
  nr_running, nr_interactive, nr_online_cpus,
  offline_cpumask,
  shared_age, prio_age   \* time since starvation_shared_ts, starvation_prio_ts

core == <<running, ran, idle, online>>
tasks == <<slice, vtime, is_interactive, avg_nvcsw>>
counters == <<nr_running, nr_interactive, nr_online_cpus>>
ages == <<shared_age, prio_age>>
vars == <<core, dsq, tasks, counters, offline_cpumask, ages>>

Queued(p)  == \E d \in Dsq : p \in ToSet(dsq[d])
Running(p) == \E c \in Cpu : running[c] = p
Blocked(p) == ~Queued(p) /\ ~Running(p)
AtMost(bound, t)  == IF t > bound THEN bound ELSE t
AtLeast(bound, t) == IF t < bound THEN bound ELSE t

\* From here on it is all the same how far a task is behind: a blocked one is clamped
\* when it wakes, any other one when it stops, whatever it is charged.
MaxCharge == Max({(SliceNs * 100) \div Weight[p] : p \in Task})
Floor(p) == IF Blocked(p) THEN -SliceNsLag ELSE -(SliceNsLag + MaxCharge)
Old   == StarvationThreshNs + 1

-----------------------------------------------------------------------------
(***************************************************************************)
(* Helpers of the callbacks.  vt, int are the vtimes and the interactive   *)
(* tasks at the point of a callback where a helper is called.              *)
(***************************************************************************)
TaskVtime(p, vt) == AtLeast(-SliceNsLag, vt[p])
TaskSlice(p) == AtLeast(SliceNsMin, AtMost(SliceNs, (slice[p] + SliceNsMin) \div 2))

IsInteractiveAvail(queues) == Len(queues[PrioDsq]) < nr_online_cpus * PrioPerCpu

\* old - (old >> 2) + (new >> 2)
CalcAvg(old, new) == (old - (old \div 4)) + new \div 4

\* scx_bpf_dispatch_vtime: behind all entries that are not later.
DispatchVtime(queues, d, p, vt) ==
  LET at == 1 + Cardinality({i \in DOMAIN queues[d] : vt[queues[d][i]] <= vt[p]})
  IN [queues EXCEPT ![d] = InsertAt(@, at, p)]

\* The DSQ that democracy_enqueue chooses.
Target(p, queues, int) ==
  IF LocalKthreads /\ p \in Kthread /\ Pinned(p) THEN CHOOSE c \in CpusPtr[p] : TRUE
  ELSE IF p \in int /\ IsInteractiveAvail(queues) THEN PrioDsq
  ELSE SharedDsq

\* What pick_idle_cpu may return; {} for -ENOENT.  Of a mask the code takes any CPU, and
\* gives the mask up when that one is not online.
AnyOnline(p, mask) ==
  {{c} : c \in CpusPtr[p] \cap mask \cap online} \cup
  (IF CpusPtr[p] \cap mask \subseteq online /\ CpusPtr[p] \cap mask # {} THEN {} ELSE {{}})
PickIdleCpu(p, prev) ==
  LET full == {c \in idle : \A d \in Cpu : Core[d] = Core[c] => d \in idle}
      smt  == IF prev \in full THEN {{prev}} ELSE AnyOnline(p, full)
      rest == IF prev \in idle THEN {{prev}} ELSE AnyOnline(p, idle)
  IN IF Pinned(p) THEN {CpusPtr[p] \cap idle}
     ELSE IF ~SmtEnabled THEN rest
     ELSE (smt \ {{}}) \cup (IF {} \in smt THEN rest ELSE {})

-----------------------------------------------------------------------------
(***************************************************************************)
(* ops.dispatch: the DSQs in the order in which CPU c tries them.          *)
(***************************************************************************)
IfAny(test, d) == IF test THEN <<d>> ELSE <<>>
Starving == IfAny(shared_age > StarvationThreshNs, SharedDsq)
              \o IfAny(prio_age > StarvationThreshNs, PrioDsq)
OtherCpus(c) == [i \in 1..NrCpus - 1 |-> (c + i) % NrCpus]
\* mutant: without consume_starving_tasks
TriesHungry(c) == <<c>> \o OtherCpus(c) \o <<PrioDsq, SharedDsq>>
Tries(c) ==
  (IF StarvationThreshNs = 0 THEN <<>> ELSE Starving)
    \o <<c>> \o OtherCpus(c) \o <<PrioDsq, SharedDsq>>
\* consume_offline_cpus skips the CPUs that are not in the mask.
Skipped(c, d) == d \in Cpu \ ({c} \cup offline_cpumask)

\* scx_bpf_consume skips the tasks that may not run on c.
Consumable(c, d) == SelectInSeq(dsq[d], LAMBDA p : c \in CpusPtr[p])
HasWork(c) ==
  \E d \in {c, PrioDsq, SharedDsq} \cup offline_cpumask :
    \E i \in DOMAIN dsq[d] : c \in CpusPtr[dsq[d][i]]
Without(d, i) == [dsq EXCEPT ![d] = RemoveAt(@, i)]
From(c) ==
  LET tries == Tries(c)
  IN tries[SelectInSeq(tries, LAMBDA d : ~Skipped(c, d) /\ Consumable(c, d) # 0)]
Consume(d) ==
  /\ shared_age' = IF d = SharedDsq THEN 0 ELSE shared_age
  /\ prio_age' = IF d = PrioDsq THEN 0 ELSE prio_age

\* ops.running: vtime_now follows the task, and what is left of its slice is capped.
VtimeRunning(p, vt) ==
  [q \in Task |-> AtLeast(Floor(q), vt[q] - AtLeast(0, vt[p]))]
SliceRunning(p) == AtMost(SliceNs, slice[p])
SliceSwitched(p, q) == [slice EXCEPT ![p] = TaskSlice(p), ![q] = SliceRunning(q)]

\* ops.stopping: the charge, and at most once a second a look at the voluntary switches.
Charge(p) == IF SliceNs > slice[p] THEN ((SliceNs - slice[p]) * 100) \div Weight[p] ELSE 0
VtimeStopping(p) == [vtime EXCEPT ![p] = @ + Charge(p)]
NewAvg(p, rate) ==
  IF rate = Within \/ NvcswThresh = 0 THEN avg_nvcsw[p] ELSE CalcAvg(avg_nvcsw[p], rate)
Interactive == {p \in Task : is_interactive[p]}
InteractiveStopping(p, rate) ==
  IF rate = Within \/ NvcswThresh = 0 THEN Interactive
  ELSE IF NewAvg(p, rate) >= NvcswThresh THEN Interactive \cup {p}
  ELSE IF NewAvg(p, rate) = 0 THEN Interactive \ {p}
  ELSE Interactive
Count(p) == IF is_interactive[p] THEN 1 ELSE 0
Classify(p, rate) ==
  /\ avg_nvcsw' = [avg_nvcsw EXCEPT ![p] = NewAvg(p, rate)]
  /\ is_interactive' = [q \in Task |-> q \in InteractiveStopping(p, rate)]

-----------------------------------------------------------------------------
(***************************************************************************)
(* Steps: one for each sequence of callbacks that the core makes under a   *)
(* run queue lock.                                                         *)
(***************************************************************************)
\* democracy_init, democracy_init_task and democracy_enable for all tasks.  The mask of
\* offline CPUs starts empty even if CPUs are offline.
Init ==
  /\ running = [c \in Cpu |-> NoTask]
  /\ ran = [c \in Cpu |-> FALSE]
  /\ online \in {Cpu \ H : H \in SUBSET Hot}
  /\ idle = online
  /\ dsq = [d \in Dsq |-> <<>>]
  /\ slice = [p \in Task |-> SliceDfl]
  /\ vtime = [p \in Task |-> 0]
  /\ is_interactive = [p \in Task |-> FALSE]
  /\ avg_nvcsw = [p \in Task |-> 0]
  /\ nr_running = 0 /\ nr_interactive = 0
  /\ nr_online_cpus = Cardinality(online)
  /\ offline_cpumask = {}
  /\ shared_age = Old /\ prio_age = Old

\* A blocked task wakes: select_cpu, then enqueue if that did not dispatch it.
Wakeup(p) ==
  /\ Blocked(p)
  /\ \E sync \in BOOLEAN, prev \in CpusPtr[p] : \E cpu \in PickIdleCpu(p, prev) :
       LET int == IF sync /\ IsInteractiveAvail(dsq) THEN Interactive \cup {p} ELSE Interactive
           vt  == [vtime EXCEPT ![p] = TaskVtime(p, vtime)]
           d   == IF cpu # {} THEN CHOOSE c \in cpu : TRUE ELSE Target(p, dsq, int)
       IN /\ dsq' = DispatchVtime(dsq, d, p, vt)
          /\ vtime' = vt
          /\ is_interactive' = [q \in Task |-> q \in int]
          /\ idle' = idle \ cpu
  /\ slice' = [slice EXCEPT ![p] = TaskSlice(p)]
  /\ UNCHANGED <<running, ran, online, avg_nvcsw, counters, offline_cpumask, ages>>

\* A CPU without a task takes one: dispatch, running.
Dispatch(c) ==
  /\ c \in online /\ running[c] = NoTask
  /\ HasWork(c)
  /\ \E d \in {From(c)} : \E i \in {Consumable(c, d)} : \E p \in {dsq[d][i]} :
       /\ Consume(d)
       /\ dsq' = Without(d, i)
       /\ running' = [running EXCEPT ![c] = p]
       /\ vtime' = VtimeRunning(p, vtime)
       /\ slice' = [slice EXCEPT ![p] = SliceRunning(p)]
       /\ nr_interactive' = nr_interactive + Count(p)
  /\ ran' = [ran EXCEPT ![c] = FALSE]
  /\ idle' = idle \ {c}
  /\ nr_running' = nr_running + 1
  /\ UNCHANGED <<online, is_interactive, avg_nvcsw, nr_online_cpus, offline_cpumask>>

\* The core marks a CPU that has found nothing.
GoIdle(c) ==
  /\ c \in online \ idle /\ running[c] = NoTask
  /\ ~HasWork(c)
  /\ idle' = idle \cup {c}
  /\ UNCHANGED <<running, ran, online, dsq, tasks, counters, offline_cpumask, ages>>

\* mutant: any task that stops is subtracted
BlockSubtracts(c, rate) ==
  /\ running[c] # NoTask /\ ran[c]
  /\ LET p == running[c] IN
     /\ vtime' = [vtime EXCEPT ![p] = TaskVtime(p, VtimeStopping(p))]
     /\ Classify(p, rate)
     /\ nr_interactive' = nr_interactive - 1
  /\ running' = [running EXCEPT ![c] = NoTask]
  /\ ran' = [ran EXCEPT ![c] = FALSE]
  /\ nr_running' = nr_running - 1
  /\ UNCHANGED <<idle, online, dsq, slice, nr_online_cpus, offline_cpumask, ages>>
\* mutant: the task is counted as what it has just become
BlockRecounts(c, rate) ==
  /\ running[c] # NoTask /\ ran[c]
  /\ LET p == running[c] IN
     /\ vtime' = [vtime EXCEPT ![p] = TaskVtime(p, VtimeStopping(p))]
     /\ Classify(p, rate)
     /\ nr_interactive' = nr_interactive - (IF p \in InteractiveStopping(p, rate) THEN 1 ELSE 0)
  /\ running' = [running EXCEPT ![c] = NoTask]
  /\ ran' = [ran EXCEPT ![c] = FALSE]
  /\ nr_running' = nr_running - 1
  /\ UNCHANGED <<idle, online, dsq, slice, nr_online_cpus, offline_cpumask, ages>>
\* The running task blocks: stopping.
Block(c, rate) ==
  /\ running[c] # NoTask /\ ran[c]
  /\ LET p == running[c] IN
     /\ vtime' = [vtime EXCEPT ![p] = TaskVtime(p, VtimeStopping(p))]
     /\ Classify(p, rate)
     /\ nr_interactive' = nr_interactive - Count(p)
  /\ running' = [running EXCEPT ![c] = NoTask]
  /\ ran' = [ran EXCEPT ![c] = FALSE]
  /\ nr_running' = nr_running - 1
  /\ UNCHANGED <<idle, online, dsq, slice, nr_online_cpus, offline_cpumask, ages>>

\* sched_yield gives the rest of the slice away.
Yield(c) ==
  /\ running[c] # NoTask /\ ran[c] /\ slice[running[c]] # 0
  /\ slice' = [slice EXCEPT ![running[c]] = 0]
  /\ UNCHANGED <<core, dsq, vtime, is_interactive, avg_nvcsw, counters, offline_cpumask, ages>>

\* The slice is used up and another task waits: dispatch, stopping, enqueue, running.
Switch(c, rate) ==
  /\ running[c] # NoTask /\ slice[running[c]] = 0
  /\ HasWork(c)
  /\ \E d \in {From(c)} : \E i \in {Consumable(c, d)} :
     \E p \in {running[c]}, q \in {dsq[d][i]} :
     \E queues \in {Without(d, i)}, stopped \in {VtimeStopping(p)} :
     \E vt \in {[stopped EXCEPT ![p] = TaskVtime(p, stopped)]} :
       /\ Consume(d)
       /\ dsq' = DispatchVtime(queues, Target(p, queues, InteractiveStopping(p, rate)), p, vt)
       /\ vtime' = VtimeRunning(q, vt)
       /\ Classify(p, rate)
       /\ slice' = SliceSwitched(p, q)
       /\ nr_interactive' = nr_interactive - Count(p) + Count(q)
       /\ running' = [running EXCEPT ![c] = q]
  /\ ran' = [ran EXCEPT ![c] = FALSE]
  /\ UNCHANGED <<idle, online, nr_running, nr_online_cpus, offline_cpumask>>

\* The slice is used up and nothing was dispatched: the core lets the task go on.
Refill(c) ==
  /\ running[c] # NoTask /\ slice[running[c]] = 0
  /\ ~HasWork(c)
  /\ slice' = [slice EXCEPT ![running[c]] = SliceDfl]
  /\ ran' = [ran EXCEPT ![c] = FALSE]
  /\ UNCHANGED <<running, idle, online, dsq, vtime, is_interactive, avg_nvcsw, counters, offline_cpumask, ages>>

\* A unit of time: no CPU is about to call back.
Tick ==
  /\ \A c \in online : IF running[c] = NoTask THEN ~HasWork(c) ELSE slice[running[c]] > 0
  /\ slice' = [p \in Task |-> IF Running(p) THEN slice[p] - 1 ELSE slice[p]]
  /\ ran' = [c \in Cpu |-> running[c] # NoTask]
  /\ shared_age' = AtMost(Old, shared_age + 1)
  /\ prio_age' = AtMost(Old, prio_age + 1)
  /\ UNCHANGED <<running, idle, online, dsq, vtime, is_interactive, avg_nvcsw, counters, offline_cpumask>>

CpuOnline(c) ==
  /\ c \in Hot \ online
  /\ online' = online \cup {c}
  /\ offline_cpumask' = offline_cpumask \ {c}
  /\ nr_online_cpus' = nr_online_cpus + 1
  /\ UNCHANGED <<running, ran, idle, dsq, tasks, nr_running, nr_interactive, ages>>

\* mutant: the mask is left alone
CpuOfflineUnmasked(c) ==
  /\ c \in Hot \cap online /\ running[c] = NoTask
  /\ online' = online \ {c}
  /\ idle' \in {idle, idle \cup {c}, idle \ {c}}
  /\ nr_online_cpus' = nr_online_cpus - 1
  /\ UNCHANGED <<running, ran, dsq, tasks, nr_running, nr_interactive, offline_cpumask, ages>>
\* The CPU's task has blocked or was moved away.  Its last turn in the idle loop may leave
\* its bit in the core's idle mask.
CpuOffline(c) ==
  /\ c \in Hot \cap online /\ running[c] = NoTask
  /\ online' = online \ {c}
  /\ idle' \in {idle, idle \cup {c}, idle \ {c}}
  /\ offline_cpumask' = offline_cpumask \cup {c}
  /\ nr_online_cpus' = nr_online_cpus - 1
  /\ UNCHANGED <<running, ran, dsq, tasks, nr_running, nr_interactive, ages>>

Evaluations(c) == IF running[c] = NoTask THEN {} ELSE Rates[running[c]] \cup {Within}
Next ==
  \/ Tick
  \/ \E p \in Task : Wakeup(p)
  \/ \E c \in Cpu : \/ Dispatch(c) \/ GoIdle(c) \/ Yield(c) \/ Refill(c)
                    \/ CpuOnline(c) \/ CpuOffline(c)
                    \/ \E rate \in Evaluations(c) : Block(c, rate) \/ Switch(c, rate)
Spec == Init /\ [][Next]_vars
(***************************************************************************)
(* Time passes; a CPU with work that has no task, or one at the end of its *)
(* slice, takes a task (in Spec only Dispatch and Switch do that); CPUs    *)
(* are not unplugged for ever between an expired threshold and a dispatch. *)
(***************************************************************************)
Takes(c) ==
  /\ c \in online /\ HasWork(c)
  /\ running[c] # NoTask => slice[running[c]] = 0
  /\ running' \in {[running EXCEPT ![c] = p] : p \in Task \ {running[c]}}
Fairness ==
  /\ WF_vars(Tick)
  /\ \A c \in Cpu : WF_running(Takes(c)) /\ WF_vars(Refill(c))
  /\ <>[][UNCHANGED online]_online
FairSpec == Spec /\ Fairness

-----------------------------------------------------------------------------
TypeOK ==
  /\ running \in [Cpu -> Task \cup {NoTask}]
  /\ ran \in [Cpu -> BOOLEAN]
  /\ idle \subseteq Cpu /\ online \subseteq Cpu /\ offline_cpumask \subseteq Cpu
  /\ dsq \in [Dsq -> Seq(Task)]
  /\ slice \in [Task -> 0..SliceDfl]
  /\ vtime \in [Task -> -(SliceNsLag + MaxCharge)..MaxCharge]
  /\ is_interactive \in [Task -> BOOLEAN]
  /\ avg_nvcsw \in [Task -> Nat]
  /\ nr_running \in 0..NrCpus /\ nr_interactive \in 0..NrCpus /\ nr_online_cpus \in 0..NrCpus
  /\ shared_age \in 0..Old /\ prio_age \in 0..Old

(***************************************************************************)
(* The counters are those of the tasks and CPUs they stand for, although a *)
(* task may become interactive, or cease to be, between running and        *)
(* stopping, and CPUs may be offline at the start: nr_interactive never    *)
(* drifts, nr_online_cpus bounds the priority DSQ by the CPUs there are.   *)
(***************************************************************************)
CountersExact ==
  /\ nr_running = Cardinality({p \in Task : Running(p)})
  /\ nr_interactive = Cardinality({p \in Task : Running(p) /\ is_interactive[p]})
  /\ nr_online_cpus = Cardinality(online)

(***************************************************************************)
(* A task that was given to a CPU which is not online, because the idle    *)
(* mask was stale or because the CPU has gone since, is where the other    *)
(* CPUs look for it: no task strands on the DSQ of a CPU that was offline  *)
(* from the start, of which the mask knows nothing.                        *)
(***************************************************************************)
StrandedSeen == \A c \in Cpu \ online : dsq[c] # <<>> => c \in offline_cpumask

(***************************************************************************)
(* No starvation: a task that may run on every CPU gets to run from any    *)
(* DSQ, however other tasks wake, yield and become interactive, also when  *)
(* its CPU goes offline.  Per-CPU kernel threads may spoil it: the DSQ of  *)
(* an offline CPU has no threshold, and the stamps are those of all CPUs,  *)
(* so they say nothing of a task that can run on one CPU only.             *)
(***************************************************************************)
QueuedRuns == \A p \in Task : Queued(p) ~> Running(p)

(***************************************************************************)
(* The comment on classification: "if the average of voluntarily context   *)
(* switches drops to zero, the task will be demoted to regular".  A task   *)
(* that makes no more switches but is evaluated again and again ends up    *)
(* regular again and again.                                                *)
(***************************************************************************)
Evaluated(p, rate) == \E c \in Cpu : running[c] = p /\ (Block(c, rate) \/ Switch(c, rate))
Demoted ==
  \A p \in Task :
    /\ <>[][\A rate \in Rates[p] \ {0} : ~Evaluated(p, rate)]_vars
    /\ []<><<Evaluated(p, 0)>>_vars
    => []<>~is_interactive[p]
=============================================================================
