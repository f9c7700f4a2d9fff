------------------------------ MODULE Rustland ------------------------------
(***************************************************************************)
(* The BPF half of the scheduler (democracy-scheduler/main.bpf.c): the     *)
(* callbacks that the kernel's sched_ext core calls, the ring buffers and  *)
(* counters they share with user space, and the steps of the core between  *)
(* which the callbacks run.  The user-space half is any client of the      *)
(* connector (bpf.rs); Democracy.tla replaces it by the program's own.     *)
(*                                                                         *)
(* The options are those main.rs passes to BpfScheduler::init: full_user   *)
(* on; low_power and fifo_sched off.                                       *)
(***************************************************************************)
EXTENDS Integers, FiniteSets, SequencesExt

CONSTANTS
  Task,             \* threads of the SCHED_EXT class other than the scheduler
  PinnedKthread,    \* those that are per-CPU kernel threads
  Mortal,           \* those that may exit and be reaped
  Usersched,        \* the user-space scheduler's thread
  Cpu,              \* possible CPUs; a CPU also names its own DSQ
  Online,           \* those that are online
  SharedDsq,        \* SHARED_DSQ
  AnyCpu,           \* a dispatch whose flags say RL_CPU_ANY
  NoCpu,            \* cpu = -1
  NoTask,           \* pid 0
  NoMessage,        \* the client holds no QueuedTask of a pid
  NoEntry,          \* no entry of a dispatch buffer
  MaxEnqueued,      \* capacity of the ring "queued"
  MaxDispatched,    \* capacity of the ring "dispatched"
  MaxDispatchSlot,  \* capacity of a CPU's dispatch buffer
  Override,         \* what the client passes to set_cpu and set_flag
  Announced,        \* what the client passes to update_tasks
  MaxCpumaskCnt,    \* bound of the model: affinity changes of a task
  NrCap             \* bound of the model: nr_queued, nr_scheduled saturate

Proc == Task \cup {Usersched}
Mask == {m \in SUBSET Cpu : m \cap Online # {}}     \* what sched_setaffinity accepts

ASSUME TaskAssumption == 
  /\ PinnedKthread \subseteq Task
  /\ Mortal \subseteq Task \ PinnedKthread
  /\ Usersched \notin Task
  /\ NoTask \notin Proc
ASSUME CpuAssumption == 
  /\ Online \subseteq Cpu /\ Online # {} /\ IsFiniteSet(Cpu)
  /\ Cpu \cap {SharedDsq, AnyCpu, NoCpu} = {}
  /\ SharedDsq # AnyCpu /\ AnyCpu # NoCpu /\ NoCpu # SharedDsq
  /\ Override \subseteq Cpu \cup {AnyCpu}
ASSUME BoundAssumption ==
  /\ MaxEnqueued \in Nat \ {0} /\ MaxDispatched \in Nat \ {0}
  /\ MaxDispatchSlot \in Nat \ {0, 1}
  /\ MaxCpumaskCnt \in Nat /\ NrCap \in Nat \ {0}
  /\ Announced \subseteq 0..NrCap

VARIABLES
  \* the sched_ext core
  status,           \* where each thread is
  task_cpu,         \* scx_bpf_task_cpu(p)
  dsq,              \* the CPU whose DSQ holds p, if one does
  cpus_ptr,         \* the CPUs p may run on
  pc,               \* how far each CPU is in ops.dispatch
  pend,             \* each CPU's dispatch buffer: what its flush will commit
  used,             \* slots of the buffer in use
  inhand,           \* the entry that dispatch_task has made and is checking
  \* main.bpf.c
  queued,           \* ring to user space
  dispatched,       \* ring from user space
  enqueueing,       \* submitted to "queued", not yet added to nr_queued
  nr_queued, nr_scheduled, nr_running,
  cpumask_cnt,      \* task_ctx.cpumask_cnt
  cpu_map,          \* owner of each CPU
  usersched_needed,
  ejected,          \* scx_bpf_error() was called
  \* the client of the connector
  held              \* the last QueuedTask it kept of each pid

core == <<status, task_cpu, dsq, cpus_ptr, pc, pend, used, inhand>>
bpf  == <<queued, dispatched, enqueueing, nr_queued, nr_scheduled, nr_running,
          cpumask_cnt, cpu_map, usersched_needed, ejected>>
vars == <<core, bpf, held>>

OnRq    == {"queued", "shared", "percpu", "local"}
Status  == OnRq \cup {"blocked", "running", "dead", "reaped", "gone"}
Draining == {"drain", "gen", "mask"}

QueuedTask     == [pid : Task, cpu : Cpu \cup {NoCpu}, cpumask_cnt : 0..MaxCpumaskCnt]
DispatchedTask == [pid : Task, cpu : Cpu \cup {NoCpu, AnyCpu}, cpumask_cnt : 0..MaxCpumaskCnt]
Entry          == [dsq : Cpu \cup {SharedDsq}, cpumask_cnt : 0..MaxCpumaskCnt]
InHand         == [pid : Task, dsq : Cpu, cpumask_cnt : 0..MaxCpumaskCnt, live : BOOLEAN]

ASSUME SentinelAssumption == NoEntry \notin Entry \cup InHand /\ NoMessage \notin QueuedTask

-----------------------------------------------------------------------------
Running(c)    == {p \in Proc : status[p] = "running" /\ task_cpu[p] = c}
LocalDsq(c)   == {p \in Proc : status[p] = "local" /\ task_cpu[p] = c}
Allowed(p, c) == IF p = Usersched THEN TRUE ELSE c \in cpus_ptr[p]
Found(p)      == status[p] \notin {"reaped", "gone"}      \* bpf_task_from_pid

(***************************************************************************)
(* scx_bpf_dispatch only notes the entry in the buffer of the CPU.  It     *)
(* takes effect if, when the buffer is flushed, p is still in the same     *)
(* stay on the BPF side (the core compares the qseq it saw): "pend" holds  *)
(* the entries of which this is so far true, the first one of each p, and  *)
(* "used" counts all of them.                                              *)
(***************************************************************************)
Noted(b, p, d, cnt) ==
  IF status[p] = "queued" /\ b[p] = NoEntry
  THEN [b EXCEPT ![p] = [dsq |-> d, cpumask_cnt |-> cnt]] ELSE b

Empty == [p \in Proc |-> NoEntry]

\* The threads in P leave the BPF side.
Forget(P) ==
  /\ pend' = [c \in Cpu |-> [p \in Proc |-> IF p \in P THEN NoEntry ELSE pend[c][p]]]
  /\ inhand' = IF inhand = NoEntry THEN NoEntry
               ELSE [inhand EXCEPT !.live = @ /\ inhand.pid \notin P]

SetUserschedNeeded(b) == usersched_needed' = (usersched_needed \/ b)
HasPendingTasks == nr_queued # 0 \/ nr_scheduled # 0

\* mutant: the last slot of the ring is not used
EnqueueBypassesEarly(p, cpu, cnt) ==
  IF p \in Task \ PinnedKthread /\ Len(queued) < MaxEnqueued - 1
  THEN /\ status' = [status EXCEPT ![p] = "queued"]
       /\ queued' = Append(queued, [pid |-> p, cpu |-> cpu, cpumask_cnt |-> cnt])
       /\ enqueueing' = enqueueing \cup {p}
  ELSE /\ status' = [status EXCEPT ![p] = IF p = Usersched THEN "queued"
                                         ELSE IF p \in PinnedKthread THEN "local" ELSE "shared"]
       /\ UNCHANGED <<queued, enqueueing>>
(***************************************************************************)
(* rustland_enqueue: p becomes runnable on cpu with cpumask generation     *)
(* cnt.  Incrementing nr_queued is a later step (Count).                   *)
(***************************************************************************)
Enqueue(p, cpu, cnt) ==
  \/ /\ p = Usersched
     /\ status' = [status EXCEPT ![p] = "queued"]
     /\ UNCHANGED <<queued, enqueueing>>
  \/ /\ p \in PinnedKthread
     /\ status' = [status EXCEPT ![p] = "local"]
     /\ UNCHANGED <<queued, enqueueing>>
  \/ /\ p \in Task \ PinnedKthread
     /\ Len(queued) = MaxEnqueued
     /\ status' = [status EXCEPT ![p] = "shared"]
     /\ UNCHANGED <<queued, enqueueing>>
  \/ /\ p \in Task \ PinnedKthread
     /\ Len(queued) < MaxEnqueued
     /\ status' = [status EXCEPT ![p] = "queued"]
     /\ queued' = Append(queued, [pid |-> p, cpu |-> cpu, cpumask_cnt |-> cnt])
     /\ enqueueing' = enqueueing \cup {p}

\* rustland_running and rustland_stopping, but for the wake-up flag.
Start(p, c) ==
  IF p = Usersched THEN UNCHANGED <<cpu_map, nr_running>>
  ELSE /\ cpu_map' = [cpu_map EXCEPT ![c] = p]
       /\ nr_running' = nr_running + 1
\* mutant: a CPU that nobody owns is marked with -1, as in "no CPU"
StopStoresMinusOne(p) ==
  IF p = Usersched THEN UNCHANGED <<cpu_map, nr_running>>
  ELSE /\ cpu_map' = [cpu_map EXCEPT ![task_cpu[p]] = NoCpu]
       /\ nr_running' = nr_running - 1
\* mutant: rustland_stopping forgets the counter for a kernel thread
StopSkipsKthread(p) ==
  IF p = Usersched THEN UNCHANGED <<cpu_map, nr_running>>
  ELSE /\ cpu_map' = [cpu_map EXCEPT ![task_cpu[p]] = NoTask]
       /\ nr_running' = IF p \in PinnedKthread THEN nr_running ELSE nr_running - 1
Stop(p) ==
  IF p = Usersched THEN UNCHANGED <<cpu_map, nr_running>>
  ELSE /\ cpu_map' = [cpu_map EXCEPT ![task_cpu[p]] = NoTask]
       /\ nr_running' = nr_running - 1

-----------------------------------------------------------------------------
\* The scheduler's thread has just joined the class, running; the others, on a CPU
\* they may use, are in the sleep that follows their joining it.
Init ==
  /\ cpus_ptr \in [Task -> Mask]
  /\ \A p \in Task : IF p \in PinnedKthread THEN Cardinality(cpus_ptr[p]) = 1
                                            ELSE cpus_ptr[p] = Cpu
  /\ task_cpu \in [Proc -> Online]
  /\ \A p \in Task : task_cpu[p] \in cpus_ptr[p]
  /\ status = [p \in Proc |-> IF p = Usersched THEN "running" ELSE "blocked"]
  /\ dsq = [p \in Proc |-> NoCpu]
  /\ pc = [c \in Cpu |-> "out"]
  /\ pend = [c \in Cpu |-> Empty]
  /\ used = [c \in Cpu |-> 0]
  /\ inhand = NoEntry
  /\ queued = <<>> /\ dispatched = <<>> /\ enqueueing = {}
  /\ nr_queued = 0 /\ nr_scheduled = 0 /\ nr_running = 0
  /\ cpumask_cnt = [p \in Task |-> 0]
  /\ cpu_map = [c \in Cpu |-> NoTask]
  /\ usersched_needed = FALSE
  /\ ejected = FALSE
  /\ held = [p \in Task |-> NoMessage]

-----------------------------------------------------------------------------
(***************************************************************************)
(* Threads wake, run, sleep, change affinity and exit.                     *)
(***************************************************************************)
\* select_cpu keeps the previous CPU; the core overrides it if p may not use it.
Wakeup(p) ==
  /\ status[p] = "blocked"
  /\ \E c \in Online :
       /\ Allowed(p, c)
       /\ Allowed(p, task_cpu[p]) => c = task_cpu[p]
       /\ task_cpu' = [task_cpu EXCEPT ![p] = c]
       /\ Enqueue(p, c, IF p = Usersched THEN 0 ELSE cpumask_cnt[p])
  /\ UNCHANGED <<dsq, cpus_ptr, pc, pend, used, inhand, dispatched, nr_queued, nr_scheduled,
                 nr_running, cpumask_cnt, cpu_map, usersched_needed, ejected, held>>

\* A CPU takes p from its local DSQ: rustland_running.
Run(p) ==
  /\ status[p] = "local"
  /\ Running(task_cpu[p]) = {}
  /\ pc[task_cpu[p]] = "out"
  /\ status' = [status EXCEPT ![p] = "running"]
  /\ Start(p, task_cpu[p])
  /\ UNCHANGED <<task_cpu, dsq, cpus_ptr, pc, pend, used, inhand, queued, dispatched, enqueueing,
                 nr_queued, nr_scheduled, cpumask_cnt, usersched_needed, ejected, held>>

\* The slice of p ends, or p yields: stopping, then enqueue.
Yield(p) ==
  /\ status[p] = "running"
  /\ Stop(p)
  /\ SetUserschedNeeded(p # Usersched)
  /\ Enqueue(p, task_cpu[p], IF p = Usersched THEN 0 ELSE cpumask_cnt[p])
  /\ UNCHANGED <<task_cpu, dsq, cpus_ptr, pc, pend, used, inhand, dispatched, nr_queued,
                 nr_scheduled, cpumask_cnt, ejected, held>>

(***************************************************************************)
(* A higher class takes the CPU from p, which has slice left: the core     *)
(* stops it and leaves it at the head of its local DSQ, without a new      *)
(* enqueue.  cpu_release then gets a thread: the incoming one (NoTask      *)
(* here: not of this class) for the core, the interrupted one for the      *)
(* comment in the code; both are allowed.                                  *)
(***************************************************************************)
Preempt(p) ==
  /\ status[p] = "running"
  /\ status' = [status EXCEPT ![p] = "local"]
  /\ Stop(p)
  /\ \E arg \in {NoTask, p} : SetUserschedNeeded(p # Usersched \/ arg = Usersched)
  /\ UNCHANGED <<task_cpu, dsq, cpus_ptr, pc, pend, used, inhand, queued, dispatched, enqueueing,
                 nr_queued, nr_scheduled, cpumask_cnt, ejected, held>>

Block(p) ==
  /\ status[p] = "running"
  /\ status' = [status EXCEPT ![p] = "blocked"]
  /\ Stop(p)
  /\ SetUserschedNeeded(p # Usersched)
  /\ UNCHANGED <<task_cpu, dsq, cpus_ptr, pc, pend, used, inhand, queued, dispatched, enqueueing,
                 nr_queued, nr_scheduled, cpumask_cnt, ejected, held>>

\* The core takes a runnable p off the BPF side and enqueues it again, on cpu.
Requeue(p, cpu, cnt) ==
  /\ Forget({p})
  /\ dsq' = [dsq EXCEPT ![p] = NoCpu]
  /\ Enqueue(p, cpu, cnt)

(***************************************************************************)
(* sched_setaffinity: rustland_set_cpumask under p's runqueue lock.  A     *)
(* running p is stopped and started around it; a p that waits is dequeued  *)
(* and enqueued, at first with the CPU it was on, allowed or not.          *)
(***************************************************************************)
SetCpumask(p, mask) ==
  /\ p \notin PinnedKthread /\ p \notin enqueueing
  /\ status[p] \in OnRq \cup {"blocked", "running"}
  /\ mask # cpus_ptr[p]
  /\ cpumask_cnt[p] < MaxCpumaskCnt
  /\ cpus_ptr' = [cpus_ptr EXCEPT ![p] = mask]
  /\ cpumask_cnt' = [cpumask_cnt EXCEPT ![p] = @ + 1]
  /\ SetUserschedNeeded(status[p] = "running")
  /\ IF status[p] \in OnRq
     THEN Requeue(p, task_cpu[p], cpumask_cnt[p] + 1)
     ELSE UNCHANGED <<status, pend, inhand, dsq, queued, enqueueing>>
  /\ UNCHANGED <<task_cpu, pc, used, dispatched, nr_queued, nr_scheduled, nr_running,
                 cpu_map, ejected, held>>

\* A waiting p is moved off a CPU its new mask forbids.
Migrate(p) ==
  /\ status[p] \in OnRq /\ p \notin enqueueing
  /\ task_cpu[p] \notin cpus_ptr[p]
  /\ \E c \in cpus_ptr[p] \cap Online :
       /\ task_cpu' = [task_cpu EXCEPT ![p] = c]
       /\ Requeue(p, c, cpumask_cnt[p])
  /\ UNCHANGED <<cpus_ptr, pc, used, dispatched, nr_queued, nr_scheduled, nr_running,
                 cpumask_cnt, cpu_map, usersched_needed, ejected, held>>

\* p runs to its end; its pid resolves until its parent reaps it.
Exit(p) ==
  /\ p \in Mortal
  /\ status[p] = "running"
  /\ status' = [status EXCEPT ![p] = "dead"]
  /\ Stop(p)
  /\ SetUserschedNeeded(TRUE)
  /\ UNCHANGED <<task_cpu, dsq, cpus_ptr, pc, pend, used, inhand, queued, dispatched, enqueueing,
                 nr_queued, nr_scheduled, cpumask_cnt, ejected, held>>

Reap(p) ==
  /\ status[p] = "dead"
  /\ status' = [status EXCEPT ![p] = "reaped"]
  /\ UNCHANGED <<task_cpu, dsq, cpus_ptr, pc, pend, used, inhand, bpf, held>>

(***************************************************************************)
(* rustland_exit_task, when the last reference to p is dropped; a CPU      *)
(* that has an entry of p in hand holds one.  The message carries cpu = -1 *)
(* and, in cpumask_cnt, whatever the ring's memory held.                   *)
(***************************************************************************)
ExitTask(p) ==
  /\ status[p] = "reaped"
  /\ inhand # NoEntry => inhand.pid # p
  /\ status' = [status EXCEPT ![p] = "gone"]
  /\ IF Len(queued) = MaxEnqueued THEN UNCHANGED <<queued, enqueueing>>
     ELSE /\ \E garbage \in 0..MaxCpumaskCnt :
               queued' = Append(queued, [pid |-> p, cpu |-> NoCpu, cpumask_cnt |-> garbage])
          /\ enqueueing' = enqueueing \cup {p}
  /\ UNCHANGED <<task_cpu, dsq, cpus_ptr, pc, pend, used, inhand, dispatched, nr_queued, nr_scheduled,
                 nr_running, cpumask_cnt, cpu_map, usersched_needed, ejected, held>>

(***************************************************************************)
(* The pid of a thread that is gone names a new one, which joins the class *)
(* and sleeps.  Its task_ctx is new; what the rings and the client hold of *)
(* the pid is not.  Pids go round, so the callbacks for the old thread are *)
(* over.                                                                   *)
(***************************************************************************)
Reuse(p) ==
  /\ status[p] = "gone" /\ p \notin enqueueing
  /\ status' = [status EXCEPT ![p] = "blocked"]
  /\ \E mask \in Mask : \E c \in mask \cap Online :
       /\ cpus_ptr' = [cpus_ptr EXCEPT ![p] = mask]
       /\ task_cpu' = [task_cpu EXCEPT ![p] = c]
  /\ cpumask_cnt' = [cpumask_cnt EXCEPT ![p] = 0]
  /\ UNCHANGED <<dsq, pc, pend, used, inhand, queued, dispatched, enqueueing, nr_queued,
                 nr_scheduled, nr_running, cpu_map, usersched_needed, ejected, held>>

\* The last statement of rustland_enqueue and rustland_exit_task.
Count(p) ==
  /\ p \in enqueueing
  /\ enqueueing' = enqueueing \ {p}
  /\ nr_queued' = IF nr_queued = NrCap THEN NrCap ELSE nr_queued + 1
  /\ UNCHANGED <<core, queued, dispatched, nr_scheduled, nr_running, cpumask_cnt,
                 cpu_map, usersched_needed, ejected, held>>

-----------------------------------------------------------------------------
(***************************************************************************)
(* A CPU with an empty local DSQ runs ops.dispatch.                        *)
(***************************************************************************)
\* dispatch_user_scheduler; then the drain, which one CPU at a time may do.
BeginDispatch(c) ==
  /\ pc[c] = "out"
  /\ LocalDsq(c) = {}
  /\ usersched_needed' = FALSE
  /\ IF usersched_needed
     THEN /\ pend' = [pend EXCEPT ![c] = Noted(@, Usersched, SharedDsq, 0)]
          /\ used' = [used EXCEPT ![c] = 1]
     ELSE UNCHANGED <<pend, used>>
  /\ pc' = [pc EXCEPT ![c] =
       IF \E d \in Cpu : pc[d] \in Draining THEN "flush" ELSE "drain"]
  /\ UNCHANGED <<status, task_cpu, dsq, cpus_ptr, inhand, queued, dispatched, enqueueing,
                 nr_queued, nr_scheduled, nr_running, cpumask_cnt, cpu_map, ejected, held>>

\* mutant: the test for a full buffer is off by one
DrainOrFlushLate(n) == IF n > MaxDispatchSlot THEN "flush" ELSE "drain"
\* What handle_dispatched_task returns with n slots in use: does the drain go on?
DrainOrFlush(n) == IF n >= MaxDispatchSlot THEN "flush" ELSE "drain"

(***************************************************************************)
(* handle_dispatched_task, up to the scx_bpf_dispatch in dispatch_task.    *)
(* A pid that no longer resolves is ignored; for cpu = -1 cpu_to_dsq gives *)
(* up with scx_bpf_error.                                                  *)
(***************************************************************************)
Drain(c) ==
  /\ pc[c] = "drain"
  /\ \/ /\ dispatched = <<>>
        /\ pc' = [pc EXCEPT ![c] = "flush"]
        /\ UNCHANGED <<pend, used, inhand, dispatched, ejected>>
     \/ /\ dispatched # <<>>
        /\ ~Found(Head(dispatched).pid)
        /\ dispatched' = Tail(dispatched)
        /\ UNCHANGED <<pc, pend, used, inhand, ejected>>
     \/ /\ dispatched # <<>>
        /\ Found(Head(dispatched).pid)
        /\ dispatched' = Tail(dispatched)
        /\ used' = [used EXCEPT ![c] = @ + 1]
        /\ LET t == Head(dispatched) IN
           /\ ejected' = (t.cpu = NoCpu)
           /\ IF t.cpu \in Cpu
              THEN /\ inhand' = [pid |-> t.pid, dsq |-> t.cpu, cpumask_cnt |-> t.cpumask_cnt,
                                 live |-> status[t.pid] = "queued"]
                   /\ pc' = [pc EXCEPT ![c] = "gen"]
                   /\ UNCHANGED pend
              ELSE /\ pend' = [pend EXCEPT ![c] = Noted(@, t.pid, SharedDsq, 0)]
                   /\ pc' = [pc EXCEPT ![c] = DrainOrFlush(used[c] + 1)]
                   /\ UNCHANGED inhand
  /\ UNCHANGED <<status, task_cpu, dsq, cpus_ptr, queued, enqueueing, nr_queued,
                 nr_scheduled, nr_running, cpumask_cnt, cpu_map, usersched_needed, held>>

\* mutant: no decision is cancelled
CheckGenerationNever(c) ==
  /\ pc[c] = "gen"
  /\ pc' = [pc EXCEPT ![c] = "mask"]
  /\ UNCHANGED <<status, task_cpu, dsq, cpus_ptr, pend, used, inhand, bpf, held>>
\* dispatch_task: a decision made for an older cpumask is cancelled.
CheckGeneration(c) ==
  /\ pc[c] = "gen"
  /\ IF inhand.cpumask_cnt # cpumask_cnt[inhand.pid]
     THEN /\ inhand' = NoEntry
          /\ used' = [used EXCEPT ![c] = @ - 1]
          /\ pc' = [pc EXCEPT ![c] = DrainOrFlush(used[c] - 1)]
     ELSE /\ pc' = [pc EXCEPT ![c] = "mask"]
          /\ UNCHANGED <<inhand, used>>
  /\ UNCHANGED <<status, task_cpu, dsq, cpus_ptr, pend, bpf, held>>

\* mutant: a matching generation is taken to imply an allowed CPU
CheckMaskNever(c) ==
  /\ pc[c] = "mask"
  /\ pend' = [pend EXCEPT ![c] = IF inhand.live
       THEN Noted(@, inhand.pid, inhand.dsq, inhand.cpumask_cnt) ELSE @]
  /\ inhand' = NoEntry
  /\ pc' = [pc EXCEPT ![c] = DrainOrFlush(used[c])]
  /\ UNCHANGED <<status, task_cpu, dsq, cpus_ptr, used, bpf, held>>
\* dispatch_task: for a CPU that p may not use, cancel and dispatch to the shared DSQ.
CheckMask(c) ==
  /\ pc[c] = "mask"
  /\ LET p == inhand.pid IN
     pend' = [pend EXCEPT ![c] = 
       IF inhand.dsq \notin cpus_ptr[p] THEN Noted(@, p, SharedDsq, inhand.cpumask_cnt)
       ELSE IF inhand.live THEN Noted(@, p, inhand.dsq, inhand.cpumask_cnt) ELSE @]
  /\ inhand' = NoEntry
  /\ pc' = [pc EXCEPT ![c] = DrainOrFlush(used[c])]
  /\ UNCHANGED <<status, task_cpu, dsq, cpus_ptr, used, bpf, held>>

\* The first scx_bpf_consume commits the buffer.
Flush(c) ==
  /\ pc[c] = "flush"
  /\ LET landed == {p \in Proc : pend[c][p] # NoEntry}
         target(p) == pend[c][p].dsq
     IN /\ landed \cap enqueueing = {}      \* it waits for a callback that is not over
        /\ status' = [p \in Proc |->
             IF p \notin landed THEN status[p]
             ELSE IF target(p) = SharedDsq THEN "shared" ELSE "percpu"]
        /\ dsq' = [p \in Proc |->
             IF p \in landed /\ target(p) # SharedDsq THEN target(p) ELSE dsq[p]]
        /\ Forget(landed)
  /\ used' = [used EXCEPT ![c] = 0]
  /\ pc' = [pc EXCEPT ![c] = "consume"]
  /\ UNCHANGED <<task_cpu, cpus_ptr, bpf, held>>

\* All of the shared DSQ, then of the CPU's own, moves to the local DSQ.
Consume(c) ==
  /\ pc[c] = "consume"
  /\ pc' = [pc EXCEPT ![c] = "out"]
  /\ LET taken == {p \in Proc : /\ Allowed(p, c)
                                /\ \/ status[p] = "shared"
                                   \/ status[p] = "percpu" /\ dsq[p] = c}
     IN /\ status' = [p \in Proc |-> IF p \in taken THEN "local" ELSE status[p]]
        /\ task_cpu' = [p \in Proc |-> IF p \in taken THEN c ELSE task_cpu[p]]
        /\ dsq' = [p \in Proc |-> IF p \in taken THEN NoCpu ELSE dsq[p]]
  /\ UNCHANGED <<cpus_ptr, pend, used, inhand, bpf, held>>

(***************************************************************************)
(* rustland_update_idle(c, true): c has nothing to run.  The kick it sends *)
(* makes the CPU dispatch again, which BeginDispatch may do at any time.   *)
(***************************************************************************)
UpdateIdle(c) ==
  /\ pc[c] = "out"
  /\ LocalDsq(c) \cup Running(c) = {}
  /\ SetUserschedNeeded(HasPendingTasks)
  /\ UNCHANGED <<core, queued, dispatched, enqueueing, nr_queued, nr_scheduled,
                 nr_running, cpumask_cnt, cpu_map, ejected, held>>

\* mutant: the timer trusts the counters, as rustland_update_idle does
HeartbeatIfPending ==
  /\ SetUserschedNeeded(HasPendingTasks)
  /\ UNCHANGED <<core, queued, dispatched, enqueueing, nr_queued, nr_scheduled,
                 nr_running, cpumask_cnt, cpu_map, ejected, held>>
\* usersched_timer_fn, every USERSCHED_TIMER_NS.
Heartbeat ==
  /\ SetUserschedNeeded(TRUE)
  /\ UNCHANGED <<core, queued, dispatched, enqueueing, nr_queued, nr_scheduled,
                 nr_running, cpumask_cnt, cpu_map, ejected, held>>

-----------------------------------------------------------------------------
(***************************************************************************)
(* The operations of the connector, called by the scheduler's thread.      *)
(***************************************************************************)
UserRuns == status[Usersched] = "running"

\* dequeue_task returning Ok(Some(..)); the client keeps the message if keep.
DequeueTask(keep) ==
  /\ queued # <<>>
  /\ queued' = Tail(queued)
  /\ held' = IF keep THEN [held EXCEPT ![Head(queued).pid] = Head(queued)] ELSE held
  /\ UNCHANGED <<core, dispatched, enqueueing, nr_queued, nr_scheduled, nr_running,
                 cpumask_cnt, cpu_map, usersched_needed, ejected>>

\* update_tasks: each counter is a plain store.
UpdateTasks(newQueued, newScheduled) ==
  /\ nr_queued' = newQueued
  /\ nr_scheduled' = newScheduled
  /\ UNCHANGED <<core, queued, dispatched, enqueueing, nr_running, cpumask_cnt,
                 cpu_map, usersched_needed, ejected, held>>

\* dispatch_task returning Ok, of a DispatchedTask made from what is held of p.
DispatchTask(p, cpu) ==
  /\ held[p] # NoMessage
  /\ Len(dispatched) < MaxDispatched
  /\ dispatched' = Append(dispatched,
       [pid |-> p, cpu |-> cpu, cpumask_cnt |-> held[p].cpumask_cnt])
  /\ UNCHANGED <<core, queued, enqueueing, nr_queued, nr_scheduled, nr_running,
                 cpumask_cnt, cpu_map, usersched_needed, ejected, held>>

\* Any use of the connector, in any order.
AnyClient ==
  /\ UserRuns
  /\ \/ \E keep \in BOOLEAN : DequeueTask(keep)
     \/ \E q, s \in Announced : UpdateTasks(q, s)
     \/ \E p \in Task : held[p] # NoMessage
          /\ \E cpu \in Override \cup {held[p].cpu} : DispatchTask(p, cpu)

-----------------------------------------------------------------------------
TaskStep ==
  \E p \in Task : \/ Wakeup(p) \/ Run(p) \/ Yield(p) \/ Preempt(p) \/ Block(p)
                  \/ \E mask \in Mask : SetCpumask(p, mask)
                  \/ Migrate(p) \/ Exit(p) \/ Reap(p) \/ ExitTask(p) \/ Reuse(p) \/ Count(p)
CpuStep ==
  \E c \in Online : \/ BeginDispatch(c) \/ Drain(c) \/ CheckGeneration(c) \/ CheckMask(c)
                 \/ Flush(c) \/ Consume(c) \/ UpdateIdle(c)
UserschedStep == Run(Usersched) \/ Yield(Usersched) \/ Preempt(Usersched)
KernelStep == TaskStep \/ CpuStep \/ UserschedStep \/ Heartbeat
ClientStep == AnyClient \/ Wakeup(Usersched) \/ Block(Usersched)

Next == ~ejected /\ (KernelStep \/ ClientStep)
Spec == Init /\ [][Next]_vars

-----------------------------------------------------------------------------
TypeOK ==
  /\ status \in [Proc -> Status]
  /\ task_cpu \in [Proc -> Online]
  /\ dsq \in [Proc -> Cpu \cup {NoCpu}]
  /\ cpus_ptr \in [Task -> Mask]
  /\ pc \in [Cpu -> Draining \cup {"out", "flush", "consume"}]
  /\ pend \in [Cpu -> [Proc -> Entry \cup {NoEntry}]]
  /\ used \in [Cpu -> Nat]
  /\ inhand \in InHand \cup {NoEntry}
  /\ queued \in Seq(QueuedTask)
  /\ dispatched \in Seq(DispatchedTask)
  /\ enqueueing \subseteq Task
  /\ nr_queued \in 0..NrCap /\ nr_scheduled \in 0..NrCap
  /\ nr_running \in Int
  /\ cpumask_cnt \in [Task -> 0..MaxCpumaskCnt]
  /\ cpu_map \in [Cpu -> Proc \cup {NoTask}]
  /\ usersched_needed \in BOOLEAN
  /\ ejected \in BOOLEAN
  /\ held \in [Task -> QueuedTask \cup {NoMessage}]

(***************************************************************************)
(* A task in a CPU's own DSQ may use that CPU.  dispatch_task tests the    *)
(* mask with no lock, and the task's affinity may change at any time       *)
(* between that test and the commit: what makes it right is that the       *)
(* dispatch is made before the test and the commit rejects it if the task  *)
(* was enqueued again in between.                                          *)
(***************************************************************************)
MaskRespected == 
  \A p \in Task : status[p] = "percpu" => dsq[p] \in cpus_ptr[p]

(***************************************************************************)
(* A decision about a CPU that was taken for an older cpumask never takes  *)
(* effect: an entry that the next flush will commit to a CPU's DSQ carries *)
(* the task's current generation.                                          *)
(***************************************************************************)
FreshDecision ==
  \A c \in Cpu : \A p \in Task :
    pend[c][p] # NoEntry /\ pend[c][p].dsq # SharedDsq
      => pend[c][p].cpumask_cnt = cpumask_cnt[p]

(***************************************************************************)
(* A thread is in one place: an entry that can still take effect is of a   *)
(* thread that the core has handed to the BPF side and that is on no DSQ,  *)
(* so two CPUs that flush never put a thread on two queues.                *)
(***************************************************************************)
PendingIsQueued ==
  \A c \in Cpu : \A p \in Proc : pend[c][p] # NoEntry => status[p] = "queued"

(***************************************************************************)
(* The ownership map that user space reads is exact: a CPU is owned by the *)
(* task it runs, by nobody when it runs none or the scheduler, and         *)
(* nr_running counts the owned CPUs.                                       *)
(***************************************************************************)
CpuOwnership ==
  /\ \A c \in Cpu : IF Running(c) \ {Usersched} = {} THEN cpu_map[c] = NoTask
                    ELSE Running(c) = {cpu_map[c]}
  /\ nr_running = Cardinality({c \in Cpu : cpu_map[c] # NoTask})

\* The dispatch buffer never overflows, which would be an error in the core.
SlotsRespected == \A c \in Cpu : used[c] <= MaxDispatchSlot

(***************************************************************************)
(* What the three safety invariants of the dispatch path rest on: one CPU  *)
(* at a time holds an entry in hand, between the dispatch and the end of   *)
(* its checks; while the entry can take effect its task waits, and once    *)
(* the generation is tested it is current; and every entry of a buffer     *)
(* obeys the mask already.                                                 *)
(***************************************************************************)
OneDrainer ==
  /\ \A c, d \in Cpu : pc[c] \in Draining /\ pc[d] \in Draining => c = d
  /\ \A c \in Cpu : pc[c] \in {"gen", "mask"} => inhand # NoEntry /\ used[c] > 0
InHandWaits == inhand # NoEntry /\ inhand.live => status[inhand.pid] = "queued"
InHandFresh ==
  \A c \in Cpu : pc[c] = "mask" /\ inhand.live => inhand.cpumask_cnt = cpumask_cnt[inhand.pid]
PendingAllowed ==
  \A c \in Cpu : \A p \in Task :
    pend[c][p] # NoEntry /\ pend[c][p].dsq # SharedDsq => pend[c][p].dsq \in cpus_ptr[p]

DispatchInv ==
  /\ OneDrainer /\ InHandWaits /\ InHandFresh /\ PendingAllowed
  /\ PendingIsQueued /\ FreshDecision /\ MaskRespected
=============================================================================
