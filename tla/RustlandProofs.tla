--------------------------- MODULE RustlandProofs ---------------------------
(***************************************************************************)
(* Rustland.tla for any number of threads and CPUs and any ring sizes:     *)
(* type correctness, and that stale or forbidden placements never happen.  *)
(***************************************************************************)
EXTENDS Rustland, FiniteSetTheorems, TLAPS

USE DEF Proc

(***************************************************************************)
(* What an enqueue does, whoever p is: only p moves, to the BPF side or to *)
(* a DSQ that is not a CPU's own.                                          *)
(***************************************************************************)
LEMMA EnqueueMoves ==
  ASSUME TypeOK, NEW p \in Proc, NEW cpu \in Cpu, NEW cnt \in 0..MaxCpumaskCnt,
         Enqueue(p, cpu, cnt)
  PROVE  /\ \E w \in {"queued", "shared", "local"} : status' = [status EXCEPT ![p] = w]
         /\ status' \in [Proc -> Status]
         /\ queued' \in Seq(QueuedTask)
         /\ enqueueing' \subseteq Task
<1>1. \E w \in {"queued", "shared", "local"} : status' = [status EXCEPT ![p] = w]
  BY DEF Enqueue
<1>2. status' \in [Proc -> Status]
  BY <1>1 DEF TypeOK, Status, OnRq
<1>3. queued' \in Seq(QueuedTask) /\ enqueueing' \subseteq Task
  <2>1. CASE UNCHANGED <<queued, enqueueing>>
    BY <2>1 DEF TypeOK
  <2>2. CASE /\ p \in Task 
             /\ queued' = Append(queued, [pid |-> p, cpu |-> cpu, cpumask_cnt |-> cnt])
             /\ enqueueing' = enqueueing \cup {p}
    <3>1. [pid |-> p, cpu |-> cpu, cpumask_cnt |-> cnt] \in QueuedTask
      BY <2>2 DEF QueuedTask
    <3> QED BY <2>2, <3>1 DEF TypeOK
  <2> QED BY <2>1, <2>2 DEF Enqueue
<1> QED BY <1>1, <1>2, <1>3

LEMMA ForgetType ==
  ASSUME TypeOK, NEW P, Forget(P)
  PROVE  /\ pend' \in [Cpu -> [Proc -> Entry \cup {NoEntry}]]
         /\ inhand' \in InHand \cup {NoEntry}
<1>1. pend' \in [Cpu -> [Proc -> Entry \cup {NoEntry}]]
  BY DEF TypeOK, Forget
<1>2. CASE inhand = NoEntry
  BY <1>1, <1>2 DEF Forget
<1>3. CASE inhand # NoEntry
  <2>1. inhand \in InHand
    BY <1>3 DEF TypeOK
  <2>2. inhand' = [inhand EXCEPT !.live = @ /\ inhand.pid \notin P]
    BY <1>3 DEF Forget
  <2>3. inhand' \in InHand
    BY <2>1, <2>2 DEF InHand
  <2> QED BY <1>1, <2>3
<1> QED BY <1>2, <1>3

LEMMA NotedType ==
  ASSUME NEW b \in [Proc -> Entry \cup {NoEntry}], NEW p \in Proc,
         NEW d \in Cpu \cup {SharedDsq}, NEW cnt \in 0..MaxCpumaskCnt
  PROVE  Noted(b, p, d, cnt) \in [Proc -> Entry \cup {NoEntry}]
BY DEF Noted, Entry

LEMMA RequeueType ==
  ASSUME TypeOK, NEW p \in Task, NEW cpu \in Cpu, NEW cnt \in 0..MaxCpumaskCnt,
         Requeue(p, cpu, cnt)
  PROVE  /\ status' \in [Proc -> Status]
         /\ dsq' \in [Proc -> Cpu \cup {NoCpu}]
         /\ pend' \in [Cpu -> [Proc -> Entry \cup {NoEntry}]]
         /\ inhand' \in InHand \cup {NoEntry}
         /\ queued' \in Seq(QueuedTask)
         /\ enqueueing' \subseteq Task
<1>1. dsq' \in [Proc -> Cpu \cup {NoCpu}]
  BY DEF Requeue, TypeOK
<1>2. Enqueue(p, cpu, cnt) /\ Forget({p})
  BY DEF Requeue
<1> QED BY <1>1, <1>2, EnqueueMoves, ForgetType

LEMMA StopType ==
  ASSUME TypeOK, NEW p \in Proc, Stop(p)
  PROVE  cpu_map' \in [Cpu -> Proc \cup {NoTask}] /\ nr_running' \in Int
<1>1. CASE p = Usersched
  BY <1>1 DEF Stop, TypeOK
<1>2. CASE p # Usersched
  <2>1. cpu_map' = [cpu_map EXCEPT ![task_cpu[p]] = NoTask] /\ nr_running' = nr_running - 1
    BY <1>2 DEF Stop
  <2>2. cpu_map' \in [Cpu -> Proc \cup {NoTask}]
    BY <2>1 DEF TypeOK
  <2>3. nr_running' \in Int
    BY <2>1 DEF TypeOK
  <2> QED BY <2>2, <2>3
<1> QED BY <1>1, <1>2

(***************************************************************************)
(* TypeOK is inductive.                                                    *)
(***************************************************************************)
LEMMA TypeInit == Init => TypeOK
<1> SUFFICES ASSUME Init PROVE TypeOK OBVIOUS
<1> USE CpuAssumption, BoundAssumption DEF Init
<1>1. /\ status \in [Proc -> Status] /\ task_cpu \in [Proc -> Online]
      /\ dsq \in [Proc -> Cpu \cup {NoCpu}] /\ cpus_ptr \in [Task -> Mask]
  BY DEF Status, OnRq
<1>2. /\ pc \in [Cpu -> Draining \cup {"out", "flush", "consume"}]
      /\ pend \in [Cpu -> [Proc -> Entry \cup {NoEntry}]]
      /\ used \in [Cpu -> Nat] /\ inhand \in InHand \cup {NoEntry}
  BY DEF Empty
<1>3. /\ queued \in Seq(QueuedTask) /\ dispatched \in Seq(DispatchedTask)
      /\ enqueueing \subseteq Task
  OBVIOUS
<1>4. /\ nr_queued \in 0..NrCap /\ nr_scheduled \in 0..NrCap /\ nr_running \in Int
      /\ cpumask_cnt \in [Task -> 0..MaxCpumaskCnt]
  <2>1. 0 \in 0..NrCap /\ 0 \in 0..MaxCpumaskCnt /\ 0 \in Int
    OBVIOUS
  <2> QED BY <2>1
<1>5. /\ cpu_map \in [Cpu -> Proc \cup {NoTask}]
      /\ usersched_needed \in BOOLEAN /\ ejected \in BOOLEAN
      /\ held \in [Task -> QueuedTask \cup {NoMessage}]
  OBVIOUS
<1> QED BY <1>1, <1>2, <1>3, <1>4, <1>5 DEF TypeOK

\* Steps of the threads.
LEMMA TypeTask ==
  ASSUME TypeOK, NEW p \in Task, 
         \/ Wakeup(p) \/ Run(p) \/ Yield(p) \/ Preempt(p) \/ Block(p)
         \/ \E mask \in Mask : SetCpumask(p, mask)
         \/ Migrate(p) \/ Exit(p) \/ Reap(p) \/ ExitTask(p) \/ Reuse(p) \/ Count(p)
  PROVE  TypeOK'
<1> USE TaskAssumption, CpuAssumption, BoundAssumption
<1>0. cpumask_cnt[p] \in 0..MaxCpumaskCnt /\ task_cpu[p] \in Cpu /\ task_cpu[p] \in Online
  BY DEF TypeOK
<1>1. CASE Wakeup(p)
  <2>1. PICK c \in Online : /\ task_cpu' = [task_cpu EXCEPT ![p] = c]
                            /\ Enqueue(p, c, cpumask_cnt[p])
    BY <1>1 DEF Wakeup
  <2>2. task_cpu' \in [Proc -> Online]
    BY <2>1 DEF TypeOK
  <2>3. status' \in [Proc -> Status] /\ queued' \in Seq(QueuedTask) /\ enqueueing' \subseteq Task
    BY <1>0, <2>1, EnqueueMoves
  <2> QED BY <1>1, <2>2, <2>3 DEF Wakeup, TypeOK
<1>2. CASE Run(p)
  <2>1. /\ status' = [status EXCEPT ![p] = "running"]
        /\ cpu_map' = [cpu_map EXCEPT ![task_cpu[p]] = p]
        /\ nr_running' = nr_running + 1
    BY <1>2 DEF Run, Start
  <2>2. status' \in [Proc -> Status]
    BY <2>1 DEF TypeOK, Status
  <2>3. cpu_map' \in [Cpu -> Proc \cup {NoTask}] /\ nr_running' \in Int
    BY <2>1 DEF TypeOK
  <2> QED BY <1>2, <2>2, <2>3 DEF Run, TypeOK
<1>3. CASE Yield(p)
  <2>1. cpu_map' \in [Cpu -> Proc \cup {NoTask}] /\ nr_running' \in Int
    BY <1>3 DEF Yield, Stop, TypeOK
  <2>2. Enqueue(p, task_cpu[p], cpumask_cnt[p])
    BY <1>3 DEF Yield
  <2>3. status' \in [Proc -> Status] /\ queued' \in Seq(QueuedTask) /\ enqueueing' \subseteq Task
    BY <1>0, <2>2, EnqueueMoves
  <2> QED BY <1>3, <2>1, <2>3 DEF Yield, TypeOK, SetUserschedNeeded
<1>4. CASE Block(p)
  <2>1. cpu_map' \in [Cpu -> Proc \cup {NoTask}] /\ nr_running' \in Int
    <3>1. Stop(p)
      BY <1>4 DEF Block
    <3> QED BY <3>1, StopType
  <2>2. status' \in [Proc -> Status]
    <3>1. "blocked" \in Status /\ "dead" \in Status
      BY DEF Status
    <3> QED BY <1>4, <3>1 DEF Block, TypeOK
  <2>3. usersched_needed' \in BOOLEAN
    BY <1>4 DEF Block, SetUserschedNeeded, TypeOK
  <2> QED BY <1>4, <2>1, <2>2, <2>3 DEF Block, TypeOK
<1>11. CASE Preempt(p)
  <2>1. cpu_map' \in [Cpu -> Proc \cup {NoTask}] /\ nr_running' \in Int
    <3>1. Stop(p)
      BY <1>11 DEF Preempt
    <3> QED BY <3>1, StopType
  <2>2. status' \in [Proc -> Status]
    <3>1. "local" \in Status
      BY DEF Status, OnRq
    <3> QED BY <1>11, <3>1 DEF Preempt, TypeOK
  <2>3. usersched_needed' \in BOOLEAN
    BY <1>11 DEF Preempt, SetUserschedNeeded, TypeOK
  <2> QED BY <1>11, <2>1, <2>2, <2>3 DEF Preempt, TypeOK
<1>12. CASE Reuse(p)
  <2>1. PICK mask \in Mask : \E c \in mask \cap Online :
             /\ cpus_ptr' = [cpus_ptr EXCEPT ![p] = mask]
             /\ task_cpu' = [task_cpu EXCEPT ![p] = c]
    BY <1>12 DEF Reuse
  <2>2. cpus_ptr' \in [Task -> Mask] /\ task_cpu' \in [Proc -> Online]
    BY <2>1 DEF TypeOK
  <2>3. status' \in [Proc -> Status]
    BY <1>12 DEF Reuse, TypeOK, Status
  <2>4. cpumask_cnt' \in [Task -> 0..MaxCpumaskCnt]
    <3>1. 0 \in 0..MaxCpumaskCnt
      BY BoundAssumption
    <3> QED BY <1>12, <3>1 DEF Reuse, TypeOK
  <2> QED BY <1>12, <2>2, <2>3, <2>4 DEF Reuse, TypeOK
<1>10. CASE Exit(p)
  <2>1. cpu_map' \in [Cpu -> Proc \cup {NoTask}] /\ nr_running' \in Int
    <3>1. Stop(p)
      BY <1>10 DEF Exit
    <3> QED BY <3>1, StopType
  <2>2. status' \in [Proc -> Status]
    <3>1. "blocked" \in Status /\ "dead" \in Status
      BY DEF Status
    <3> QED BY <1>10, <3>1 DEF Exit, TypeOK
  <2>3. usersched_needed' \in BOOLEAN
    BY <1>10 DEF Exit, SetUserschedNeeded, TypeOK
  <2> QED BY <1>10, <2>1, <2>2, <2>3 DEF Exit, TypeOK
<1>5. CASE \E mask \in Mask : SetCpumask(p, mask)
  <2>1. PICK mask \in Mask : SetCpumask(p, mask)
    BY <1>5
  <2>2. cpumask_cnt[p] + 1 \in 0..MaxCpumaskCnt
    BY <1>0, <2>1 DEF SetCpumask
  <2>3. cpus_ptr' \in [Task -> Mask] /\ cpumask_cnt' \in [Task -> 0..MaxCpumaskCnt]
    BY <2>1, <2>2 DEF SetCpumask, TypeOK
  <2>4. /\ status' \in [Proc -> Status]
        /\ dsq' \in [Proc -> Cpu \cup {NoCpu}]
        /\ pend' \in [Cpu -> [Proc -> Entry \cup {NoEntry}]]
        /\ inhand' \in InHand \cup {NoEntry}
        /\ queued' \in Seq(QueuedTask)
        /\ enqueueing' \subseteq Task
    <3>1. CASE status[p] \in OnRq
      <4>1. Requeue(p, task_cpu[p], cpumask_cnt[p] + 1)
        BY <2>1, <3>1 DEF SetCpumask
      <4> QED BY <1>0, <2>2, <4>1, RequeueType
    <3>2. CASE status[p] \notin OnRq
      BY <2>1, <3>2 DEF SetCpumask, TypeOK
    <3> QED BY <3>1, <3>2
  <2> QED BY <2>1, <2>3, <2>4 DEF SetCpumask, TypeOK, SetUserschedNeeded
<1>6. CASE Migrate(p)
  <2>1. PICK c \in Online : /\ task_cpu' = [task_cpu EXCEPT ![p] = c]
                            /\ Requeue(p, c, cpumask_cnt[p])
    BY <1>6 DEF Migrate
  <2>2. task_cpu' \in [Proc -> Online]
    BY <2>1 DEF TypeOK
  <2>3. c \in Cpu
    OBVIOUS
  <2> QED BY <1>0, <1>6, <2>1, <2>2, <2>3, RequeueType DEF Migrate, TypeOK
<1>7. CASE Reap(p)
  BY <1>7 DEF Reap, TypeOK, Status, bpf
<1>8. CASE ExitTask(p)
  <2>1. status' \in [Proc -> Status]
    BY <1>8 DEF ExitTask, TypeOK, Status
  <2>2. queued' \in Seq(QueuedTask) /\ enqueueing' \subseteq Task
    <3>1. CASE UNCHANGED <<queued, enqueueing>>
      BY <3>1 DEF TypeOK
    <3>2. CASE \E g \in 0..MaxCpumaskCnt : 
             /\ queued' = Append(queued, [pid |-> p, cpu |-> NoCpu, cpumask_cnt |-> g])
             /\ enqueueing' = enqueueing \cup {p}
      <4>1. PICK g \in 0..MaxCpumaskCnt : 
               queued' = Append(queued, [pid |-> p, cpu |-> NoCpu, cpumask_cnt |-> g])
        BY <3>2
      <4>2. [pid |-> p, cpu |-> NoCpu, cpumask_cnt |-> g] \in QueuedTask
        BY DEF QueuedTask
      <4> QED BY <3>2, <4>1, <4>2 DEF TypeOK
    <3> QED BY <1>8, <3>1, <3>2 DEF ExitTask
  <2> QED BY <1>8, <2>1, <2>2 DEF ExitTask, TypeOK
<1>9. CASE Count(p)
  BY <1>9 DEF Count, TypeOK, core
<1> QED BY <1>1, <1>2, <1>3, <1>4, <1>5, <1>6, <1>7, <1>8, <1>9, <1>10, <1>11, <1>12
LEMMA TailType ==
  ASSUME NEW S, NEW s \in Seq(S), s # <<>>
  PROVE  Head(s) \in S /\ Tail(s) \in Seq(S)
OBVIOUS

LEMMA NatUpdate ==
  ASSUME NEW S, NEW f \in [S -> Nat], NEW g, NEW x \in S, NEW n \in Nat,
         g = f \/ g = [f EXCEPT ![x] = n]
  PROVE  g \in [S -> Nat]
OBVIOUS

\* Steps of the CPUs.  What a CPU in the middle of its checks has in hand matters.
LEMMA InHandType ==
  ASSUME TypeOK, OneDrainer, NEW c \in Cpu, pc[c] \in {"gen", "mask"}
  PROVE  /\ inhand \in InHand
         /\ inhand.pid \in Task /\ inhand.dsq \in Cpu
         /\ inhand.cpumask_cnt \in 0..MaxCpumaskCnt /\ inhand.live \in BOOLEAN
         /\ used[c] \in Nat \ {0}
<1>1. inhand # NoEntry /\ used[c] > 0
  BY DEF OneDrainer
<1>2. inhand \in InHand /\ used[c] \in Nat
  BY <1>1 DEF TypeOK
<1> QED BY <1>1, <1>2 DEF InHand

LEMMA DrainType ==
  ASSUME TypeOK, NEW c \in Cpu, Drain(c)
  PROVE  TypeOK'
<1> USE DEF Proc
<1> DEFINE t == Head(dispatched)
<1>1. CASE dispatched = <<>> \/ ~Found(t.pid)
  <2>1. dispatched' \in Seq(DispatchedTask)
    <3>1. \/ dispatched' = dispatched
          \/ dispatched # <<>> /\ dispatched' = Tail(dispatched)
      BY <1>1 DEF Drain
    <3>2. dispatched \in Seq(DispatchedTask)
      BY DEF TypeOK
    <3> QED BY <3>1, <3>2, TailType
  <2>2. pc' \in [Cpu -> Draining \cup {"out", "flush", "consume"}]
    BY <1>1 DEF Drain, TypeOK
  <2>3. UNCHANGED <<pend, used, inhand, ejected>>
    BY <1>1 DEF Drain
  <2> QED BY <2>1, <2>2, <2>3 DEF Drain, TypeOK
<1>2. CASE dispatched # <<>> /\ Found(t.pid)
  <2>1. t \in DispatchedTask /\ Tail(dispatched) \in Seq(DispatchedTask)
    BY <1>2 DEF TypeOK
  <2>2. t.pid \in Task /\ t.cpu \in Cpu \cup {NoCpu, AnyCpu} /\ t.cpumask_cnt \in 0..MaxCpumaskCnt
    BY <2>1 DEF DispatchedTask
  <2>3. dispatched' \in Seq(DispatchedTask) /\ ejected' \in BOOLEAN
    BY <1>2, <2>1 DEF Drain
  <2>4. used' \in [Cpu -> Nat]
    <3>1. used' = [used EXCEPT ![c] = used[c] + 1]
      BY <1>2 DEF Drain
    <3>2. used \in [Cpu -> Nat]
      BY DEF TypeOK
    <3> QED BY <3>1, <3>2
  <2>5. /\ pc' \in [Cpu -> Draining \cup {"out", "flush", "consume"}]
        /\ pend' \in [Cpu -> [Proc -> Entry \cup {NoEntry}]]
        /\ inhand' \in InHand \cup {NoEntry}
    <3>1. CASE t.cpu \in Cpu
      <4>1. /\ inhand' = [pid |-> t.pid, dsq |-> t.cpu, cpumask_cnt |-> t.cpumask_cnt,
                          live |-> status[t.pid] = "queued"]
            /\ pc' = [pc EXCEPT ![c] = "gen"]
            /\ pend' = pend
        BY <1>2, <3>1 DEF Drain
      <4>2. inhand' \in InHand
        BY <2>2, <3>1, <4>1 DEF InHand
      <4> QED BY <4>1, <4>2 DEF TypeOK, Draining
    <3>2. CASE t.cpu \notin Cpu
      <4>1. /\ pend' = [pend EXCEPT ![c] = Noted(@, t.pid, SharedDsq, 0)]
            /\ pc' = [pc EXCEPT ![c] = DrainOrFlush(used[c] + 1)]
            /\ inhand' = inhand
        BY <1>2, <3>2 DEF Drain
      <4>2. Noted(pend[c], t.pid, SharedDsq, 0) \in [Proc -> Entry \cup {NoEntry}]
        <5>1. pend[c] \in [Proc -> Entry \cup {NoEntry}] /\ 0 \in 0..MaxCpumaskCnt
          BY BoundAssumption DEF TypeOK
        <5> QED BY <2>2, <5>1, NotedType
      <4>3. pend' \in [Cpu -> [Proc -> Entry \cup {NoEntry}]]
        BY <4>1, <4>2 DEF TypeOK
      <4>4. pc' \in [Cpu -> Draining \cup {"out", "flush", "consume"}]
        BY <4>1 DEF TypeOK, DrainOrFlush, Draining
      <4> QED BY <4>1, <4>3, <4>4 DEF TypeOK
    <3> QED BY <3>1, <3>2
  <2> QED BY <2>3, <2>4, <2>5 DEF Drain, TypeOK
<1> QED BY <1>1, <1>2

LEMMA TypeCpu ==
  ASSUME TypeOK, OneDrainer, NEW c \in Online,
         \/ BeginDispatch(c) \/ Drain(c) \/ CheckGeneration(c) \/ CheckMask(c)
         \/ Flush(c) \/ Consume(c) \/ UpdateIdle(c)
  PROVE  TypeOK'
<1>0. c \in Cpu
  BY CpuAssumption
<1>a. /\ pend[c] \in [Proc -> Entry \cup {NoEntry}] /\ used[c] \in Nat /\ 0 \in 0..MaxCpumaskCnt
  <2>1. /\ pend \in [Cpu -> [Proc -> Entry \cup {NoEntry}]] /\ used \in [Cpu -> Nat]
        /\ MaxCpumaskCnt \in Nat
    BY BoundAssumption DEF TypeOK
  <2>2. pend[c] \in [Proc -> Entry \cup {NoEntry}] /\ used[c] \in Nat
    BY <1>0, <2>1
  <2>3. 0 \in 0..MaxCpumaskCnt
    BY <2>1
  <2> QED BY <2>2, <2>3
<1>1. CASE BeginDispatch(c)
  <2>1. pc' \in [Cpu -> Draining \cup {"out", "flush", "consume"}]
    BY <1>1 DEF BeginDispatch, TypeOK, Draining
  <2>2. used' \in [Cpu -> Nat]
    <3>1. used' = used \/ used' = [used EXCEPT ![c] = 1]
      BY <1>1 DEF BeginDispatch
    <3>2. used \in [Cpu -> Nat]
      BY DEF TypeOK
    <3> QED BY <3>1, <3>2
  <2>3. pend' \in [Cpu -> [Proc -> Entry \cup {NoEntry}]]
    <3>1. Noted(pend[c], Usersched, SharedDsq, 0) \in [Proc -> Entry \cup {NoEntry}]
      BY <1>a, NotedType
    <3>2. CASE pend' = [pend EXCEPT ![c] = Noted(pend[c], Usersched, SharedDsq, 0)]
      BY <3>1, <3>2 DEF TypeOK
    <3>3. CASE pend' = pend
      BY <3>3 DEF TypeOK
    <3> QED BY <1>1, <3>2, <3>3 DEF BeginDispatch
  <2> QED BY <1>1, <2>1, <2>2, <2>3 DEF BeginDispatch, TypeOK
<1>2. CASE Drain(c)
  BY <1>0, <1>2, DrainType
<1>3. CASE CheckGeneration(c)
  <2>1. used[c] \in Nat \ {0}
    BY <1>0, <1>3, InHandType DEF CheckGeneration
  <2>2. used' \in [Cpu -> Nat]
    <3>1. used' = used \/ used' = [used EXCEPT ![c] = used[c] - 1]
      BY <1>3 DEF CheckGeneration
    <3>2. used \in [Cpu -> Nat]
      BY DEF TypeOK
    <3> QED BY <2>1, <3>1, <3>2
  <2>3. pc' \in [Cpu -> Draining \cup {"out", "flush", "consume"}]
    BY <1>3 DEF CheckGeneration, TypeOK, DrainOrFlush, Draining
  <2>4. inhand' \in InHand \cup {NoEntry}
    BY <1>3 DEF CheckGeneration, TypeOK
  <2> QED BY <1>3, <2>2, <2>3, <2>4 DEF CheckGeneration, TypeOK, bpf
<1>4. CASE CheckMask(c)
  <2>1. /\ inhand.pid \in Task /\ inhand.dsq \in Cpu
        /\ inhand.cpumask_cnt \in 0..MaxCpumaskCnt
    BY <1>0, <1>4, InHandType DEF CheckMask
  <2>2. /\ Noted(pend[c], inhand.pid, SharedDsq, inhand.cpumask_cnt) \in [Proc -> Entry \cup {NoEntry}]
        /\ Noted(pend[c], inhand.pid, inhand.dsq, inhand.cpumask_cnt) \in [Proc -> Entry \cup {NoEntry}]
    BY <1>a, <2>1, NotedType
  <2>3. \E b \in [Proc -> Entry \cup {NoEntry}] : pend' = [pend EXCEPT ![c] = b]
    BY <1>4, <1>a, <2>2 DEF CheckMask
  <2>4. pend' \in [Cpu -> [Proc -> Entry \cup {NoEntry}]]
    BY <2>3 DEF TypeOK
  <2>5. pc' \in [Cpu -> Draining \cup {"out", "flush", "consume"}]
    BY <1>4 DEF CheckMask, TypeOK, DrainOrFlush, Draining
  <2> QED BY <1>4, <2>4, <2>5 DEF CheckMask, TypeOK, bpf
<1>5. CASE Flush(c)
  <2>1. PICK P : Forget(P)
    BY <1>5 DEF Flush
  <2>2. pend' \in [Cpu -> [Proc -> Entry \cup {NoEntry}]] /\ inhand' \in InHand \cup {NoEntry}
    BY <2>1, ForgetType
  <2>3. status' \in [Proc -> Status]
    BY <1>5 DEF Flush, TypeOK, Status, OnRq
  <2>4. dsq' \in [Proc -> Cpu \cup {NoCpu}]
    <3>1. \A p \in Proc : pend[c][p] # NoEntry => pend[c][p].dsq \in Cpu \cup {SharedDsq}
      BY <1>a DEF Entry
    <3> QED BY <1>5, <3>1 DEF Flush, TypeOK
  <2>5. used' \in [Cpu -> Nat] /\ pc' \in [Cpu -> Draining \cup {"out", "flush", "consume"}]
    BY <1>5 DEF Flush, TypeOK
  <2> QED BY <1>5, <2>2, <2>3, <2>4, <2>5 DEF Flush, TypeOK, bpf
<1>6. CASE Consume(c)
  <2>1. status' \in [Proc -> Status]
    BY <1>6 DEF Consume, TypeOK, Status, OnRq
  <2>2. task_cpu' \in [Proc -> Online] /\ dsq' \in [Proc -> Cpu \cup {NoCpu}]
    BY <1>6 DEF Consume, TypeOK
  <2>3. pc' \in [Cpu -> Draining \cup {"out", "flush", "consume"}]
    BY <1>6 DEF Consume, TypeOK
  <2> QED BY <1>6, <2>1, <2>2, <2>3 DEF Consume, TypeOK, bpf
<1>7. CASE UpdateIdle(c)
  BY <1>7 DEF UpdateIdle, SetUserschedNeeded, HasPendingTasks, TypeOK, core
<1> QED BY <1>1, <1>2, <1>3, <1>4, <1>5, <1>6, <1>7

\* Steps of the scheduler's thread, of the timer and of any client.
LEMMA TypeUser ==
  ASSUME TypeOK,
         UserschedStep \/ Heartbeat \/ ClientStep
  PROVE  TypeOK'
<1> DEFINE u == Usersched
<1>0. u \in Proc /\ task_cpu[u] \in Online /\ task_cpu[u] \in Cpu /\ 0 \in 0..MaxCpumaskCnt
  <2>1. MaxCpumaskCnt \in Nat
    BY BoundAssumption
  <2>2. 0 \in 0..MaxCpumaskCnt
    BY <2>1
  <2>3. u \in Proc /\ task_cpu[u] \in Online /\ task_cpu[u] \in Cpu
    BY CpuAssumption DEF TypeOK
  <2> QED BY <2>2, <2>3
<1>1. CASE Run(u)
  <2>1. status' \in [Proc -> Status]
    BY <1>1 DEF Run, TypeOK, Status
  <2>2. cpu_map' = cpu_map /\ nr_running' = nr_running
    BY <1>1 DEF Run, Start
  <2> QED BY <1>1, <2>1, <2>2 DEF Run, TypeOK
<1>2. CASE Yield(u)
  <2>1. Stop(u) /\ Enqueue(u, task_cpu[u], 0) /\ usersched_needed' \in BOOLEAN
    BY <1>2 DEF Yield, SetUserschedNeeded, TypeOK
  <2>2. status' \in [Proc -> Status] /\ queued' \in Seq(QueuedTask) /\ enqueueing' \subseteq Task
    BY <1>0, <2>1, EnqueueMoves
  <2>3. cpu_map' \in [Cpu -> Proc \cup {NoTask}] /\ nr_running' \in Int
    BY <1>0, <2>1, StopType
  <2> QED BY <1>2, <2>1, <2>2, <2>3 DEF Yield, TypeOK
<1>3. CASE Preempt(u)
  <2>1. Stop(u) /\ usersched_needed' \in BOOLEAN
    BY <1>3 DEF Preempt, SetUserschedNeeded, TypeOK
  <2>2. cpu_map' \in [Cpu -> Proc \cup {NoTask}] /\ nr_running' \in Int
    BY <1>0, <2>1, StopType
  <2>3. status' \in [Proc -> Status]
    BY <1>3 DEF Preempt, TypeOK, Status, OnRq
  <2> QED BY <1>3, <2>1, <2>2, <2>3 DEF Preempt, TypeOK
<1>4. CASE Heartbeat
  BY <1>4 DEF Heartbeat, SetUserschedNeeded, TypeOK, core
<1>5. CASE Wakeup(u)
  <2>1. PICK c \in Online : task_cpu' = [task_cpu EXCEPT ![u] = c] /\ Enqueue(u, c, 0)
    BY <1>5 DEF Wakeup
  <2>2. c \in Cpu /\ task_cpu' \in [Proc -> Online]
    BY <2>1, CpuAssumption DEF TypeOK
  <2>3. status' \in [Proc -> Status] /\ queued' \in Seq(QueuedTask) /\ enqueueing' \subseteq Task
    BY <1>0, <2>1, <2>2, EnqueueMoves
  <2> QED BY <1>5, <2>2, <2>3 DEF Wakeup, TypeOK
<1>6. CASE Block(u)
  <2>1. Stop(u) /\ usersched_needed' \in BOOLEAN
    BY <1>6 DEF Block, SetUserschedNeeded, TypeOK
  <2>2. cpu_map' \in [Cpu -> Proc \cup {NoTask}] /\ nr_running' \in Int
    BY <1>0, <2>1, StopType
  <2>3. status' \in [Proc -> Status]
    BY <1>6 DEF Block, TypeOK, Status
  <2> QED BY <1>6, <2>1, <2>2, <2>3 DEF Block, TypeOK
<1>7. CASE AnyClient
  <2>1. CASE \E keep \in BOOLEAN : DequeueTask(keep)
    <3>1. queued # <<>> /\ queued \in Seq(QueuedTask)
      BY <2>1 DEF DequeueTask, TypeOK
    <3>2. Head(queued) \in QueuedTask /\ Tail(queued) \in Seq(QueuedTask)
      BY <3>1, TailType
    <3>3. Head(queued).pid \in Task
      BY <3>2 DEF QueuedTask
    <3>4. held' \in [Task -> QueuedTask \cup {NoMessage}] /\ queued' \in Seq(QueuedTask)
      BY <2>1, <3>2, <3>3 DEF DequeueTask, TypeOK
    <3> QED BY <2>1, <3>4 DEF DequeueTask, TypeOK, core
  <2>2. CASE \E q, s \in Announced : UpdateTasks(q, s)
    BY <2>2, BoundAssumption DEF UpdateTasks, TypeOK, core
  <2>3. CASE \E p \in Task : held[p] # NoMessage
               /\ \E cpu \in Override \cup {held[p].cpu} : DispatchTask(p, cpu)
    <3>0. PICK p \in Task : held[p] # NoMessage
             /\ \E cpu \in Override \cup {held[p].cpu} : DispatchTask(p, cpu)
      BY <2>3
    <3>1. PICK cpu \in Override \cup {held[p].cpu} : DispatchTask(p, cpu)
      BY <3>0
    <3>2. held[p] \in QueuedTask
      BY <3>0 DEF TypeOK
    <3>3. [pid |-> p, cpu |-> cpu, cpumask_cnt |-> held[p].cpumask_cnt] \in DispatchedTask
      BY <3>2, CpuAssumption DEF QueuedTask, DispatchedTask
    <3>4. dispatched' \in Seq(DispatchedTask)
      BY <3>1, <3>3 DEF DispatchTask, TypeOK
    <3> QED BY <3>1, <3>4 DEF DispatchTask, TypeOK, core
  <2> QED BY <1>7, <2>1, <2>2, <2>3 DEF AnyClient
<1> QED BY <1>1, <1>2, <1>3, <1>4, <1>5, <1>6, <1>7 DEF UserschedStep, ClientStep

LEMMA TypeStep ==
  ASSUME TypeOK, OneDrainer, [Next]_vars
  PROVE  TypeOK'
<1>1. CASE TaskStep
  BY <1>1, TypeTask DEF TaskStep
<1>2. CASE CpuStep
  BY <1>2, TypeCpu DEF CpuStep
<1>3. CASE UserschedStep \/ Heartbeat \/ ClientStep
  BY <1>3, TypeUser
<1>4. CASE UNCHANGED vars
  BY <1>4 DEF TypeOK, vars, core, bpf
<1> QED BY <1>1, <1>2, <1>3, <1>4 DEF Next, KernelStep

(***************************************************************************)
(* DispatchInv is inductive, given TypeOK.  Most steps do one of four      *)
(* things to it, whatever else they do.                                    *)
(***************************************************************************)
path == <<status, dsq, cpus_ptr, pc, pend, used, inhand, cpumask_cnt>>

LEMMA PathInit == Init => DispatchInv
BY SentinelAssumption DEF Init, DispatchInv, OneDrainer, InHandWaits, InHandFresh, PendingAllowed,
   PendingIsQueued, FreshDecision, MaskRespected, Empty, Draining

\* Nothing on the dispatch path changes.
LEMMA PathSame == DispatchInv /\ UNCHANGED path => DispatchInv'
BY DEF path, DispatchInv, OneDrainer, InHandWaits, InHandFresh, PendingAllowed,
   PendingIsQueued, FreshDecision, MaskRespected

\* p, which is not on the BPF side, goes somewhere that is not a CPU's own DSQ.
LEMMA PathMoves ==
  ASSUME TypeOK, DispatchInv, NEW p \in Proc, NEW w,
         status[p] # "queued", w # "percpu", status' = [status EXCEPT ![p] = w],
         UNCHANGED <<dsq, cpus_ptr, pc, pend, used, inhand, cpumask_cnt>>
  PROVE  DispatchInv'
<1>1. status \in [Proc -> Status]
  BY DEF TypeOK
<1>2. OneDrainer' /\ InHandFresh' /\ PendingAllowed' /\ FreshDecision'
  BY DEF DispatchInv, OneDrainer, InHandFresh, PendingAllowed, FreshDecision
<1>3. InHandWaits'
  <2> SUFFICES ASSUME inhand # NoEntry, inhand.live PROVE status'[inhand.pid] = "queued"
    BY DEF InHandWaits
  <2>1. status[inhand.pid] = "queued"
    BY DEF DispatchInv, InHandWaits
  <2> QED BY <1>1, <2>1
<1>4. PendingIsQueued'
  BY <1>1 DEF DispatchInv, PendingIsQueued
<1>5. MaskRespected'
  BY <1>1 DEF DispatchInv, MaskRespected
<1> QED BY <1>2, <1>3, <1>4, <1>5 DEF DispatchInv

\* After Forget(P) nothing of P can take effect, and what is left was there before.
LEMMA Forgotten ==
  ASSUME TypeOK, NEW P, Forget(P)
  PROVE  /\ \A c \in Cpu : \A p \in Proc :
              pend'[c][p] # NoEntry => p \notin P /\ pend'[c][p] = pend[c][p]
         /\ inhand' # NoEntry <=> inhand # NoEntry
         /\ inhand # NoEntry => /\ inhand'.pid = inhand.pid /\ inhand'.dsq = inhand.dsq
                                /\ inhand'.cpumask_cnt = inhand.cpumask_cnt
                                /\ inhand'.live => inhand.live /\ inhand.pid \notin P
                                /\ inhand.pid \in Task
<1>1. \A c \in Cpu : \A p \in Proc :
        pend'[c][p] # NoEntry => p \notin P /\ pend'[c][p] = pend[c][p]
  BY DEF Forget
<1>2. CASE inhand = NoEntry
  BY <1>1, <1>2 DEF Forget
<1>3. CASE inhand # NoEntry
  <2>1. inhand \in InHand /\ inhand' = [inhand EXCEPT !.live = @ /\ inhand.pid \notin P]
    BY <1>3 DEF Forget, TypeOK
  <2>2. inhand' \in InHand /\ inhand' # NoEntry
    BY <2>1, SentinelAssumption DEF InHand
  <2>3. /\ inhand'.pid = inhand.pid /\ inhand'.dsq = inhand.dsq
        /\ inhand'.cpumask_cnt = inhand.cpumask_cnt /\ inhand.pid \in Task
        /\ inhand'.live = (inhand.live /\ inhand.pid \notin P)
    BY <2>1 DEF InHand
  <2> QED BY <1>1, <1>3, <2>2, <2>3
<1> QED BY <1>2, <1>3

\* p is enqueued again, or was not waiting; its mask and its generation may change.
LEMMA PathRequeue ==
  ASSUME TypeOK, DispatchInv, NEW p \in Task, NEW w,
         w # "percpu", status' = [status EXCEPT ![p] = w], Forget({p}),
         \A q \in Proc \ {p} : dsq'[q] = dsq[q],
         \A q \in Task \ {p} : cpus_ptr'[q] = cpus_ptr[q] /\ cpumask_cnt'[q] = cpumask_cnt[q],
         UNCHANGED <<pc, used>>
  PROVE  DispatchInv'
<1>1. status \in [Proc -> Status]
  BY DEF TypeOK
<1>2. OneDrainer'
  BY Forgotten DEF DispatchInv, OneDrainer
<1>3. InHandWaits'
  <2> SUFFICES ASSUME inhand' # NoEntry, inhand'.live PROVE status'[inhand'.pid] = "queued"
    BY DEF InHandWaits
  <2>1. inhand # NoEntry /\ inhand.live /\ inhand'.pid = inhand.pid /\ inhand.pid # p
    BY Forgotten
  <2>2. status[inhand.pid] = "queued"
    BY <2>1 DEF DispatchInv, InHandWaits
  <2> QED BY <1>1, <2>1, <2>2
<1>4. InHandFresh'
  <2> SUFFICES ASSUME NEW c \in Cpu, pc'[c] = "mask", inhand'.live
               PROVE  inhand'.cpumask_cnt = cpumask_cnt'[inhand'.pid]
    BY DEF InHandFresh
  <2>1. inhand # NoEntry
    BY DEF DispatchInv, OneDrainer
  <2>2. /\ inhand.live /\ inhand'.pid = inhand.pid /\ inhand.pid \in Task \ {p}
        /\ inhand'.cpumask_cnt = inhand.cpumask_cnt
    BY <2>1, Forgotten
  <2>3. inhand.cpumask_cnt = cpumask_cnt[inhand.pid]
    BY <2>2 DEF DispatchInv, InHandFresh
  <2> QED BY <2>2, <2>3
<1>5. PendingAllowed' /\ FreshDecision'
  <2> SUFFICES ASSUME NEW c \in Cpu, NEW q \in Task,
                      pend'[c][q] # NoEntry, pend'[c][q].dsq # SharedDsq
               PROVE  /\ pend'[c][q].dsq \in cpus_ptr'[q]
                      /\ pend'[c][q].cpumask_cnt = cpumask_cnt'[q]
    BY DEF PendingAllowed, FreshDecision
  <2>1. q # p /\ pend'[c][q] = pend[c][q]
    BY Forgotten
  <2>2. pend[c][q].dsq \in cpus_ptr[q] /\ pend[c][q].cpumask_cnt = cpumask_cnt[q]
    BY <2>1 DEF DispatchInv, PendingAllowed, FreshDecision
  <2> QED BY <2>1, <2>2
<1>6. PendingIsQueued'
  <2> SUFFICES ASSUME NEW c \in Cpu, NEW q \in Proc, pend'[c][q] # NoEntry
               PROVE  status'[q] = "queued"
    BY DEF PendingIsQueued
  <2>1. q # p /\ pend[c][q] # NoEntry
    BY Forgotten
  <2>2. status[q] = "queued"
    BY <2>1 DEF DispatchInv, PendingIsQueued
  <2> QED BY <1>1, <2>1, <2>2
<1>7. MaskRespected'
  <2> SUFFICES ASSUME NEW q \in Task, status'[q] = "percpu" PROVE dsq'[q] \in cpus_ptr'[q]
    BY DEF MaskRespected
  <2>1. q # p /\ status[q] = "percpu"
    BY <1>1
  <2>2. dsq[q] \in cpus_ptr[q]
    BY <2>1 DEF DispatchInv, MaskRespected
  <2> QED BY <2>1, <2>2
<1> QED BY <1>2, <1>3, <1>4, <1>5, <1>6, <1>7 DEF DispatchInv

\* The mask or the generation of a p that is on no queue changes, and perhaps where it is.
LEMMA PathMask ==
  ASSUME TypeOK, DispatchInv, NEW p \in Task,
         status[p] \notin {"queued", "percpu"},
         \A q \in Task \ {p} : cpus_ptr'[q] = cpus_ptr[q] /\ cpumask_cnt'[q] = cpumask_cnt[q],
         status'[p] # "percpu", \A q \in Proc \ {p} : status'[q] = status[q],
         UNCHANGED <<dsq, pc, pend, used, inhand>>
  PROVE  DispatchInv'
<1>0. OneDrainer' /\ PendingIsQueued'
  BY DEF DispatchInv, OneDrainer, PendingIsQueued
<1>1. InHandWaits'
  <2> SUFFICES ASSUME inhand # NoEntry, inhand.live PROVE status'[inhand.pid] = "queued"
    BY DEF InHandWaits
  <2>1. status[inhand.pid] = "queued" /\ inhand.pid \in Task
    BY DEF DispatchInv, InHandWaits, TypeOK, InHand
  <2> QED BY <2>1
<1>2. InHandFresh'
  <2> SUFFICES ASSUME NEW c \in Cpu, pc[c] = "mask", inhand.live
               PROVE  inhand.cpumask_cnt = cpumask_cnt'[inhand.pid]
    BY DEF InHandFresh
  <2>1. inhand # NoEntry
    BY DEF DispatchInv, OneDrainer
  <2>2. inhand.pid \in Task /\ inhand.pid # p
    BY <2>1 DEF DispatchInv, InHandWaits, TypeOK, InHand
  <2> QED BY <2>2 DEF DispatchInv, InHandFresh
<1>3. PendingAllowed' /\ FreshDecision'
  <2> SUFFICES ASSUME NEW c \in Cpu, NEW q \in Task,
                      pend[c][q] # NoEntry, pend[c][q].dsq # SharedDsq
               PROVE  /\ pend[c][q].dsq \in cpus_ptr'[q]
                      /\ pend[c][q].cpumask_cnt = cpumask_cnt'[q]
    BY DEF PendingAllowed, FreshDecision
  <2>1. q # p
    BY DEF DispatchInv, PendingIsQueued
  <2> QED BY <2>1 DEF DispatchInv, PendingAllowed, FreshDecision
<1>4. MaskRespected'
  BY DEF DispatchInv, MaskRespected
<1> QED BY <1>0, <1>1, <1>2, <1>3, <1>4 DEF DispatchInv

\* An entry is noted for the shared DSQ, or for a CPU of the current mask and generation.
LEMMA PathNoted ==
  ASSUME TypeOK, DispatchInv, NEW c \in Cpu, NEW p \in Proc, NEW d, NEW cnt,
         \/ d = SharedDsq
         \/ status[p] = "queued" /\ p \in Task => d \in cpus_ptr[p] /\ cnt = cpumask_cnt[p],
         pend' = [pend EXCEPT ![c] = Noted(pend[c], p, d, cnt)],
         UNCHANGED <<status, dsq, cpus_ptr, cpumask_cnt>>
  PROVE  PendingAllowed' /\ FreshDecision' /\ PendingIsQueued' /\ MaskRespected'
<1>1. pend \in [Cpu -> [Proc -> Entry \cup {NoEntry}]]
  BY DEF TypeOK
<1>2. ASSUME NEW e \in Cpu, NEW q \in Proc, pend'[e][q] # NoEntry
      PROVE  \/ pend'[e][q] = pend[e][q]
             \/ /\ q = p /\ status[p] = "queued"
                /\ pend'[e][q].dsq = d /\ pend'[e][q].cpumask_cnt = cnt
  <2>1. CASE e # c
    BY <1>1, <2>1
  <2>2. CASE e = c
    <3>1. pend'[c] = Noted(pend[c], p, d, cnt) /\ pend[c] \in [Proc -> Entry \cup {NoEntry}]
      BY <1>1
    <3> QED BY <2>2, <3>1 DEF Noted
  <2> QED BY <2>1, <2>2
<1>3. PendingAllowed' /\ FreshDecision'
  <2> SUFFICES ASSUME NEW e \in Cpu, NEW q \in Task,
                      pend'[e][q] # NoEntry, pend'[e][q].dsq # SharedDsq
               PROVE  /\ pend'[e][q].dsq \in cpus_ptr[q]
                      /\ pend'[e][q].cpumask_cnt = cpumask_cnt[q]
    BY DEF PendingAllowed, FreshDecision
  <2> QED BY <1>2 DEF DispatchInv, PendingAllowed, FreshDecision
<1>4. PendingIsQueued'
  <2> SUFFICES ASSUME NEW e \in Cpu, NEW q \in Proc, pend'[e][q] # NoEntry
               PROVE  status[q] = "queued"
    BY DEF PendingIsQueued
  <2> QED BY <1>2 DEF DispatchInv, PendingIsQueued
<1>5. MaskRespected'
  BY DEF DispatchInv, MaskRespected
<1> QED BY <1>3, <1>4, <1>5

LEMMA PathBegin ==
  ASSUME TypeOK, DispatchInv, NEW c \in Cpu, BeginDispatch(c)
  PROVE  DispatchInv'
<1>1. PendingAllowed' /\ FreshDecision' /\ PendingIsQueued' /\ MaskRespected'
  <2>1. UNCHANGED <<status, dsq, cpus_ptr, cpumask_cnt>>
    BY DEF BeginDispatch
  <2>2. CASE pend' = pend
    BY <2>1, <2>2 DEF DispatchInv, PendingAllowed, FreshDecision, PendingIsQueued, MaskRespected
  <2>3. CASE pend' = [pend EXCEPT ![c] = Noted(pend[c], Usersched, SharedDsq, 0)]
    BY <2>1, <2>3, PathNoted
  <2> QED BY <2>2, <2>3 DEF BeginDispatch
<1>2. OneDrainer' /\ InHandWaits' /\ InHandFresh'
  <2>1. /\ pc \in [Cpu -> Draining \cup {"out", "flush", "consume"}] /\ used \in [Cpu -> Nat]
    BY DEF TypeOK
  <2>2. /\ pc[c] = "out" /\ UNCHANGED <<status, inhand, cpumask_cnt>>
        /\ used' = used \/ used' = [used EXCEPT ![c] = 1]
        /\ \/ pc' = [pc EXCEPT ![c] = "flush"]
           \/ /\ \A d \in Cpu : pc[d] \notin Draining
              /\ pc' = [pc EXCEPT ![c] = "drain"]
    BY DEF BeginDispatch
  <2>3. /\ \A d \in Cpu : pc'[d] \in {"gen", "mask"} => d # c /\ pc'[d] = pc[d]
        /\ \A d \in Cpu : d # c => pc'[d] = pc[d] /\ used'[d] = used[d]
    BY <2>1, <2>2
  <2>4. OneDrainer'
    <3>1. \A d, e \in Cpu : pc'[d] \in Draining /\ pc'[e] \in Draining => d = e
      BY <2>1, <2>2 DEF DispatchInv, OneDrainer, Draining
    <3> QED BY <2>2, <2>3, <3>1 DEF DispatchInv, OneDrainer
  <2>5. InHandWaits' /\ InHandFresh'
    BY <2>2, <2>3 DEF DispatchInv, InHandWaits, InHandFresh
  <2> QED BY <2>4, <2>5
<1> QED BY <1>1, <1>2 DEF DispatchInv

\* The CPU that drains is alone before and after its step.
LEMMA OnlyDrainer ==
  ASSUME TypeOK, DispatchInv, NEW c \in Cpu, NEW w, pc[c] \in Draining,
         pc' = pc \/ pc' = [pc EXCEPT ![c] = w]
  PROVE  /\ \A d, e \in Cpu : pc'[d] \in Draining /\ pc'[e] \in Draining => d = e
         /\ \A d \in Cpu : pc'[d] \in Draining => d = c
         /\ pc' = [pc EXCEPT ![c] = w] => pc'[c] = w
<1>1. pc \in [Cpu -> Draining \cup {"out", "flush", "consume"}]
  BY DEF TypeOK
<1>2. \A d \in Cpu : pc[d] \in Draining => d = c
  BY DEF DispatchInv, OneDrainer
<1>3. \A d \in Cpu : pc'[d] \in Draining => d = c
  BY <1>1, <1>2
<1> QED BY <1>1, <1>3

LEMMA HeadType ==
  ASSUME TypeOK, dispatched # <<>>
  PROVE  /\ Head(dispatched) \in DispatchedTask /\ Head(dispatched).pid \in Task
         /\ Head(dispatched).cpumask_cnt \in 0..MaxCpumaskCnt
<1>1. dispatched \in Seq(DispatchedTask)
  BY DEF TypeOK
<1>2. Head(dispatched) \in DispatchedTask
  BY <1>1, TailType
<1> QED BY <1>2 DEF DispatchedTask

\* The end of an iteration of the drain, on which nothing is in hand.
LEMMA IterationEnds ==
  ASSUME TypeOK, DispatchInv, NEW c \in Cpu, NEW n, pc[c] \in Draining,
         pc' = [pc EXCEPT ![c] = DrainOrFlush(n)]
  PROVE  \A d \in Cpu : pc'[d] \notin {"gen", "mask"}
<1>1. \A d \in Cpu : pc'[d] \in Draining => d = c
  BY OnlyDrainer
<1>2. pc'[c] = DrainOrFlush(n)
  BY OnlyDrainer
<1>3. pc'[c] \notin {"gen", "mask"}
  BY <1>2 DEF DrainOrFlush
<1> QED BY <1>1, <1>3 DEF Draining

LEMMA PathDrain ==
  ASSUME TypeOK, DispatchInv, NEW c \in Cpu, Drain(c)
  PROVE  DispatchInv'
<1> DEFINE t == Head(dispatched)
<1>0. /\ pc \in [Cpu -> Draining \cup {"out", "flush", "consume"}] /\ used \in [Cpu -> Nat]
      /\ pc[c] = "drain" /\ pc[c] \in Draining
      /\ UNCHANGED <<status, dsq, cpus_ptr, cpumask_cnt>>
  BY DEF TypeOK, Drain, Draining
<1>1. CASE UNCHANGED <<pend, used, inhand>> /\ (pc' = pc \/ pc' = [pc EXCEPT ![c] = "flush"])
  <2>1. \A d \in Cpu : pc'[d] \notin {"gen", "mask"}
    BY <1>0, <1>1, OnlyDrainer DEF Draining
  <2>2. OneDrainer'
    BY <1>0, <1>1, <2>1, OnlyDrainer DEF OneDrainer
  <2>3. InHandWaits' /\ InHandFresh'
    BY <1>0, <1>1, <2>1 DEF DispatchInv, InHandWaits, InHandFresh
  <2>4. PendingAllowed' /\ FreshDecision' /\ PendingIsQueued' /\ MaskRespected'
    BY <1>0, <1>1 DEF DispatchInv, PendingAllowed, FreshDecision, PendingIsQueued, MaskRespected
  <2> QED BY <2>2, <2>3, <2>4 DEF DispatchInv
<1>2. CASE dispatched # <<>> /\ Found(t.pid) /\ t.cpu \in Cpu
  <2>0. t \in DispatchedTask /\ t.pid \in Task /\ t.cpumask_cnt \in 0..MaxCpumaskCnt
    BY <1>2, HeadType
  <2>1. /\ inhand' = [pid |-> t.pid, dsq |-> t.cpu, cpumask_cnt |-> t.cpumask_cnt,
                      live |-> status[t.pid] = "queued"]
        /\ pc' = [pc EXCEPT ![c] = "gen"] /\ pend' = pend
        /\ used' = [used EXCEPT ![c] = used[c] + 1]
    BY <1>2 DEF Drain
  <2>2. inhand' # NoEntry
    <3>1. inhand' \in InHand
      BY <1>2, <2>0, <2>1 DEF InHand
    <3> QED BY <3>1, SentinelAssumption
  <2>3. pc'[c] = "gen" /\ \A d \in Cpu : pc'[d] \in Draining => d = c
    BY <1>0, <2>1, OnlyDrainer
  <2>4. used'[c] > 0
    BY <1>0, <2>1
  <2>5. OneDrainer'
    BY <2>2, <2>3, <2>4 DEF OneDrainer, Draining
  <2>6. InHandWaits' /\ InHandFresh'
    BY <1>0, <2>1, <2>3 DEF InHandWaits, InHandFresh, Draining
  <2>7. PendingAllowed' /\ FreshDecision' /\ PendingIsQueued' /\ MaskRespected'
    BY <1>0, <2>1 DEF DispatchInv, PendingAllowed, FreshDecision, PendingIsQueued, MaskRespected
  <2> QED BY <2>5, <2>6, <2>7 DEF DispatchInv
<1>3. CASE dispatched # <<>> /\ Found(t.pid) /\ t.cpu \notin Cpu
  <2>0. t.pid \in Proc
    BY <1>3, HeadType
  <2>1. /\ pend' = [pend EXCEPT ![c] = Noted(pend[c], t.pid, SharedDsq, 0)]
        /\ pc' = [pc EXCEPT ![c] = DrainOrFlush(used[c] + 1)] /\ inhand' = inhand
    BY <1>3 DEF Drain
  <2>2. \A d \in Cpu : pc'[d] \notin {"gen", "mask"}
    BY <1>0, <2>1, IterationEnds
  <2>3. OneDrainer'
    BY <1>0, <2>1, <2>2, OnlyDrainer DEF OneDrainer
  <2>4. InHandWaits' /\ InHandFresh'
    BY <1>0, <2>1, <2>2 DEF DispatchInv, InHandWaits, InHandFresh
  <2>5. PendingAllowed' /\ FreshDecision' /\ PendingIsQueued' /\ MaskRespected'
    BY <1>0, <2>0, <2>1, PathNoted
  <2> QED BY <2>3, <2>4, <2>5 DEF DispatchInv
<1> QED BY <1>1, <1>2, <1>3 DEF Drain

LEMMA PathGeneration ==
  ASSUME TypeOK, DispatchInv, NEW c \in Cpu, CheckGeneration(c)
  PROVE  DispatchInv'
<1>0. /\ pc[c] \in Draining /\ UNCHANGED <<status, dsq, cpus_ptr, cpumask_cnt, pend>>
      /\ inhand # NoEntry /\ used[c] > 0
  BY DEF CheckGeneration, Draining, bpf, DispatchInv, OneDrainer
<1>1. PendingAllowed' /\ FreshDecision' /\ PendingIsQueued' /\ MaskRespected'
  BY <1>0 DEF DispatchInv, PendingAllowed, FreshDecision, PendingIsQueued, MaskRespected
<1>2. CASE inhand.cpumask_cnt # cpumask_cnt[inhand.pid]
  <2>1. pc' = [pc EXCEPT ![c] = DrainOrFlush(used[c] - 1)] /\ inhand' = NoEntry
    BY <1>2 DEF CheckGeneration
  <2>2. \A d \in Cpu : pc'[d] \notin {"gen", "mask"}
    BY <1>0, <2>1, IterationEnds
  <2>3. OneDrainer'
    BY <1>0, <2>1, <2>2, OnlyDrainer DEF OneDrainer
  <2> QED BY <1>1, <2>1, <2>2, <2>3 DEF DispatchInv, InHandWaits, InHandFresh
<1>3. CASE inhand.cpumask_cnt = cpumask_cnt[inhand.pid]
  <2>1. pc' = [pc EXCEPT ![c] = "mask"] /\ UNCHANGED <<inhand, used>>
    BY <1>3 DEF CheckGeneration
  <2>2. pc'[c] = "mask" /\ \A d \in Cpu : pc'[d] \in Draining => d = c
    BY <1>0, <2>1, OnlyDrainer
  <2>3. OneDrainer'
    BY <1>0, <2>1, <2>2 DEF OneDrainer, Draining
  <2>4. InHandWaits' /\ InHandFresh'
    BY <1>0, <1>3, <2>1, <2>2 DEF DispatchInv, InHandWaits, InHandFresh
  <2> QED BY <1>1, <2>3, <2>4 DEF DispatchInv
<1> QED BY <1>2, <1>3

LEMMA PathCheckMask ==
  ASSUME TypeOK, DispatchInv, NEW c \in Cpu, CheckMask(c)
  PROVE  DispatchInv'
<1>0. /\ pc[c] \in Draining /\ pc[c] = "mask" 
      /\ UNCHANGED <<status, dsq, cpus_ptr, cpumask_cnt, used>>
      /\ pc' = [pc EXCEPT ![c] = DrainOrFlush(used[c])] /\ inhand' = NoEntry
  BY DEF CheckMask, Draining, bpf
<1>a. inhand \in InHand /\ inhand.pid \in Task
  BY <1>0, InHandType DEF DispatchInv
<1>1. \A d \in Cpu : pc'[d] \notin {"gen", "mask"}
  BY <1>0, IterationEnds
<1>2. OneDrainer' /\ InHandWaits' /\ InHandFresh'
  BY <1>0, <1>1, OnlyDrainer DEF OneDrainer, InHandWaits, InHandFresh
<1>3. PendingAllowed' /\ FreshDecision' /\ PendingIsQueued' /\ MaskRespected'
  <2>1. CASE inhand.dsq \notin cpus_ptr[inhand.pid]
    <3>1. pend' = [pend EXCEPT ![c] = Noted(pend[c], inhand.pid, SharedDsq, inhand.cpumask_cnt)]
      BY <2>1 DEF CheckMask
    <3> QED BY <1>0, <1>a, <3>1, PathNoted
  <2>2. CASE inhand.dsq \in cpus_ptr[inhand.pid] /\ inhand.live
    <3>1. pend' = [pend EXCEPT ![c] = Noted(pend[c], inhand.pid, inhand.dsq, inhand.cpumask_cnt)]
      BY <2>2 DEF CheckMask
    <3>2. inhand.cpumask_cnt = cpumask_cnt[inhand.pid]
      BY <1>0, <2>2 DEF DispatchInv, InHandFresh
    <3> QED BY <1>0, <1>a, <2>2, <3>1, <3>2, PathNoted
  <2>3. CASE inhand.dsq \in cpus_ptr[inhand.pid] /\ ~inhand.live
    <3>1. pend' = pend
      BY <2>3 DEF CheckMask, TypeOK
    <3> QED BY <1>0, <3>1 DEF DispatchInv, PendingAllowed, FreshDecision, PendingIsQueued, MaskRespected
  <2> QED BY <2>1, <2>2, <2>3
<1> QED BY <1>2, <1>3 DEF DispatchInv

\* A CPU that does not drain takes a step that is not part of a drain.
LEMMA Aside ==
  ASSUME TypeOK, DispatchInv, NEW c \in Cpu, NEW w, w \notin Draining, pc[c] \notin Draining,
         pc' = [pc EXCEPT ![c] = w], used' = used \/ used' = [used EXCEPT ![c] = 0],
         inhand # NoEntry => inhand' # NoEntry
  PROVE  OneDrainer' /\ \A d \in Cpu : pc'[d] \in Draining => pc'[d] = pc[d]
<1>1. /\ pc \in [Cpu -> Draining \cup {"out", "flush", "consume"}] /\ used \in [Cpu -> Nat]
  BY DEF TypeOK
<1>2. \A d \in Cpu : pc'[d] \in Draining => d # c /\ pc'[d] = pc[d] /\ used'[d] = used[d]
  BY <1>1
<1>3. \A d \in Cpu : pc'[d] \in {"gen", "mask"} => pc'[d] \in Draining
  BY DEF Draining
<1> QED BY <1>2, <1>3 DEF DispatchInv, OneDrainer

LEMMA PathFlush ==
  ASSUME TypeOK, DispatchInv, NEW c \in Cpu, Flush(c)
  PROVE  DispatchInv'
<1> DEFINE landed == {p \in Proc : pend[c][p] # NoEntry}
<1>1. /\ pc[c] = "flush" /\ pc' = [pc EXCEPT ![c] = "consume"] /\ used' = [used EXCEPT ![c] = 0]
      /\ Forget(landed) /\ UNCHANGED <<cpus_ptr, cpumask_cnt>>
      /\ status' = [p \in Proc |->
           IF p \notin landed THEN status[p]
           ELSE IF pend[c][p].dsq = SharedDsq THEN "shared" ELSE "percpu"]
      /\ dsq' = [p \in Proc |->
           IF p \in landed /\ pend[c][p].dsq # SharedDsq THEN pend[c][p].dsq ELSE dsq[p]]
  BY DEF Flush, bpf
<1>2. OneDrainer' /\ \A d \in Cpu : pc'[d] \in Draining => pc'[d] = pc[d]
  BY <1>1, Forgotten, Aside DEF Draining
<1>3. \A p \in Proc : p \in landed => status[p] = "queued"
  BY DEF DispatchInv, PendingIsQueued
<1> HIDE DEF landed
<1>4. InHandWaits'
  <2> SUFFICES ASSUME inhand' # NoEntry, inhand'.live PROVE status'[inhand'.pid] = "queued"
    BY DEF InHandWaits
  <2>1. inhand # NoEntry /\ inhand.live /\ inhand'.pid = inhand.pid /\ inhand.pid \notin landed
        /\ inhand.pid \in Task
    BY <1>1, Forgotten
  <2> QED BY <1>1, <2>1 DEF DispatchInv, InHandWaits
<1>5. InHandFresh'
  <2> SUFFICES ASSUME NEW d \in Cpu, pc'[d] = "mask", inhand'.live
               PROVE  inhand'.cpumask_cnt = cpumask_cnt'[inhand'.pid]
    BY DEF InHandFresh
  <2>1. pc[d] = "mask"
    BY <1>2 DEF Draining
  <2>2. inhand # NoEntry
    BY <2>1 DEF DispatchInv, OneDrainer
  <2>3. inhand.live /\ inhand'.pid = inhand.pid /\ inhand'.cpumask_cnt = inhand.cpumask_cnt
    BY <1>1, <2>2, Forgotten
  <2> QED BY <1>1, <2>1, <2>3 DEF DispatchInv, InHandFresh
<1>6. PendingAllowed' /\ FreshDecision'
  <2> SUFFICES ASSUME NEW d \in Cpu, NEW p \in Task,
                      pend'[d][p] # NoEntry, pend'[d][p].dsq # SharedDsq
               PROVE  /\ pend'[d][p].dsq \in cpus_ptr'[p]
                      /\ pend'[d][p].cpumask_cnt = cpumask_cnt'[p]
    BY DEF PendingAllowed, FreshDecision
  <2>1. pend'[d][p] = pend[d][p]
    BY <1>1, Forgotten
  <2> QED BY <1>1, <2>1 DEF DispatchInv, PendingAllowed, FreshDecision
<1>7. PendingIsQueued'
  <2> SUFFICES ASSUME NEW d \in Cpu, NEW p \in Proc, pend'[d][p] # NoEntry
               PROVE  status'[p] = "queued"
    BY DEF PendingIsQueued
  <2>1. p \notin landed /\ pend[d][p] # NoEntry
    BY <1>1, Forgotten
  <2> QED BY <1>1, <2>1 DEF DispatchInv, PendingIsQueued
<1>8. MaskRespected'
  <2> SUFFICES ASSUME NEW p \in Task, status'[p] = "percpu" PROVE dsq'[p] \in cpus_ptr[p]
    BY <1>1 DEF MaskRespected
  <2>1. CASE p \in landed
    <3>1. pend[c][p].dsq # SharedDsq /\ dsq'[p] = pend[c][p].dsq
      BY <1>1, <2>1
    <3>2. pend[c][p] # NoEntry
      BY <2>1 DEF landed
    <3> QED BY <3>1, <3>2 DEF DispatchInv, PendingAllowed
  <2>2. CASE p \notin landed
    BY <1>1, <2>2 DEF DispatchInv, MaskRespected
  <2> QED BY <2>1, <2>2
<1> QED BY <1>2, <1>4, <1>5, <1>6, <1>7, <1>8 DEF DispatchInv

LEMMA PathConsume ==
  ASSUME TypeOK, DispatchInv, NEW c \in Cpu, Consume(c)
  PROVE  DispatchInv'
<1> DEFINE taken == {p \in Proc : /\ Allowed(p, c)
                                  /\ \/ status[p] = "shared"
                                     \/ status[p] = "percpu" /\ dsq[p] = c}
<1>1. /\ pc[c] = "consume" /\ pc' = [pc EXCEPT ![c] = "out"]
      /\ UNCHANGED <<cpus_ptr, cpumask_cnt, pend, used, inhand>>
      /\ status' = [p \in Proc |-> IF p \in taken THEN "local" ELSE status[p]]
      /\ dsq' = [p \in Proc |-> IF p \in taken THEN NoCpu ELSE dsq[p]]
  BY DEF Consume, bpf
<1>2. OneDrainer' /\ \A d \in Cpu : pc'[d] \in Draining => pc'[d] = pc[d]
  BY <1>1, Aside DEF Draining
<1>3. \A p \in Proc : status[p] = "queued" => p \notin taken /\ status'[p] = "queued"
  BY <1>1
<1> HIDE DEF taken
<1>4. InHandWaits'
  <2> SUFFICES ASSUME inhand # NoEntry, inhand.live PROVE status'[inhand.pid] = "queued"
    BY <1>1 DEF InHandWaits
  <2>1. inhand.pid \in Task
    BY DEF TypeOK, InHand
  <2> QED BY <1>3, <2>1 DEF DispatchInv, InHandWaits
<1>5. InHandFresh'
  BY <1>1, <1>2 DEF DispatchInv, InHandFresh, Draining
<1>6. PendingAllowed' /\ FreshDecision'
  BY <1>1 DEF DispatchInv, PendingAllowed, FreshDecision
<1>7. PendingIsQueued'
  BY <1>1, <1>3 DEF DispatchInv, PendingIsQueued
<1>8. MaskRespected'
  BY <1>1 DEF DispatchInv, MaskRespected
<1> QED BY <1>2, <1>4, <1>5, <1>6, <1>7, <1>8 DEF DispatchInv

\* One step per action.
LEMMA PathTask ==
  ASSUME TypeOK, DispatchInv, NEW p \in Task,
         \/ Wakeup(p) \/ Run(p) \/ Yield(p) \/ Preempt(p) \/ Block(p)
         \/ \E mask \in Mask : SetCpumask(p, mask)
         \/ Migrate(p) \/ Exit(p) \/ Reap(p) \/ ExitTask(p) \/ Reuse(p) \/ Count(p)
  PROVE  DispatchInv'
<1>1. CASE Wakeup(p) \/ Yield(p)
  <2>1. PICK cpu, cnt : Enqueue(p, cpu, cnt)
    BY <1>1 DEF Wakeup, Yield
  <2>2. \E w : w # "percpu" /\ status' = [status EXCEPT ![p] = w]
    BY <2>1 DEF Enqueue
  <2>3. status[p] # "queued" /\ UNCHANGED <<dsq, cpus_ptr, pc, pend, used, inhand, cpumask_cnt>>
    BY <1>1 DEF Wakeup, Yield
  <2> QED BY <2>2, <2>3, PathMoves
<1>2. CASE Run(p) \/ Preempt(p) \/ Block(p) \/ Exit(p) \/ Reap(p) \/ ExitTask(p)
  <2>1. \E w \in {"running", "local", "blocked", "dead", "reaped", "gone"} :
          status' = [status EXCEPT ![p] = w]
    BY <1>2 DEF Run, Preempt, Block, Exit, Reap, ExitTask
  <2>2. status[p] # "queued" /\ UNCHANGED <<dsq, cpus_ptr, pc, pend, used, inhand, cpumask_cnt>>
    BY <1>2 DEF Run, Preempt, Block, Exit, Reap, ExitTask, bpf
  <2> QED BY <2>1, <2>2, PathMoves
<1>3. CASE \E mask \in Mask : SetCpumask(p, mask)
  <2>1. PICK mask \in Mask : SetCpumask(p, mask)
    BY <1>3
  <2>2. /\ \A q \in Task \ {p} : cpus_ptr'[q] = cpus_ptr[q] /\ cpumask_cnt'[q] = cpumask_cnt[q]
        /\ UNCHANGED <<pc, used>>
    BY <2>1 DEF SetCpumask, TypeOK
  <2>3. CASE status[p] \in OnRq
    <3>1. PICK cpu, cnt : Requeue(p, cpu, cnt)
      BY <2>1, <2>3 DEF SetCpumask
    <3>2. \E w : w # "percpu" /\ status' = [status EXCEPT ![p] = w]
      BY <3>1 DEF Requeue, Enqueue
    <3>3. Forget({p}) /\ \A q \in Proc \ {p} : dsq'[q] = dsq[q]
      BY <3>1 DEF Requeue, TypeOK
    <3> QED BY <2>2, <3>2, <3>3, PathRequeue
  <2>4. CASE status[p] \notin OnRq
    <3>1. status[p] \notin {"queued", "percpu"} /\ UNCHANGED <<status, dsq, pend, inhand>>
      BY <2>1, <2>4 DEF SetCpumask, OnRq
    <3> QED BY <2>2, <3>1, PathMask
  <2> QED BY <2>3, <2>4
<1>4. CASE Migrate(p)
  <2>1. PICK cpu, cnt : Requeue(p, cpu, cnt)
    BY <1>4 DEF Migrate
  <2>2. \E w : w # "percpu" /\ status' = [status EXCEPT ![p] = w]
    BY <2>1 DEF Requeue, Enqueue
  <2>3. Forget({p}) /\ \A q \in Proc \ {p} : dsq'[q] = dsq[q]
    BY <2>1 DEF Requeue, TypeOK
  <2>4. UNCHANGED <<cpus_ptr, cpumask_cnt, pc, used>>
    BY <1>4 DEF Migrate
  <2> QED BY <2>2, <2>3, <2>4, PathRequeue
<1>5. CASE Count(p)
  BY <1>5, PathSame DEF Count, core, path
<1>6. CASE Reuse(p)
  <2>1. /\ status[p] = "gone" /\ status' = [status EXCEPT ![p] = "blocked"]
        /\ \A q \in Task \ {p} : cpus_ptr'[q] = cpus_ptr[q] /\ cpumask_cnt'[q] = cpumask_cnt[q]
        /\ UNCHANGED <<dsq, pc, pend, used, inhand>>
    BY <1>6 DEF Reuse, TypeOK
  <2>2. status'[p] # "percpu" /\ \A q \in Proc \ {p} : status'[q] = status[q]
    BY <2>1 DEF TypeOK
  <2> QED BY <2>1, <2>2, PathMask
<1> QED BY <1>1, <1>2, <1>3, <1>4, <1>5, <1>6

LEMMA PathUser ==
  ASSUME TypeOK, DispatchInv,
         UserschedStep \/ Heartbeat \/ ClientStep
  PROVE  DispatchInv'
<1> DEFINE u == Usersched
<1>1. CASE Wakeup(u) \/ Yield(u)
  <2>1. PICK cpu, cnt : Enqueue(u, cpu, cnt)
    BY <1>1 DEF Wakeup, Yield
  <2>2. \E w : w # "percpu" /\ status' = [status EXCEPT ![u] = w]
    BY <2>1 DEF Enqueue
  <2>3. status[u] # "queued" /\ UNCHANGED <<dsq, cpus_ptr, pc, pend, used, inhand, cpumask_cnt>>
    BY <1>1 DEF Wakeup, Yield
  <2> QED BY <2>2, <2>3, PathMoves
<1>2. CASE Run(u) \/ Preempt(u) \/ Block(u)
  <2>1. \E w \in {"running", "local", "blocked"} : status' = [status EXCEPT ![u] = w]
    BY <1>2 DEF Run, Preempt, Block
  <2>2. status[u] # "queued" /\ UNCHANGED <<dsq, cpus_ptr, pc, pend, used, inhand, cpumask_cnt>>
    BY <1>2 DEF Run, Preempt, Block
  <2> QED BY <2>1, <2>2, PathMoves
<1>3. CASE Heartbeat
  BY <1>3, PathSame DEF Heartbeat, core, path
<1>4. CASE AnyClient
  <2>1. UNCHANGED <<core, cpumask_cnt>>
    BY <1>4 DEF AnyClient, DequeueTask, UpdateTasks, DispatchTask
  <2> QED BY <2>1, PathSame DEF core, path
<1> QED BY <1>1, <1>2, <1>3, <1>4 DEF UserschedStep, ClientStep

LEMMA PathStep ==
  ASSUME TypeOK, DispatchInv, [Next]_vars
  PROVE  DispatchInv'
<1>1. CASE TaskStep
  BY <1>1, PathTask DEF TaskStep
<1>2. CASE CpuStep
  <2>1. PICK c \in Online : \/ BeginDispatch(c) \/ Drain(c) \/ CheckGeneration(c) \/ CheckMask(c)
                            \/ Flush(c) \/ Consume(c) \/ UpdateIdle(c)
    BY <1>2 DEF CpuStep
  <2>2. c \in Cpu
    BY CpuAssumption
  <2>3. CASE UpdateIdle(c)
    BY <2>3, PathSame DEF UpdateIdle, core, path
  <2> QED BY <2>1, <2>2, <2>3, PathBegin, PathDrain, PathGeneration, PathCheckMask, PathFlush,
             PathConsume
<1>3. CASE UserschedStep \/ Heartbeat \/ ClientStep
  BY <1>3, PathUser
<1>4. CASE UNCHANGED vars
  BY <1>4, PathSame DEF vars, core, bpf, path
<1> QED BY <1>1, <1>2, <1>3, <1>4 DEF Next, KernelStep

-----------------------------------------------------------------------------
(***************************************************************************)
(* The variables of main.bpf.c, of its ring buffers and of the core keep   *)
(* their types, and the dispatch path its invariant, in every execution of *)
(* the backend under any client, with any number of tasks and CPUs.        *)
(***************************************************************************)
THEOREM DispatchCorrect == Spec => [](TypeOK /\ DispatchInv)
<1>1. Init => TypeOK /\ DispatchInv
  BY TypeInit, PathInit
<1>2. TypeOK /\ DispatchInv /\ [Next]_vars => (TypeOK /\ DispatchInv)'
  BY TypeStep, PathStep DEF DispatchInv
<1> QED BY <1>1, <1>2, PTL DEF Spec

\* Type correctness of main.bpf.c's state, of the rings and of the core.
THEOREM TypeCorrect == Spec => []TypeOK
<1>1. TypeOK /\ DispatchInv => TypeOK
  OBVIOUS
<1> QED BY <1>1, DispatchCorrect, PTL

\* dispatch_task and the commit keep a task off the DSQ of a CPU it may not use.
THEOREM MaskSafety == Spec => []MaskRespected
<1>1. TypeOK /\ DispatchInv => MaskRespected
  BY DEF DispatchInv
<1> QED BY <1>1, DispatchCorrect, PTL

\* A CPU chosen for an older cpumask generation is never committed.
THEOREM FreshSafety == Spec => []FreshDecision
<1>1. TypeOK /\ DispatchInv => FreshDecision
  BY DEF DispatchInv
<1> QED BY <1>1, DispatchCorrect, PTL
-----------------------------------------------------------------------------
(***************************************************************************)
(* The dispatch buffer.  A CPU drains on only while a slot is free, has    *)
(* one taken for the entry it has in hand, and starts with none.           *)
(***************************************************************************)
SlotsInv ==
  \A c \in Cpu : /\ used[c] <= MaxDispatchSlot
                 /\ pc[c] = "drain" => used[c] < MaxDispatchSlot
                 /\ pc[c] \in {"out", "consume"} => used[c] = 0

\* A step of c alone, which leaves n slots in use.
LEMMA SlotsMove ==
  ASSUME TypeOK, SlotsInv, NEW c \in Cpu, NEW w, NEW n \in Nat,
         pc' = [pc EXCEPT ![c] = w], used' = [used EXCEPT ![c] = n],
         n <= MaxDispatchSlot, w = "drain" => n < MaxDispatchSlot, w \in {"out", "consume"} => n = 0
  PROVE  SlotsInv'
<1>1. /\ pc \in [Cpu -> Draining \cup {"out", "flush", "consume"}] /\ used \in [Cpu -> Nat]
  BY DEF TypeOK
<1> QED BY <1>1 DEF SlotsInv

LEMMA SlotsCpu ==
  ASSUME TypeOK, DispatchInv, SlotsInv, NEW c \in Cpu,
         BeginDispatch(c) \/ Drain(c) \/ CheckGeneration(c) \/ CheckMask(c) \/ Flush(c) \/ Consume(c)
  PROVE  SlotsInv'
<1>1. /\ used \in [Cpu -> Nat] /\ used[c] \in Nat /\ used = [used EXCEPT ![c] = used[c]]
      /\ pc = [pc EXCEPT ![c] = pc[c]]
      /\ MaxDispatchSlot \in Nat /\ MaxDispatchSlot > 1
  BY BoundAssumption DEF TypeOK
<1>2. \A n \in Nat : /\ DrainOrFlush(n) \in {"drain", "flush"}
                     /\ DrainOrFlush(n) = "drain" => n < MaxDispatchSlot
  BY <1>1 DEF DrainOrFlush
<1>3. CASE BeginDispatch(c)
  <2>1. \E w \in {"flush", "drain"}, n \in {0, 1} :
          pc' = [pc EXCEPT ![c] = w] /\ used' = [used EXCEPT ![c] = n]
    <3>1. used[c] = 0 /\ \E w \in {"flush", "drain"} : pc' = [pc EXCEPT ![c] = w]
      BY <1>3 DEF BeginDispatch, SlotsInv
    <3>2. used' = used \/ used' = [used EXCEPT ![c] = 1]
      BY <1>3 DEF BeginDispatch
    <3> QED BY <1>1, <3>1, <3>2
  <2>2. PICK w \in {"flush", "drain"}, n \in {0, 1} :
          pc' = [pc EXCEPT ![c] = w] /\ used' = [used EXCEPT ![c] = n]
    BY <2>1
  <2>3. n \in Nat /\ n < MaxDispatchSlot /\ n <= MaxDispatchSlot
    BY <1>1, <2>2
  <2>4. w \notin {"out", "consume"}
    BY <2>2
  <2> QED BY <2>2, <2>3, <2>4, SlotsMove
<1>4. CASE Drain(c)
  <2>1. used[c] < MaxDispatchSlot
    BY <1>4 DEF Drain, SlotsInv
  <2>2. CASE used' = used
    <3>1. pc' = [pc EXCEPT ![c] = "flush"] \/ pc' = pc
      BY <1>1, <1>4, <2>2 DEF Drain
    <3> QED BY <1>1, <2>1, <2>2, <3>1, SlotsMove DEF SlotsInv
  <2>3. CASE /\ used' = [used EXCEPT ![c] = @ + 1]
             /\ \E w \in {"gen", DrainOrFlush(used[c] + 1)} : pc' = [pc EXCEPT ![c] = w]
    <3>1. used[c] + 1 \in Nat /\ used[c] + 1 <= MaxDispatchSlot
      BY <1>1, <2>1
    <3> QED BY <1>2, <2>3, <3>1, SlotsMove
  <2> QED BY <1>4, <2>2, <2>3 DEF Drain
<1>5. CASE CheckGeneration(c)
  <2>1. used[c] > 0 /\ used[c] <= MaxDispatchSlot
    BY <1>5 DEF CheckGeneration, SlotsInv, DispatchInv, OneDrainer
  <2>2. CASE used' = used /\ pc' = [pc EXCEPT ![c] = "mask"]
    BY <1>1, <2>1, <2>2, SlotsMove
  <2>3. CASE used' = [used EXCEPT ![c] = @ - 1] /\ pc' = [pc EXCEPT ![c] = DrainOrFlush(used[c] - 1)]
    <3>1. used[c] - 1 \in Nat /\ used[c] - 1 <= MaxDispatchSlot
      BY <1>1, <2>1
    <3> QED BY <1>2, <2>3, <3>1, SlotsMove
  <2> QED BY <1>5, <2>2, <2>3 DEF CheckGeneration
<1>6. CASE CheckMask(c)
  <2>1. used' = used /\ pc' = [pc EXCEPT ![c] = DrainOrFlush(used[c])] /\ used[c] <= MaxDispatchSlot
    BY <1>6 DEF CheckMask, SlotsInv
  <2> QED BY <1>1, <1>2, <2>1, SlotsMove
<1>7. CASE Flush(c)
  <2>1. used' = [used EXCEPT ![c] = 0] /\ pc' = [pc EXCEPT ![c] = "consume"]
    BY <1>7 DEF Flush
  <2>2. 0 \in Nat /\ 0 <= MaxDispatchSlot /\ "consume" # "drain"
    BY <1>1
  <2> QED BY <2>1, <2>2, SlotsMove
<1>8. CASE Consume(c)
  <2>1. used' = [used EXCEPT ![c] = 0] /\ pc' = [pc EXCEPT ![c] = "out"]
    BY <1>1, <1>8 DEF Consume, SlotsInv
  <2>2. 0 \in Nat /\ 0 <= MaxDispatchSlot /\ "out" # "drain"
    BY <1>1
  <2> QED BY <2>1, <2>2, SlotsMove
<1> QED BY <1>3, <1>4, <1>5, <1>6, <1>7, <1>8

LEMMA SlotsStep ==
  ASSUME TypeOK, DispatchInv, SlotsInv, [Next]_vars
  PROVE  SlotsInv'
<1>1. CASE UNCHANGED <<pc, used>>
  BY <1>1 DEF SlotsInv
<1>2. CASE TaskStep \/ UserschedStep
  BY <1>1, <1>2 DEF TaskStep, UserschedStep, Wakeup, Run, Yield, Preempt, Block, SetCpumask,
                    Migrate, Exit, Reap, ExitTask, Reuse, Count, core
<1>3. CASE CpuStep
  <2>1. PICK c \in Online : \/ BeginDispatch(c) \/ Drain(c) \/ CheckGeneration(c) \/ CheckMask(c)
                            \/ Flush(c) \/ Consume(c) \/ UpdateIdle(c)
    BY <1>3 DEF CpuStep
  <2>2. CASE UpdateIdle(c)
    BY <1>1, <2>2 DEF UpdateIdle, core
  <2> QED BY <2>1, <2>2, CpuAssumption, SlotsCpu
<1>4. CASE Heartbeat \/ ClientStep
  BY <1>1, <1>4 DEF Heartbeat, ClientStep, AnyClient, DequeueTask, UpdateTasks, DispatchTask,
                    Wakeup, Block, core
<1>5. CASE UNCHANGED vars
  BY <1>1, <1>5 DEF vars, core
<1> QED BY <1>2, <1>3, <1>4, <1>5 DEF Next, KernelStep

\* No CPU puts more into its dispatch buffer than it holds, whatever user space sends.
THEOREM SlotsSafety == Spec => []SlotsRespected
<1>1. Init => SlotsInv
  BY BoundAssumption DEF Init, SlotsInv
<1>2. SlotsInv /\ TypeOK /\ DispatchInv /\ [Next]_vars => SlotsInv'
  BY SlotsStep
<1>3. SlotsInv => SlotsRespected
  BY DEF SlotsInv, SlotsRespected
<1> QED BY <1>1, <1>2, <1>3, DispatchCorrect, PTL DEF Spec

-----------------------------------------------------------------------------
(***************************************************************************)
(* The ownership map.  A CPU's owner runs on it, a task that runs owns its *)
(* CPU, the scheduler shares a CPU with nobody, and the counter counts.    *)
(***************************************************************************)
Owned == {c \in Cpu : cpu_map[c] # NoTask}
OwnInv ==
  /\ \A p \in Task : status[p] = "running" => cpu_map[task_cpu[p]] = p
  /\ \A c \in Cpu : cpu_map[c] # NoTask =>
       cpu_map[c] \in Task /\ status[cpu_map[c]] = "running" /\ task_cpu[cpu_map[c]] = c
  /\ \A p \in Task : status[p] = "running" /\ status[Usersched] = "running"
       => task_cpu[p] # task_cpu[Usersched]
  /\ nr_running = Cardinality(Owned)

\* Of the tasks nobody comes to a CPU or leaves one.
LEMMA OwnSame ==
  ASSUME OwnInv, UNCHANGED <<cpu_map, nr_running>>,
         \A p \in Task : status'[p] = "running" <=> status[p] = "running",
         status'[Usersched] = "running" => status[Usersched] = "running",
         \A p \in Proc : status[p] = "running" => task_cpu'[p] = task_cpu[p]
  PROVE  OwnInv'
<1>1. Owned' = Owned
  BY DEF Owned
<1> QED BY <1>1 DEF OwnInv

\* p leaves its CPU.
LEMMA OwnStop ==
  ASSUME TypeOK, OwnInv, NEW p \in Task, status[p] = "running", NEW w, w # "running",
         status' = [status EXCEPT ![p] = w], task_cpu' = task_cpu, Stop(p)
  PROVE  OwnInv'
<1>0. /\ status \in [Proc -> Status] /\ task_cpu[p] \in Cpu /\ p # Usersched
      /\ cpu_map \in [Cpu -> Proc \cup {NoTask}] /\ NoTask \notin Task
  BY TaskAssumption, CpuAssumption DEF TypeOK
<1>1. /\ cpu_map' = [cpu_map EXCEPT ![task_cpu[p]] = NoTask] /\ nr_running' = nr_running - 1
      /\ cpu_map[task_cpu[p]] = p
  BY <1>0 DEF Stop, OwnInv
<1>2. Owned' = Owned \ {task_cpu[p]} /\ task_cpu[p] \in Owned
  BY <1>0, <1>1 DEF Owned
<1>3. nr_running' = Cardinality(Owned')
  <2>1. IsFiniteSet(Owned)
    BY CpuAssumption, FS_Subset DEF Owned
  <2>2. Cardinality(Owned') = Cardinality(Owned) - 1
    BY <1>2, <2>1, FS_RemoveElement
  <2> QED BY <1>1, <2>2 DEF OwnInv
<1>4. \A q \in Proc : status'[q] = IF q = p THEN w ELSE status[q]
  BY <1>0
<1>5. \A c \in Cpu : cpu_map'[c] = IF c = task_cpu[p] THEN NoTask ELSE cpu_map[c]
  BY <1>0, <1>1
<1>6. ASSUME NEW q \in Task, status'[q] = "running"
      PROVE  cpu_map'[task_cpu'[q]] = q
  <2>1. q # p /\ cpu_map[task_cpu[q]] = q /\ task_cpu[q] \in Cpu
    BY <1>4, <1>6, CpuAssumption DEF OwnInv, TypeOK
  <2>2. task_cpu[q] # task_cpu[p]
    BY <1>1, <2>1
  <2> QED BY <1>5, <2>1, <2>2
<1>7. ASSUME NEW c \in Cpu, cpu_map'[c] # NoTask
      PROVE  cpu_map'[c] \in Task /\ status'[cpu_map'[c]] = "running" /\ task_cpu'[cpu_map'[c]] = c
  <2>1. c # task_cpu[p] /\ cpu_map'[c] = cpu_map[c]
    BY <1>5, <1>7
  <2>2. /\ cpu_map[c] \in Task /\ status[cpu_map[c]] = "running" /\ task_cpu[cpu_map[c]] = c
    BY <1>7, <2>1 DEF OwnInv
  <2>3. cpu_map[c] # p
    BY <2>1, <2>2
  <2> QED BY <1>4, <2>1, <2>2, <2>3
<1>8. \A q \in Task : status'[q] = "running" /\ status'[Usersched] = "running"
        => task_cpu'[q] # task_cpu'[Usersched]
  BY <1>0, <1>4 DEF OwnInv
<1> QED BY <1>3, <1>6, <1>7, <1>8 DEF OwnInv

\* p comes to its CPU, which has nobody.
LEMMA OwnStart ==
  ASSUME TypeOK, OwnInv, NEW p \in Proc, Run(p)
  PROVE  OwnInv'
<1>0. /\ status \in [Proc -> Status] /\ task_cpu[p] \in Cpu
      /\ cpu_map \in [Cpu -> Proc \cup {NoTask}] /\ NoTask \notin Proc /\ Usersched \notin Task
  BY TaskAssumption, CpuAssumption DEF TypeOK
<1>1. /\ status' = [status EXCEPT ![p] = "running"] /\ task_cpu' = task_cpu /\ status[p] = "local"
      /\ \A q \in Proc : status[q] = "running" => task_cpu[q] # task_cpu[p]
      /\ Start(p, task_cpu[p])
  BY DEF Run, Running
<1>2. \A q \in Proc : status'[q] = IF q = p THEN "running" ELSE status[q]
  BY <1>0, <1>1
<1>3. cpu_map[task_cpu[p]] = NoTask
  BY <1>0, <1>1 DEF OwnInv
<1>4. CASE p = Usersched
  <2>1. UNCHANGED <<cpu_map, nr_running>>
    BY <1>1, <1>4 DEF Start
  <2>2. Owned' = Owned
    BY <2>1 DEF Owned
  <2>3. \A q \in Task : status'[q] = status[q]
    BY <1>0, <1>2, <1>4
  <2>4. \A q \in Task : status[q] = "running" => task_cpu[q] # task_cpu[Usersched]
    BY <1>1, <1>4
  <2> QED BY <1>1, <2>1, <2>2, <2>3, <2>4 DEF OwnInv
<1>5. CASE p # Usersched
  <2>1. /\ p \in Task /\ cpu_map' = [cpu_map EXCEPT ![task_cpu[p]] = p]
        /\ nr_running' = nr_running + 1
    BY <1>1, <1>5 DEF Start
  <2>2. Owned' = Owned \cup {task_cpu[p]} /\ task_cpu[p] \notin Owned
    BY <1>0, <1>3, <2>1 DEF Owned
  <2>3. nr_running' = Cardinality(Owned')
    <3>1. IsFiniteSet(Owned)
      BY CpuAssumption, FS_Subset DEF Owned
    <3>2. Cardinality(Owned') = Cardinality(Owned) + 1
      BY <2>2, <3>1, FS_AddElement
    <3> QED BY <2>1, <3>2 DEF OwnInv
  <2>4. \A c \in Cpu : cpu_map'[c] = IF c = task_cpu[p] THEN p ELSE cpu_map[c]
    BY <1>0, <2>1
  <2>5. ASSUME NEW q \in Task, status'[q] = "running"
        PROVE  cpu_map'[task_cpu'[q]] = q
    <3>1. CASE q = p
      BY <1>0, <1>1, <2>4, <3>1
    <3>2. CASE q # p
      <4>1. status[q] = "running" /\ task_cpu[q] \in Cpu /\ cpu_map[task_cpu[q]] = q
        BY <1>2, <2>5, <3>2, CpuAssumption DEF OwnInv, TypeOK
      <4> QED BY <1>1, <2>4, <4>1
    <3> QED BY <3>1, <3>2
  <2>6. ASSUME NEW c \in Cpu, cpu_map'[c] # NoTask
        PROVE  cpu_map'[c] \in Task /\ status'[cpu_map'[c]] = "running" /\ task_cpu'[cpu_map'[c]] = c
    <3>1. CASE c = task_cpu[p]
      BY <1>1, <1>2, <2>1, <2>4, <3>1
    <3>2. CASE c # task_cpu[p]
      BY <1>1, <1>2, <2>4, <2>6, <3>2 DEF OwnInv
    <3> QED BY <3>1, <3>2
  <2>7. ASSUME NEW q \in Task, status'[q] = "running", status'[Usersched] = "running"
        PROVE  task_cpu'[q] # task_cpu'[Usersched]
    <3>1. status[Usersched] = "running"
      BY <1>2, <1>5, <2>7
    <3> QED BY <1>1, <1>2, <2>7, <3>1 DEF OwnInv
  <2> QED BY <2>3, <2>5, <2>6, <2>7 DEF OwnInv
<1> QED BY <1>4, <1>5

LEMMA OwnTask ==
  ASSUME TypeOK, OwnInv, TaskStep
  PROVE  OwnInv'
<1>0. /\ status \in [Proc -> Status] /\ task_cpu \in [Proc -> Online] /\ Usersched \notin Task
  BY TaskAssumption DEF TypeOK
<1>1. PICK q \in Task : \/ Wakeup(q) \/ Run(q) \/ Yield(q) \/ Preempt(q) \/ Block(q)
                        \/ \E mask \in Mask : SetCpumask(q, mask)
                        \/ Migrate(q) \/ Exit(q) \/ Reap(q) \/ ExitTask(q) \/ Reuse(q) \/ Count(q)
  BY DEF TaskStep
<1>2. CASE Run(q)
  BY <1>2, OwnStart
<1>3. CASE Yield(q) \/ Preempt(q) \/ Block(q) \/ Exit(q)
  <2>1. /\ status[q] = "running" /\ task_cpu' = task_cpu /\ Stop(q)
        /\ \E w \in {"queued", "local", "shared", "blocked", "dead"} : status' = [status EXCEPT ![q] = w]
    BY <1>3 DEF Yield, Preempt, Block, Exit, Enqueue
  <2> QED BY <2>1, OwnStop
<1>4. CASE Wakeup(q) \/ Migrate(q)
  <2>1. /\ status[q] \in OnRq \cup {"blocked"} /\ UNCHANGED <<cpu_map, nr_running>>
        /\ \E w \in {"queued", "local", "shared"} : status' = [status EXCEPT ![q] = w]
        /\ \E c : task_cpu' = [task_cpu EXCEPT ![q] = c]
    BY <1>4 DEF Wakeup, Migrate, Requeue, Enqueue
  <2>2. \A p \in Proc : p # q => status'[p] = status[p] /\ task_cpu'[p] = task_cpu[p]
    BY <1>0, <2>1
  <2>3. status[q] # "running" /\ status'[q] # "running"
    BY <1>0, <2>1 DEF OnRq
  <2> QED BY <1>0, <2>1, <2>2, <2>3, OwnSame
<1>5. CASE \E mask \in Mask : SetCpumask(q, mask)
  <2>1. /\ UNCHANGED <<cpu_map, nr_running, task_cpu>>
        /\ \/ status' = status
           \/ /\ status[q] \in OnRq
              /\ \E w \in {"queued", "local", "shared"} : status' = [status EXCEPT ![q] = w]
    BY <1>5 DEF SetCpumask, Requeue, Enqueue
  <2>2. CASE status' = status
    BY <2>1, <2>2, OwnSame
  <2>3. CASE status' # status
    <3>1. \A p \in Proc : p # q => status'[p] = status[p]
      BY <1>0, <2>1, <2>3
    <3>2. status[q] # "running" /\ status'[q] # "running"
      BY <1>0, <2>1, <2>3 DEF OnRq
    <3> QED BY <1>0, <2>1, <3>1, <3>2, OwnSame
  <2> QED BY <2>2, <2>3
<1>6. CASE Reap(q) \/ ExitTask(q)
  <2>1. /\ status[q] # "running" /\ UNCHANGED <<cpu_map, nr_running, task_cpu>>
        /\ \E w \in {"reaped", "gone"} : status' = [status EXCEPT ![q] = w]
    BY <1>6 DEF Reap, ExitTask, bpf
  <2>2. \A p \in Proc : p # q => status'[p] = status[p]
    BY <1>0, <2>1
  <2>3. status'[q] # "running"
    BY <1>0, <2>1
  <2> QED BY <1>0, <2>1, <2>2, <2>3, OwnSame
<1>7. CASE Count(q)
  BY <1>7, OwnSame DEF Count, core
<1>8. CASE Reuse(q)
  <2>1. /\ status[q] = "gone" /\ UNCHANGED <<cpu_map, nr_running>>
        /\ status' = [status EXCEPT ![q] = "blocked"]
        /\ \E c : task_cpu' = [task_cpu EXCEPT ![q] = c]
    BY <1>8 DEF Reuse
  <2>2. \A p \in Proc : p # q => status'[p] = status[p] /\ task_cpu'[p] = task_cpu[p]
    BY <1>0, <2>1
  <2>3. status'[q] # "running"
    BY <1>0, <2>1
  <2> QED BY <1>0, <2>1, <2>2, <2>3, OwnSame
<1> QED BY <1>1, <1>2, <1>3, <1>4, <1>5, <1>6, <1>7, <1>8

LEMMA OwnCpu ==
  ASSUME TypeOK, DispatchInv, OwnInv, CpuStep
  PROVE  OwnInv'
<1>1. PICK c \in Online : \/ BeginDispatch(c) \/ Drain(c) \/ CheckGeneration(c) \/ CheckMask(c)
                          \/ Flush(c) \/ Consume(c) \/ UpdateIdle(c)
  BY DEF CpuStep
<1>2. CASE BeginDispatch(c) \/ Drain(c) \/ CheckGeneration(c) \/ CheckMask(c) \/ UpdateIdle(c)
  <2>1. UNCHANGED <<status, task_cpu, cpu_map, nr_running>>
    BY <1>2 DEF BeginDispatch, Drain, CheckGeneration, CheckMask, UpdateIdle, core, bpf
  <2> QED BY <2>1, OwnSame
<1>3. CASE Flush(c)
  <2>1. UNCHANGED <<task_cpu, cpu_map, nr_running>>
    BY <1>3 DEF Flush, bpf
  <2>2. \A p \in Proc : status'[p] = status[p] \/ (status[p] = "queued" /\ status'[p] \in {"shared", "percpu"})
    BY <1>3, CpuAssumption DEF Flush, DispatchInv, PendingIsQueued
  <2> QED BY <2>1, <2>2, OwnSame
<1>4. CASE Consume(c)
  <2>1. UNCHANGED <<cpu_map, nr_running>>
    BY <1>4 DEF Consume, bpf
  <2>2. \A p \in Proc : \/ status'[p] = status[p] /\ task_cpu'[p] = task_cpu[p]
                        \/ status[p] \in {"shared", "percpu"} /\ status'[p] = "local"
    BY <1>4 DEF Consume
  <2> QED BY <2>1, <2>2, OwnSame
<1> QED BY <1>1, <1>2, <1>3, <1>4

LEMMA OwnStep ==
  ASSUME TypeOK, DispatchInv, OwnInv, [Next]_vars
  PROVE  OwnInv'
<1>0. status \in [Proc -> Status] /\ task_cpu \in [Proc -> Online] /\ Usersched \notin Task
  BY TaskAssumption DEF TypeOK
<1>1. CASE TaskStep
  BY <1>1, OwnTask
<1>2. CASE CpuStep
  BY <1>2, OwnCpu
<1>3. CASE Run(Usersched)
  BY <1>3, OwnStart
<1>4. CASE Yield(Usersched) \/ Preempt(Usersched) \/ Wakeup(Usersched) \/ Block(Usersched)
  <2>1. /\ UNCHANGED <<cpu_map, nr_running>>
        /\ \E w \in {"queued", "local", "blocked"} : status' = [status EXCEPT ![Usersched] = w]
        /\ \A p \in Task : task_cpu'[p] = task_cpu[p]
        /\ status[Usersched] = "running" => task_cpu' = task_cpu
    <3>1. CASE Yield(Usersched)
      BY <1>0, <3>1, TaskAssumption DEF Yield, Stop, Enqueue
    <3>2. CASE Preempt(Usersched)
      BY <1>0, <3>2 DEF Preempt, Stop
    <3>3. CASE Wakeup(Usersched)
      BY <1>0, <3>3, TaskAssumption DEF Wakeup, Enqueue
    <3>4. CASE Block(Usersched)
      BY <1>0, <3>4 DEF Block, Stop
    <3> QED BY <1>4, <3>1, <3>2, <3>3, <3>4
  <2>2. status'[Usersched] # "running" /\ \A p \in Task : status'[p] = status[p]
    BY <1>0, <2>1
  <2> QED BY <2>1, <2>2, OwnSame
<1>5. CASE Heartbeat \/ AnyClient \/ UNCHANGED vars
  <2>1. UNCHANGED <<status, task_cpu, cpu_map, nr_running>>
    BY <1>5 DEF Heartbeat, AnyClient, DequeueTask, UpdateTasks, DispatchTask, core, bpf, vars
  <2> QED BY <2>1, OwnSame
<1> QED BY <1>1, <1>2, <1>3, <1>4, <1>5 DEF Next, KernelStep, ClientStep, UserschedStep

\* The ownership map and nr_running, written by callbacks of all CPUs, are exact.
THEOREM OwnershipExact == Spec => []CpuOwnership
<1>1. Init => OwnInv
  <2> SUFFICES ASSUME Init PROVE OwnInv
    OBVIOUS
  <2>1. Owned = {}
    BY DEF Init, Owned
  <2>2. \A p \in Task : status[p] = "blocked"
    BY TaskAssumption DEF Init
  <2> QED BY <2>1, <2>2, FS_EmptySet DEF Init, OwnInv
<1>2. OwnInv /\ TypeOK /\ DispatchInv /\ [Next]_vars => OwnInv'
  BY OwnStep
<1>3. OwnInv /\ TypeOK => CpuOwnership
  <2> SUFFICES ASSUME OwnInv, TypeOK, NEW c \in Cpu
               PROVE  IF Running(c) \ {Usersched} = {} THEN cpu_map[c] = NoTask
                      ELSE Running(c) = {cpu_map[c]}
    BY DEF CpuOwnership, OwnInv, Owned
  <2>1. CASE Running(c) \ {Usersched} = {}
    BY <2>1, TaskAssumption DEF OwnInv, Running
  <2>2. CASE Running(c) \ {Usersched} # {}
    <3>1. PICK p \in Task : status[p] = "running" /\ task_cpu[p] = c
      BY <2>2 DEF Running
    <3>2. cpu_map[c] = p
      BY <3>1 DEF OwnInv
    <3>3. \A q \in Proc : status[q] = "running" /\ task_cpu[q] = c => q = p
      BY <3>1, <3>2 DEF OwnInv
    <3> QED BY <2>2, <3>1, <3>2, <3>3 DEF Running
  <2> QED BY <2>1, <2>2
<1> QED BY <1>1, <1>2, <1>3, DispatchCorrect, PTL DEF Spec
=============================================================================
