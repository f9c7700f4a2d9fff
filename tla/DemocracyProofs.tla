--------------------------- MODULE DemocracyProofs ---------------------------
(***************************************************************************)
(* Democracy.tla for any number of programs, candidates, other threads and *)
(* CPUs and any ring sizes: the loop is a client of the backend, so that   *)
(* the theorems of RustlandProofs hold of the deployed scheduler; it is     *)
(* never ejected for a CPU of -1; and the two implement Mandate.           *)
(***************************************************************************)
EXTENDS Democracy, RustlandProofs

USE DEF Proc

-----------------------------------------------------------------------------
(***************************************************************************)
(* The loop against the backend.                                           *)
(***************************************************************************)
\* The kernel never touches task_map.
LEMMA HeldApart ==
  ASSUME KernelStep
  PROVE  held' = held
<1>1. CASE TaskStep
  BY <1>1 DEF TaskStep, Wakeup, Run, Yield, Preempt, Block, SetCpumask, Migrate, Exit, Reap,
              ExitTask, Reuse, Count
<1>2. CASE CpuStep
  BY <1>2 DEF CpuStep, BeginDispatch, Drain, CheckGeneration, CheckMask, Flush, Consume, UpdateIdle
<1>3. CASE UserschedStep \/ Heartbeat
  BY <1>3 DEF UserschedStep, Run, Yield, Preempt, Heartbeat
<1> QED BY <1>1, <1>2, <1>3 DEF KernelStep

\* An Owner is a task, and not a per-CPU kernel thread.
LEMMA OwnerType ==
  /\ \A w \in Candidate : Owner[w] \in Task \ PinnedKthread
  /\ Managed \subseteq Task \ PinnedKthread
  /\ \A w \in Candidate : Owner[w] \in Managed
BY OwnerAssumption DEF Managed

\* What the statements of the loop rest on: task_map holds messages of the programs only,
\* each under its own pid, and a decision names a winner that has one.
LoopInv ==
  /\ DemocracyTypeOK
  /\ \A p \in Task : held[p] # NoMessage => p \in Managed /\ held[p].pid = p
  /\ upc = "dispatch" => winner \in Leads /\ held[Owner[winner]] # NoMessage

LEMMA LoopInit == DemocracyInit => LoopInv
BY DEF DemocracyInit, Init, LoopInv, DemocracyTypeOK, Point

\* One step per action that touches upc or task_map.
LEMMA LoopStep ==
  ASSUME TypeOK, LoopInv, [DemocracyNext]_democracyVars
  PROVE  LoopInv'
<1> USE DEF LoopInv, DemocracyTypeOK, Point, Goto
<1>1. CASE UNCHANGED democracyVars
  BY <1>1 DEF democracyVars, vars, user
<1>2. CASE Backend
  BY <1>2, HeldApart DEF Backend, user
<1>3. CASE WhileNotShutdown \/ MainLoop
  BY <1>3 DEF WhileNotShutdown, MainLoop, vars
<1>4. CASE DrainQueue
  <2>1. /\ winner' = winner /\ shutdown' = shutdown /\ upc = "drain" /\ upc' \in {"drain", "clear"}
    BY <1>4 DEF DrainQueue
  <2>2. CASE held' = held
    BY <2>1, <2>2
  <2>3. CASE held' # held
    <3>1. /\ queued # <<>> /\ Head(queued).pid \in Managed
          /\ held' = [held EXCEPT ![Head(queued).pid] = Head(queued)]
      BY <1>4, <2>3 DEF DrainQueue, DequeueTask, vars
    <3>2. Head(queued).pid \in Task /\ held \in [Task -> QueuedTask \cup {NoMessage}]
      BY <3>1, OwnerType DEF TypeOK
    <3>3. \A p \in Task : held'[p] # NoMessage => p \in Managed /\ held'[p].pid = p
      BY <3>1, <3>2
    <3> QED BY <2>1, <3>3
  <2> QED BY <2>2, <2>3
<1>5. CASE ClearCounters \/ SendRequest \/ Sleep500ms
  BY <1>5 DEF ClearCounters, UpdateTasks, SendRequest, Sleep500ms, Block
<1>6. CASE Decide
  <2>1. winner \in Candidate => winner \in Leads
    BY OwnerAssumption
  <2>2. held' = held
    BY <1>6 DEF Decide, Block, vars
  <2> QED BY <1>6, <2>1, <2>2 DEF Decide
<1>7. CASE Dispatch
  <2>1. held' = held
    BY <1>7 DEF Dispatch, DispatchTask, vars
  <2> QED BY <1>7, <2>1 DEF Dispatch
<1>8. CASE Response \/ SleepEnds
  BY <1>8 DEF Response, SleepEnds, Wakeup
<1>9. CASE CtrlC
  BY <1>9 DEF CtrlC, vars
<1> QED BY <1>1, <1>2, <1>3, <1>4, <1>5, <1>6, <1>7, <1>8, <1>9 DEF DemocracyNext, UserStep

\* Every step of the whole is a step of the backend under some client.
LEMMA ClientOfBackend ==
  ASSUME TypeOK, LoopInv, [DemocracyNext]_democracyVars
  PROVE  [Next]_vars
<1>1. CASE UNCHANGED democracyVars
  BY <1>1 DEF democracyVars
<1>2. CASE DemocracyNext /\ Backend
  BY <1>2 DEF DemocracyNext, Backend, Next
<1>3. CASE DemocracyNext /\ DrainQueue
  <2>1. CASE DequeueTask(Head(queued).pid \in Managed)
    <3>1. UserRuns /\ (Head(queued).pid \in Managed) \in BOOLEAN
      BY <1>3 DEF DrainQueue
    <3>2. \E keep \in BOOLEAN : DequeueTask(keep)
      BY <2>1, <3>1
    <3> QED BY <1>3, <3>1, <3>2 DEF DemocracyNext, AnyClient, ClientStep, Next
  <2> QED BY <1>3, <2>1 DEF DrainQueue
<1>4. CASE DemocracyNext /\ ClearCounters
  <2>1. UserRuns /\ UpdateTasks(0, 0)
    BY <1>4 DEF ClearCounters
  <2> QED BY <1>4, <2>1, AnnouncedAssumption DEF DemocracyNext, AnyClient, ClientStep, Next
<1>5. CASE DemocracyNext /\ Dispatch
  <2>1. UserRuns /\ Owner[winner] \in Task
    BY <1>5, OwnerType, OwnerAssumption DEF Dispatch, LoopInv
  <2>2. CASE DispatchTask(Owner[winner], held[Owner[winner]].cpu)
    <3>1. held[Owner[winner]] # NoMessage
      BY <2>2 DEF DispatchTask
    <3>2. AnyClient
      BY <2>1, <2>2, <3>1 DEF AnyClient
    <3> QED BY <1>5, <3>2 DEF DemocracyNext, ClientStep, Next
  <2> QED BY <1>5, <2>2 DEF Dispatch
<1>6. CASE DemocracyNext /\ (SendRequest \/ Decide \/ Sleep500ms \/ Response \/ SleepEnds)
  <2>1. Wakeup(Usersched) \/ Block(Usersched) \/ UNCHANGED vars
    BY <1>6 DEF SendRequest, Decide, Sleep500ms, Response, SleepEnds
  <2> QED BY <1>6, <2>1 DEF DemocracyNext, ClientStep, Next
<1>7. CASE DemocracyNext /\ (WhileNotShutdown \/ MainLoop \/ CtrlC)
  BY <1>7 DEF WhileNotShutdown, MainLoop, CtrlC
<1> QED BY <1>1, <1>2, <1>3, <1>4, <1>5, <1>6, <1>7 DEF DemocracyNext, UserStep

Safe == TypeOK /\ DispatchInv /\ LoopInv

LEMMA SafeInit == DemocracyInit => Safe
BY LoopInit, TypeInit, PathInit DEF DemocracyInit, Safe

LEMMA SafeStep ==
  ASSUME Safe, [DemocracyNext]_democracyVars
  PROVE  Safe'
<1>1. LoopInv'
  BY LoopStep DEF Safe
<1>2. [Next]_vars
  BY ClientOfBackend DEF Safe
<1>3. TypeOK' /\ DispatchInv'
  BY <1>2, TypeStep, PathStep DEF Safe, DispatchInv
<1> QED BY <1>1, <1>3 DEF Safe

LEMMA SafeAlways == DemocracySpec => []Safe
<1>1. Safe /\ [DemocracyNext]_democracyVars => Safe'
  BY SafeStep
<1> QED BY <1>1, SafeInit, PTL DEF DemocracySpec

(***************************************************************************)
(* The loop of main.rs uses the connector as Rustland.tla lets any client  *)
(* use it, so what is proved of every client is true of the scheduler.     *)
(***************************************************************************)
THEOREM LoopIsClient == DemocracySpec => BackendSpec
<1>1. DemocracyInit => Init
  BY DEF DemocracyInit
<1>2. Safe /\ [DemocracyNext]_democracyVars => [Next]_vars
  BY ClientOfBackend DEF Safe
<1> QED BY <1>1, <1>2, SafeAlways, PTL DEF DemocracySpec, BackendSpec, Spec

\* No task of the deployed scheduler is on the DSQ of a CPU it may not use.
THEOREM DeployedMaskSafety == DemocracySpec => []MaskRespected
<1>1. Safe => MaskRespected
  BY DEF Safe, DispatchInv
<1> QED BY <1>1, SafeAlways, PTL
-----------------------------------------------------------------------------
(***************************************************************************)
(* The loop and the backend against Mandate.  Most steps grant nothing,    *)
(* and move no program as far as Mandate can tell.                         *)
(***************************************************************************)
Program == Task \ PinnedKthread
PlaceNow == [p \in Program |-> Mapped(status[p])]

\* The two forms of a step of the abstract specification, in the state of this one.
LEMMA MandateGrant ==
  ASSUME NEW P \in SUBSET Program, winner' = winner,
         \A p \in P : p \in Ordered /\ status[p] = "queued",
         Ordered' \subseteq Ordered,
         \A p \in Program : Mapped(status'[p]) = IF p \in P THEN "granted" ELSE Mapped(status[p])
  PROVE  M!Next
<1>1. M!Grant(P)
  <2>1. \A p \in P : PlaceNow[p] = "waiting"
    BY DEF Mapped, PlaceNow
  <2>2. PlaceNow' = [p \in Program |-> IF p \in P THEN "granted" ELSE PlaceNow[p]]
    BY DEF PlaceNow
  <2> QED BY <2>1, <2>2 DEF M!Grant, PlaceNow, Program
<1>2. (Len(queued) = MaxEnqueued)' \in BOOLEAN
  OBVIOUS
<1> QED BY <1>1, <1>2 DEF M!Next, Program

LEMMA MandateLapse ==
  ASSUME winner' = winner, Ordered' \subseteq Ordered,
         \A p \in Program : Mapped(status'[p]) = Mapped(status[p])
  PROVE  M!Next
BY MandateGrant, {} \in SUBSET Program

\* What keeps orders on their way: nothing is added to the rings and buffers.
LEMMA OrdersSame ==
  ASSUME UNCHANGED <<dispatched, pend, inhand>>
  PROVE  Ordered' = Ordered
BY DEF Ordered

LEMMA OrdersForgotten ==
  ASSUME TypeOK, NEW P, Forget(P), UNCHANGED dispatched
  PROVE  Ordered' \subseteq Ordered
<1>1. /\ \A c \in Cpu : \A p \in Proc : pend'[c][p] # NoEntry => pend[c][p] # NoEntry
      /\ inhand' # NoEntry <=> inhand # NoEntry
      /\ inhand # NoEntry => inhand'.pid = inhand.pid
  BY Forgotten
<1> QED BY <1>1 DEF Ordered

\* p becomes runnable on the BPF side, or is enqueued again.
LEMMA MandateReady ==
  ASSUME TypeOK, NEW p \in Program, NEW cpu, NEW cnt, Enqueue(p, cpu, cnt),
         winner' = winner, Ordered' \subseteq Ordered
  PROVE  M!Next
<1>1. p \in Task /\ p \notin PinnedKthread /\ p # Usersched
  BY TaskAssumption DEF Program
<1>2. status' = [status EXCEPT ![p] = IF Len(queued) = MaxEnqueued THEN "shared" ELSE "queued"]
  BY <1>1 DEF Enqueue
<1>3. status \in [Proc -> Status]
  BY DEF TypeOK
<1>4. \A q \in Program : Mapped(status'[q]) =
        IF q = p THEN IF Len(queued) = MaxEnqueued THEN "granted" ELSE "waiting"
                 ELSE Mapped(status[q])
  BY <1>2, <1>3 DEF Mapped, Program
<1>5. PlaceNow' = [PlaceNow EXCEPT ![p] =
                     IF Len(queued) = MaxEnqueued THEN "granted" ELSE "waiting"]
  BY <1>4 DEF PlaceNow
<1>6. M!Ready(p)
  BY <1>5 DEF M!Ready, PlaceNow, Program
<1>7. (Len(queued) = MaxEnqueued)' \in BOOLEAN
  OBVIOUS
<1> QED BY <1>6, <1>7 DEF M!Next, Program

\* A thread that Mandate does not know moves.
LEMMA MandateElse ==
  ASSUME TypeOK, NEW p \in Proc, p \notin Program, NEW w,
         status' = [status EXCEPT ![p] = w], winner' = winner, Ordered' \subseteq Ordered
  PROVE  M!Next
<1>1. \A q \in Program : status'[q] = status[q]
  BY DEF TypeOK, Program
<1> QED BY <1>1, MandateLapse

\* p moves from one place to another.
LEMMA PlaceMoves ==
  ASSUME TypeOK, NEW p \in Program, NEW w, status' = [status EXCEPT ![p] = w]
  PROVE  PlaceNow' = [PlaceNow EXCEPT ![p] = Mapped(w)]
<1>1. status \in [Proc -> Status] /\ p \in Proc
  BY DEF TypeOK, Program
<1>2. \A q \in Program : Mapped(status'[q]) = IF q = p THEN Mapped(w) ELSE Mapped(status[q])
  BY <1>1 DEF Program, Mapped
<1> QED BY <1>2 DEF PlaceNow

\* Steps of the threads.
LEMMA MandateTask ==
  ASSUME TypeOK, winner' = winner, NEW p \in Task,
         \/ Wakeup(p) \/ Run(p) \/ Yield(p) \/ Preempt(p) \/ Block(p)
         \/ \E mask \in Mask : SetCpumask(p, mask)
         \/ Migrate(p) \/ Exit(p) \/ Reap(p) \/ ExitTask(p) \/ Reuse(p) \/ Count(p)
  PROVE  M!Next
<1> DEFINE known == p \in Program
<1>0. (Len(queued) = MaxEnqueued)' \in BOOLEAN
  OBVIOUS
<1>1. CASE Wakeup(p) \/ Yield(p)
  <2>1. PICK cpu, cnt : Enqueue(p, cpu, cnt)
    BY <1>1 DEF Wakeup, Yield
  <2>2. Ordered' \subseteq Ordered
    BY <1>1, OrdersSame DEF Wakeup, Yield
  <2>3. \E w : status' = [status EXCEPT ![p] = w]
    BY <2>1 DEF Enqueue
  <2> QED BY <2>1, <2>2, <2>3, MandateReady, MandateElse
<1>2. CASE Run(p)
  <2>1. status[p] = "local" /\ status' = [status EXCEPT ![p] = "running"]
    BY <1>2 DEF Run
  <2>2. Ordered' = Ordered
    BY <1>2, OrdersSame DEF Run
  <2>3. CASE known
    <3>1. PlaceNow[p] = "granted" /\ PlaceNow' = [PlaceNow EXCEPT ![p] = "running"]
      BY <2>1, <2>3, PlaceMoves DEF Mapped, PlaceNow
    <3>2. M!Run(p)
      BY <2>2, <3>1 DEF M!Run, PlaceNow, Program
    <3> QED BY <1>0, <2>3, <3>2 DEF M!Next, Program
  <2> QED BY <2>1, <2>2, <2>3, MandateElse
<1>3. CASE Block(p) \/ Exit(p)
  <2>1. PICK w \in {"blocked", "dead"} : status' = [status EXCEPT ![p] = w]
    BY <1>3 DEF Block, Exit
  <2>2. status[p] = "running"
    BY <1>3 DEF Block, Exit
  <2>3. Ordered' = Ordered
    BY <1>3, OrdersSame DEF Block, Exit
  <2>4. CASE known
    <3>1. PlaceNow[p] = "running" /\ PlaceNow' = [PlaceNow EXCEPT ![p] = "away"]
      BY <2>1, <2>2, <2>4, PlaceMoves DEF Mapped, PlaceNow
    <3>2. M!Leave(p)
      BY <2>3, <3>1 DEF M!Leave, PlaceNow, Program
    <3> QED BY <1>0, <2>4, <3>2 DEF M!Next, Program
  <2> QED BY <2>1, <2>3, <2>4, MandateElse
<1>4. CASE Reap(p) \/ ExitTask(p) \/ Reuse(p)
  <2>1. PICK w \in {"reaped", "gone", "blocked"} : status' = [status EXCEPT ![p] = w]
    BY <1>4 DEF Reap, ExitTask, Reuse
  <2>2. status[p] \in {"dead", "reaped", "gone"} /\ status \in [Proc -> Status]
    BY <1>4 DEF Reap, ExitTask, Reuse, TypeOK
  <2>3. Ordered' = Ordered
    BY <1>4, OrdersSame DEF Reap, ExitTask, Reuse, bpf
  <2>4. \A q \in Program : Mapped(status'[q]) = Mapped(status[q])
    BY <2>1, <2>2 DEF Mapped, Program
  <2> QED BY <2>3, <2>4, MandateLapse
<1>5. CASE Migrate(p) \/ \E mask \in Mask : SetCpumask(p, mask)
  <2>1. UNCHANGED dispatched
    BY <1>5 DEF Migrate, SetCpumask
  <2>2. CASE \E cpu, cnt : Requeue(p, cpu, cnt)
    <3>1. PICK cpu, cnt : Requeue(p, cpu, cnt)
      BY <2>2
    <3>2. Ordered' \subseteq Ordered
      BY <2>1, <3>1, OrdersForgotten DEF Requeue
    <3>3. Enqueue(p, cpu, cnt) /\ \E w : status' = [status EXCEPT ![p] = w]
      BY <3>1 DEF Requeue, Enqueue
    <3> QED BY <3>2, <3>3, MandateReady, MandateElse
  <2>3. CASE ~\E cpu, cnt : Requeue(p, cpu, cnt)
    <3>1. UNCHANGED <<status, pend, inhand>>
      BY <1>5, <2>3 DEF Migrate, SetCpumask
    <3> QED BY <2>1, <3>1, OrdersSame, MandateLapse
  <2> QED BY <2>2, <2>3
<1>6. CASE Count(p)
  <2>1. UNCHANGED <<status, dispatched, pend, inhand>>
    BY <1>6 DEF Count, core
  <2> QED BY <2>1, OrdersSame, MandateLapse
<1>7. CASE Preempt(p)
  <2>1. status[p] = "running" /\ status' = [status EXCEPT ![p] = "local"]
    BY <1>7 DEF Preempt
  <2>2. Ordered' = Ordered
    BY <1>7, OrdersSame DEF Preempt
  <2>3. CASE known
    <3>1. PlaceNow[p] = "running" /\ PlaceNow' = [PlaceNow EXCEPT ![p] = "granted"]
      BY <2>1, <2>3, PlaceMoves DEF Mapped, PlaceNow
    <3>2. M!Preempt(p)
      BY <2>2, <3>1 DEF M!Preempt, PlaceNow, Program
    <3> QED BY <1>0, <2>3, <3>2 DEF M!Next, Program
  <2> QED BY <2>1, <2>2, <2>3, MandateElse
<1> QED BY <1>1, <1>2, <1>3, <1>4, <1>5, <1>6, <1>7
\* Noting an entry adds at most an order for its thread.
LEMMA NotedOrders ==
  ASSUME TypeOK, NEW c \in Cpu, NEW p, NEW d, NEW cnt,
         pend' = [pend EXCEPT ![c] = Noted(pend[c], p, d, cnt)]
  PROVE  \A e \in Cpu : \A q \in Task : pend'[e][q] # NoEntry => pend[e][q] # NoEntry \/ q = p
<1>1. pend \in [Cpu -> [Proc -> Entry \cup {NoEntry}]]
  BY DEF TypeOK
<1> SUFFICES ASSUME NEW e \in Cpu, NEW q \in Task, q # p
             PROVE  pend'[e][q] = pend[e][q]
  OBVIOUS
<1>2. Noted(pend[c], p, d, cnt)[q] = pend[c][q]
  BY <1>1 DEF Noted
<1> QED BY <1>1, <1>2

\* What is read from a ring, and what is left in it, was in it.
LEMMA RingOrders ==
  ASSUME NEW s \in Seq(DispatchedTask), s # <<>>
  PROVE  /\ \A i \in DOMAIN Tail(s) : i + 1 \in DOMAIN s /\ Tail(s)[i] = s[i + 1]
         /\ 1 \in DOMAIN s /\ Head(s) = s[1]
OBVIOUS

LEMMA MandateDrain ==
  ASSUME TypeOK, winner' = winner, NEW c \in Cpu, Drain(c)
  PROVE  M!Next
<1>1. UNCHANGED status
  BY DEF Drain
<1>2. dispatched \in Seq(DispatchedTask)
  BY DEF TypeOK
<1>3. CASE dispatched = <<>> \/ ~Found(Head(dispatched).pid)
  <2>1. /\ UNCHANGED <<pend, inhand>>
        /\ \/ dispatched' = dispatched
           \/ dispatched # <<>> /\ dispatched' = Tail(dispatched)
    BY <1>3 DEF Drain
  <2>2. \A i \in DOMAIN dispatched' : \E j \in DOMAIN dispatched : dispatched'[i] = dispatched[j]
    BY <1>2, <2>1, RingOrders
  <2>3. Ordered' \subseteq Ordered
    BY <2>1, <2>2 DEF Ordered
  <2> QED BY <1>1, <2>3, MandateLapse
<1>4. CASE dispatched # <<>> /\ Found(Head(dispatched).pid)
  <2> DEFINE t == Head(dispatched)
  <2>1. dispatched' = Tail(dispatched)
    BY <1>4 DEF Drain
  <2>2. \/ UNCHANGED pend /\ inhand'.pid = t.pid
        \/ pend' = [pend EXCEPT ![c] = Noted(pend[c], t.pid, SharedDsq, 0)] /\ inhand' = inhand
    BY <1>4 DEF Drain
  <2>3. /\ \A i \in DOMAIN dispatched' : \E j \in DOMAIN dispatched : dispatched'[i] = dispatched[j]
        /\ \E j \in DOMAIN dispatched : t = dispatched[j]
    BY <1>2, <1>4, <2>1, RingOrders
  <2>4. \A e \in Cpu : \A q \in Task : pend'[e][q] # NoEntry => pend[e][q] # NoEntry \/ q = t.pid
    <3>1. CASE pend' = [pend EXCEPT ![c] = Noted(pend[c], t.pid, SharedDsq, 0)]
      BY <3>1, NotedOrders
    <3> QED BY <2>2, <3>1
  <2>5. inhand' # NoEntry => inhand' = inhand \/ inhand'.pid = t.pid
    BY <2>2
  <2> HIDE DEF t
  <2>6. {dispatched'[i].pid : i \in DOMAIN dispatched'} \subseteq Ordered /\ t.pid \in Ordered
    BY <2>3 DEF Ordered
  <2>7. \A q \in Task : (\/ \E e \in Cpu : pend'[e][q] # NoEntry
                         \/ inhand' # NoEntry /\ inhand'.pid = q) => q \in Ordered
    BY <2>4, <2>5, <2>6 DEF Ordered
  <2>8. Ordered' \subseteq Ordered
    BY <2>6, <2>7 DEF Ordered
  <2> QED BY <1>1, <2>8, MandateLapse
<1> QED BY <1>3, <1>4

\* The flush grants what the dispatch buffer holds.
LEMMA MandateFlush ==
  ASSUME TypeOK, DispatchInv, winner' = winner, NEW c \in Cpu, Flush(c)
  PROVE  M!Next
<1> DEFINE landed == {p \in Proc : pend[c][p] # NoEntry}
           P == landed \cap Program
<1>1. /\ Forget(landed) /\ UNCHANGED dispatched
      /\ status' = [p \in Proc |->
           IF p \notin landed THEN status[p]
           ELSE IF pend[c][p].dsq = SharedDsq THEN "shared" ELSE "percpu"]
  BY DEF Flush, bpf
<1>2. Ordered' \subseteq Ordered
  BY <1>1, OrdersForgotten
<1>3. \A p \in P : p \in Ordered /\ status[p] = "queued"
  BY DEF Ordered, Program, DispatchInv, PendingIsQueued
<1> HIDE DEF landed
<1>4. \A p \in Program : Mapped(status'[p]) = IF p \in P THEN "granted" ELSE Mapped(status[p])
  BY <1>1 DEF Mapped, Program
<1> QED BY <1>2, <1>3, <1>4, MandateGrant

\* Steps of the CPUs.
LEMMA MandateCpu ==
  ASSUME TypeOK, DispatchInv, winner' = winner, NEW c \in Cpu,
         \/ BeginDispatch(c) \/ Drain(c) \/ CheckGeneration(c) \/ CheckMask(c)
         \/ Flush(c) \/ Consume(c) \/ UpdateIdle(c)
  PROVE  M!Next
<1>1. CASE BeginDispatch(c)
  <2>1. UNCHANGED <<status, dispatched, inhand>>
        /\ (pend' = pend \/ pend' = [pend EXCEPT ![c] = Noted(pend[c], Usersched, SharedDsq, 0)])
    BY <1>1 DEF BeginDispatch
  <2>2. \A e \in Cpu : \A q \in Task : pend'[e][q] # NoEntry => pend[e][q] # NoEntry
    <3>1. CASE pend' = [pend EXCEPT ![c] = Noted(pend[c], Usersched, SharedDsq, 0)]
      <4>1. \A e \in Cpu : \A q \in Task :
              pend'[e][q] # NoEntry => pend[e][q] # NoEntry \/ q = Usersched
        BY <3>1, NotedOrders
      <4> QED BY <4>1, TaskAssumption
    <3> QED BY <2>1, <3>1
  <2>3. Ordered' \subseteq Ordered
    BY <2>1, <2>2 DEF Ordered
  <2> QED BY <2>1, <2>3, MandateLapse
<1>2. CASE CheckGeneration(c)
  <2>1. UNCHANGED <<status, dispatched, pend>> /\ (inhand' = inhand \/ inhand' = NoEntry)
    BY <1>2 DEF CheckGeneration, bpf
  <2>2. Ordered' \subseteq Ordered
    BY <2>1 DEF Ordered
  <2> QED BY <2>1, <2>2, MandateLapse
<1>3. CASE CheckMask(c)
  <2>1. UNCHANGED <<status, dispatched>> /\ inhand' = NoEntry
    BY <1>3 DEF CheckMask, bpf
  <2>2. inhand # NoEntry
    BY <1>3 DEF CheckMask, DispatchInv, OneDrainer
  <2>3. \E d, cnt : \/ pend' = [pend EXCEPT ![c] = @]
                    \/ pend' = [pend EXCEPT ![c] = Noted(pend[c], inhand.pid, d, cnt)]
    BY <1>3 DEF CheckMask
  <2>4. pend' = pend \/ \E d, cnt : pend' = [pend EXCEPT ![c] = Noted(pend[c], inhand.pid, d, cnt)]
    BY <2>3 DEF TypeOK
  <2>5. \A e \in Cpu : \A q \in Task :
          pend'[e][q] # NoEntry => pend[e][q] # NoEntry \/ q = inhand.pid
    <3>1. CASE \E d, cnt : pend' = [pend EXCEPT ![c] = Noted(pend[c], inhand.pid, d, cnt)]
      <4>1. PICK d, cnt : pend' = [pend EXCEPT ![c] = Noted(pend[c], inhand.pid, d, cnt)]
        BY <3>1
      <4> QED BY <4>1, NotedOrders
    <3> QED BY <2>4, <3>1
  <2>6. Ordered' \subseteq Ordered
    BY <2>1, <2>2, <2>5 DEF Ordered
  <2> QED BY <2>1, <2>6, MandateLapse
<1>4. CASE Consume(c)
  <2> DEFINE taken == {p \in Proc : /\ Allowed(p, c)
                                    /\ \/ status[p] = "shared"
                                       \/ status[p] = "percpu" /\ dsq[p] = c}
  <2>1. /\ UNCHANGED <<dispatched, pend, inhand>>
        /\ status' = [p \in Proc |-> IF p \in taken THEN "local" ELSE status[p]]
    BY <1>4 DEF Consume, bpf
  <2>2. \A p \in taken : status[p] \in {"shared", "percpu"}
    OBVIOUS
  <2> HIDE DEF taken
  <2>3. \A p \in Program : Mapped(status'[p]) = Mapped(status[p])
    BY <2>1, <2>2 DEF Mapped, Program
  <2> QED BY <2>1, <2>3, OrdersSame, MandateLapse
<1>5. CASE UpdateIdle(c)
  <2>1. UNCHANGED <<status, dispatched, pend, inhand>>
    BY <1>5 DEF UpdateIdle, core
  <2> QED BY <2>1, OrdersSame, MandateLapse
<1> QED BY <1>1, <1>2, <1>3, <1>4, <1>5, MandateDrain, MandateFlush

\* The scheduler's own thread and the timer.
LEMMA MandateUser ==
  ASSUME TypeOK, winner' = winner,
         \/ UserschedStep \/ Heartbeat \/ Wakeup(Usersched) \/ Block(Usersched)
  PROVE  M!Next
<1>1. Usersched \in Proc /\ Usersched \notin Program
  BY TaskAssumption DEF Program
<1>2. CASE \/ Run(Usersched) \/ Yield(Usersched) \/ Preempt(Usersched)
           \/ Wakeup(Usersched) \/ Block(Usersched)
  <2>1. CASE Run(Usersched) \/ Preempt(Usersched) \/ Block(Usersched)
    BY <2>1, <1>1, OrdersSame, MandateElse DEF Run, Preempt, Block
  <2>2. CASE Yield(Usersched) \/ Wakeup(Usersched)
    <3>1. \E cpu, cnt : Enqueue(Usersched, cpu, cnt)
      BY <2>2 DEF Yield, Wakeup
    <3>2. \E w : status' = [status EXCEPT ![Usersched] = w]
      BY <3>1 DEF Enqueue
    <3>3. UNCHANGED <<dispatched, pend, inhand>>
      BY <2>2 DEF Yield, Wakeup
    <3> QED BY <1>1, <3>2, <3>3, OrdersSame, MandateElse
  <2> QED BY <1>2, <2>1, <2>2
<1>3. CASE Heartbeat
  <2>1. UNCHANGED <<status, dispatched, pend, inhand>>
    BY <1>3 DEF Heartbeat, core
  <2> QED BY <2>1, OrdersSame, MandateLapse
<1> QED BY <1>2, <1>3 DEF UserschedStep

\* A dispatch is an order to the leader's program, or, the ring being full, nothing.
LEMMA MandateDispatch ==
  ASSUME TypeOK, LoopInv, Dispatch
  PROVE  M!Next
<1>1. winner \in Leads /\ winner' = winner
  BY DEF LoopInv, Dispatch
<1>2. Owner[winner] \in Program
  BY <1>1, OwnerAssumption DEF Program
<1>3. CASE UNCHANGED vars
  BY <1>1, <1>3, OrdersSame, MandateLapse DEF vars, core, bpf
<1>4. CASE DispatchTask(Owner[winner], held[Owner[winner]].cpu)
  <2> DEFINE p == Owner[winner]
             x == [pid |-> p, cpu |-> held[p].cpu, cpumask_cnt |-> held[p].cpumask_cnt]
  <2>1. /\ dispatched' = Append(dispatched, x) /\ UNCHANGED <<status, pend, inhand>>
        /\ held[p] # NoMessage
    BY <1>4 DEF DispatchTask, core
  <2>2. x \in DispatchedTask /\ dispatched \in Seq(DispatchedTask) /\ x.pid = p
    <3>1. held[p] \in QueuedTask
      BY <1>2, <2>1 DEF TypeOK, Program
    <3> QED BY <1>2, <3>1 DEF TypeOK, DispatchedTask, QueuedTask, Program
  <2> HIDE DEF x, p
  <2>3. {dispatched'[i].pid : i \in DOMAIN dispatched'}
          = {dispatched[i].pid : i \in DOMAIN dispatched} \cup {p}
    BY <2>1, <2>2
  <2>4. Ordered' = Ordered \cup {p}
    BY <2>1, <2>3 DEF Ordered
  <2>5. M!Order
    BY <1>1, <2>1, <2>4 DEF M!Order, p
  <2>6. (Len(queued) = MaxEnqueued)' \in BOOLEAN
    OBVIOUS
  <2> QED BY <2>5, <2>6 DEF M!Next
<1> QED BY <1>3, <1>4 DEF Dispatch

\* What the ballot box answers becomes the leader.
LEMMA MandatePoll ==
  ASSUME TypeOK, Response
  PROVE  M!Next
<1>1. /\ winner' \in Leads \cup {NoWinner} /\ UNCHANGED <<dispatched, pend, inhand>>
      /\ \E w : status' = [status EXCEPT ![Usersched] = w]
  BY DEF Response, Wakeup, Enqueue
<1>2. \A p \in Program : status'[p] = status[p]
  BY <1>1, TaskAssumption DEF TypeOK, Program
<1>3. M!Poll
  BY <1>1, <1>2, OrdersSame DEF M!Poll, Program
<1>4. (Len(queued) = MaxEnqueued)' \in BOOLEAN
  OBVIOUS
<1> QED BY <1>3, <1>4 DEF M!Next

LEMMA MandateStep ==
  ASSUME Safe, [DemocracyNext]_democracyVars
  PROVE  [M!Next]_(M!vars)
<1> USE DEF Safe
<1>1. CASE UNCHANGED democracyVars
  BY <1>1, OrdersSame DEF M!vars, democracyVars, vars, core, bpf, user
<1>2. CASE Backend
  <2>1. winner' = winner
    BY <1>2 DEF Backend, user
  <2>2. CASE TaskStep
    BY <2>1, <2>2, MandateTask DEF TaskStep
  <2>3. CASE CpuStep
    BY <2>1, <2>3, CpuAssumption, MandateCpu DEF CpuStep
  <2> QED BY <1>2, <2>1, <2>2, <2>3, MandateUser DEF Backend, KernelStep
<1>3. CASE WhileNotShutdown \/ MainLoop \/ CtrlC
  BY <1>3, OrdersSame, MandateLapse DEF WhileNotShutdown, MainLoop, CtrlC, vars, core, bpf
<1>4. CASE DrainQueue
  BY <1>4, OrdersSame, MandateLapse DEF DrainQueue, DequeueTask, vars, core, bpf
<1>5. CASE ClearCounters
  BY <1>5, OrdersSame, MandateLapse DEF ClearCounters, UpdateTasks, core
<1>6. CASE SendRequest \/ Sleep500ms \/ SleepEnds
  BY <1>6, MandateUser DEF SendRequest, Sleep500ms, SleepEnds
<1>7. CASE Decide
  <2>1. CASE Block(Usersched)
    BY <1>7, <2>1, MandateUser DEF Decide
  <2>2. CASE UNCHANGED vars
    BY <1>7, <2>2, OrdersSame, MandateLapse DEF Decide, vars, core, bpf
  <2> QED BY <1>7, <2>1, <2>2 DEF Decide
<1> QED BY <1>1, <1>2, <1>3, <1>4, <1>5, <1>6, <1>7, MandateDispatch, MandatePoll
        DEF DemocracyNext, UserStep

LEMMA MandateInit == DemocracyInit => M!Init
<1> SUFFICES ASSUME DemocracyInit PROVE M!Init
  OBVIOUS
<1>1. Ordered = {}
  BY DEF DemocracyInit, Init, Ordered, Empty
<1>2. PlaceNow = [p \in Program |-> "away"]
  BY TaskAssumption DEF DemocracyInit, Init, PlaceNow, Mapped, Program
<1>3. (Len(queued) = MaxEnqueued) = FALSE
  BY BoundAssumption DEF DemocracyInit, Init
<1> QED BY <1>1, <1>2, <1>3 DEF DemocracyInit, M!Init, PlaceNow, Program

(***************************************************************************)
(* Through rings, stale messages, generations, dispatch buffers and        *)
(* affinity changes: a program gets from the scheduler to a DSQ only on an *)
(* order given to the program of the winner of the last poll, unless the   *)
(* ring to user space was full when it was enqueued.                       *)
(***************************************************************************)
THEOREM LoopImplementsMandate == DemocracySpec => VoteMandates
<1>1. Safe /\ [DemocracyNext]_democracyVars => [M!Next]_(M!vars)
  BY MandateStep
<1> QED BY <1>1, MandateInit, SafeAlways, PTL DEF DemocracySpec, VoteMandates, M!Spec
-----------------------------------------------------------------------------
(***************************************************************************)
(* What the vote decides follows from Mandate alone: all orders are for    *)
(* programs of candidates that a poll may name.                            *)
(***************************************************************************)
OnlyLeaders == Ordered \subseteq {Owner[w] : w \in Leads}
Decided(p)  == status[p] = "queued" /\ status'[p] \in {"shared", "percpu", "local"}
                 => Len(queued) = MaxEnqueued

LEMMA OrdersOfLeaders ==
  ASSUME OnlyLeaders, [M!Next]_(M!vars)
  PROVE  OnlyLeaders'
<1>1. \/ Ordered' \subseteq Ordered
      \/ winner \in Leads /\ Ordered' = Ordered \cup {Owner[winner]}
  <2>1. CASE M!Poll \/ UNCHANGED M!vars \/ \E p \in Program : M!Run(p) \/ M!Preempt(p) \/ M!Leave(p)
    BY <2>1 DEF M!Poll, M!vars, M!Run, M!Preempt, M!Leave
  <2>2. CASE (\E P \in SUBSET Program : M!Grant(P)) \/ \E p \in Program : M!Ready(p)
    BY <2>2 DEF M!Grant, M!Ready
  <2>3. CASE M!Order
    BY <2>3 DEF M!Order
  <2> QED BY <2>1, <2>2, <2>3 DEF M!Next, Program
<1> QED BY <1>1 DEF OnlyLeaders

LEMMA DecidedStep ==
  ASSUME OnlyLeaders, [M!Next]_(M!vars),
         NEW p \in Task \ (PinnedKthread \cup {Owner[w] : w \in Leads})
  PROVE  Decided(p)
<1>1. p \in Program /\ p \notin Ordered
  BY DEF OnlyLeaders, Program
<1>2. SUFFICES ASSUME Mapped(status[p]) = "waiting", Mapped(status'[p]) = "granted"
               PROVE  Len(queued) = MaxEnqueued
  BY DEF Decided, Mapped
<1>3. PlaceNow[p] = "waiting" /\ PlaceNow'[p] = "granted"
  BY <1>1, <1>2 DEF PlaceNow
<1>4. CASE UNCHANGED PlaceNow
  BY <1>3, <1>4
<1>5. CASE \E P \in SUBSET Program : M!Grant(P)
  <2>1. PICK P \in SUBSET Program : M!Grant(P)
    BY <1>5
  <2>2. /\ \A q \in P : q \in Ordered
        /\ PlaceNow' = [q \in Program |-> IF q \in P THEN "granted" ELSE PlaceNow[q]]
    BY <2>1 DEF M!Grant, PlaceNow, Program
  <2> QED BY <1>1, <1>3, <2>2
<1>6. CASE \E q \in Program : M!Ready(q)
  <2>1. PICK q \in Program : PlaceNow' =
          [PlaceNow EXCEPT ![q] = IF Len(queued) = MaxEnqueued THEN "granted" ELSE "waiting"]
    BY <1>6 DEF M!Ready, PlaceNow, Program
  <2> QED BY <1>1, <1>3, <2>1 DEF PlaceNow
<1>7. CASE \E q \in Program : M!Run(q) \/ M!Leave(q)
  <2>1. PICK q \in Program, s \in {"running", "away"} : PlaceNow' = [PlaceNow EXCEPT ![q] = s]
    BY <1>7 DEF M!Run, M!Leave, PlaceNow, Program
  <2> QED BY <1>1, <1>3, <2>1 DEF PlaceNow
<1>8. CASE \E q \in Program : M!Preempt(q)
  <2>1. PICK q \in Program : PlaceNow[q] = "running" /\ PlaceNow' = [PlaceNow EXCEPT ![q] = "granted"]
    BY <1>8 DEF M!Preempt, PlaceNow, Program
  <2> QED BY <1>1, <1>3, <2>1 DEF PlaceNow
<1> QED BY <1>4, <1>5, <1>6, <1>7, <1>8 DEF M!Next, M!vars, M!Poll, M!Order, PlaceNow, Program

(***************************************************************************)
(* The vote decides: a program whose candidate no poll may name gets from  *)
(* the scheduler to a DSQ only past a ring that was full.                  *)
(***************************************************************************)
THEOREM VoteAlwaysDecides == DemocracySpec => VoteDecides
<1>1. DemocracyInit => OnlyLeaders
  <2>1. DemocracyInit => Ordered = {}
    BY MandateInit DEF M!Init
  <2> QED BY <2>1 DEF OnlyLeaders
<1>2. OnlyLeaders /\ Safe /\ [DemocracyNext]_democracyVars => OnlyLeaders'
  BY MandateStep, OrdersOfLeaders
<1>3. OnlyLeaders /\ Safe /\ [DemocracyNext]_democracyVars =>
        [\A p \in Task \ (PinnedKthread \cup {Owner[w] : w \in Leads}) :
           status[p] = "queued" /\ status'[p] \in {"shared", "percpu", "local"}
             => Len(queued) = MaxEnqueued]_democracyVars
  BY MandateStep, DecidedStep DEF Decided
<1> QED BY <1>1, <1>2, <1>3, SafeAlways, PTL DEF DemocracySpec, VoteDecides

-----------------------------------------------------------------------------
(***************************************************************************)
(* ManagedNotLost is not inductive: a message that is current may be       *)
(* followed by one that is not, which would replace it in task_map.  What  *)
(* is: the last message of a program that waits is the current one.        *)
(***************************************************************************)
LastIsCurrent(p) ==
  \/ \E i \in DOMAIN queued :
       /\ queued[i].pid = p /\ queued[i].cpumask_cnt = cpumask_cnt[p]
       /\ \A j \in DOMAIN queued : j > i => queued[j].pid # p
  \/ /\ \A i \in DOMAIN queued : queued[i].pid # p
     /\ held[p] # NoMessage /\ held[p].cpumask_cnt = cpumask_cnt[p]
NeverLost == \A p \in Managed : status[p] = "queued" => LastIsCurrent(p)

\* A message of another task is added to the ring, or nothing of the ring changes.
LEMMA LastKept ==
  ASSUME TypeOK, NEW p \in Managed, LastIsCurrent(p), held'[p] = held[p],
         cpumask_cnt'[p] = cpumask_cnt[p],
         \/ queued' = queued
         \/ \E x \in QueuedTask : x.pid # p /\ queued' = Append(queued, x)
  PROVE  LastIsCurrent(p)'
<1>1. queued \in Seq(QueuedTask)
  BY DEF TypeOK
<1>2. CASE queued' = queued
  BY <1>2 DEF LastIsCurrent
<1>3. CASE \E x \in QueuedTask : x.pid # p /\ queued' = Append(queued, x)
  <2>1. PICK x \in QueuedTask : x.pid # p /\ queued' = Append(queued, x)
    BY <1>3
  <2>2. /\ DOMAIN queued \subseteq DOMAIN queued' /\ DOMAIN queued \subseteq Int
        /\ \A i \in DOMAIN queued : queued'[i] = queued[i]
        /\ \A i \in DOMAIN queued' : i \notin DOMAIN queued => queued'[i] = x
    BY <1>1, <2>1
  <2> QED BY <2>1, <2>2 DEF LastIsCurrent
<1> QED BY <1>2, <1>3

\* The new message of a task that is enqueued is the last one.
LEMMA LastAdded ==
  ASSUME TypeOK, NEW p \in Managed, NEW x \in QueuedTask, x.pid = p,
         x.cpumask_cnt = cpumask_cnt'[p], queued' = Append(queued, x)
  PROVE  LastIsCurrent(p)'
<1>1. queued \in Seq(QueuedTask)
  BY DEF TypeOK
<1>2. /\ Len(queued) + 1 \in DOMAIN queued' /\ queued'[Len(queued) + 1] = x
      /\ \A j \in DOMAIN queued' : ~(j > Len(queued) + 1)
  BY <1>1
<1> QED BY <1>2 DEF LastIsCurrent

LEMMA LastDrained ==
  ASSUME TypeOK, NEW p \in Managed, LastIsCurrent(p), DequeueTask(Head(queued).pid \in Managed)
  PROVE  LastIsCurrent(p)'
<1> DEFINE h == Head(queued)
<1>1. /\ queued # <<>> /\ queued' = Tail(queued) /\ cpumask_cnt' = cpumask_cnt
      /\ held' = IF h.pid \in Managed THEN [held EXCEPT ![h.pid] = h] ELSE held
  BY DEF DequeueTask
<1>2. /\ queued \in Seq(QueuedTask) /\ held \in [Task -> QueuedTask \cup {NoMessage}]
      /\ p \in Task
  BY OwnerType DEF TypeOK
<1>3. h \in QueuedTask /\ h = queued[1] /\ 1 \in DOMAIN queued /\ DOMAIN queued \subseteq Nat \ {0}
  BY <1>1, <1>2
<1>4. \A i \in DOMAIN queued' : i + 1 \in DOMAIN queued /\ queued'[i] = queued[i + 1]
  BY <1>1, <1>2
<1>5. \A i \in DOMAIN queued : i # 1 => i - 1 \in DOMAIN queued'
  BY <1>1, <1>2
<1> HIDE DEF h
<1>6. DOMAIN queued' \subseteq Nat \ {0}
  BY <1>1, <1>2
<1>7. h.pid \in Managed /\ h.pid \in Task => held' = [held EXCEPT ![h.pid] = h]
  BY <1>1
<1>8. h.pid \in Task
  BY <1>3 DEF QueuedTask
<1>9. CASE \E i \in DOMAIN queued :
             /\ queued[i].pid = p /\ queued[i].cpumask_cnt = cpumask_cnt[p]
             /\ \A j \in DOMAIN queued : j > i => queued[j].pid # p
  <2>1. PICK i \in DOMAIN queued :
             /\ queued[i].pid = p /\ queued[i].cpumask_cnt = cpumask_cnt[p]
             /\ \A j \in DOMAIN queued : j > i => queued[j].pid # p
    BY <1>9
  <2>2. CASE i = 1
    <3>1. held'[p] = h /\ h # NoMessage /\ h.cpumask_cnt = cpumask_cnt'[p]
      BY <1>1, <1>2, <1>3, <1>7, <1>8, <2>1, <2>2, SentinelAssumption
    <3>2. \A j \in DOMAIN queued' : queued'[j].pid # p
      BY <1>4, <1>6, <2>1, <2>2
    <3> QED BY <3>1, <3>2 DEF LastIsCurrent
  <2>3. CASE i # 1
    <3>1. i - 1 \in DOMAIN queued' /\ queued'[i - 1] = queued[i]
      <4>1. i - 1 \in DOMAIN queued' /\ i \in Nat
        BY <1>3, <1>5, <2>3
      <4> QED BY <1>4, <4>1
    <3>2. \A j \in DOMAIN queued' : j > i - 1 => queued'[j].pid # p
      BY <1>3, <1>4, <1>6, <2>1
    <3> QED BY <1>1, <2>1, <3>1, <3>2 DEF LastIsCurrent
  <2> QED BY <2>2, <2>3
<1>10. CASE /\ \A i \in DOMAIN queued : queued[i].pid # p
            /\ held[p] # NoMessage /\ held[p].cpumask_cnt = cpumask_cnt[p]
  <2>1. h.pid # p
    BY <1>3, <1>10
  <2>2. held'[p] = held[p]
    BY <1>1, <1>2, <2>1
  <2>3. \A i \in DOMAIN queued' : queued'[i].pid # p
    BY <1>4, <1>10
  <2> QED BY <1>1, <1>10, <2>2, <2>3 DEF LastIsCurrent
<1> QED BY <1>9, <1>10 DEF LastIsCurrent
\* No program comes to wait, and the ring and task_map stay as they are.
LEMMA NeverSame ==
  ASSUME TypeOK, NeverLost, UNCHANGED <<queued, held>>,
         \A p \in Managed : status'[p] = "queued" =>
           status[p] = "queued" /\ cpumask_cnt'[p] = cpumask_cnt[p]
  PROVE  NeverLost'
BY LastKept DEF NeverLost

\* q is enqueued with its current generation.
LEMMA NeverEnqueue ==
  ASSUME TypeOK, NeverLost, UNCHANGED held, NEW q \in Proc,
         NEW cpu \in Cpu, NEW cnt \in 0..MaxCpumaskCnt, Enqueue(q, cpu, cnt),
         q \in Task => cnt = cpumask_cnt'[q],
         \A p \in Task : p # q => cpumask_cnt'[p] = cpumask_cnt[p]
  PROVE  NeverLost'
<1> SUFFICES ASSUME NEW p \in Managed, status'[p] = "queued"
             PROVE  LastIsCurrent(p)'
  BY DEF NeverLost
<1> DEFINE x == [pid |-> q, cpu |-> cpu, cpumask_cnt |-> cnt]
<1>1. p \in Task \ PinnedKthread /\ Usersched \notin Task /\ PinnedKthread \subseteq Task
  BY OwnerType, TaskAssumption
<1>2. /\ q \in Task => x \in QueuedTask
      /\ x.pid = q /\ x.cpumask_cnt = cnt
  BY DEF QueuedTask
<1>3. queued' = queued \/ (q \in Task /\ queued' = Append(queued, x))
  BY DEF Enqueue
<1>4. p = q => queued' = Append(queued, x)
  BY <1>1 DEF Enqueue, TypeOK
<1>5. p # q => status[p] = "queued"
  BY <1>1 DEF Enqueue, TypeOK
<1> HIDE DEF x
<1>6. CASE p = q
  BY <1>1, <1>2, <1>4, <1>6, LastAdded
<1>7. CASE p # q
  <2>1. LastIsCurrent(p) /\ held'[p] = held[p] /\ cpumask_cnt'[p] = cpumask_cnt[p]
    BY <1>1, <1>5, <1>7 DEF NeverLost
  <2>2. queued' = queued \/ \E y \in QueuedTask : y.pid # p /\ queued' = Append(queued, y)
    BY <1>2, <1>3, <1>7
  <2> QED BY <2>1, <2>2, LastKept
<1> QED BY <1>6, <1>7

\* One step per action of the threads.
LEMMA NeverTask ==
  ASSUME TypeOK, NeverLost, NEW q \in Task,
         \/ Wakeup(q) \/ Run(q) \/ Yield(q) \/ Preempt(q) \/ Block(q)
         \/ \E mask \in Mask : SetCpumask(q, mask)
         \/ Migrate(q) \/ Exit(q) \/ Reap(q) \/ ExitTask(q) \/ Reuse(q) \/ Count(q)
  PROVE  NeverLost'
<1>0. /\ q # Usersched /\ Managed \subseteq Task /\ Online \subseteq Cpu
      /\ status \in [Proc -> Status] /\ task_cpu[q] \in Cpu
      /\ cpumask_cnt \in [Task -> 0..MaxCpumaskCnt]
  BY TaskAssumption, CpuAssumption, OwnerType DEF TypeOK
<1>1. CASE Wakeup(q) \/ Yield(q) \/ Migrate(q)
  <2>1. \E cpu \in Cpu : Enqueue(q, cpu, cpumask_cnt[q])
    BY <1>0, <1>1 DEF Wakeup, Yield, Migrate, Requeue
  <2>2. UNCHANGED <<held, cpumask_cnt>>
    BY <1>1 DEF Wakeup, Yield, Migrate
  <2> QED BY <1>0, <2>1, <2>2, NeverEnqueue
<1>2. CASE Run(q) \/ Preempt(q) \/ Block(q) \/ Exit(q) \/ Reap(q)
  <2>1. /\ \E w \in {"running", "local", "blocked", "dead", "reaped"} :
             status' = [status EXCEPT ![q] = w]
        /\ UNCHANGED <<queued, held, cpumask_cnt>>
    BY <1>2 DEF Run, Preempt, Block, Exit, Reap, bpf
  <2>2. \A p \in Managed : status'[p] = "queued" => status[p] = "queued"
    BY <1>0, <2>1
  <2> QED BY <2>1, <2>2, NeverSame
<1>3. CASE \E mask \in Mask : SetCpumask(q, mask)
  <2>1. PICK mask \in Mask : SetCpumask(q, mask)
    BY <1>3
  <2>2. /\ UNCHANGED held /\ cpumask_cnt[q] < MaxCpumaskCnt
        /\ cpumask_cnt' = [cpumask_cnt EXCEPT ![q] = @ + 1]
    BY <2>1 DEF SetCpumask
  <2>3. cpumask_cnt'[q] = cpumask_cnt[q] + 1 /\ cpumask_cnt[q] + 1 \in 0..MaxCpumaskCnt
        /\ \A p \in Task : p # q => cpumask_cnt'[p] = cpumask_cnt[p]
    BY <1>0, <2>2, BoundAssumption
  <2>4. CASE status[q] \in OnRq
    <3>1. Enqueue(q, task_cpu[q], cpumask_cnt[q] + 1)
      BY <2>1, <2>4 DEF SetCpumask, Requeue
    <3> QED BY <1>0, <2>2, <2>3, <3>1, NeverEnqueue
  <2>5. CASE status[q] \notin OnRq
    <3>1. UNCHANGED <<status, queued, held>> /\ status[q] # "queued"
      BY <2>1, <2>5 DEF SetCpumask, OnRq
    <3> QED BY <1>0, <2>3, <3>1, NeverSame
  <2> QED BY <2>4, <2>5
<1>4. CASE ExitTask(q)
  <2>1. /\ status' = [status EXCEPT ![q] = "gone"] /\ UNCHANGED <<held, cpumask_cnt>>
        /\ \/ queued' = queued
           \/ \E garbage \in 0..MaxCpumaskCnt :
                queued' = Append(queued, [pid |-> q, cpu |-> NoCpu, cpumask_cnt |-> garbage])
    BY <1>4 DEF ExitTask
  <2>2. \/ queued' = queued
        \/ \E x \in QueuedTask : x.pid = q /\ queued' = Append(queued, x)
    BY <2>1 DEF QueuedTask
  <2> SUFFICES ASSUME NEW p \in Managed, status'[p] = "queued"
               PROVE  LastIsCurrent(p)'
    BY DEF NeverLost
  <2>3. p # q /\ status[p] = "queued"
    BY <1>0, <2>1
  <2> QED BY <2>1, <2>2, <2>3, LastKept DEF NeverLost
<1>5. CASE Count(q)
  BY <1>5, NeverSame DEF Count, core
<1>6. CASE Reuse(q)
  <2>1. /\ status' = [status EXCEPT ![q] = "blocked"] /\ UNCHANGED <<queued, held>>
        /\ cpumask_cnt' = [cpumask_cnt EXCEPT ![q] = 0]
    BY <1>6 DEF Reuse
  <2>2. \A p \in Managed : status'[p] = "queued" =>
          p # q /\ status[p] = "queued" /\ cpumask_cnt'[p] = cpumask_cnt[p]
    BY <1>0, <2>1
  <2> QED BY <2>1, <2>2, NeverSame
<1> QED BY <1>1, <1>2, <1>3, <1>4, <1>5, <1>6

LEMMA NeverCpu ==
  ASSUME TypeOK, NeverLost, CpuStep
  PROVE  NeverLost'
<1>1. PICK c \in Online : \/ BeginDispatch(c) \/ Drain(c) \/ CheckGeneration(c) \/ CheckMask(c)
                          \/ Flush(c) \/ Consume(c) \/ UpdateIdle(c)
  BY DEF CpuStep
<1>2. UNCHANGED <<queued, held, cpumask_cnt>>
  BY <1>1 DEF BeginDispatch, Drain, CheckGeneration, CheckMask, Flush, Consume, UpdateIdle, bpf
<1>3. \A p \in Managed : status'[p] = "queued" => status[p] = "queued"
  <2>1. CASE Flush(c) \/ Consume(c)
    BY <2>1, OwnerType DEF Flush, Consume
  <2>2. CASE \/ BeginDispatch(c) \/ Drain(c) \/ CheckGeneration(c) \/ CheckMask(c) \/ UpdateIdle(c)
    BY <2>2 DEF BeginDispatch, Drain, CheckGeneration, CheckMask, UpdateIdle, core
  <2> QED BY <1>1, <2>1, <2>2
<1> QED BY <1>2, <1>3, NeverSame

\* The scheduler's thread moves; no managed program does.
LEMMA NeverUser ==
  ASSUME TypeOK, NeverLost,
         UserschedStep \/ Heartbeat \/ Wakeup(Usersched) \/ Block(Usersched)
  PROVE  NeverLost'
<1>1. Usersched \notin Managed
  BY OwnerType, TaskAssumption
<1>2. UNCHANGED <<queued, held, cpumask_cnt>>
  <2>1. CASE Run(Usersched) \/ Preempt(Usersched) \/ Block(Usersched) \/ Heartbeat
    BY <2>1 DEF Run, Preempt, Block, Heartbeat
  <2>2. CASE Yield(Usersched) \/ Wakeup(Usersched)
    BY <2>2, TaskAssumption DEF Yield, Wakeup, Enqueue
  <2> QED BY <2>1, <2>2 DEF UserschedStep
<1>3. status' = status \/ \E w : status' = [status EXCEPT ![Usersched] = w]
  <2>1. CASE Run(Usersched) \/ Preempt(Usersched) \/ Block(Usersched) \/ Heartbeat
    BY <2>1 DEF Run, Preempt, Block, Heartbeat, core
  <2>2. CASE Yield(Usersched) \/ Wakeup(Usersched)
    BY <2>2 DEF Yield, Wakeup, Enqueue
  <2> QED BY <2>1, <2>2 DEF UserschedStep
<1>4. \A p \in Managed : status'[p] = status[p]
  BY <1>1, <1>3, OwnerType DEF TypeOK
<1> QED BY <1>2, <1>4, NeverSame

LEMMA NeverStep ==
  ASSUME TypeOK, NeverLost, [DemocracyNext]_democracyVars
  PROVE  NeverLost'
<1>1. CASE UNCHANGED vars
  BY <1>1, NeverSame DEF vars, core, bpf
<1>2. CASE Backend
  BY <1>2, NeverTask, NeverCpu, NeverUser DEF Backend, KernelStep, TaskStep
<1>3. CASE DrainQueue
  <2>1. CASE DequeueTask(Head(queued).pid \in Managed)
    <3>1. UNCHANGED status
      BY <2>1 DEF DequeueTask, core
    <3> QED BY <2>1, <3>1, LastDrained DEF NeverLost
  <2> QED BY <1>1, <1>3, <2>1 DEF DrainQueue
<1>4. CASE ClearCounters \/ Dispatch
  <2>1. UNCHANGED <<status, queued, held, cpumask_cnt>>
    BY <1>4 DEF ClearCounters, UpdateTasks, Dispatch, DispatchTask, core, bpf, vars
  <2> QED BY <2>1, NeverSame
<1>5. CASE \/ SendRequest \/ Decide \/ Sleep500ms \/ Response \/ SleepEnds
           \/ WhileNotShutdown \/ MainLoop \/ CtrlC
  <2>1. Wakeup(Usersched) \/ Block(Usersched) \/ UNCHANGED vars
    BY <1>5 DEF SendRequest, Decide, Sleep500ms, Response, SleepEnds,
                WhileNotShutdown, MainLoop, CtrlC
  <2> QED BY <1>1, <2>1, NeverUser
<1>6. CASE UNCHANGED democracyVars
  BY <1>1, <1>6 DEF democracyVars
<1> QED BY <1>2, <1>3, <1>4, <1>5, <1>6 DEF DemocracyNext, UserStep

(***************************************************************************)
(* Whatever fails on the way of a dispatch, the loop can make another one: *)
(* a managed program that waits has its current message in the ring or in  *)
(* task_map.                                                               *)
(***************************************************************************)
THEOREM ManagedAlwaysKnown == DemocracySpec => []ManagedNotLost
<1>1. DemocracyInit => NeverLost
  BY OwnerType DEF DemocracyInit, Init, NeverLost
<1>2. NeverLost /\ Safe /\ [DemocracyNext]_democracyVars => NeverLost'
  BY NeverStep DEF Safe
<1>3. NeverLost => ManagedNotLost
  BY DEF NeverLost, LastIsCurrent, ManagedNotLost
<1> QED BY <1>1, <1>2, <1>3, SafeAlways, PTL DEF DemocracySpec

-----------------------------------------------------------------------------
(***************************************************************************)
(* Why no dispatch names the CPU -1: a program's messages are of its       *)
(* enqueues, which know the CPU, and never of its exit, since it stays a   *)
(* zombie; and what is dispatched is what task_map holds of a program.     *)
(***************************************************************************)
NamesItsCpu(s) == \A i \in DOMAIN s : s[i].pid \in Managed => s[i].cpu # NoCpu
CpuKnown ==
  /\ \A p \in Managed : status[p] \notin {"reaped", "gone"}
  /\ NamesItsCpu(queued)
  /\ \A p \in Managed : held[p] # NoMessage => held[p].cpu # NoCpu
  /\ \A i \in DOMAIN dispatched : dispatched[i].cpu # NoCpu
  /\ ~ejected

\* A message that is added to the ring.
LEMMA NamesAppend ==
  ASSUME TypeOK, NamesItsCpu(queued), NEW x, x.pid \in Managed => x.cpu # NoCpu,
         queued' = Append(queued, x)
  PROVE  NamesItsCpu(queued')
<1>1. queued \in Seq(QueuedTask)
  BY DEF TypeOK
<1>2. \A i \in DOMAIN queued' : queued'[i] = x \/ (i \in DOMAIN queued /\ queued'[i] = queued[i])
  BY <1>1
<1> QED BY <1>2 DEF NamesItsCpu

LEMMA NamesEnqueue ==
  ASSUME TypeOK, NamesItsCpu(queued), NEW p, NEW cpu \in Cpu, NEW cnt, Enqueue(p, cpu, cnt)
  PROVE  NamesItsCpu(queued')
<1> DEFINE x == [pid |-> p, cpu |-> cpu, cpumask_cnt |-> cnt]
<1>1. queued' = queued \/ queued' = Append(queued, x)
  BY DEF Enqueue
<1>2. x.cpu # NoCpu
  BY CpuAssumption
<1> HIDE DEF x
<1> QED BY <1>1, <1>2, NamesAppend

\* One step per action of the threads.
LEMMA KnownTask ==
  ASSUME TypeOK, CpuKnown, \A p \in Managed : status'[p] # "reaped", NEW q \in Task,
         \/ Wakeup(q) \/ Run(q) \/ Yield(q) \/ Preempt(q) \/ Block(q)
         \/ \E mask \in Mask : SetCpumask(q, mask)
         \/ Migrate(q) \/ Exit(q) \/ Reap(q) \/ ExitTask(q) \/ Reuse(q) \/ Count(q)
  PROVE  CpuKnown'
<1>0. /\ q \in Proc /\ Managed \subseteq Task /\ Online \subseteq Cpu
      /\ status \in [Proc -> Status] /\ task_cpu[q] \in Cpu
  BY CpuAssumption, OwnerType DEF TypeOK
<1>1. UNCHANGED <<held, dispatched, ejected>>
  BY DEF Wakeup, Run, Yield, Preempt, Block, SetCpumask, Migrate, Exit, Reap, ExitTask, Reuse, Count, bpf
<1>2. NamesItsCpu(queued') /\ \A p \in Managed : status'[p] \notin {"reaped", "gone"}
  <2>1. CASE \/ \E cpu \in Cpu : \E cnt : Enqueue(q, cpu, cnt)
             \/ UNCHANGED <<status, queued>>
    <3>1. CASE \E cpu \in Cpu : \E cnt : Enqueue(q, cpu, cnt)
      <4>1. \E w \in {"local", "shared", "queued"} : status' = [status EXCEPT ![q] = w]
        BY <3>1 DEF Enqueue
      <4>2. NamesItsCpu(queued')
        BY <3>1, NamesEnqueue DEF CpuKnown
      <4> QED BY <1>0, <4>1, <4>2 DEF CpuKnown
    <3> QED BY <2>1, <3>1 DEF CpuKnown
  <2>2. CASE Wakeup(q) \/ Yield(q) \/ Migrate(q)
    BY <1>0, <2>1, <2>2 DEF Wakeup, Yield, Migrate, Requeue
  <2>3. CASE Run(q) \/ Preempt(q) \/ Block(q) \/ Exit(q) \/ Reap(q)
    <3>1. /\ \E w \in {"running", "local", "blocked", "dead", "reaped"} :
               status' = [status EXCEPT ![q] = w]
          /\ UNCHANGED queued
      BY <2>3 DEF Run, Preempt, Block, Exit, Reap, bpf
    <3> QED BY <1>0, <3>1 DEF CpuKnown
  <2>4. CASE \E mask \in Mask : SetCpumask(q, mask)
    BY <1>0, <2>1, <2>4 DEF SetCpumask, Requeue
  <2>5. CASE ExitTask(q)
    <3>1. q \notin Managed
      BY <2>5 DEF ExitTask, CpuKnown
    <3>2. /\ status' = [status EXCEPT ![q] = "gone"]
          /\ \/ queued' = queued
             \/ \E garbage \in 0..MaxCpumaskCnt :
                  queued' = Append(queued, [pid |-> q, cpu |-> NoCpu, cpumask_cnt |-> garbage])
      BY <2>5 DEF ExitTask
    <3>3. NamesItsCpu(queued')
      BY <3>1, <3>2, NamesAppend DEF CpuKnown
    <3> QED BY <1>0, <3>1, <3>2, <3>3 DEF CpuKnown
  <2>6. CASE Reuse(q)
    <3>1. status' = [status EXCEPT ![q] = "blocked"] /\ UNCHANGED queued
      BY <2>6 DEF Reuse
    <3> QED BY <1>0, <3>1 DEF CpuKnown
  <2>7. CASE Count(q)
    BY <2>1, <2>7 DEF Count, core
  <2> QED BY <2>2, <2>3, <2>4, <2>5, <2>6, <2>7
<1> QED BY <1>1, <1>2 DEF CpuKnown

LEMMA KnownCpu ==
  ASSUME TypeOK, CpuKnown, CpuStep
  PROVE  CpuKnown'
<1>1. PICK c \in Online : \/ BeginDispatch(c) \/ Drain(c) \/ CheckGeneration(c) \/ CheckMask(c)
                          \/ Flush(c) \/ Consume(c) \/ UpdateIdle(c)
  BY DEF CpuStep
<1>2. UNCHANGED <<queued, held>>
  BY <1>1 DEF BeginDispatch, Drain, CheckGeneration, CheckMask, Flush, Consume, UpdateIdle, bpf
<1>3. \A p \in Managed : status'[p] \notin {"reaped", "gone"}
  <2>1. CASE Flush(c) \/ Consume(c)
    BY <2>1, OwnerType DEF Flush, Consume, CpuKnown
  <2>2. CASE \/ BeginDispatch(c) \/ Drain(c) \/ CheckGeneration(c) \/ CheckMask(c) \/ UpdateIdle(c)
    BY <2>2 DEF BeginDispatch, Drain, CheckGeneration, CheckMask, UpdateIdle, core, CpuKnown
  <2> QED BY <1>1, <2>1, <2>2
<1>4. ~ejected' /\ \A i \in DOMAIN dispatched' : dispatched'[i].cpu # NoCpu
  <2>1. CASE Drain(c)
    <3>1. dispatched \in Seq(DispatchedTask)
      BY DEF TypeOK
    <3>2. CASE dispatched = <<>> \/ ~Found(Head(dispatched).pid)
      <4>1. /\ ejected' = ejected
            /\ \/ dispatched' = dispatched
               \/ dispatched # <<>> /\ dispatched' = Tail(dispatched)
        BY <2>1, <3>2 DEF Drain
      <4> QED BY <3>1, <4>1, RingOrders DEF CpuKnown
    <3>3. CASE dispatched # <<>> /\ Found(Head(dispatched).pid)
      <4>1. dispatched' = Tail(dispatched) /\ ejected' = (Head(dispatched).cpu = NoCpu)
        BY <2>1, <3>3 DEF Drain
      <4> QED BY <3>1, <3>3, <4>1, RingOrders DEF CpuKnown
    <3> QED BY <3>2, <3>3
  <2>2. CASE ~Drain(c)
    <3>1. UNCHANGED <<dispatched, ejected>>
      BY <1>1, <2>2 DEF BeginDispatch, CheckGeneration, CheckMask, Flush, Consume, UpdateIdle, bpf
    <3> QED BY <3>1 DEF CpuKnown
  <2> QED BY <2>1, <2>2
<1> QED BY <1>2, <1>3, <1>4 DEF CpuKnown

\* The scheduler's thread moves; no message is written.
LEMMA KnownUser ==
  ASSUME TypeOK, CpuKnown,
         \/ UserschedStep \/ Heartbeat \/ Wakeup(Usersched) \/ Block(Usersched)
         \/ UNCHANGED vars
  PROVE  CpuKnown'
<1>1. UNCHANGED <<queued, held, dispatched, ejected>>
  <2>1. CASE \/ Run(Usersched) \/ Preempt(Usersched) \/ Block(Usersched) \/ Heartbeat
             \/ UNCHANGED vars
    BY <2>1 DEF Run, Preempt, Block, Heartbeat, vars, bpf
  <2>2. CASE Yield(Usersched) \/ Wakeup(Usersched)
    BY <2>2, TaskAssumption DEF Yield, Wakeup, Enqueue
  <2> QED BY <2>1, <2>2 DEF UserschedStep
<1>2. status' = status \/ \E w : status' = [status EXCEPT ![Usersched] = w]
  <2>1. CASE \/ Run(Usersched) \/ Preempt(Usersched) \/ Block(Usersched) \/ Heartbeat
             \/ UNCHANGED vars
    BY <2>1 DEF Run, Preempt, Block, Heartbeat, vars, core
  <2>2. CASE Yield(Usersched) \/ Wakeup(Usersched)
    BY <2>2 DEF Yield, Wakeup, Enqueue
  <2> QED BY <2>1, <2>2 DEF UserschedStep
<1>3. \A p \in Managed : status'[p] = status[p]
  BY <1>2, OwnerType, TaskAssumption DEF TypeOK
<1> QED BY <1>1, <1>3 DEF CpuKnown

LEMMA KnownStep ==
  ASSUME TypeOK, LoopInv, CpuKnown, [DemocracyNext]_democracyVars
  PROVE  CpuKnown'
<1>1. CASE Backend
  BY <1>1, KnownTask, KnownCpu, KnownUser DEF Backend, KernelStep, TaskStep
<1>2. CASE DrainQueue
  <2>1. CASE DequeueTask(Head(queued).pid \in Managed)
    <3> DEFINE h == Head(queued)
    <3>1. /\ queued # <<>> /\ queued' = Tail(queued)
          /\ held' = IF h.pid \in Managed THEN [held EXCEPT ![h.pid] = h] ELSE held
          /\ UNCHANGED <<status, dispatched, ejected>>
      BY <2>1 DEF DequeueTask, core
    <3>2. /\ queued \in Seq(QueuedTask) /\ held \in [Task -> QueuedTask \cup {NoMessage}]
      BY DEF TypeOK
    <3>3. /\ h = queued[1] /\ 1 \in DOMAIN queued
          /\ \A i \in DOMAIN queued' : i + 1 \in DOMAIN queued /\ queued'[i] = queued[i + 1]
      BY <3>1, <3>2
    <3> HIDE DEF h
    <3>4. NamesItsCpu(queued')
      BY <3>3 DEF CpuKnown, NamesItsCpu
    <3>5. \A p \in Managed : held'[p] # NoMessage => held'[p].cpu # NoCpu
      BY <3>1, <3>2, <3>3, OwnerType DEF CpuKnown, NamesItsCpu
    <3> QED BY <3>1, <3>4, <3>5 DEF CpuKnown
  <2> QED BY <1>2, <2>1, KnownUser DEF DrainQueue
<1>3. CASE ClearCounters
  BY <1>3 DEF ClearCounters, UpdateTasks, core, CpuKnown
<1>4. CASE Dispatch
  <2> DEFINE p == Owner[winner]
  <2>1. p \in Managed /\ p \in Task /\ held[p] # NoMessage
    BY <1>4, OwnerType, OwnerAssumption DEF Dispatch, LoopInv
  <2>2. CASE DispatchTask(p, held[p].cpu)
    <3>1. /\ dispatched' = Append(dispatched,
                 [pid |-> p, cpu |-> held[p].cpu, cpumask_cnt |-> held[p].cpumask_cnt])
          /\ UNCHANGED <<status, queued, held, ejected>>
      BY <2>2 DEF DispatchTask, core
    <3>2. dispatched \in Seq(DispatchedTask) /\ held[p].cpu # NoCpu
      BY <2>1 DEF TypeOK, CpuKnown
    <3>3. \A i \in DOMAIN dispatched' : dispatched'[i].cpu # NoCpu
      <4>1. \A i \in DOMAIN dispatched' :
              \/ dispatched'[i].cpu = held[p].cpu
              \/ i \in DOMAIN dispatched /\ dispatched'[i] = dispatched[i]
        BY <3>1, <3>2
      <4> QED BY <3>2, <4>1 DEF CpuKnown
    <3> QED BY <3>1, <3>3 DEF CpuKnown
  <2> QED BY <1>4, <2>2, KnownUser DEF Dispatch
<1>5. CASE \/ SendRequest \/ Decide \/ Sleep500ms \/ Response \/ SleepEnds
           \/ WhileNotShutdown \/ MainLoop \/ CtrlC \/ UNCHANGED democracyVars
  <2>1. Wakeup(Usersched) \/ Block(Usersched) \/ UNCHANGED vars
    BY <1>5 DEF SendRequest, Decide, Sleep500ms, Response, SleepEnds,
                WhileNotShutdown, MainLoop, CtrlC, democracyVars
  <2> QED BY <2>1, KnownUser
<1> QED BY <1>1, <1>2, <1>3, <1>4, <1>5 DEF DemocracyNext, UserStep

(***************************************************************************)
(* The deployed scheduler never makes cpu_to_dsq give up, although the     *)
(* messages that exiting threads send would, were they dispatched after    *)
(* their pid is in use again.                                              *)
(***************************************************************************)
THEOREM NeverEjects == DemocracySpec => []NotEjected
<1>1. DemocracyInit => CpuKnown
  BY OwnerType, TaskAssumption DEF DemocracyInit, Init, CpuKnown, NamesItsCpu
<1>2. CpuKnown /\ Safe /\ [DemocracyNext]_democracyVars => CpuKnown'
  BY KnownStep DEF Safe
<1>3. CpuKnown => NotEjected
  BY DEF CpuKnown, NotEjected
<1> QED BY <1>1, <1>2, <1>3, SafeAlways, PTL DEF DemocracySpec
=============================================================================
