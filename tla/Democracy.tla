----------------------------- MODULE Democracy ------------------------------
(***************************************************************************)
(* The whole scheduler as it is deployed: the BPF backend of Rustland.tla  *)
(* driven by the loop of democracy-scheduler/src/main.rs, which runs the   *)
(* program of the candidate that leads the vote.  Scheduler.task_map is    *)
(* the variable "held": a pid of Managed is in the map from the start,     *)
(* with None; a pid outside is never in it.                                *)
(***************************************************************************)
EXTENDS Rustland

CONSTANTS
  Candidate,        \* enum Competitors
  Owner,            \* owner_map: the pid that launch_process returned for each
  Leads,            \* the candidates that the ballot box may name as leader
  NoWinner,         \* get_current_winner() returned Err
  Interruptible     \* whether Ctrl-C may be pressed

Managed == {Owner[w] : w \in Candidate}

ASSUME OwnerAssumption == 
  /\ Owner \in [Candidate -> Task \ PinnedKthread]
  /\ Leads \subseteq Candidate
  /\ NoWinner \notin Candidate
ASSUME StopAssumption == Interruptible \in BOOLEAN
ASSUME AnnouncedAssumption == 0 \in Announced      \* what update_tasks is called with

VARIABLES
  upc,              \* the next statement of the scheduler's thread
  winner,           \* what the last poll returned
  shutdown          \* the flag that the Ctrl-C handler sets

user == <<upc, winner, shutdown>>
democracyVars == <<vars, user>>

Point == {"top", "main", "drain", "clear", "poll", "polling", "decide",
          "dispatch", "sleep", "asleep"}

DemocracyInit ==
  /\ Init
  /\ upc = "top"
  /\ winner = NoWinner
  /\ shutdown = FALSE

Goto(point) == upc' = point

-----------------------------------------------------------------------------
(***************************************************************************)
(* Steps of the thread while it has a CPU.                                 *)
(***************************************************************************)
\* run: while !shutdown
WhileNotShutdown ==
  /\ upc = "top" /\ UserRuns
  /\ Goto(IF shutdown THEN "main" ELSE "drain")
  /\ UNCHANGED <<vars, winner, shutdown>>

\* main: run returned Ok, which does not leave the loop around it.
MainLoop ==
  /\ upc = "main" /\ UserRuns
  /\ Goto("top")
  /\ UNCHANGED <<vars, winner, shutdown>>

\* mutant: entry().or_insert(), which keeps the oldest message
DrainQueueKeepsOldest ==
  /\ upc = "drain" /\ UserRuns
  /\ \/ /\ queued # <<>>
        /\ DequeueTask(Head(queued).pid \in Managed /\ held[Head(queued).pid] = NoMessage)
        /\ UNCHANGED upc
     \/ /\ queued = <<>>
        /\ Goto("clear")
        /\ UNCHANGED vars
  /\ UNCHANGED <<winner, shutdown>>
\* mutant: only the message of the winner is kept
DrainQueueOfWinner ==
  /\ upc = "drain" /\ UserRuns
  /\ \/ /\ queued # <<>>
        /\ DequeueTask(winner \in Candidate /\ Head(queued).pid = Owner[winner])
        /\ UNCHANGED upc
     \/ /\ queued = <<>>
        /\ Goto("clear")
        /\ UNCHANGED vars
  /\ UNCHANGED <<winner, shutdown>>
\* schedule: the drain loop keeps the newest message of each managed pid.
DrainQueue ==
  /\ upc = "drain" /\ UserRuns
  /\ \/ /\ queued # <<>>
        /\ DequeueTask(Head(queued).pid \in Managed)
        /\ UNCHANGED upc
     \/ /\ queued = <<>>
        /\ Goto("clear")
        /\ UNCHANGED vars
  /\ UNCHANGED <<winner, shutdown>>

\* mutant: the winner it is about to schedule is announced
ClearCountersButOne ==
  /\ upc = "clear" /\ UserRuns
  /\ UpdateTasks(0, 1)
  /\ Goto("poll")
  /\ UNCHANGED <<winner, shutdown>>
\* The queue was seen empty: update_tasks(Some(0), Some(0)).
ClearCounters ==
  /\ upc = "clear" /\ UserRuns
  /\ UpdateTasks(0, 0)
  /\ Goto("poll")
  /\ UNCHANGED <<winner, shutdown>>

\* get_current_winner sends its request and waits.
SendRequest ==
  /\ upc = "poll" /\ UserRuns
  /\ Block(Usersched)
  /\ Goto("polling")
  /\ UNCHANGED <<winner, shutdown>>

\* Without a winner sleep 1s; without a message of the winner start over, no sleep.
Decide ==
  /\ upc = "decide" /\ UserRuns
  /\ \/ /\ winner = NoWinner
        /\ Block(Usersched)
        /\ Goto("asleep")
     \/ /\ winner \in Candidate
        /\ Goto(IF held[Owner[winner]] = NoMessage THEN "top" ELSE "dispatch")
        /\ UNCHANGED vars
  /\ UNCHANGED <<winner, shutdown>>

\* mutant: any task of the map is dispatched, not the winner's
DispatchAnyOwner ==
  /\ upc = "dispatch" /\ UserRuns
  /\ \E w \in Candidate :
       \/ held[Owner[w]] # NoMessage /\ DispatchTask(Owner[w], held[Owner[w]].cpu)
       \/ Len(dispatched) = MaxDispatched /\ UNCHANGED vars
  /\ Goto("sleep")
  /\ UNCHANGED <<winner, shutdown>>
\* Dispatch the winner as its last message described it; a full ring is only logged.
\* The entry stays in task_map, so the same message may be dispatched again.
Dispatch ==
  /\ upc = "dispatch" /\ UserRuns
  /\ LET p == Owner[winner] IN
     \/ DispatchTask(p, held[p].cpu)
     \/ Len(dispatched) = MaxDispatched /\ UNCHANGED vars
  /\ Goto("sleep")
  /\ UNCHANGED <<winner, shutdown>>

Sleep500ms ==
  /\ upc = "sleep" /\ UserRuns
  /\ Block(Usersched)
  /\ Goto("asleep")
  /\ UNCHANGED <<winner, shutdown>>

UserStep == \/ WhileNotShutdown \/ MainLoop \/ DrainQueue \/ ClearCounters
            \/ SendRequest \/ Decide \/ Dispatch \/ Sleep500ms

-----------------------------------------------------------------------------
(***************************************************************************)
(* What wakes the thread, and who interrupts the program.                  *)
(***************************************************************************)
\* The ballot box answers, with any winner or none, or the request fails.
Response ==
  /\ upc = "polling"
  /\ Wakeup(Usersched)
  /\ winner' \in Leads \cup {NoWinner}
  /\ Goto("decide")
  /\ UNCHANGED shutdown

SleepEnds ==
  /\ upc = "asleep"
  /\ Wakeup(Usersched)
  /\ Goto("top")
  /\ UNCHANGED <<winner, shutdown>>

CtrlC ==
  /\ Interruptible /\ ~shutdown
  /\ shutdown' = TRUE
  /\ UNCHANGED <<vars, upc, winner>>

\* mutant: the programs are waited for, so that their pids are used again
BackendReaps == KernelStep /\ UNCHANGED user
\* launch_process drops the Child unwaited: a managed program that ends is never reaped.
Backend ==
  /\ KernelStep
  /\ \A p \in Managed : status'[p] # "reaped"
  /\ UNCHANGED user

DemocracyNext == ~ejected /\ (Backend \/ UserStep \/ Response \/ SleepEnds \/ CtrlC)

(***************************************************************************)
(* Fairness.  The thread, the callbacks and the timer make progress; the   *)
(* ballot box answers or the request fails; slices end and sleeps end.  A  *)
(* DSQ is a FIFO, so a thread in a local DSQ gets its turn (strong: other  *)
(* threads run in between).  A slice is used up even if p is preempted     *)
(* again and again (strong).  A CPU comes back to ops.dispatch as often as *)
(* its local DSQ is empty, since the threads of the ordinary classes,      *)
(* which this partial scheduler leaves alone, come and go on every CPU.    *)
(***************************************************************************)
Alone == UNCHANGED user      \* a step of the backend leaves the thread where it is
Fairness ==
  /\ SF_democracyVars(UserStep)
  /\ WF_democracyVars(Response)
  /\ WF_democracyVars(SleepEnds)
  /\ WF_democracyVars(Heartbeat /\ Alone)
  /\ \A c \in Online :
       /\ WF_democracyVars(BeginDispatch(c) /\ Alone)
       /\ WF_democracyVars((Drain(c) \/ CheckGeneration(c) \/ CheckMask(c)) /\ Alone)
       /\ WF_democracyVars((Flush(c) \/ Consume(c)) /\ Alone)
  /\ \A p \in Task :
       /\ WF_democracyVars(Count(p) /\ Alone)
       /\ SF_democracyVars((Wakeup(p) \/ Yield(p)) /\ Alone)
       /\ WF_democracyVars(Migrate(p) /\ Alone)
  /\ \A p \in Proc : SF_democracyVars(Run(p) /\ Alone)

DemocracySpec == DemocracyInit /\ [][DemocracyNext]_democracyVars
FairDemocracySpec == DemocracySpec /\ Fairness

-----------------------------------------------------------------------------
DemocracyTypeOK ==
  /\ upc \in Point
  /\ winner \in Leads \cup {NoWinner}
  /\ shutdown \in BOOLEAN

(***************************************************************************)
(* The deployed scheduler never asks cpu_to_dsq for the DSQ of cpu = -1,   *)
(* for which the core ejects it.  rustland_exit_task sends messages with   *)
(* that cpu, and a client that answers one after its pid is in use again   *)
(* is ejected; this loop keeps messages of the programs only, and a        *)
(* program that ends stays a zombie, so there is none of those.            *)
(***************************************************************************)
NotEjected == ~ejected

(***************************************************************************)
(* A managed program that waits for the scheduler is never lost to it: its *)
(* current message, with the generation a dispatch needs, is in the ring   *)
(* or in task_map.  Dispatches fail in many ways (ring full, generation    *)
(* changed, program asleep when the entry is drained) and the loop retries *)
(* none of them; this is why it recovers.                                  *)
(***************************************************************************)
ManagedNotLost ==
  \A p \in Managed : status[p] = "queued" =>
    \/ \E i \in DOMAIN queued : queued[i].pid = p /\ queued[i].cpumask_cnt = cpumask_cnt[p]
    \/ held[p] # NoMessage /\ held[p].cpumask_cnt = cpumask_cnt[p]

(***************************************************************************)
(* The loop is one of the clients that Rustland.tla allows, so what holds  *)
(* there holds here.                                                       *)
(***************************************************************************)
BackendSpec == Spec

(***************************************************************************)
(* The vote decides: a thread that is not of a candidate who may lead      *)
(* never goes from the scheduler to a CPU, unless the ring to user space   *)
(* is full, when the backend bypasses the scheduler.                       *)
(***************************************************************************)
VoteDecides ==
  [][\A p \in Task \ (PinnedKthread \cup {Owner[w] : w \in Leads}) :
       status[p] = "queued" /\ status'[p] \in {"shared", "percpu", "local"}
         => Len(queued) = MaxEnqueued]_democracyVars

(***************************************************************************)
(* The loop and the backend together implement Mandate: from an order that *)
(* is given to the program of the last poll's winner, through the ring,    *)
(* the entry in hand and the dispatch buffers, to the flush that puts it   *)
(* on a DSQ.  An order is on its way as long as it is in one of the three, *)
(* the one in hand also if its task has since been enqueued again: for a   *)
(* CPU it may not use dispatch_task then dispatches it once more.          *)
(***************************************************************************)
Mapped(s) ==
  CASE s = "queued"                       -> "waiting"
    [] s \in {"shared", "percpu", "local"} -> "granted"
    [] s = "running"                      -> "running"
    [] OTHER                              -> "away"
Ordered ==
  {dispatched[i].pid : i \in DOMAIN dispatched}
  \cup {p \in Task : \/ \E c \in Cpu : pend[c][p] # NoEntry
                     \/ inhand # NoEntry /\ inhand.pid = p}

M == INSTANCE Mandate WITH
  Program   <- Task \ PinnedKthread,
  leader    <- winner,
  ordered   <- Ordered,
  place     <- [p \in Task \ PinnedKthread |-> Mapped(status[p])],
  congested <- Len(queued) = MaxEnqueued
VoteMandates == M!Spec

\* Messages to user space are read: the scheduler gets a CPU while there are any.
QueueServed == queued # <<>> ~> queued = <<>>

\* A program whose owner stays the winner does not wait for ever.
WinnerScheduled ==
  \A w \in Candidate :
    <>[](winner = w) => []<>(status[Owner[w]] \notin {"queued", "shared", "percpu", "local"})

(***************************************************************************)
(* What comments and messages of the code say, and the code does not do.   *)
(***************************************************************************)
\* usersched_has_pending_tasks "is also safe from a concurrency perspective": while
\* the scheduler does not run, the counters are zero only if nothing is queued.
PendingIsSeen ==
  status[Usersched] = "blocked" /\ enqueueing = {} /\ ~HasPendingTasks => queued = <<>>
=============================================================================
