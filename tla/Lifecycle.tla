------------------------------ MODULE Lifecycle ------------------------------
(***************************************************************************)
(* From the start of the scheduler to its end, in time: main.rs attaches   *)
(* the backend (BpfScheduler::init in bpf.rs), joins the class, launches   *)
(* the programs (thingdoer) and runs the loop of Democracy.tla, here one   *)
(* pass of a few steps; the kernel's watchdog ejects a scheduler that lets *)
(* a thread wait; the ballot box starts, ends and starts again.  Steps     *)
(* take no time; it passes in rounds of 500 ms, when all have to wait.     *)
(***************************************************************************)
EXTENDS Naturals, Sequences

CONSTANTS
  Child,            \* the programs
  Launch,           \* in the order in which main launches them
  Nobody,           \* the ballot box names nobody
  Patience,         \* timeout_ms of the ops table, in rounds
  Grace             \* calm rounds after which a leader has been served

ASSUME LifecycleAssumption ==
  /\ Launch \in Seq(Child) \ {<<>>}
  /\ \A i, j \in DOMAIN Launch : Launch[i] = Launch[j] => i = j
  /\ Nobody \notin Child
  /\ Patience \in Nat /\ Grace \in Nat

VARIABLES
  main,             \* the next statement of the main thread
  launched,         \* how many programs launch_process has returned
  mapped,           \* programs that are keys of task_map
  held,             \* those of which it has a message
  winner,           \* what get_current_winner() returned
  nap,              \* rounds until main's sleep ends
  passed,           \* main came around its loop in this round
  shutdown,         \* the flag of the Ctrl-C handler
  attached,         \* the Link exists: the scheduler's callbacks are installed
  ejected,          \* the watchdog has disabled them
  ring,             \* programs of which "queued" holds a message
  inherits,         \* what a thread of the class starts is of the class
  at,               \* what each program does next
  class,            \* programs in SCHED_EXT
  granted,          \* programs that a dispatch has put on a CPU
  wait,             \* rounds for which each has been runnable without a CPU
  killed,           \* programs with a pending SIGINT
  up, leader,       \* the ballot box, and whom its counts name
  since             \* calm rounds of the loop: these two as they are, polls answered at once

loop    == <<launched, mapped, held, winner>>
clock   == <<nap, passed>>
backend == <<attached, ejected, ring>>
program == <<at, class, granted, wait>>
box     == <<up, leader, since>>
others  == <<shutdown, killed, inherits>>
vars    == <<main, loop, clock, backend, program, box, others>>

Point == {"handler", "open", "attach", "rings", "join", "launch", "spawning",
          "maps", "top", "drain", "poll", "polling", "dispatch", "asleep", "ended"}
Ready == {"exec", "join", "yield", "print"}

Served      == attached /\ ~ejected
\* c is runnable and only a dispatch can give it a CPU.
HeldBack(c) == Served /\ c \in class \ granted /\ at[c] \in Ready
CanRun(c)   == at[c] \in Ready /\ ~HeldBack(c)
Message(c)  == IF Served THEN {c} ELSE {}

Init ==
  /\ main = "handler" /\ launched = 0 /\ mapped = {} /\ held = {} /\ winner = Nobody
  /\ nap = 0 /\ passed = FALSE /\ shutdown = FALSE
  /\ attached = FALSE /\ ejected = FALSE /\ ring = {}
  /\ inherits \in BOOLEAN
  /\ at = [c \in Child |-> "none"] /\ class = {} /\ granted = {}
  /\ wait = [c \in Child |-> 0] /\ killed = {}
  /\ up = FALSE /\ leader = Nobody /\ since = 0

-----------------------------------------------------------------------------
(***************************************************************************)
(* Start.  Each step may fail.  Until BpfScheduler::init has returned, an  *)
(* error or a panic drops the Link alone, afterwards Drop does.            *)
(***************************************************************************)
Goto(point) == main' = point
End == Goto("ended") /\ attached' = FALSE

\* Nothing is attached yet: an error of set_handler, open, load or attach ends main.
SetHandler ==
  /\ main = "handler"
  /\ Goto("open") \/ Goto("ended")
  /\ UNCHANGED <<loop, clock, backend, program, box, others>>

Open ==
  /\ main = "open"
  /\ Goto("attach") \/ Goto("ended")
  /\ UNCHANGED <<loop, clock, backend, program, box, others>>

LoadAndAttach ==
  /\ main = "attach"
  /\ \/ Goto("rings") /\ attached' = TRUE
     \/ Goto("ended") /\ UNCHANGED attached
  /\ UNCHANGED <<loop, clock, ejected, ring, program, box, others>>

\* The builders of the two rings panic when they fail.
BuildRings ==
  /\ main = "rings"
  /\ (Goto("join") /\ UNCHANGED attached) \/ End
  /\ UNCHANGED <<loop, clock, ejected, ring, program, box, others>>

\* use_sched_ext, and init's answer to what it returns.
UseSchedExt ==
  /\ main = "join"
  /\ (Goto("launch") /\ UNCHANGED attached) \/ End
  /\ UNCHANGED <<loop, clock, ejected, ring, program, box, others>>

Next1 == Launch[launched + 1]
\* mutant: the new process is of the ordinary class (SCHED_RESET_ON_FORK)
SpawnReset ==
  /\ main = "launch"
  /\ \/ Goto("spawning") /\ at' = [at EXCEPT ![Next1] = "exec"] /\ UNCHANGED attached
     \/ End /\ UNCHANGED at
  /\ UNCHANGED <<loop, clock, ejected, ring, class, granted, wait, box, others>>
\* launch_process: the new process execs in its own time, for which spawn waits.
Spawn ==
  /\ main = "launch"
  /\ \/ /\ Goto("spawning")
        /\ at' = [at EXCEPT ![Next1] = "exec"]
        /\ class' = IF inherits THEN class \cup {Next1} ELSE class
        /\ ring' = IF inherits THEN ring \cup Message(Next1) ELSE ring
        /\ UNCHANGED attached
     \/ /\ End
        /\ UNCHANGED <<at, class, ring>>
  /\ UNCHANGED <<loop, clock, ejected, granted, wait, box, others>>

\* spawn returns; an exec that failed makes launch_process panic.
Spawned ==
  /\ main = "spawning" /\ at[Next1] # "exec"
  /\ \/ at[Next1] = "failed" /\ End /\ UNCHANGED launched
     \/ /\ at[Next1] # "failed"
        /\ launched' = launched + 1
        /\ Goto(IF launched + 1 = Len(Launch) THEN "maps" ELSE "launch")
        /\ UNCHANGED attached
  /\ UNCHANGED <<mapped, held, winner, clock, ejected, ring, program, box, others>>

\* mutant: the second insert repeats the first
FillMapsOnce ==
  /\ main = "maps"
  /\ mapped' = {Launch[1]}
  /\ Goto("top")
  /\ UNCHANGED <<launched, held, winner, clock, backend, program, box, others>>
\* The pids go into task_map, with no message yet, and into owner_map.
FillMaps ==
  /\ main = "maps"
  /\ mapped' = {Launch[i] : i \in DOMAIN Launch}
  /\ Goto("top")
  /\ UNCHANGED <<launched, held, winner, clock, backend, program, box, others>>

-----------------------------------------------------------------------------
(***************************************************************************)
(* The loop, in which no error ends main.                                  *)
(***************************************************************************)
\* run, and the loop of main around it, which calls it again after Ctrl-C; in schedule
\* the winner is a local.
Top ==
  /\ main = "top"
  /\ IF shutdown THEN passed' = TRUE /\ UNCHANGED <<main, winner>>
     ELSE Goto("drain") /\ winner' = Nobody /\ UNCHANGED passed
  /\ UNCHANGED <<launched, mapped, held, nap, backend, program, box, others>>

\* dequeue_task, once for each message; only messages of known pids are kept.
Drain ==
  /\ main = "drain"
  /\ \/ ring = {} /\ Goto("poll") /\ UNCHANGED <<held, ring>>
     \/ \E c \in ring :
        /\ ring' = ring \ {c}
        /\ held' = IF c \in mapped THEN held \cup {c} ELSE held
        /\ UNCHANGED main
  /\ UNCHANGED <<launched, mapped, winner, clock, attached, ejected, program, box, others>>

(***************************************************************************)
(* get_current_winner and what schedule does of its answer.  The request   *)
(* takes the time it takes (its client gives up after a while); it may     *)
(* fail at any moment, votes or not, and has no other answer if nobody     *)
(* leads.  The helper thread of the HTTP client matters only to a          *)
(* scheduler that serves it, and if that thread is of the class main never *)
(* gets here (see LaunchWaitsForMain).                                     *)
(***************************************************************************)
Ask ==
  /\ main = "poll"
  /\ Goto("polling")
  /\ UNCHANGED <<loop, clock, backend, program, box, others>>

Answered ==
  /\ main = "polling" /\ leader # Nobody
  /\ winner' = leader
  /\ passed' = TRUE
  /\ Goto(IF leader \in held THEN "dispatch" ELSE "top")
  /\ UNCHANGED <<launched, mapped, held, nap, backend, program, box, others>>

PollFails ==
  /\ main = "polling"
  /\ passed' = TRUE
  /\ Goto("asleep") /\ nap' = 2
  /\ since' = 0
  /\ UNCHANGED <<loop, backend, program, up, leader, others>>

\* mutant: main sleeps for another second
DispatchSleepsLonger ==
  /\ main = "dispatch"
  /\ granted' = IF HeldBack(winner) THEN granted \cup {winner} ELSE granted
  /\ Goto("asleep") /\ nap' = 3
  /\ UNCHANGED <<loop, passed, backend, at, class, wait, box, others>>
\* A dispatch takes effect at once, or, for a winner that does not wait, not at all.
Dispatch ==
  /\ main = "dispatch"
  /\ granted' = IF HeldBack(winner) THEN granted \cup {winner} ELSE granted
  /\ Goto("asleep") /\ nap' = 1
  /\ UNCHANGED <<loop, passed, backend, at, class, wait, box, others>>

Awake ==
  /\ main = "asleep" /\ nap = 0
  /\ Goto("top")
  /\ UNCHANGED <<loop, clock, backend, program, box, others>>

MainStep == \/ SetHandler \/ Open \/ LoadAndAttach \/ BuildRings \/ UseSchedExt \/ Spawn \/ Spawned
            \/ FillMaps \/ Top \/ Drain \/ Ask \/ Answered \/ PollFails \/ Dispatch \/ Awake

-----------------------------------------------------------------------------
(***************************************************************************)
(* The programs: exec, join the class, then print, sleep 1s, yield, and so *)
(* on.  What ends a stay on the CPU: sleep, yield and exit.                *)
(***************************************************************************)
Off(c) == granted' = granted \ {c}

Exec(c) ==
  /\ at[c] = "exec" /\ CanRun(c)
  /\ \E next \in {"join", "failed"} : at' = [at EXCEPT ![c] = next]
  /\ wait' = [wait EXCEPT ![c] = 0]
  /\ UNCHANGED <<main, loop, clock, backend, class, granted, box, others>>

\* sched_setscheduler; it panics if the kernel refuses.
Join(c) ==
  /\ at[c] = "join" /\ CanRun(c) /\ c \notin killed
  /\ Off(c)
  /\ \/ /\ class' = class \cup {c}
        /\ ring' = IF c \in class THEN ring ELSE ring \cup Message(c)
        /\ at' = [at EXCEPT ![c] = "asleep"]
     \/ /\ at' = [at EXCEPT ![c] = "gone"]
        /\ UNCHANGED <<class, ring>>
  /\ wait' = [wait EXCEPT ![c] = 0]
  /\ UNCHANGED <<main, loop, clock, attached, ejected, box, others>>

Wake(c) ==
  /\ at[c] = "asleep"
  /\ at' = [at EXCEPT ![c] = "yield"]
  /\ ring' = ring \cup Message(c)
  /\ UNCHANGED <<main, loop, clock, attached, ejected, class, granted, wait, box, others>>

Yield(c) ==
  /\ at[c] = "yield" /\ CanRun(c) /\ c \notin killed
  /\ Off(c)
  /\ at' = [at EXCEPT ![c] = "print"]
  /\ ring' = ring \cup Message(c)
  /\ wait' = [wait EXCEPT ![c] = 0]
  /\ UNCHANGED <<main, loop, clock, attached, ejected, class, box, others>>

PrintAndSleep(c) ==
  /\ at[c] = "print" /\ CanRun(c) /\ c \notin killed
  /\ Off(c)
  /\ at' = [at EXCEPT ![c] = "asleep"]
  /\ wait' = [wait EXCEPT ![c] = 0]
  /\ UNCHANGED <<main, loop, clock, backend, class, box, others>>

\* A signal, too, takes effect only on a CPU.
Die(c) ==
  /\ c \in killed /\ at[c] \in Ready \ {"exec"} /\ CanRun(c)
  /\ Off(c)
  /\ at' = [at EXCEPT ![c] = "gone"]
  /\ wait' = [wait EXCEPT ![c] = 0]
  /\ UNCHANGED <<main, loop, clock, backend, class, box, others>>

ChildStep(c) == Exec(c) \/ Join(c) \/ Wake(c) \/ Yield(c) \/ PrintAndSleep(c) \/ Die(c)

-----------------------------------------------------------------------------
\* The handler sets the flag; from a terminal, the programs get the signal too.
CtrlC ==
  /\ main \notin {"handler", "ended"} /\ ~shutdown
  /\ shutdown' = TRUE
  /\ killed' \in {{}, {c \in Child : at[c] \notin {"none", "failed", "gone"}}}
  /\ UNCHANGED <<main, loop, clock, backend, program, box, inherits>>

\* The ballot box counts from zero whenever it starts; its end loses all votes.
BoxStarts ==
  /\ ~up
  /\ up' = TRUE /\ since' = 0
  /\ UNCHANGED <<main, loop, clock, backend, program, leader, others>>
BoxEnds ==
  /\ up
  /\ up' = FALSE /\ leader' = Nobody /\ since' = 0
  /\ UNCHANGED <<main, loop, clock, backend, program, others>>
Vote ==
  /\ up
  /\ leader' \in Child \ {leader} /\ since' = 0
  /\ UNCHANGED <<main, loop, clock, backend, program, up, others>>

OverdueNever(c) == FALSE      \* mutant: timeout_ms is not set
Overdue(c) == wait[c] >= Patience
\* The watchdog of the core; its callbacks gone, all threads are scheduled as usual.
Eject ==
  /\ Served /\ \E c \in Child : Overdue(c)
  /\ ejected' = TRUE
  /\ UNCHANGED <<main, loop, clock, attached, ring, program, box, others>>

MainWaits == \/ main = "ended"
             \/ main = "asleep" /\ nap > 0
             \/ main = "spawning" /\ at[Next1] = "exec" /\ HeldBack(Next1)
             \/ main = "top" /\ passed
             \/ main = "polling"
Tick ==
  /\ MainWaits
  /\ \A c \in Child : ~CanRun(c) /\ wait[c] <= Patience
  /\ nap' = IF nap = 0 THEN 0 ELSE nap - 1
  /\ passed' = FALSE
  /\ wait' = [c \in Child |-> IF HeldBack(c) THEN wait[c] + 1 ELSE 0]
  /\ since' = IF main \in {"ended", "spawning", "polling"} \/ shutdown THEN 0
              ELSE IF since = Grace THEN Grace ELSE since + 1
  /\ UNCHANGED <<main, loop, backend, at, class, granted, up, leader, others>>

Next == \/ MainStep \/ Eject \/ Tick
        \/ \E c \in Child : ChildStep(c)
        \/ CtrlC \/ BoxStarts \/ BoxEnds \/ Vote

(***************************************************************************)
(* Threads that can run do, sleeps end, time passes (strong: a busy loop   *)
(* comes to its top again and again), a request ends, answered or not, and *)
(* the watchdog looks.  Nothing is assumed of the ballot box, the voters   *)
(* or Ctrl-C.                                                              *)
(***************************************************************************)
Fairness ==
  /\ WF_vars(MainStep) /\ WF_vars(Eject) /\ SF_vars(Tick)
  /\ \A c \in Child : WF_vars(ChildStep(c))
Spec == Init /\ [][Next]_vars /\ Fairness

-----------------------------------------------------------------------------
TypeOK ==
  /\ main \in Point
  /\ launched \in 0..Len(Launch)
  /\ mapped \subseteq Child /\ held \subseteq mapped /\ ring \subseteq Child
  /\ winner \in Child \cup {Nobody} /\ leader \in Child \cup {Nobody}
  /\ nap \in 0..2 /\ passed \in BOOLEAN /\ shutdown \in BOOLEAN
  /\ attached \in BOOLEAN /\ ejected \in BOOLEAN /\ inherits \in BOOLEAN /\ up \in BOOLEAN
  /\ at \in [Child -> Ready \cup {"none", "asleep", "failed", "gone"}]
  /\ class \subseteq Child /\ granted \subseteq class /\ killed \subseteq Child
  /\ wait \in [Child -> 0..(Patience + 1)]
  /\ since \in 0..Grace

Started == launched = Len(Launch)

(***************************************************************************)
(* The one whom the votes have named through a few calm rounds never waits *)
(* for more than the round until main's next pass, so it is not the one    *)
(* over whom the watchdog ejects the scheduler: whatever polls failed or   *)
(* hung before, whatever dispatches came when it slept, and although       *)
(* yielding makes it wait again for each half of its turn.  It speaks of   *)
(* programs that got past the launch (see LaunchWaitsForMain).             *)
(***************************************************************************)
LeaderServed ==
  \A c \in Child : Served /\ Started /\ ~shutdown /\ leader = c /\ since = Grace => wait[c] <= 1

(***************************************************************************)
(* A launched program that only a dispatch can run is known to the loop,   *)
(* by a message in the ring or in task_map: also one that woke before main *)
(* had put its pid there, or while main waited for the other's exec, since *)
(* the loop, which drops the messages of other pids, reads none till then. *)
(***************************************************************************)
HeldBackIsKnown == \A c \in Child : HeldBack(c) => c \in ring \cup held

(***************************************************************************)
(* If what the main thread starts is of its class, as Linux has it, then   *)
(* main waits in launch_process for a program that waits for main: nothing *)
(* that it launches gets as far as exec before the watchdog has ejected    *)
(* the scheduler, and no vote ever decides anything.  README.md of the     *)
(* repository says otherwise: the vote is mapped to a process, which is    *)
(* then scheduled, "but it works!"                                         *)
(***************************************************************************)
LaunchWaitsForMain == inherits => \A c \in Child : at[c] \notin {"none", "exec"} => ~Served

\* Whoever waits for a dispatch runs in the end, if need be by the watchdog.
NobodyStarves == \A c \in Child : HeldBack(c) ~> ~HeldBack(c)
=============================================================================
