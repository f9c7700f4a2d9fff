# A verification of managed-linux-democracy

The repository holds a Linux scheduler that runs whichever of two programs leads a vote. These
modules model it in TLA+, check small instances with TLC and prove the central safety properties
with TLAPS for instances of any size. Paths below are relative to the repository's root.

## The system

| Part | Source | State it keeps | Operations |
|---|---|---|---|
| BPF backend "rustland" | `democracy-scheduler/main.bpf.c`, `intf.h` | two ring buffers, `nr_queued`, `nr_scheduled`, `nr_running`, `cpu_map`, `usersched_needed`, a cpumask generation per task | the sched_ext callbacks and a timer |
| Connector | `democracy-scheduler/src/bpf.rs` | the user-space ends of the rings, the Link | `init`, `dequeue_task`, `dispatch_task`, `update_tasks`, Drop |
| Scheduler loop | `democracy-scheduler/src/main.rs` | `task_map` (last message of each managed pid), `owner_map`, `shutdown` | `main`, `run`, `schedule`, `get_current_winner` |
| Ballot box | `ballot_box/src/main.rs` | two atomic counters, a rate limiter by address | `vote_handler`, `votes_handler` |
| Competitors | `thingdoer/src/main.rs` | none | join the class; sleep and yield for ever |
| In-kernel scheduler "democracy" | `democracy-scheduler/src/bpf/main.bpf.c` | DSQs by virtual time, a class and an average per task, `nr_running`, `nr_interactive`, `nr_online_cpus`, a mask of offline CPUs, two starvation stamps | a second set of callbacks, which no build includes |

A thread of the SCHED_EXT class that becomes runnable is written to the ring *queued* by the
backend (`enqueue`); the scheduler's thread reads the ring, keeps the message if the pid is one of
the two programs it launched, asks the ballot box over HTTP who leads, writes the leader's last
message to the ring *dispatched* and sleeps 500 ms. A CPU with nothing to run enters
`rustland_dispatch`: it puts the scheduler's thread on the shared DSQ if `usersched_needed` is set,
drains *dispatched* into its dispatch buffer, each entry checked against the task's cpumask
generation and mask, and commits the buffer.

What is hard here:

- **Concurrency without a lock in common.** The callbacks run on every CPU, the scheduler's thread
  on one of them; affinity changes under a dispatch that is being checked; the counters are
  written by both sides; the ownership map is written by all CPUs.
- **Stale information, by design.** A decision is about a message read before an HTTP request,
  perhaps of minutes ago, and is sent again every half second. Generation, mask and the core's
  sequence number decide whether it takes effect.
- **Everything may be lost.** A full ring, a cancelled or ignored dispatch are not retried; an
  increment of a counter may be overwritten; the scheduler is woken only by events that it is
  itself the cause of, and by a timer.
- **Start and end.** The scheduler is installed before its rings exist and before it has joined its own class;
  the programs are launched by a thread of that class; each step may fail; and the core ejects a scheduler that
  lets a runnable thread wait for 5 s, as this one does on purpose.
- **Lifetimes.** A task exits while its pid is in both rings and in `task_map`, and the pid may be used again while
  they still hold it; the message of an exit has a CPU (-1) that must not come back.
- **The ballot box** serves requests in parallel over a map with locks and two counters that
  nothing ties together.
- **The in-kernel scheduler** has four kinds of queue in a fixed order, with stamps to keep the last from
  starving, and CPUs that go away with tasks on their queues, by an idle mask that may be stale.

What makes each part correct:

- backend: no task on the queue of a CPU it may not use; no stale decision takes effect; a thread
  is in one place; ownership is exact; buffers do not overflow;
- loop: it is a legal client, and one that does not get the scheduler ejected; a waiting program is never lost to it;
  only leaders run, on an order that a poll's result allows; the winner keeps running;
- life cycle: a leader is served in time; however main ends, and whoever leads, no program waits for ever;
- poll: the competitor named has the first largest tally;
- ballot box: one vote per address and second; a report is current; every request is answered;
- in-kernel scheduler: counters are exact, no task is left where nobody looks, every program runs.

## Modules

| Module | What it is |
|---|---|
| `Rustland` | the backend, the part of the sched_ext core around its callbacks, and any client of the connector |
| `RustlandProofs` | TLAPS: types, dispatch path, dispatch buffers and CPU ownership of `Rustland` |
| `Mandate` | the abstract specification: who may run, and on whose order |
| `Democracy` | extends `Rustland`: the client is the loop of `main.rs`; fairness and liveness; the mapping to `Mandate` |
| `DemocracyProofs` | TLAPS: `Democracy` implements `Rustland!Spec` and `Mandate`; its safety |
| `Lifecycle` | `main` from start to end, `thingdoer`, the watchdog, the ballot box's restarts, in time |
| `LifecycleProofs` | TLAPS: the safety of `Lifecycle` |
| `Tally` | who wins, said without a loop (the reference definition) |
| `Election` | `get_current_winner` as a loop, against `Tally` |
| `ElectionProofs` | TLAPS: `Election` for every list |
| `BallotBox` | the two handlers, the limiter, the clock |
| `Ledger` | the abstract specification of the ballot box: which votes are let through, which count, what is reported |
| `BallotBoxProofs` | TLAPS: the handlers for any number of requests; they implement `Ledger` |
| `InKernel` | the callbacks of the in-kernel scheduler, the core around them, CPU hotplug, time |
| `InKernelLemmas` | TLAPS: the operators of `InKernel`: queues by virtual time, the order of the DSQs, the charge |
| `InKernelProofs` | TLAPS: types, exact counters, no task strands on the queue of a CPU that is gone |
| `MC*` | constants for TLC; one `.cfg` for each run |

### Rustland

`status[p]` says where a thread is: `blocked`, `running`, `queued` (handed to the backend and on no
DSQ), `shared`, `percpu` (then `dsq[p]` names the CPU's DSQ), `local`, and for one that ended
`dead` (pid still resolves), `reaped`, `gone` (`exit_task` ran). `Reuse` gives the pid of a thread that is gone to a
new one, of which the backend knows nothing while the rings and the client may still hold messages of the old one. The
grain is a step for what no
other actor can observe in two: a callback under the task's runqueue lock is one action together
with the step of the core that calls it (`Yield` is `stopping` and `enqueue`), but

- `Count` separates the increment of `nr_queued` from the message's submission;
- a call of `rustland_dispatch` is `BeginDispatch`, then for each entry `Drain` (up to
  `scx_bpf_dispatch`), `CheckGeneration`, `CheckMask`, then `Flush` and `Consume`. `pc[c]` is where
  CPU *c* is in it. Between any two of these steps tasks, other CPUs and the client move.

The sched_ext core is environment, modelled from how the callbacks rely on it: an entry noted by
`scx_bpf_dispatch` takes effect at the flush only if the task has stayed with the backend since
(`Forget` removes the entries of a thread that leaves or is enqueued again); one CPU at a time
drains the user ring; a flush waits for an `enqueue` in progress. A CPU that is offline never
dispatches, so a DSQ of its own is never consumed. `Preempt` is a higher class that takes a CPU: the core stops the
thread, leaves it at the head of its local DSQ without a new `enqueue`, and calls `cpu_release`, for which the model
allows both readings of its argument. An affinity change of a running thread stops and starts it without an `enqueue`
that the backend sees: the core puts a thread that was running back on its local DSQ. If its new mask forbids the CPU, the
core's stopper thread preempts it (`Preempt`) and moves it (`Migrate`, which enqueues it again). An ejection (`ejected`) is what
`cpu_to_dsq` brings about for the CPU -1 of an exit message, and the end of a behaviour. The options are the ones `main.rs` passes: `full_user` on, `low_power` and
`fifo_sched` off.

The client calls `dequeue_task`, `update_tasks` and `dispatch_task` in any order; a dispatch is
made from a message it holds (`DispatchedTask::new`), with the message's CPU or one of `Override`.

### Democracy

`upc` is the next statement of the scheduler's thread; each action is one statement between two
points at which another actor can act. `held` of `Rustland` is `task_map`. `SendRequest` and the
sleeps take the thread off its CPU with the backend's `Block`; it comes back through `Wakeup`, the
backend's flag and a DSQ like any thread. The ballot box is an answer out of `Leads` or a failure;
`BallotBox` and `Election` say which answers there are. The children are never waited for, so a
managed program that ends stays a zombie and its pid is not used again; other threads of the class come and go. That is what
`NotEjected` rests on: a client of `Rustland` that keeps an exit message and dispatches it after the pid is in use again gets the
scheduler ejected (TLC finds the execution if `NotEjected` is asked of any client), this loop does not. There is no watchdog
here: what becomes of a program that waits for too long is in `Lifecycle`.

### Mandate

`Mandate` says what the scheduler promises without rings, generations or CPUs: `leader` is the last poll's result,
`Order` gives an order to the leader's program, orders may lapse (`Grant({})`), come late and be given again,
and a waiting program runs only on one, or past a ring that is full (`congested`). `Democracy!M` maps the loop's
`winner` to `leader` and the thread states to four places. An order is on its way (`Ordered`) while its pid is in the
ring *dispatched*, in hand between `Drain` and the end of the checks, or in a dispatch buffer. The entry in hand counts
also when its task has been enqueued again since: for a forbidden CPU `dispatch_task` dispatches the task once more,
to the shared DSQ, and that dispatch counts. A `Flush` may commit several programs in one step, hence `Grant` of a set.

### Lifecycle

`Lifecycle` trades the detail of `Democracy` for time. The main thread's `schedule` is a few steps; `Ask` to `Answered` or
`PollFails` is the request, which takes any time and may fail at any moment, votes or not; a dispatch takes
effect at once or not at all; programs do what `thingdoer` does, one action for each stay on the CPU: exec, `Join`
(`sched_setscheduler`), `PrintAndSleep`, `Wake`, `Yield`. `ring` and `held` say of which programs a message waits or is
known, `mapped` which pids are keys of `task_map`: `FillMaps` puts them there after the launch, and `Drain` keeps the messages of
no others. Steps take no time; `Tick` is 500 ms and comes when everybody has to wait: main sleeps (`nap`) or waits for the
ballot box, every program sleeps or waits for a dispatch. A main thread that loops without a sleep, as it does for a winner
without a message and after Ctrl-C, lets time pass once it has come around its loop (`passed`). `wait[c]` is how long *c* has
been runnable without a CPU; at `Patience` rounds the core may eject the scheduler, and one round later time stops until
it has. `since` counts *calm* rounds, up to `Grace`: rounds of the loop without a new vote, a failed poll, a poll that takes
time, or Ctrl-C.

The start is a step for each statement that may fail: the Ctrl-C handler, opening, loading and attaching, the two
rings, the class, each launch. `End` is every way to leave `main` after the attach: an error unwinds `init` or `main`,
and the Link is dropped. `inherits` says whether what a thread of the class starts is of the class; both answers are
initial states. Linux has it so unless SCHED_RESET_ON_FORK is set, which `use_sched_ext` does not do. The ballot box may
start, end and start again at any time; its counts are lost with it. A vote may make anybody the leader.

What follows from the code, and what the model makes exact:

- with `inherits`, `spawn` waits for the child's exec and the child waits for main: `LaunchWaitsForMain`. Nothing
  happens until the watchdog ejects the scheduler, after which no vote decides anything. The repository's `README.md` (lines
  30 and 39) says that the program whose side has the votes is scheduled and that this works: `PROJECT.json` lists the disagreement
  as a finding. Everything else that `Lifecycle` says of a loop in charge, and all of `Democracy`, is of programs that got past the
  launch: `inherits = FALSE`, that is, a kernel or a build in which children start in the ordinary class;
- then the loser waits for the watchdog's timeout, the core ejects the scheduler, and from then on both
  programs run as ordinary threads (`NobodyStarves`). `main` does not ask `exited()` and goes on polling. The leader is never the
  cause after three calm rounds (`LeaderServed`); a request that hangs for longer than the watchdog's 5 s, as the 30 s timeout of
  the HTTP client allows, can make it the cause;
- after Ctrl-C `run` returns `Ok`, and the loop of `main` calls it again, for ever (`main.rs:238-244`): the message
  "scheduler has shutdown" is never printed, and the process has to be killed. No run is spent on this, as no step of the
  model or of the code is another way out.

### Election, BallotBox

`Election` runs the loop one turn a step. `BallotBox` has one action for each access to shared
state: `Lookup` takes the read guard of the limiter's shard, `Compare` drops it, `Stamp` waits for
the guards of all others (one shard: the coarsest case), loads and increments are single steps
and the loads of the two counters come in any order, as `Relaxed` allows. `arrival` is a
history variable that the properties need. The addresses in `Hasty` have several requests in the server at once; the others
wait for each answer. A request of a hasty address may be overtaken by one that reads the clock later and stamps the
limiter first; its subtraction then goes below zero, which is a panic in a dev build (`OverflowChecks`) and a wrap
(`Modulus`) in a release build.

`Ledger` says what the ballot box promises without counters, locks or a map of last seconds. A vote is let through
unless its address was let through in the same second (`Admit`), and turned away only then (`TurnAway`); what is let
through and valid counts (`Count`), once and for good; a report names for each candidate the number of votes that
count at the moment of `Tell`. For a hasty address it promises less: a second vote of the same second may be let through,
and a request that is overtaken may die without an answer. `BallotBox!L` maps to it: a vote is `admitted` from its stamp on and `counted` from its
`fetch_add` on, the counters and the limiter are not mapped at all. So `KeepsLedger` ties each counter to the votes,
and the one second that the limiter remembers of an address to all the seconds in which it has voted.

### InKernel

This scheduler lives in the kernel alone and shares nothing with the other modules. `running[c]` is the task on
a CPU, `dsq[d]` the tasks on a queue in its order, the other variables are those of the code. A step is the
sequence of callbacks that the core makes under a runqueue lock: `Wakeup` is `select_cpu` and, if that found no
CPU, `enqueue`; `Dispatch` is `dispatch` and `running` on a CPU without a task; `Block` is `stopping`; `Switch` is
`dispatch`, `stopping` and `enqueue` of the old task and `running` of the new one; `CpuOnline` and `CpuOffline`
are the callbacks with what the core does to the CPU. A task keeps its CPU against the higher classes. `Yield`, `Refill`, `GoIdle` and `Tick` are the core's.

The code compares times only by their difference, so the model keeps differences: `vtime[p]` is
`p->scx.dsq_vtime - vtime_now`, `shared_age` and `prio_age` are the time since a stamp. Both end where all values
are alike: a stamp is `Old` once past the threshold, and behind `Floor` a virtual time is clamped before anybody
compares it with a later one. Time passes (`Tick`) when no CPU is about to call back, so callbacks take none, and
a task runs for at least one unit. Whether a second has passed since the last evaluation of a task, and how
many voluntary switches it shows, is a choice (`Within`, `Rates`).

`CpuOffline` may leave the CPU's bit in the idle mask, which `pick_idle_cpu` says it can live with; `prev_cpu`
is then chosen although it is offline.

In each module the operators marked `mutant` are wrong versions of the definition after them; no
specification uses them. Each property is known to fail when its mutant is put in place.

## Runs

| Run | Instance | Properties | Shows |
|---|---|---|---|
| `MCRustland` | 1 task, 2 CPUs, 1 affinity change, rings of 1, 2 slots | `MaskRespected`, `FreshDecision` | no wrong placement, whatever the client sends and when |
| `MCRustlandExit` | a mortal task whose pid is used again, a per-CPU kthread, 1 CPU, *dispatched* of 2 | `TypeOK`, `CpuOwnership`, `SlotsRespected` | exact ownership and no overflow, up to an ejection |
| `MCDemocracyVote` | a program, mortal, and a thread that main did not launch, mortal and its pid used again; 2 CPUs of which 1 online, 1 affinity change, Ctrl-C | `NotEjected`, `ManagedNotLost`, `VoteDecides` | the loop answers no exit message and loses no program; only leaders run, except past a full ring |
| `MCDemocracyLive` | 2 programs on 1 CPU, one of which never leads | `BackendSpec`, `VoteMandates`, `QueueServed`, `WinnerScheduled` | the loop implements the client of `Rustland`, loop and backend implement `Mandate`; liveness under `Fairness` |
| `MCLifecycle` | 2 programs, watchdog of 3 rounds, grace of 3 | `TypeOK`, `LeaderServed`, `HeldBackIsKnown`, `LaunchWaitsForMain`, `NobodyStarves` | start, end, restarts and the watchdog, with every failure of a start and of a poll |
| `MCElection` | lists of up to 3 tallies, 3 names, counts 0..3, u32 up to 2 | `TypeOK`, `LoopInv`, `NamesTheWinner`, `FailsForAReason` | the poll against `Tally` |
| `MCBallotBox` | a hasty address with a vote and a spoiled one, another with 2 votes and a poll; 2 seconds, dev profile | `TypeOK`, `ReportIsCurrent`, `Answered`, `KeepsLedger` | the refinement of `Ledger`; guard and lock do not deadlock |
| `MCInKernel` | 2 programs, 2 CPUs of which 1 comes and goes, slice 2, threshold 2 | `TypeOK`, `CountersExact`, `StrandedSeen`, `QueuedRuns` | no starvation and no stranded task, with classes that change |

Four more runs show a disagreement of the code with what it says of itself; TLC prints the execution.

| Run | Claim | What the code does |
|---|---|---|
| `MCDemocracyPending` | `main.bpf.c:322-324`: the check of the counters is safe from a concurrency perspective | a message that comes between the last read and `update_tasks(Some(0), Some(0))` is not counted; the next task that stops, or the heartbeat, makes up for it (`QueueServed` holds). The property leaves out the short time between a message and its increment |
| `MCBallotBoxTwin` | `ballot_box/src/main.rs:197`: one request a second | two at once both pass the check before either stamps |
| `MCBallotBoxPanic` | `ballot_box/src/main.rs:197`: whoever is too fast is told to try again in a second | a request that is overtaken over a second's end subtracts a later second from its own (line 194) and panics in a dev build |
| `MCInKernelAverage` | `src/bpf/main.bpf.c:714-715`: a task whose average drops to zero is demoted | `calc_avg` rounds down what it subtracts: the average stops at 3 or at what it was below, and the test for zero never holds |

The comment at `main.rs:59-60` would have everything but the named programs scheduled as normal; the code drops
the messages of all other threads of the class, and `VoteDecides` says so. `LaunchWaitsForMain`, which passes, says what
`README.md:30` and `README.md:39` deny (see Lifecycle above). `Demoted` is checked under the same fairness
as `QueuedRuns`.

### Bounds

Every bound is a constant. Rings, buffers and the saturation `NrCap` are at the size where "full",
"one left" and "empty" all occur; one is enough for `NrCap` since the code only tests for zero.
Two CPUs are enough for a drain, a flush and an affinity change to overlap, as one CPU drains at a
time; the safety of that path is also proved for any number. `MaxCpumaskCnt` is 1 where the client is
arbitrary (a message is current or old) and where two programs share the loop; the proofs of `ManagedNotLost` and of the
dispatch path are for any number of changes. `MCDemocracyVote` keeps the affinity of the other thread as it is
(`OnlyPrograms`, a state constraint).
In `Lifecycle` the watchdog has 3 rounds for the code's 10 (5000 ms), enough for a leader that waits two rounds to differ
from one that waits one, and for polls that hang to last longer. `Grace` is three rounds, which is what it takes to sleep
through a failed poll (two) and to come to the next dispatch; the proofs are for any patience and any grace from 3.
`InKernel` has the smallest times that
keep `SliceNsMin < SliceNs < SliceDfl` apart and let a threshold expire within two slices, one place per CPU on the
priority DSQ so that it is full at times, and one CPU that stays.
`MaxClock` is 1: the limiter tells one second from the next, and a request may be a second late. Two requests of a hasty
address are enough for one to overtake the other; a vote, a second one and a poll of another address read the counters
while these add to them. In `Election` three tallies
give a tie before, after and around a larger one.

### Fairness

`Democracy!Fairness` assumes that the callbacks and the timer make progress, that the ballot box
answers or the request fails, that sleeps end, that a thread on a local DSQ gets its
turn (strong: others run in between), that slices are used up and sleeps of a program end although preemption interrupts
them again and again (strong), and that a CPU with an empty local DSQ comes back to
`ops.dispatch`. The last is not a promise of the backend: the scheduler is *partial*, so the threads of
the ordinary classes come and go on every CPU, and each time the core tries the SCHED_EXT class
again. It rules out that a higher class, or a per-CPU kernel thread, keeps a CPU for ever. Nothing is assumed of affinity changes, exits or the vote. `BallotBox!FairSpec` assumes that a
handler, which has no `await`, goes on when its locks allow; no request has to arrive.
The answer of the ballot box takes a helper thread of the HTTP client that can run; if children and threads inherit
the class, main does not get that far (`LaunchWaitsForMain`). `Lifecycle!Fairness` assumes that threads which can run
do, that the watchdog looks, that a request ends, answered or not (the client that `get_current_winner` makes has a timeout
of 30 s), and that time passes (strong: a main thread that loops without sleeping is between two passes only now and
then); nothing of the ballot box, the voters or Ctrl-C.
`InKernel!Fairness` assumes that time passes, that a CPU which has work and no task, or one at the end of its slice,
calls back, and that CPUs are plugged and unplugged a finite number of times: the core kicks the CPUs, a threshold that
expires just before the last CPU for it is unplugged would otherwise do so for ever.

### Deadlock

Checked in the runs of `Rustland`, `Democracy`, `InKernel` and `Lifecycle`, but for `MCRustlandExit`, in which a client may
get the scheduler ejected, after which nothing happens. The requests of `BallotBox` and the call modelled by
`Election` end, so their configurations turn it off; `Answered` says that no request hangs.

## Proofs

`RustlandProofs` proves, for any sets of tasks and CPUs, any capacities and any client:

- `TypeCorrect`: `Spec => []TypeOK`;
- `MaskSafety`: `Spec => []MaskRespected`;
- `FreshSafety`: `Spec => []FreshDecision`;
- `SlotsSafety`: `Spec => []SlotsRespected`;
- `OwnershipExact`: `Spec => []CpuOwnership`.

None of them is inductive. `TypeOK` needs to know that a CPU which checks an entry has one in hand
and a slot in use; `MaskRespected` needs the same of every entry that the next flush may commit; and
that needs the argument on which `dispatch_task` rests. It is the invariant `DispatchInv` of `Rustland`:
one CPU drains at a time (`OneDrainer`); an entry in hand that can still take effect is of a task that
still waits (`InHandWaits`), so a change of affinity, which takes a waiting task off the backend and
enqueues it again, kills it; hence once the generation is tested it stays current (`InHandFresh`), and
what `CheckMask` notes obeys mask and generation (`PendingAllowed`, `FreshDecision`) until the flush or
until the task leaves (`PendingIsQueued`). `DispatchCorrect` proves `TypeOK /\ DispatchInv` inductive,
with a lemma per action; lemmas named `Path...` collect what actions have in common. On top of it `SlotsInv` adds that
a CPU drains on only while a slot is free and starts with none in use. `OwnInv` says that a running task owns the CPU it is on, that an
owner runs there, that no task runs on the scheduler's CPU, and that the counter is the number of owned CPUs. The assumptions
are those of `Rustland`: the scheduler's pid is no task's, sentinels are distinct from real values, capacities are
positive, the CPUs are finitely many.

`ElectionProofs` proves the four invariants of `Election` for every list of tallies and every width of the
counts: `LoopInv` is the loop invariant, `LoopGives` what it yields at the end, and `Inv` adds that decoding
has left no count beyond the limit.

`DemocracyProofs` proves of the program as it is deployed, for any number of programs, candidates, threads and CPUs:

- `LoopIsClient`: `DemocracySpec => BackendSpec`. Every step of the loop is one of `Rustland`'s client or a stutter, so
  what is proved of `Spec` holds of the program; `DeployedMaskSafety` is `MaskRespected` brought over;
- `LoopImplementsMandate`: `DemocracySpec => M!Spec`. Initial states map to initial states and every step to a step
  of `Mandate` or a stutter, a lemma per group of actions; needs `DispatchInv` (an entry of a buffer is of a waiting
  thread) and `Safe` (what is dispatched is the winner's);
- `VoteAlwaysDecides`: `VoteDecides`, from the same;
- `ManagedAlwaysKnown`: `ManagedNotLost`. Its strengthening `NeverLost` says that the last message of a program in the
  ring, or else the one in `task_map`, carries the current generation (`LastIsCurrent`): it is the last one
  that the drain leaves behind;
- `NeverEjects`: `NotEjected`. Its strengthening says that whatever the loop keeps or dispatches is of a managed program,
  which is not gone, and has a CPU: exit messages of other threads are in the ring *queued* alone.

`LifecycleProofs` proves, for any programs in any order of launch:

- `TypeCorrect` and `WaitersAlwaysKnown` (`HeldBackIsKnown`), from how far main is (`Progress`): the loop reads no message
  before the pids are in `task_map`, and only programs that it launched wait;
- `LaunchAlwaysWaits` (`LaunchWaitsForMain`), from an invariant of the launch: what has not been launched yet is not
  there (`Unborn`), and with inheritance main is stuck with the first child (`Stuck`);
- `LeaderAlwaysServed`: `Spec => []LeaderServed` for `Grace >= 3`. The invariant `Timely` relates main's position, the
  rounds left of its sleep, the calm rounds and the leader's wait: after as many of these as main still sleeps the last winner
  is the leader (`LeaderLag`), and a winner that waits while main pauses has just begun to (`FreshPause`).

`BallotBoxProofs` proves, for any requests, addresses, candidates and clock:

- `BallotBoxTypeOK` and `ReportsCurrent` (`ReportIsCurrent`), however requests interleave, and whichever addresses wait.
  `ReportInv` adds to the second that counters have only grown since a request arrived, that nothing is loaded before the
  voter's own vote is in, and that a report is complete;
- `LimitKept` (`OneVotePerSecond`), if every address waits for its answers (`Hasty = {}`). `LimitInv` says what the
  limiter holds of an address that waits while its request is between two locks: nobody else stamps for it (`Single`), and no
  stamp is later than the clock (`Clocked`) or than the request's own second (`Limited`). Of a hasty address only what
  follows from its own steps is known (`Placed`), and the theorem is false of it, as the run `MCBallotBoxTwin` shows;
- `LedgerKept`, `Spec => KeepsLedger`, for any set of hasty addresses, a lemma per action. `LedgerInv` is what it needs: a
  counter is the number of votes of its candidate that count (`CountersHonest`), the second in the limiter is that of a
  vote which was let through (`StampHasOwner`), and a handler past its check has a ballot that fits (`BallotFits`).
  With `LimitInv`, `Compare` then decides as the ledger does (`CompareDecides`): whoever is turned away has voted in this
  second, and of an address that waits nobody else is let through or dies, as no stamp is later than the request.

`InKernelProofs` proves of the in-kernel scheduler, for any number of CPUs and tasks, any topology and affinity, any
slices, thresholds and weights:

- `InKernelTypeOK`: `Spec => []TypeOK`, with the window of the virtual times and the bounds of slices and stamps;
- `CountersNeverDrift`: `Spec => []CountersExact`. The counters are moved by callbacks of different tasks, so each step
  has to keep them equal to what they count (`Runners`, `InteractiveRunners`, the online CPUs): a task must not be
  counted twice, nor leave in another class than it came in. `InKernelInv` adds `Placed`, that a task is at most at one
  place of one queue or on one CPU, and that CPU online, and `NotAhead`, that `vtime_now` has caught up with every task
  that runs, from which its charge stays within the window. Types, counters, `Placed` and `NotAhead` are inductive only
  together: what a CPU takes must be a task that nobody runs, and the place of a task is kept through its queue's type;
- `NothingStrands`, `Spec => []StrandedSeen`. The strengthening `SeenInv` says that a CPU which the idle mask still
  shows but which is not online is in `offline_cpumask`, although that mask knows nothing of the CPUs that were offline
  at the start: the idle mask starts without them. A pinned kernel thread goes to a CPU that is never unplugged
  (`TaskAssumption`).

The queues are sequences in the order of virtual time, so these proofs rest on `InKernelLemmas`: `DispatchVtime` adds one
entry and keeps the others once each, taking an entry out loses that one alone, and the DSQ that `From` names is one
from which the CPU can take something whenever `HasWork` says that there is one (`FromHasWork`).

Only model-checked: all liveness (`QueueServed`, `WinnerScheduled`, `NobodyStarves`, `Answered`,
`QueuedRuns`), as fairness and `ENABLED` are out of the prover's reach. Every other property of the passing runs
has a theorem.

## Not modelled

- Of the in-kernel scheduler: changes of affinity, tasks that come and go, preemption by a higher class (the task stays
  at the head of a local DSQ, to which no callback puts it), a failure to allocate, the wrap of 64-bit
  times, and interleavings within a callback (the soft limit of the priority DSQ may be overrun by a few). `QueuedRuns`
  is checked for programs that may run everywhere: with a per-CPU kernel thread that never lets up TLC shows that
  what an offline CPU left behind may wait for ever, as its DSQ has no threshold, and that a pinned task may starve, as
  the stamps are those of all CPUs. The first is what the comments at `src/bpf/main.bpf.c:502-503` and `609-610` promise
  to prevent; no run keeps it, as it takes kernel threads that never sleep, and the watchdog ends it after 5 s.
- What the options switch off: idle-CPU search in `select_cpu`, FIFO mode, `low_power`, preemption flags.
- Of the connector: `exited`, `shutdown_and_report`, `get_cpu_pid` and the counters' accessors have no caller, and
  `mlock` has no effect that the properties see. `consume_raw` has no error of its own: it returns 0 or what the
  callback returned, which is the stop code, so the arm of `schedule` that logs an error is not reached.
- Time is in `Lifecycle` only, in rounds of 500 ms; slices are steps without duration. A wall clock that is set back is not
  modelled, nor a `Client::new()` that panics because the system's TLS is not usable.
- Helper threads of the HTTP client as such (they are threads nobody owns; `MCDemocracyVote` has one such thread), statistics, logging, static files, and the two stale copies of `bpf.rs` at the
  root, which no crate includes.

## Plan

1. *Done*: the backend, the loop on top of it, the poll, the ballot box; the in-kernel scheduler; the dispatch path
   proved.
2. *Done*: the abstract specification and the refinement, checked and proved; start, end, restarts and the watchdog
   in `Lifecycle`; the safety of loop and life cycle proved.
3. Left to model: changes of affinity in the in-kernel scheduler and an abstract statement of its fairness; a wall clock that is set back.
4. *Done*: the handlers of the ballot box, the ownership of CPUs, and that nothing strands proved.
5. *Done*: an abstract specification of the ballot box, its refinement checked and proved; types and counters of the
   in-kernel scheduler proved.
