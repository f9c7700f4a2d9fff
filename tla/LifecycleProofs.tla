--------------------------- MODULE LifecycleProofs ---------------------------
(***************************************************************************)
(* Lifecycle.tla for any number of programs, any order of their launch,    *)
(* any patience of the watchdog.                                           *)
(***************************************************************************)
EXTENDS Lifecycle, TLAPS

Attaching == {"handler", "open", "attach"}
Starting  == Attaching \cup {"rings", "join"}
Launching == {"launch", "spawning"}
Looping   == {"top", "drain", "poll", "polling", "dispatch", "asleep"}
Programs  == {Launch[i] : i \in DOMAIN Launch}

(***************************************************************************)
(* What the properties rest on: how far main is tells how many programs it *)
(* has launched, whether their pids are in task_map and whether the        *)
(* callbacks are installed; a program exists only once it is launched; and *)
(* while main is of a class that what it starts inherits, what it starts   *)
(* does not get as far as its exec.                                        *)
(***************************************************************************)
Progress ==
  /\ main \in Starting \cup Launching \cup {"ended"} => launched < Len(Launch)
  /\ main \in Looping \cup {"maps"} => launched = Len(Launch)
  /\ mapped = IF main \in Looping THEN Programs ELSE {}
  /\ main \in Attaching \cup {"ended"} => ~attached
Begun == launched + IF main = "spawning" THEN 1 ELSE 0
Unborn ==
  /\ main \in Starting => class = {} /\ \A c \in Child : at[c] = "none"
  /\ \A c \in Child : IF at[c] = "none" THEN c \notin class ELSE c \in Programs
  /\ main # "ended" => \A i \in DOMAIN Launch : i > Begun => at[Launch[i]] = "none"
Stuck ==
  inherits /\ Served =>
    /\ main \notin Looping \cup {"maps"}
    /\ granted = {}
    /\ \A c \in Child : at[c] = "none" \/ (at[c] = "exec" /\ c \in class)
    /\ main = "spawning" => at[Next1] = "exec"

Inv == TypeOK /\ Progress /\ Unborn /\ HeldBackIsKnown /\ Stuck

LEMMA InvInit == Init => Inv
<1> SUFFICES ASSUME Init PROVE Inv
  OBVIOUS
<1> USE LifecycleAssumption DEF Init
<1>1. TypeOK
  <2>1. /\ launched \in 0..Len(Launch) /\ nap \in 0..2 /\ since \in 0..Grace
        /\ wait \in [Child -> 0..(Patience + 1)]
    <3>1. Len(Launch) \in Nat
      OBVIOUS
    <3> QED BY <3>1
  <2>2. /\ main \in Point /\ mapped \subseteq Child /\ held \subseteq mapped /\ ring \subseteq Child
        /\ winner \in Child \cup {Nobody} /\ leader \in Child \cup {Nobody}
        /\ passed \in BOOLEAN /\ shutdown \in BOOLEAN
    BY DEF Point
  <2>3. /\ attached \in BOOLEAN /\ ejected \in BOOLEAN /\ inherits \in BOOLEAN /\ up \in BOOLEAN
        /\ at \in [Child -> Ready \cup {"none", "asleep", "failed", "gone"}]
        /\ class \subseteq Child /\ granted \subseteq class /\ killed \subseteq Child
    OBVIOUS
  <2> QED BY <2>1, <2>2, <2>3 DEF TypeOK
<1>2. Len(Launch) > 0
  OBVIOUS
<1>3. Progress /\ Unborn
  BY <1>2 DEF Progress, Unborn, Starting, Attaching, Launching, Looping
<1>4. HeldBackIsKnown /\ Stuck
  BY DEF HeldBackIsKnown, HeldBack, Served, Stuck
<1> QED BY <1>1, <1>3, <1>4 DEF Inv

\* The program that main launches next is one, as long as there is one.
LEMMA NextChild ==
  ASSUME TypeOK, launched < Len(Launch)
  PROVE  Next1 \in Child /\ launched + 1 \in 0..Len(Launch)
BY LifecycleAssumption DEF TypeOK, Next1

LEMMA TypeStart ==
  ASSUME TypeOK, Progress,
         \/ SetHandler \/ Open \/ LoadAndAttach \/ BuildRings \/ UseSchedExt \/ Spawn \/ Spawned
  PROVE  TypeOK'
<1> USE DEF TypeOK, Point, Ready, Goto, End, loop, clock, backend, program, box, others
<1>1. CASE SetHandler \/ Open
  BY <1>1 DEF SetHandler, Open
<1>2. CASE LoadAndAttach \/ BuildRings \/ UseSchedExt
  BY <1>2 DEF LoadAndAttach, BuildRings, UseSchedExt
<1>3. CASE Spawn
  <2>1. Next1 \in Child
    BY <1>3, NextChild DEF Spawn, Progress, Launching
  <2>2. main' \in Point /\ at' \in [Child -> Ready \cup {"none", "asleep", "failed", "gone"}]
        /\ attached' \in BOOLEAN
    BY <1>3 DEF Spawn
  <2>3. class \subseteq class' /\ class' \subseteq Child /\ ring' \subseteq Child
    BY <1>3, <2>1 DEF Spawn, Message
  <2> QED BY <1>3, <2>2, <2>3 DEF Spawn
<1>4. CASE Spawned
  <2>1. launched + 1 \in 0..Len(Launch)
    BY <1>4, NextChild DEF Spawned, Progress, Launching
  <2> QED BY <1>4, <2>1 DEF Spawned
<1> QED BY <1>1, <1>2, <1>3, <1>4

LEMMA TypeLoop ==
  ASSUME TypeOK, Progress, FillMaps \/ Top \/ Drain \/ Ask \/ Answered \/ PollFails \/ Dispatch \/ Awake
  PROVE  TypeOK'
<1> USE DEF TypeOK, Point, Ready, Goto, End, loop, clock, backend, program, box, others
<1>1. CASE Top \/ Awake
  BY <1>1 DEF Top, Awake
<1>2. CASE Drain
  <2>1. main' \in Point /\ UNCHANGED mapped
    BY <1>2 DEF Drain
  <2>2. ring' \subseteq Child /\ held' \subseteq mapped
    BY <1>2 DEF Drain
  <2> QED BY <1>2, <2>1, <2>2 DEF Drain
<1>3. CASE Ask \/ Answered \/ PollFails
  <2>1. 0 \in 0..Grace
    BY LifecycleAssumption
  <2>2. main' \in Point /\ winner' \in Child \cup {Nobody} /\ nap' \in 0..2 /\ since' \in 0..Grace
    BY <1>3, <2>1 DEF Ask, Answered, PollFails
  <2>3. /\ UNCHANGED <<launched, mapped, held, backend, program, up, leader, others>>
        /\ passed' \in BOOLEAN
    BY <1>3 DEF Ask, Answered, PollFails
  <2> QED BY <2>2, <2>3
<1>4. CASE Dispatch
  <2>1. granted' \subseteq class
    BY <1>4 DEF Dispatch, HeldBack
  <2> QED BY <1>4, <2>1 DEF Dispatch
<1>5. CASE FillMaps
  <2>1. held = {} /\ mapped' = Programs /\ main' = "top"
    BY <1>5 DEF FillMaps, Progress, Looping, Programs
  <2>2. Programs \subseteq Child
    BY LifecycleAssumption DEF Programs
  <2> QED BY <1>5, <2>1, <2>2 DEF FillMaps
<1> QED BY <1>1, <1>2, <1>3, <1>4, <1>5

LEMMA TypeChild ==
  ASSUME TypeOK, NEW c \in Child, ChildStep(c)
  PROVE  TypeOK'
<1> USE DEF TypeOK, Point, Ready, Off, Message, loop, clock, backend, program, box, others
<1>0. 0 \in 0..(Patience + 1)
  BY LifecycleAssumption
<1>1. CASE Exec(c)
  BY <1>0, <1>1 DEF Exec
<1>2. CASE Join(c)
  BY <1>0, <1>2 DEF Join
<1>3. CASE Wake(c)
  BY <1>3 DEF Wake
<1>4. CASE Yield(c)
  BY <1>0, <1>4 DEF Yield
<1>5. CASE PrintAndSleep(c)
  BY <1>0, <1>5 DEF PrintAndSleep
<1>6. CASE Die(c)
  BY <1>0, <1>6 DEF Die
<1> QED BY <1>1, <1>2, <1>3, <1>4, <1>5, <1>6 DEF ChildStep

LEMMA TypeWorld ==
  ASSUME TypeOK, CtrlC \/ BoxStarts \/ BoxEnds \/ Vote \/ Eject \/ Tick
  PROVE  TypeOK'
<1> USE LifecycleAssumption DEF TypeOK, loop, clock, backend, program, box, others
<1>1. CASE CtrlC
  BY <1>1 DEF CtrlC
<1>2. CASE BoxStarts \/ BoxEnds \/ Vote \/ Eject
  <2>1. 0 \in 0..Grace
    OBVIOUS
  <2>2. /\ up' \in BOOLEAN /\ ejected' \in BOOLEAN /\ since' \in 0..Grace
        /\ leader' \in Child \cup {Nobody}
    BY <1>2, <2>1 DEF BoxStarts, BoxEnds, Vote, Eject
  <2>3. UNCHANGED <<main, loop, clock, attached, ring, program, others>>
    BY <1>2 DEF BoxStarts, BoxEnds, Vote, Eject
  <2> QED BY <2>2, <2>3
<1>3. CASE Tick
  <2>1. nap' \in 0..2 /\ since' \in 0..Grace
    BY <1>3 DEF Tick
  <2>2. wait' \in [Child -> 0..(Patience + 1)]
    BY <1>3 DEF Tick
  <2> QED BY <1>3, <2>1, <2>2 DEF Tick
<1> QED BY <1>1, <1>2, <1>3

\* Only steps of main change what Progress speaks of.
LEMMA ProgressStep ==
  ASSUME TypeOK, Progress, [Next]_vars
  PROVE  Progress'
<1> USE DEF Progress, Starting, Attaching, Launching, Looping, Goto, End,
            loop, clock, backend, program, box, others
<1>1. CASE UNCHANGED <<main, launched, mapped, attached>>
  BY <1>1
<1>2. CASE SetHandler \/ Open \/ LoadAndAttach \/ BuildRings \/ UseSchedExt \/ Spawn
  BY <1>2 DEF SetHandler, Open, LoadAndAttach, BuildRings, UseSchedExt, Spawn
<1>3. CASE Spawned
  <2>1. launched + 1 \in 0..Len(Launch) /\ launched \in Nat /\ Len(Launch) \in Nat
    BY <1>3, NextChild, LifecycleAssumption DEF Spawned, TypeOK
  <2> QED BY <1>3, <2>1 DEF Spawned
<1>4. CASE FillMaps \/ Top \/ Drain \/ Ask \/ Answered \/ PollFails \/ Dispatch \/ Awake
  BY <1>4 DEF FillMaps, Programs, Top, Drain, Ask, Answered, PollFails, Dispatch, Awake
<1>5. CASE \E c \in Child : ChildStep(c)
  BY <1>1, <1>5 DEF ChildStep, Exec, Join, Wake, Yield, PrintAndSleep, Die
<1>6. CASE CtrlC \/ BoxStarts \/ BoxEnds \/ Vote \/ Eject \/ Tick
  BY <1>1, <1>6 DEF CtrlC, BoxStarts, BoxEnds, Vote, Eject, Tick
<1>7. CASE UNCHANGED vars
  BY <1>1, <1>7 DEF vars
<1> QED BY <1>2, <1>3, <1>4, <1>5, <1>6, <1>7 DEF Next, MainStep

LEMMA TypeStep ==
  ASSUME TypeOK, Progress, [Next]_vars
  PROVE  TypeOK'
<1>1. CASE UNCHANGED vars
  BY <1>1 DEF TypeOK, vars, loop, clock, backend, program, box, others
<1> QED BY <1>1, TypeStart, TypeLoop, TypeChild, TypeWorld DEF Next, MainStep

\* A program comes into being, and into the class, when its turn comes.
LEMMA UnbornStep ==
  ASSUME TypeOK, Progress, Unborn, [Next]_vars
  PROVE  Unborn'
<1> USE DEF Unborn, Begun, Starting, Attaching, Goto, End,
            loop, clock, backend, program, box, others
<1>1. CASE SetHandler \/ Open \/ LoadAndAttach \/ BuildRings \/ UseSchedExt
  BY <1>1 DEF SetHandler, Open, LoadAndAttach, BuildRings, UseSchedExt
<1>2. CASE Spawn
  <2>1. main = "launch" /\ Next1 \in Child /\ UNCHANGED launched /\ launched \in Nat
    BY <1>2, NextChild, LifecycleAssumption DEF Spawn, Progress, Launching, TypeOK
  <2>2. CASE main' = "ended" /\ UNCHANGED <<at, class>>
    BY <2>1, <2>2
  <2>3. CASE /\ main' = "spawning" /\ at' = [at EXCEPT ![Next1] = "exec"]
             /\ class' \subseteq class \cup {Next1}
    <3>0. Next1 \in Programs
      BY <1>2, LifecycleAssumption DEF Spawn, Progress, Launching, TypeOK, Programs, Next1
    <3>1. \A c \in Child : at'[c] = IF c = Next1 THEN "exec" ELSE at[c]
      BY <2>1, <2>3 DEF TypeOK
    <3>2. ASSUME NEW i \in DOMAIN Launch, i > launched + 1 PROVE at'[Launch[i]] = "none"
      <4>1. i \in Nat /\ Launch[i] \in Child /\ i > launched + 0
        BY <2>1, <3>2, LifecycleAssumption
      <4>2. launched + 1 \in DOMAIN Launch /\ Launch[i] # Next1
        BY <2>1, <3>2, <4>1, LifecycleAssumption DEF Next1
      <4> QED BY <2>1, <3>1, <4>1, <4>2
    <3> QED BY <2>1, <2>3, <3>0, <3>1, <3>2
  <2> QED BY <1>2, <2>2, <2>3 DEF Spawn
<1>3. CASE Spawned
  <2>1. /\ main = "spawning" /\ main' \in {"ended", "maps", "launch"} /\ UNCHANGED <<at, class>>
        /\ launched \in Nat
        /\ \/ launched' = launched + 1
           \/ launched' = launched /\ main' = "ended"
    BY <1>3, LifecycleAssumption DEF Spawned, TypeOK
  <2>2. CASE launched' = launched + 1
    BY <2>1, <2>2
  <2>3. CASE main' = "ended"
    BY <2>1, <2>3
  <2> QED BY <2>1, <2>2, <2>3
<1>4. CASE FillMaps \/ Top \/ Drain \/ Ask \/ Answered \/ PollFails \/ Dispatch \/ Awake
  BY <1>4 DEF FillMaps, Top, Drain, Ask, Answered, PollFails, Dispatch, Awake
<1>5. ASSUME NEW c \in Child, ChildStep(c) PROVE Unborn'
  <2>1. /\ UNCHANGED <<main, launched>> /\ at[c] # "none"
        /\ class' \subseteq class \cup {c}
        /\ \E w : w # "none" /\ at' = [at EXCEPT ![c] = w]
    BY <1>5 DEF ChildStep, Exec, Join, Wake, Yield, PrintAndSleep, Die, Ready
  <2>2. \A d \in Child : /\ d # c => at'[d] = at[d]
                         /\ at'[c] # "none"
    BY <2>1 DEF TypeOK
  <2>3. \A i \in DOMAIN Launch : Launch[i] \in Child
    BY LifecycleAssumption
  <2> QED BY <2>1, <2>2, <2>3
<1>6. CASE CtrlC \/ BoxStarts \/ BoxEnds \/ Vote \/ Eject \/ Tick
  BY <1>6 DEF CtrlC, BoxStarts, BoxEnds, Vote, Eject, Tick
<1>7. CASE UNCHANGED vars
  BY <1>7 DEF vars
<1> QED BY <1>1, <1>2, <1>3, <1>4, <1>5, <1>6, <1>7 DEF Next, MainStep

\* The one that main launches next does not exist yet.
LEMMA NextUnborn ==
  ASSUME TypeOK, Progress, Unborn, main = "launch"
  PROVE  Next1 \in Child /\ at[Next1] = "none" /\ Next1 \notin class
<1>1. launched < Len(Launch)
  BY DEF Progress, Launching
<1>2. launched + 1 \in DOMAIN Launch /\ launched + 1 > launched + 0
  BY <1>1, LifecycleAssumption DEF TypeOK
<1>3. Next1 \in Child
  BY <1>1, NextChild
<1> QED BY <1>2, <1>3 DEF Unborn, Begun, Next1

\* Whoever begins to wait for a dispatch announces it by a message.
LEMMA KnownStep ==
  ASSUME TypeOK, Progress, Unborn, HeldBackIsKnown, [Next]_vars
  PROVE  HeldBackIsKnown'
<1> USE DEF HeldBackIsKnown, HeldBack, Served, loop, clock, backend, program, box, others
<1>1. CASE SetHandler \/ Open \/ BuildRings \/ UseSchedExt \/ Spawned \/ FillMaps
           \/ Top \/ Ask \/ Answered \/ PollFails \/ Awake
  <2>1. UNCHANGED <<held, ejected, ring, at, class, granted>>
    BY <1>1 DEF SetHandler, Open, BuildRings, UseSchedExt, Spawned, FillMaps, Top, Ask,
                Answered, PollFails, Awake
  <2>2. attached' = attached \/ attached' = FALSE
    BY <1>1 DEF SetHandler, Open, BuildRings, UseSchedExt, Spawned, FillMaps, Top, Ask,
                Answered, PollFails, Awake, End
  <2> QED BY <2>1, <2>2
<1>2. CASE LoadAndAttach
  <2>1. class' = {}
    BY <1>2 DEF LoadAndAttach, Unborn, Starting, Attaching
  <2> QED BY <2>1
<1>3. CASE Spawn
  <2>1. CASE /\ at' = [at EXCEPT ![Next1] = "exec"] /\ UNCHANGED <<attached, ejected, held, granted>>
             /\ class' = IF inherits THEN class \cup {Next1} ELSE class
             /\ ring' = IF inherits THEN ring \cup Message(Next1) ELSE ring
    <3> SUFFICES ASSUME NEW c \in Child, HeldBack(c)' PROVE c \in ring' \cup held
      BY <2>1
    <3>1. CASE c = Next1 /\ inherits
      BY <2>1, <3>1 DEF Message
    <3>2. CASE c # Next1
      BY <2>1, <3>2 DEF TypeOK
    <3>3. CASE c = Next1 /\ ~inherits
      <4>1. c \in class /\ main = "launch"
        BY <1>3, <2>1, <3>3 DEF Spawn
      <4> QED BY <3>3, <4>1, NextUnborn
    <3> QED BY <3>1, <3>2, <3>3
  <2> QED BY <1>3, <2>1 DEF Spawn, End
<1>4. CASE Drain
  <2>1. UNCHANGED <<attached, ejected, at, class, granted>> /\ mapped = Programs
    BY <1>4 DEF Drain, Progress, Looping
  <2>2. ASSUME NEW c \in Child, HeldBack(c) PROVE c \in mapped
    BY <2>1, <2>2 DEF Unborn
  <2> QED BY <1>4, <2>1, <2>2 DEF Drain
<1>5. CASE Dispatch
  BY <1>5 DEF Dispatch
<1>6. ASSUME NEW c \in Child, ChildStep(c) PROVE HeldBackIsKnown'
  <2>1. /\ \A d \in Child : d # c => at'[d] = at[d] /\ (d \in class' \ granted' <=> d \in class \ granted)
        /\ ring \subseteq ring' /\ UNCHANGED <<held, attached, ejected>>
    BY <1>6 DEF TypeOK, ChildStep, Exec, Join, Wake, Yield, PrintAndSleep, Die, Off
  <2>2. HeldBack(c)' => c \in ring' \cup held
    <3>1. CASE Exec(c)
      BY <3>1 DEF Exec, CanRun, Ready
    <3>2. CASE Wake(c) \/ Yield(c)
      <4>1. ring' = ring \cup Message(c) /\ UNCHANGED <<attached, ejected>>
        BY <3>2 DEF Wake, Yield
      <4> QED BY <4>1 DEF Message
    <3>3. CASE Join(c) \/ PrintAndSleep(c) \/ Die(c)
      BY <3>3 DEF TypeOK, Join, PrintAndSleep, Die, Ready
    <3> QED BY <1>6, <3>1, <3>2, <3>3 DEF ChildStep
  <2> QED BY <2>1, <2>2
<1>7. CASE CtrlC \/ BoxStarts \/ BoxEnds \/ Vote \/ Eject \/ Tick
  <2>1. UNCHANGED <<held, ring, attached, at, class, granted>> /\ (ejected' = ejected \/ ejected')
    BY <1>7 DEF CtrlC, BoxStarts, BoxEnds, Vote, Eject, Tick
  <2> QED BY <2>1
<1>8. CASE UNCHANGED vars
  BY <1>8 DEF vars
<1> QED BY <1>1, <1>2, <1>3, <1>4, <1>5, <1>6, <1>7, <1>8 DEF Next, MainStep

\* A program that has the class from its launch is held back in its exec.
LEMMA StuckStep ==
  ASSUME TypeOK, Progress, Unborn, Stuck, [Next]_vars
  PROVE  Stuck'
<1> USE DEF Stuck, Served, Goto, End, Looping, Next1, loop, clock, backend, program, box, others
<1>1. CASE SetHandler \/ Open \/ BuildRings \/ UseSchedExt
  BY <1>1 DEF SetHandler, Open, BuildRings, UseSchedExt
<1>2. CASE LoadAndAttach
  <2>1. granted' = {} /\ main' \in {"rings", "ended"} /\ \A c \in Child : at'[c] = "none"
    BY <1>2 DEF LoadAndAttach, Unborn, Starting, Attaching, TypeOK
  <2> QED BY <2>1
<1>3. CASE Spawn
  <2>1. Next1 \in Child
    BY <1>3, NextChild DEF Spawn, Progress, Launching
  <2>2. CASE /\ main' = "spawning" /\ at' = [at EXCEPT ![Next1] = "exec"]
             /\ class' = IF inherits THEN class \cup {Next1} ELSE class
             /\ UNCHANGED <<attached, ejected, inherits, granted, launched>>
    <3>1. at'[Next1] = "exec" /\ \A c \in Child : c # Next1 => at'[c] = at[c]
      BY <2>1, <2>2 DEF TypeOK
    <3> QED BY <2>1, <2>2, <3>1
  <2>3. CASE attached' = FALSE
    BY <2>3
  <2> QED BY <1>3, <2>2, <2>3 DEF Spawn
<1>4. CASE Spawned \/ FillMaps \/ Top \/ Drain \/ Ask \/ Answered \/ PollFails \/ Dispatch \/ Awake
  <2>1. ~(inherits /\ Served)
    BY <1>4 DEF Spawned, FillMaps, Top, Drain, Ask, Answered, PollFails, Dispatch, Awake
  <2>2. ~(inherits /\ Served)'
    BY <1>4, <2>1 DEF Spawned, FillMaps, Top, Drain, Ask, Answered, PollFails, Dispatch, Awake
  <2> QED BY <2>2
<1>5. ASSUME NEW c \in Child, ChildStep(c) PROVE Stuck'
  <2>1. UNCHANGED <<main, launched, attached, ejected, inherits>>
    BY <1>5 DEF ChildStep, Exec, Join, Wake, Yield, PrintAndSleep, Die
  <2>2. ~(inherits /\ Served)
    BY <1>5 DEF ChildStep, Exec, Join, Wake, Yield, PrintAndSleep, Die, CanRun, HeldBack, Ready
  <2> QED BY <2>1, <2>2
<1>6. CASE CtrlC \/ BoxStarts \/ BoxEnds \/ Vote \/ Eject \/ Tick
  BY <1>6 DEF CtrlC, BoxStarts, BoxEnds, Vote, Eject, Tick
<1>7. CASE UNCHANGED vars
  BY <1>7 DEF vars
<1> QED BY <1>1, <1>2, <1>3, <1>4, <1>5, <1>6, <1>7 DEF Next, MainStep

LEMMA InvAlways == Spec => []Inv
<1>1. Inv /\ [Next]_vars => Inv'
  BY TypeStep, ProgressStep, UnbornStep, KnownStep, StuckStep DEF Inv
<1> QED BY <1>1, InvInit, PTL DEF Spec

-----------------------------------------------------------------------------
\* The state of main, the backend, the programs and the ballot box is well-typed.
THEOREM TypeCorrect == Spec => []TypeOK
<1>1. Inv => TypeOK
  BY DEF Inv
<1> QED BY <1>1, InvAlways, PTL

\* A program that only a dispatch can run is in the ring or in task_map.
THEOREM WaitersAlwaysKnown == Spec => []HeldBackIsKnown
<1>1. Inv => HeldBackIsKnown
  BY DEF Inv
<1> QED BY <1>1, InvAlways, PTL

\* With an inherited class, no program gets past its exec under the scheduler.
THEOREM LaunchAlwaysWaits == Spec => []LaunchWaitsForMain
<1>1. Inv => LaunchWaitsForMain
  BY DEF Inv, Stuck, LaunchWaitsForMain
<1> QED BY <1>1, InvAlways, PTL
-----------------------------------------------------------------------------
(***************************************************************************)
(* LeaderServed is about a few rounds at a time, of which these facts keep *)
(* count.  A program that waits is runnable.  Calm rounds are rounds of    *)
(* the loop.  When main polls after one, whoever has waited for a while is *)
(* in task_map.  While main pauses in one, the program it has polled has   *)
(* not waited yet.  And main is at most two calm rounds behind the votes,  *)
(* of which its sleep still has to take its share.                         *)
(***************************************************************************)
Pausing == (main = "asleep" /\ nap > 0) \/ (main = "top" /\ passed)
InTime  == Served /\ ~shutdown

WaitersReady == \A c \in Child : wait[c] > 0 => at[c] \in Ready
EarlySince   == main \in Starting \cup Launching \cup {"maps"} => ~passed /\ since = 0
KnownAtPoll  ==
  InTime /\ main \in {"poll", "polling"} /\ since > 0 =>
    \A c \in Child : HeldBack(c) /\ wait[c] > 0 => c \in held
NapShort     ==
  /\ main = "asleep" => (nap = 0 => ~passed) /\ (winner # Nobody => nap <= 1)
  /\ main \in {"drain", "poll", "polling"} => winner = Nobody
FreshPause   ==
  InTime /\ Pausing /\ winner # Nobody /\ HeldBack(winner) /\ since > 0 => wait[winner] = 0
LeaderLag    ==
  ~shutdown /\ winner # leader =>
    /\ main = "asleep" => since <= 2 - nap
    /\ main = "dispatch" \/ (main = "top" /\ passed) => since = 0

Timely == /\ WaitersReady /\ EarlySince /\ KnownAtPoll
          /\ NapShort /\ FreshPause /\ LeaderLag

\* What a step of a program does to it and to the others.
LEMMA ChildMoves ==
  ASSUME TypeOK, NEW c \in Child, ChildStep(c)
  PROVE  /\ UNCHANGED <<main, launched, mapped, held, winner, nap, passed, shutdown, attached,
                        ejected, inherits, leader, since>>
         /\ at[c] # "none" /\ at'[c] \notin {"none", "exec"}
         /\ wait'[c] = 0 \/ (wait' = wait /\ at[c] = "asleep" /\ at'[c] \in Ready)
         /\ class' \subseteq class \cup {c}
         /\ \A d \in Child : d # c => /\ at'[d] = at[d] /\ wait'[d] = wait[d]
                                      /\ HeldBack(d)' <=> HeldBack(d)
<1> USE DEF loop, clock, backend, program, box, others
<1>1. /\ UNCHANGED <<main, launched, mapped, held, winner, nap, passed, shutdown, attached,
                     ejected, inherits, leader, since>>
      /\ class' \subseteq class \cup {c}
  BY DEF ChildStep, Exec, Join, Wake, Yield, PrintAndSleep, Die
<1>2. /\ at[c] # "none"
      /\ \E w \in {"join", "failed", "asleep", "gone", "yield", "print"} : at' = [at EXCEPT ![c] = w]
  BY DEF ChildStep, Exec, Join, Wake, Yield, PrintAndSleep, Die, Ready
<1>3. \/ wait' = [wait EXCEPT ![c] = 0]
      \/ wait' = wait /\ at[c] = "asleep" /\ at' = [at EXCEPT ![c] = "yield"]
  BY DEF ChildStep, Exec, Join, Wake, Yield, PrintAndSleep, Die
<1>4. \A d \in Child : d # c => (d \in class' \ granted' <=> d \in class \ granted)
  BY DEF ChildStep, Exec, Join, Wake, Yield, PrintAndSleep, Die, Off
<1>5. \A d \in Child : d # c => at'[d] = at[d] /\ wait'[d] = wait[d]
  BY <1>2, <1>3 DEF TypeOK
<1>6. at'[c] \notin {"none", "exec"}
  BY <1>2 DEF TypeOK
<1>7. wait'[c] = 0 \/ (wait' = wait /\ at[c] = "asleep" /\ at'[c] \in Ready)
  BY <1>3 DEF TypeOK, Ready
<1>8. \A d \in Child : d # c => (HeldBack(d)' <=> HeldBack(d))
  BY <1>1, <1>4, <1>5 DEF HeldBack, Served
<1> QED BY <1>1, <1>2, <1>5, <1>6, <1>7, <1>8

LEMMA WaitersStep ==
  ASSUME TypeOK, WaitersReady, [Next]_vars
  PROVE  WaitersReady'
<1> USE DEF WaitersReady, loop, clock, backend, program, box, others
<1>1. CASE UNCHANGED <<at, wait>>
  BY <1>1
<1>2. CASE Spawn
  <2>1. wait' = wait /\ (at' = at \/ at' = [at EXCEPT ![Next1] = "exec"])
    BY <1>2 DEF Spawn
  <2> QED BY <2>1 DEF TypeOK, Ready
<1>3. ASSUME NEW c \in Child, ChildStep(c) PROVE WaitersReady'
  BY <1>3, ChildMoves
<1>4. CASE Tick
  BY <1>4 DEF Tick, HeldBack
<1>5. CASE \/ SetHandler \/ Open \/ LoadAndAttach \/ BuildRings \/ UseSchedExt \/ Spawned
           \/ FillMaps \/ Top \/ Drain \/ Ask \/ Answered \/ PollFails \/ Dispatch \/ Awake
  BY <1>1, <1>5 DEF SetHandler, Open, LoadAndAttach, BuildRings, UseSchedExt, Spawned,
                    FillMaps, Top, Drain, Ask, Answered, PollFails, Dispatch, Awake
<1>6. CASE CtrlC \/ BoxStarts \/ BoxEnds \/ Vote \/ Eject
  BY <1>1, <1>6 DEF CtrlC, BoxStarts, BoxEnds, Vote, Eject
<1>7. CASE UNCHANGED vars
  BY <1>1, <1>7 DEF vars
<1> QED BY <1>2, <1>3, <1>4, <1>5, <1>6, <1>7 DEF Next, MainStep

LEMMA EarlyStep ==
  ASSUME Inv, EarlySince, [Next]_vars
  PROVE  EarlySince'
<1> USE DEF EarlySince, Starting, Attaching, Launching, Goto, End,
            loop, clock, backend, program, box, others
<1>1. CASE UNCHANGED <<main, passed, since>>
  BY <1>1
<1>2. CASE \/ SetHandler \/ Open \/ LoadAndAttach \/ BuildRings \/ UseSchedExt \/ Spawn \/ Spawned
           \/ FillMaps
  BY <1>2 DEF SetHandler, Open, LoadAndAttach, BuildRings, UseSchedExt, Spawn, Spawned, FillMaps
<1>3. CASE Top \/ Drain \/ Ask \/ Answered \/ PollFails \/ Dispatch \/ Awake
  <2>1. main' \notin Starting \cup Launching \cup {"maps"}
    BY <1>3 DEF Top, Drain, Ask, Answered, PollFails, Dispatch, Awake
  <2> QED BY <2>1
<1>4. ASSUME NEW c \in Child, ChildStep(c) PROVE EarlySince'
  BY <1>1, <1>4, ChildMoves DEF Inv
<1>5. CASE CtrlC \/ Eject
  BY <1>1, <1>5 DEF CtrlC, Eject
<1>6. CASE BoxStarts \/ BoxEnds \/ Vote
  BY <1>6 DEF BoxStarts, BoxEnds, Vote
<1>7. CASE Tick
  BY <1>7 DEF Tick, MainWaits
<1>8. CASE UNCHANGED vars
  BY <1>1, <1>8 DEF vars
<1> QED BY <1>2, <1>3, <1>4, <1>5, <1>6, <1>7, <1>8 DEF Next, MainStep

\* In the loop the callbacks are installed already, if they are at all.
LEMMA Settled ==
  ASSUME Inv, [Next]_vars, main' \in Looping, InTime'
  PROVE  InTime
<1> USE DEF Looping, Goto, End, loop, clock, backend, program, box, others
<1>1. ~shutdown
  BY DEF InTime, Next, MainStep, vars, SetHandler, Open, LoadAndAttach, BuildRings, UseSchedExt,
         Spawn, Spawned, FillMaps, Top, Drain, Ask, Answered, PollFails, Dispatch, Awake, ChildStep, Exec, Join, Wake, Yield,
         PrintAndSleep, Die, CtrlC, BoxStarts, BoxEnds, Vote, Eject, Tick
<1>2. attached /\ ~ejected
  <2>1. attached' /\ ~ejected'
    BY DEF InTime, Served
  <2>2. CASE \E c \in Child : ChildStep(c)
    BY <2>1, <2>2, ChildMoves DEF Inv
  <2>3. CASE MainStep
    <3>1. CASE SetHandler \/ Open \/ LoadAndAttach \/ BuildRings \/ UseSchedExt
      BY <3>1 DEF SetHandler, Open, LoadAndAttach, BuildRings, UseSchedExt
    <3>2. CASE Spawn \/ Spawned \/ FillMaps \/ Top \/ Drain \/ Ask \/ Answered \/ PollFails \/ Dispatch \/ Awake
      <4>1. ejected' = ejected
        BY <3>2 DEF Spawn, Spawned, FillMaps, Top, Drain, Ask, Answered, PollFails, Dispatch, Awake
      <4>2. attached' = attached \/ attached' = FALSE
        BY <3>2 DEF Spawn, Spawned, FillMaps, Top, Drain, Ask, Answered, PollFails, Dispatch, Awake
      <4> QED BY <2>1, <4>1, <4>2
    <3> QED BY <2>3, <3>1, <3>2 DEF MainStep
  <2>4. CASE CtrlC \/ BoxStarts \/ BoxEnds \/ Vote \/ Eject \/ Tick \/ UNCHANGED vars
    <3>1. attached' = attached /\ (ejected' = ejected \/ ejected')
      BY <2>4 DEF CtrlC, BoxStarts, BoxEnds, Vote, Eject, Tick, vars
    <3> QED BY <2>1, <3>1 DEF Inv, TypeOK
  <2> QED BY <2>2, <2>3, <2>4 DEF Next
<1> QED BY <1>1, <1>2 DEF InTime, Served

LEMMA KnownAtPollStep ==
  ASSUME Inv, WaitersReady, KnownAtPoll, [Next]_vars
  PROVE  KnownAtPoll'
<1> SUFFICES ASSUME InTime', main' \in {"poll", "polling"}, since' > 0,
                    NEW c \in Child, HeldBack(c)', wait'[c] > 0
             PROVE  c \in held'
  BY DEF KnownAtPoll
<1> USE DEF Goto, End, loop, clock, backend, program, box, others
<1>0. InTime
  BY Settled DEF Looping
<1>1. CASE main \in {"poll", "polling"} /\ UNCHANGED <<held, attached, ejected, at, class, granted, wait, since>>
  <2>1. HeldBack(c) /\ wait[c] > 0
    BY <1>1 DEF HeldBack, Served
  <2> QED BY <1>0, <1>1, <2>1 DEF KnownAtPoll
<1>2. CASE Drain
  <2>1. ring = {} /\ UNCHANGED <<held, attached, ejected, at, class, granted>>
    BY <1>2 DEF Drain
  <2>2. HeldBack(c)
    BY <2>1 DEF HeldBack, Served
  <2> QED BY <2>1, <2>2 DEF Inv, HeldBackIsKnown
<1>3. CASE Ask
  BY <1>1, <1>3 DEF Ask
<1>4. ASSUME NEW d \in Child, ChildStep(d) PROVE c \in held'
  <2>1. UNCHANGED <<main, held, since>>
    BY <1>4, ChildMoves DEF Inv
  <2>2. CASE c # d
    BY <1>0, <1>4, <2>1, <2>2, ChildMoves DEF Inv, KnownAtPoll
  <2>3. CASE c = d
    <3>1. wait'[c] = 0 \/ (wait' = wait /\ at[c] = "asleep")
      BY <1>4, <2>3, ChildMoves DEF Inv
    <3>2. FALSE
      BY <3>1 DEF WaitersReady, Ready
    <3> QED BY <3>2
  <2> QED BY <2>2, <2>3
<1>5. CASE \/ SetHandler \/ Open \/ LoadAndAttach \/ BuildRings \/ UseSchedExt \/ Spawn \/ Spawned
           \/ FillMaps \/ Top \/ Answered \/ PollFails \/ Dispatch \/ Awake
  <2>1. main' \notin {"poll", "polling"}
    BY <1>5 DEF SetHandler, Open, LoadAndAttach, BuildRings, UseSchedExt, Spawn, Spawned, FillMaps,
                Top, Answered, PollFails, Dispatch, Awake
  <2> QED BY <2>1
<1>6. CASE Tick
  BY <1>6 DEF Tick, MainWaits
<1>7. CASE BoxStarts \/ BoxEnds \/ Vote
  BY <1>7 DEF BoxStarts, BoxEnds, Vote
<1>8. CASE CtrlC \/ Eject
  BY <1>8 DEF CtrlC, Eject, InTime, Served
<1>9. CASE UNCHANGED vars
  BY <1>1, <1>9 DEF vars
<1> QED BY <1>2, <1>3, <1>4, <1>5, <1>6, <1>7, <1>8, <1>9 DEF Next, MainStep

LEMMA NapShortStep ==
  ASSUME Inv, NapShort, [Next]_vars
  PROVE  NapShort'
<1> USE DEF NapShort, Goto, End, loop, clock, backend, program, box, others
<1>1. CASE UNCHANGED <<main, nap, passed, winner>>
  BY <1>1
<1>2. CASE Ask \/ Answered \/ PollFails \/ Dispatch
  BY <1>2 DEF Ask, Answered, PollFails, Dispatch
<1>3. CASE Tick
  <2>1. /\ ~passed' /\ UNCHANGED <<main, winner>>
        /\ nap' = IF nap = 0 THEN 0 ELSE nap - 1
        /\ nap \in 0..2
    BY <1>3 DEF Tick, Inv, TypeOK
  <2> QED BY <2>1
<1>4. CASE Top \/ Drain
  BY <1>4 DEF Top, Drain
<1>5. CASE \/ SetHandler \/ Open \/ LoadAndAttach \/ BuildRings \/ UseSchedExt \/ Spawn \/ Spawned
           \/ FillMaps \/ Awake
  <2>1. main' \notin {"asleep", "drain", "poll", "polling"}
    BY <1>5 DEF SetHandler, Open, LoadAndAttach, BuildRings, UseSchedExt, Spawn, Spawned, FillMaps,
                Awake
  <2> QED BY <2>1
<1>6. ASSUME NEW c \in Child, ChildStep(c) PROVE UNCHANGED <<main, nap, passed, winner>>
  BY <1>6, ChildMoves DEF Inv
<1>7. CASE CtrlC \/ BoxStarts \/ BoxEnds \/ Vote \/ Eject
  BY <1>1, <1>7 DEF CtrlC, BoxStarts, BoxEnds, Vote, Eject
<1>8. CASE UNCHANGED vars
  BY <1>1, <1>8 DEF vars
<1> QED BY <1>1, <1>2, <1>3, <1>4, <1>5, <1>6, <1>7, <1>8 DEF Next, MainStep

LEMMA FreshPauseStep ==
  ASSUME Inv, WaitersReady, EarlySince, KnownAtPoll, NapShort, FreshPause, [Next]_vars
  PROVE  FreshPause'
<1> SUFFICES ASSUME InTime', Pausing', winner' # Nobody, HeldBack(winner)', since' > 0
             PROVE  wait'[winner'] = 0
  BY DEF FreshPause
<1> USE DEF Goto, End, loop, clock, backend, program, box, others
<1>0. InTime
  BY Settled DEF Looping, Pausing
<1>a. winner' \in Child /\ wait \in [Child -> 0..(Patience + 1)] /\ Patience \in Nat
  BY TypeStep, LifecycleAssumption DEF Inv, TypeOK
<1>1. CASE UNCHANGED <<main, nap, passed, winner, attached, ejected, at, class, granted, wait, since>>
  <2>1. Pausing /\ HeldBack(winner)
    BY <1>1 DEF Pausing, HeldBack, Served
  <2> QED BY <1>0, <1>1, <2>1 DEF FreshPause
<1>2. CASE Answered
  <2>1. /\ winner' = leader /\ leader \notin held /\ main = "polling"
        /\ UNCHANGED <<attached, ejected, at, class, granted, wait, since>>
    BY <1>2 DEF Answered, Pausing
  <2>2. HeldBack(leader)
    BY <2>1 DEF HeldBack, Served
  <2>3. ~(wait[leader] > 0)
    BY <1>0, <1>a, <2>1, <2>2 DEF KnownAtPoll
  <2> QED BY <1>a, <2>1, <2>3
<1>3. CASE Dispatch
  <2>1. /\ UNCHANGED <<winner, attached, ejected, at, class>>
        /\ granted' = IF HeldBack(winner) THEN granted \cup {winner} ELSE granted
    BY <1>3 DEF Dispatch
  <2> QED BY <2>1 DEF HeldBack, Served
<1>4. CASE Tick
  <2>1. /\ ~passed' /\ UNCHANGED <<main, winner>> /\ main \in {"asleep", "top"}
        /\ nap' = IF nap = 0 THEN 0 ELSE nap - 1
    BY <1>4 DEF Tick, Pausing
  <2>2. nap \in 0..2 /\ main = "asleep" /\ nap > 1
    BY <2>1 DEF Pausing, Inv, TypeOK
  <2> QED BY <2>1, <2>2 DEF NapShort
<1>5. CASE FillMaps \/ Awake
  <2>1. ~passed /\ passed' = passed /\ main' # "asleep"
    BY <1>5 DEF FillMaps, Awake, EarlySince, NapShort
  <2> QED BY <2>1 DEF Pausing
<1>6. CASE PollFails
  BY <1>6 DEF PollFails
<1>7. CASE \/ SetHandler \/ Open \/ LoadAndAttach \/ BuildRings \/ UseSchedExt \/ Spawn \/ Spawned
           \/ Top \/ Drain \/ Ask
  <2>1. main' \notin {"asleep", "top"}
    BY <1>0, <1>7 DEF SetHandler, Open, LoadAndAttach, BuildRings, UseSchedExt, Spawn, Spawned,
                Top, Drain, Ask, InTime
  <2> QED BY <2>1 DEF Pausing
<1>8. ASSUME NEW c \in Child, ChildStep(c) PROVE wait'[winner'] = 0
  <2>1. UNCHANGED <<main, nap, passed, winner, since>>
    BY <1>8, ChildMoves DEF Inv
  <2>2. CASE c # winner
    <3>1. Pausing /\ HeldBack(winner) /\ wait'[winner] = wait[winner]
      BY <1>8, <1>a, <2>1, <2>2, ChildMoves DEF Inv, Pausing
    <3> QED BY <1>0, <2>1, <3>1 DEF FreshPause
  <2>3. CASE c = winner
    <3>1. wait'[c] = 0 \/ (wait' = wait /\ at[c] = "asleep")
      BY <1>8, ChildMoves DEF Inv
    <3>2. at[c] = "asleep" => wait[c] = 0
      BY <1>a DEF WaitersReady, Ready
    <3> QED BY <2>1, <2>3, <3>1, <3>2
  <2> QED BY <2>2, <2>3
<1>9. CASE BoxStarts \/ BoxEnds \/ Vote
  BY <1>9 DEF BoxStarts, BoxEnds, Vote
<1>10. CASE CtrlC \/ Eject
  BY <1>10 DEF CtrlC, Eject, InTime, Served
<1>11. CASE UNCHANGED vars
  BY <1>1, <1>11 DEF vars
<1> QED BY <1>2, <1>3, <1>4, <1>5, <1>6, <1>7, <1>8, <1>9, <1>10, <1>11 DEF Next, MainStep

LEMMA LeaderLagStep ==
  ASSUME Inv, EarlySince, NapShort, LeaderLag, [Next]_vars
  PROVE  LeaderLag'
<1> SUFFICES ASSUME ~shutdown', winner' # leader'
             PROVE  /\ main' = "asleep" => since' <= 2 - nap'
                    /\ main' = "dispatch" \/ (main' = "top" /\ passed') => since' = 0
  BY DEF LeaderLag
<1> USE DEF Goto, End, loop, clock, backend, program, box, others
<1>a. since \in Nat /\ nap \in 0..2
  BY LifecycleAssumption DEF Inv, TypeOK
<1>0. ~shutdown
  BY DEF Next, MainStep, vars, SetHandler, Open, LoadAndAttach, BuildRings, UseSchedExt,
         Spawn, Spawned, FillMaps, Top, Drain, Ask, Answered, PollFails, Dispatch, Awake,
         ChildStep, Exec, Join, Wake, Yield, PrintAndSleep, Die, CtrlC, BoxStarts, BoxEnds,
         Vote, Eject, Tick
<1>1. CASE UNCHANGED <<main, nap, passed, winner, leader, since>>
  BY <1>0, <1>1 DEF LeaderLag
<1>2. CASE FillMaps
  BY <1>2 DEF FillMaps, EarlySince
<1>3. CASE Top
  <2>1. main' = "drain"
    BY <1>0, <1>3 DEF Top
  <2> QED BY <2>1
<1>4. CASE Drain \/ Ask \/ Answered
  BY <1>4 DEF Drain, Ask, Answered
<1>5. CASE PollFails
  BY <1>5 DEF PollFails
<1>6. CASE Dispatch
  <2>1. /\ main = "dispatch" /\ main' = "asleep" /\ nap' = 1
        /\ UNCHANGED <<since, winner, leader>>
    BY <1>6 DEF Dispatch
  <2> QED BY <1>0, <2>1 DEF LeaderLag
<1>7. CASE Awake
  <2>1. main' = "top" /\ ~passed /\ passed' = passed
    BY <1>7 DEF Awake, NapShort
  <2> QED BY <2>1
<1>8. CASE Tick
  <2>1. /\ ~passed' /\ UNCHANGED <<main, winner, leader>>
        /\ nap' = IF nap = 0 THEN 0 ELSE nap - 1
        /\ since' \in {0, since, since + 1}
        /\ main = "asleep" => nap > 0
        /\ main # "dispatch"
    BY <1>8 DEF Tick, MainWaits
  <2>2. main' = "asleep" => since' <= 2 - nap'
    BY <1>0, <1>a, <2>1 DEF LeaderLag
  <2> QED BY <2>1, <2>2
<1>9. ASSUME NEW c \in Child, ChildStep(c)
      PROVE  UNCHANGED <<main, nap, passed, winner, leader, since>>
  BY <1>9, ChildMoves DEF Inv
<1>10. CASE BoxStarts \/ BoxEnds \/ Vote
  <2>1. since' = 0 /\ nap' = nap
    BY <1>10 DEF BoxStarts, BoxEnds, Vote
  <2> QED BY <1>a, <2>1
<1>11. CASE CtrlC \/ Eject
  BY <1>1, <1>11 DEF CtrlC, Eject
<1>12. CASE \/ SetHandler \/ Open \/ LoadAndAttach \/ BuildRings \/ UseSchedExt \/ Spawn \/ Spawned
  <2>1. main' \notin {"asleep", "dispatch", "top"}
    BY <1>12 DEF SetHandler, Open, LoadAndAttach, BuildRings, UseSchedExt, Spawn, Spawned
  <2> QED BY <2>1
<1>13. CASE UNCHANGED vars
  BY <1>1, <1>13 DEF vars
<1> QED BY <1>1, <1>2, <1>3, <1>4, <1>5, <1>6, <1>7, <1>8, <1>9, <1>10, <1>11, <1>12, <1>13
        DEF Next, MainStep

\* The round that LeaderServed allows: of all steps only the end of a round counts.
LEMMA ServedStep ==
  ASSUME Grace >= 3, Inv, Timely, LeaderServed, [Next]_vars
  PROVE  LeaderServed'
<1> SUFFICES ASSUME InTime', Started', NEW c \in Child, leader' = c, since' = Grace
             PROVE  wait'[c] <= 1
  BY DEF LeaderServed, InTime
<1> USE DEF Timely, Goto, End, loop, clock, backend, program, box, others
<1>a. /\ Grace \in Nat /\ since \in Nat /\ nap \in 0..2
      /\ wait \in [Child -> 0..(Patience + 1)] /\ wait[c] \in Nat /\ c # Nobody
  BY LifecycleAssumption DEF Inv, TypeOK
<1>0. main' \in Looping
  <2>1. Progress' /\ TypeOK' /\ Len(Launch) \in Nat
    BY TypeStep, ProgressStep, LifecycleAssumption DEF Inv
  <2>2. main' # "maps"
    BY <1>a, EarlyStep DEF EarlySince
  <2> QED BY <2>1, <2>2 DEF Progress, Started, TypeOK, Point, Starting, Attaching, Launching, Looping
<1>b. InTime
  BY <1>0, Settled
<1>1. CASE UNCHANGED <<launched, leader, since>> /\ (wait'[c] = wait[c] \/ wait'[c] = 0)
  BY <1>1, <1>a, <1>b DEF LeaderServed, InTime, Started
<1>2. CASE FillMaps \/ Top \/ Drain \/ Ask \/ Answered \/ Dispatch \/ Awake
  BY <1>1, <1>2 DEF FillMaps, Top, Drain, Ask, Answered, Dispatch, Awake
<1>3. CASE \/ SetHandler \/ Open \/ LoadAndAttach \/ BuildRings \/ UseSchedExt \/ Spawn
           \/ Spawned \/ PollFails
  <2>1. main' \notin Looping \/ since' = 0
    BY <1>3 DEF SetHandler, Open, LoadAndAttach, BuildRings, UseSchedExt, Spawn, Spawned, PollFails,
                Looping
  <2> QED BY <1>0, <1>a, <2>1
<1>4. ASSUME NEW d \in Child, ChildStep(d) PROVE wait'[c] <= 1
  <2>1. wait'[c] = wait[c] \/ wait'[c] = 0
    BY <1>4, ChildMoves DEF Inv
  <2>2. UNCHANGED <<launched, leader, since>>
    BY <1>4, ChildMoves DEF Inv
  <2> QED BY <1>1, <2>1, <2>2
<1>5. CASE BoxStarts \/ BoxEnds \/ Vote
  <2>1. since' = 0
    BY <1>5 DEF BoxStarts, BoxEnds, Vote
  <2> QED BY <1>a, <2>1
<1>6. CASE Tick
  <2>1. /\ UNCHANGED <<main, launched, winner, leader>>
        /\ main \notin {"ended", "spawning", "polling"} /\ ~shutdown
        /\ since' \in {since, since + 1}
        /\ wait'[c] = IF HeldBack(c) THEN wait[c] + 1 ELSE 0
    BY <1>6, <1>a, <1>b DEF Tick, InTime
  <2>2. Pausing
    BY <1>6, <2>1 DEF Tick, MainWaits, Pausing
  <2>3. since >= 2
    BY <1>a, <2>1
  <2>4. winner = c
    BY <1>a, <2>1, <2>2, <2>3 DEF LeaderLag, Pausing
  <2>5. HeldBack(c) => wait[c] = 0
    <3>1. winner # Nobody /\ since > 0
      BY <1>a, <2>3, <2>4
    <3> QED BY <1>b, <2>2, <2>4, <3>1 DEF FreshPause
  <2> QED BY <1>a, <2>1, <2>5
<1>7. CASE CtrlC \/ Eject \/ UNCHANGED vars
  BY <1>1, <1>7 DEF CtrlC, Eject, vars
<1> QED BY <1>2, <1>3, <1>4, <1>5, <1>6, <1>7 DEF Next, MainStep

LEMMA TimelyInit == Init => Timely /\ LeaderServed
BY DEF Init, Timely, WaitersReady, EarlySince, KnownAtPoll, NapShort, FreshPause,
       LeaderLag, LeaderServed, Pausing, InTime, Served, Looping

(***************************************************************************)
(* For every patience of the watchdog and any number of programs: after    *)
(* three calm rounds, without a new vote, a failed poll or a slow one, the *)
(* one whom the votes name waits for one round at most.                    *)
(***************************************************************************)
THEOREM LeaderAlwaysServed ==
  ASSUME Grace >= 3
  PROVE  Spec => []LeaderServed
<1>1. Inv /\ Timely /\ [Next]_vars => Timely'
  BY WaitersStep, EarlyStep, KnownAtPollStep, NapShortStep, FreshPauseStep,
     LeaderLagStep DEF Timely, Inv
<1>2. Inv /\ Timely /\ LeaderServed /\ [Next]_vars => LeaderServed'
  BY ServedStep
<1> QED BY <1>1, <1>2, TimelyInit, InvAlways, PTL DEF Spec
=============================================================================
