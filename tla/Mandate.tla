------------------------------- MODULE Mandate -------------------------------
(***************************************************************************)
(* What the vote-driven scheduler promises, without rings, buffers,        *)
(* generations or CPUs: a program that waits for the scheduler gets to run *)
(* only on an order, an order is only ever given to the program of the     *)
(* candidate that the last poll named, and the one way around that is a    *)
(* ring to user space that is full.  Orders may be lost, come late and be  *)
(* given again.  Democracy.tla implements it.                              *)
(***************************************************************************)
CONSTANTS
  Program,          \* threads that wait for the scheduler
  Candidate, Owner, \* whose program is whose
  Leads,            \* candidates that a poll may name
  NoWinner          \* a poll that named none

VARIABLES
  leader,           \* what the last poll named
  ordered,          \* programs of which an order is on its way
  place,            \* where each program is
  congested         \* the ring to user space is full

vars == <<leader, ordered, place, congested>>

Place == {"away", "waiting", "granted", "running"}

Init ==
  /\ leader = NoWinner
  /\ ordered = {}
  /\ place = [p \in Program |-> "away"]
  /\ congested = FALSE

Poll ==
  /\ leader' \in Leads \cup {NoWinner}
  /\ UNCHANGED <<ordered, place>>

Order ==
  /\ leader \in Leads
  /\ ordered' = ordered \cup {Owner[leader]}
  /\ UNCHANGED <<leader, place>>

\* Orders take effect for the programs in P; with P = {} some lapse.
Grant(P) ==
  /\ \A p \in P : p \in ordered /\ place[p] = "waiting"
  /\ ordered' \subseteq ordered
  /\ place' = [p \in Program |-> IF p \in P THEN "granted" ELSE place[p]]
  /\ UNCHANGED leader

\* p becomes runnable, or is taken off where it waits and enqueued again.
Ready(p) ==
  /\ place' = [place EXCEPT ![p] = IF congested THEN "granted" ELSE "waiting"]
  /\ ordered' \subseteq ordered
  /\ UNCHANGED leader

Run(p) ==
  /\ place[p] = "granted"
  /\ place' = [place EXCEPT ![p] = "running"]
  /\ UNCHANGED <<leader, ordered>>

\* p is interrupted and keeps the right to run that it was given.
Preempt(p) ==
  /\ place[p] = "running"
  /\ place' = [place EXCEPT ![p] = "granted"]
  /\ UNCHANGED <<leader, ordered>>

Leave(p) ==
  /\ place[p] = "running"
  /\ place' = [place EXCEPT ![p] = "away"]
  /\ UNCHANGED <<leader, ordered>>

Next ==
  /\ congested' \in BOOLEAN
  /\ \/ Poll \/ Order
     \/ \E P \in SUBSET Program : Grant(P)
     \/ \E p \in Program : Ready(p) \/ Run(p) \/ Preempt(p) \/ Leave(p)

Spec == Init /\ [][Next]_vars
=============================================================================
