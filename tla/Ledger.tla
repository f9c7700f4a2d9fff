------------------------------- MODULE Ledger --------------------------------
(***************************************************************************)
(* What the ballot box promises its voters, without counters, locks or a   *)
(* map of last seconds.  A vote is admitted unless its address was already *)
(* admitted in the same second, and turned away only then; an address that *)
(* does not wait for its answers may be admitted twice, and a request of   *)
(* it die when a later one was admitted first.  What is admitted and valid *)
(* counts, once and for good.  A report names for each candidate the       *)
(* number of votes that count at some moment between the request and its   *)
(* answer, the voter's own among them.  BallotBox.tla implements it.       *)
(***************************************************************************)
EXTENDS Naturals, FiniteSets

CONSTANTS
  Request, Candidate, Ballot, From, Hasty, Spoiled, Poll,  \* as in BallotBox
  Never             \* not yet: no second, no count, no answer

VARIABLES
  clock,
  second,           \* when each vote was cast
  came,             \* requests that have reached the ballot box
  admitted,         \* votes that were let through
  counted,          \* votes that count
  told,             \* what each request has been told of each candidate
  answer

vars == <<clock, second, came, admitted, counted, told, answer>>

Init ==
  /\ clock = 0
  /\ second = [r \in Request |-> Never]
  /\ came = {} /\ admitted = {} /\ counted = {}
  /\ told = [r \in Request |-> [c \in Candidate |-> Never]]
  /\ answer = [r \in Request |-> Never]

Tick ==
  /\ clock' = clock + 1
  /\ UNCHANGED <<second, came, admitted, counted, told, answer>>

Come(r) ==
  /\ r \notin came
  /\ came' = came \cup {r}
  /\ second' = IF Ballot[r] = Poll THEN second ELSE [second EXCEPT ![r] = clock]
  /\ UNCHANGED <<clock, admitted, counted, told, answer>>

SecondTaken(r) == \E q \in admitted : From[q] = From[r] /\ second[q] = second[r]
Undecided(r) == r \in came \ admitted /\ Ballot[r] # Poll /\ answer[r] = Never

Admit(r) ==
  /\ Undecided(r)
  /\ From[r] \in Hasty \/ ~SecondTaken(r)
  /\ admitted' = admitted \cup {r}
  /\ UNCHANGED <<clock, second, came, counted, told, answer>>

TurnAway(r) ==
  /\ Undecided(r) /\ SecondTaken(r)
  /\ answer' = [answer EXCEPT ![r] = "too_many"]
  /\ UNCHANGED <<clock, second, came, admitted, counted, told>>

\* A vote of the same address that was cast later was let through before.
Overtaken(r) ==
  /\ Undecided(r) /\ From[r] \in Hasty
  /\ \E q \in admitted : From[q] = From[r] /\ second[q] > second[r]
  /\ answer' = [answer EXCEPT ![r] = "panicked"]
  /\ UNCHANGED <<clock, second, came, admitted, counted, told>>

Reject(r) ==
  /\ r \in admitted /\ Ballot[r] = Spoiled /\ answer[r] = Never
  /\ answer' = [answer EXCEPT ![r] = "bad_vote"]
  /\ UNCHANGED <<clock, second, came, admitted, counted, told>>

Count(r) ==
  /\ r \in admitted \ counted /\ Ballot[r] \in Candidate
  /\ counted' = counted \cup {r}
  /\ UNCHANGED <<clock, second, came, admitted, told, answer>>

VotesFor(c) == {r \in counted : Ballot[r] = c}
Tell(r, c) ==
  /\ r \in counted \/ (r \in came /\ Ballot[r] = Poll)
  /\ answer[r] = Never /\ told[r][c] = Never
  /\ told' = [told EXCEPT ![r][c] = Cardinality(VotesFor(c))]
  /\ answer' = IF \A d \in Candidate \ {c} : told[r][d] # Never
               THEN [answer EXCEPT ![r] = "tallied"] ELSE answer
  /\ UNCHANGED <<clock, second, came, admitted, counted>>

Next ==
  \/ Tick
  \/ \E r \in Request : \/ Come(r) \/ Admit(r) \/ TurnAway(r) \/ Overtaken(r) \/ Reject(r)
                        \/ Count(r)
                        \/ \E c \in Candidate : Tell(r, c)
Spec == Init /\ [][Next]_vars
==============================================================================
