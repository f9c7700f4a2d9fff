----------------------------- MODULE BallotBox ------------------------------
(***************************************************************************)
(* The vote server (ballot_box/src/main.rs): requests that the runtime     *)
(* serves in parallel, the two counters, the rate limiter and the clock.   *)
(* A request is one call of vote_handler, or of votes_handler when its     *)
(* ballot is Poll.                                                         *)
(***************************************************************************)
EXTENDS Integers, FiniteSets, Sequences

CONSTANTS
  Request,
  Candidate,
  Ip,
  Ballot,           \* what each request asks: a candidate, Spoiled or Poll
  From,             \* the address each request comes from
  Spoiled,          \* a vote that check_vote rejects
  Poll,             \* GET /api/votes
  Never,            \* no entry of the rate limiter, nothing loaded
  Hasty,            \* the addresses that do not wait for one answer before they ask again
  OverflowChecks,   \* the dev profile, where u64 subtraction panics
  Modulus,          \* 2^64 of the release profile, where it wraps
  MaxClock          \* bound of the model: seconds of the run

ASSUME RequestAssumption ==
  /\ Ballot \in [Request -> Candidate \cup {Spoiled, Poll}]
  /\ From \in [Request -> Ip] /\ Hasty \subseteq Ip
  /\ Spoiled \notin Candidate /\ Poll \notin Candidate /\ Spoiled # Poll
ASSUME ClockAssumption ==
  /\ MaxClock \in Nat /\ Modulus \in Nat /\ MaxClock < Modulus
  /\ Never \notin Nat
ASSUME BuildAssumption == OverflowChecks \in BOOLEAN

VARIABLES
  clock,            \* chrono::Utc::now().timestamp()
  votes,            \* AppContext: summer1_votes, summer2_votes
  rate_limiter,     \* AppContext: the second of the last request, by address
  guards,           \* requests that hold the read guard of DashMap::get
  at,               \* the next statement of each request
  epoch_seconds,    \* local of each request
  tally,            \* what each request has loaded of the counters
  arrival           \* history: the counters when the request arrived

vars == <<clock, votes, rate_limiter, guards, at, epoch_seconds, tally, arrival>>

Points  == {"outside", "lookup", "compare", "stamp", "check", "add", "load"}
Answers == {"tallied", "too_many", "bad_vote", "panicked"}
Inside(r) == at[r] \in Points \ {"outside"}
Goto(r, point) == at' = [at EXCEPT ![r] = point]

Init ==
  /\ clock = 0
  /\ votes = [c \in Candidate |-> 0]
  /\ rate_limiter = [a \in Ip |-> Never]
  /\ guards = {}
  /\ at = [r \in Request |-> "outside"]
  /\ epoch_seconds = [r \in Request |-> 0]
  /\ tally = [r \in Request |-> [c \in Candidate |-> Never]]
  /\ arrival = [r \in Request |-> votes]

Tick ==
  /\ clock < MaxClock
  /\ clock' = clock + 1
  /\ UNCHANGED <<votes, rate_limiter, guards, at, epoch_seconds, tally, arrival>>

\* The request is routed to its handler; vote_handler reads the clock first.
Arrive(r) ==
  /\ at[r] = "outside"
  /\ From[r] \in Hasty \/ \A q \in Request : Inside(q) => From[q] # From[r]
  /\ arrival' = [arrival EXCEPT ![r] = votes]
  /\ IF Ballot[r] = Poll
     THEN Goto(r, "load") /\ UNCHANGED epoch_seconds
     ELSE Goto(r, "lookup") /\ epoch_seconds' = [epoch_seconds EXCEPT ![r] = clock]
  /\ UNCHANGED <<clock, votes, rate_limiter, guards, tally>>

\* rate_limiter.get: an entry comes with a guard that locks its shard for readers.
Lookup(r) ==
  /\ at[r] = "lookup"
  /\ IF rate_limiter[From[r]] = Never
     THEN Goto(r, "stamp") /\ UNCHANGED guards
     ELSE Goto(r, "compare") /\ guards' = guards \cup {r}
  /\ UNCHANGED <<clock, votes, rate_limiter, epoch_seconds, tally, arrival>>

\* mutant: the guard lives to the end of the handler
CompareKeepsGuard(r) ==
  /\ at[r] = "compare"
  /\ LET elapsed == epoch_seconds[r] - rate_limiter[From[r]] IN
     Goto(r, IF elapsed < 0 /\ OverflowChecks THEN "panicked"
             ELSE IF elapsed % Modulus < 1 THEN "too_many"
             ELSE "stamp")
  /\ UNCHANGED <<clock, votes, rate_limiter, guards, epoch_seconds, tally, arrival>>
\* epoch_seconds - last_request_time < 1; the guard is dropped after the if let.
Compare(r) ==
  /\ at[r] = "compare"
  /\ guards' = guards \ {r}
  /\ LET elapsed == epoch_seconds[r] - rate_limiter[From[r]] IN
     Goto(r, IF elapsed < 0 /\ OverflowChecks THEN "panicked"
             ELSE IF elapsed % Modulus < 1 THEN "too_many"
             ELSE "stamp")
  /\ UNCHANGED <<clock, votes, rate_limiter, epoch_seconds, tally, arrival>>

\* mutant: the limiter keeps the second from which the address may vote again
StampNext(r) ==
  /\ at[r] = "stamp"
  /\ guards = {}
  /\ rate_limiter' = [rate_limiter EXCEPT ![From[r]] = epoch_seconds[r] + 1]
  /\ Goto(r, "check")
  /\ UNCHANGED <<clock, votes, guards, epoch_seconds, tally, arrival>>
\* entry(..).and_modify(..).or_insert(..) waits for the guards of the shard.
Stamp(r) ==
  /\ at[r] = "stamp"
  /\ guards = {}
  /\ rate_limiter' = [rate_limiter EXCEPT ![From[r]] = epoch_seconds[r]]
  /\ Goto(r, "check")
  /\ UNCHANGED <<clock, votes, guards, epoch_seconds, tally, arrival>>

\* mutant: the answer is made before the vote is added
CheckVoteAnswers(r) ==
  /\ at[r] = "check"
  /\ Goto(r, IF Ballot[r] = Spoiled THEN "bad_vote" ELSE "load")
  /\ UNCHANGED <<clock, votes, rate_limiter, guards, epoch_seconds, tally, arrival>>
\* check_vote, after the address has spent its second.
CheckVote(r) ==
  /\ at[r] = "check"
  /\ Goto(r, IF Ballot[r] = Spoiled THEN "bad_vote" ELSE "add")
  /\ UNCHANGED <<clock, votes, rate_limiter, guards, epoch_seconds, tally, arrival>>

\* mutant: the counter is stored from what the handler has seen of it
AddStale(r) ==
  /\ at[r] = "add"
  /\ votes' = [votes EXCEPT ![Ballot[r]] = arrival[r][Ballot[r]] + 1]
  /\ Goto(r, "load")
  /\ UNCHANGED <<clock, rate_limiter, guards, epoch_seconds, tally, arrival>>
\* fetch_add
Add(r) ==
  /\ at[r] = "add"
  /\ votes' = [votes EXCEPT ![Ballot[r]] = @ + 1]
  /\ Goto(r, "load")
  /\ UNCHANGED <<clock, rate_limiter, guards, epoch_seconds, tally, arrival>>

\* A Relaxed load of one counter; nothing orders the loads of different counters.
Load(r, c) ==
  /\ at[r] = "load"
  /\ tally[r][c] = Never
  /\ tally' = [tally EXCEPT ![r][c] = votes[c]]
  /\ Goto(r, IF \A d \in Candidate \ {c} : tally[r][d] # Never THEN "tallied" ELSE "load")
  /\ UNCHANGED <<clock, votes, rate_limiter, guards, epoch_seconds, arrival>>

Handle(r) == \/ Lookup(r) \/ Compare(r) \/ Stamp(r) \/ CheckVote(r) \/ Add(r)
             \/ \E c \in Candidate : Load(r, c)

Next == Tick \/ \E r \in Request : Arrive(r) \/ Handle(r)
Spec == Init /\ [][Next]_vars
\* A handler has no await: once on a worker thread it goes on when its locks allow.
FairSpec == Spec /\ \A r \in Request : WF_vars(Handle(r))

-----------------------------------------------------------------------------
TypeOK ==
  /\ clock \in 0..MaxClock
  /\ votes \in [Candidate -> Nat]
  /\ rate_limiter \in [Ip -> 0..MaxClock \cup {Never}]
  /\ guards \subseteq Request
  /\ at \in [Request -> Points \cup Answers]
  /\ epoch_seconds \in [Request -> 0..MaxClock]
  /\ tally \in [Request -> [Candidate -> Nat \cup {Never}]]
  /\ arrival \in [Request -> [Candidate -> Nat]]

(***************************************************************************)
(* Every count that a request reports is one the counter had while the     *)
(* request was in the server, and a voter sees the vote just cast.         *)
(***************************************************************************)
ReportIsCurrent ==
  \A r \in Request : \A c \in Candidate : tally[r][c] # Never =>
    /\ arrival[r][c] <= tally[r][c] /\ tally[r][c] <= votes[c]
    /\ Ballot[r] = c => arrival[r][c] < tally[r][c]

(***************************************************************************)
(* The rate limit as its answer states it, one vote per address and        *)
(* second: two votes of an address that are counted were cast in different *)
(* seconds.  It holds of an address that waits for its answers; one that   *)
(* does not gets past it.                                                  *)
(***************************************************************************)
Counted(r) == Ballot[r] \in Candidate /\ at[r] \in {"load", "tallied"}
OneVotePerSecond ==
  \A q, r \in Request :
    q # r /\ Counted(q) /\ Counted(r) /\ From[q] = From[r]
      => epoch_seconds[q] # epoch_seconds[r]

(***************************************************************************)
(* The counters, the limiter and the handlers together keep the promise of *)
(* Ledger: a vote that is let through and valid counts exactly once, no    *)
(* vote is lost or turned away without one of its address in the same      *)
(* second, an address that waits has one vote per second, a request dies   *)
(* only if overtaken by one of its address, and a report is of votes that  *)
(* count.                                                                  *)
(***************************************************************************)
Stamped(r) == at[r] \in {"check", "add", "load", "tallied", "bad_vote"} /\ Ballot[r] # Poll
Second   == [r \in Request |-> IF at[r] = "outside" \/ Ballot[r] = Poll THEN Never
                               ELSE epoch_seconds[r]]
Came     == {r \in Request : at[r] # "outside"}
Admitted == {r \in Request : Stamped(r)}
Counts   == {r \in Request : Counted(r)}
Answer   == [r \in Request |-> IF at[r] \in Answers THEN at[r] ELSE Never]

L == INSTANCE Ledger WITH second <- Second, came <- Came, admitted <- Admitted,
                          counted <- Counts, told <- tally, answer <- Answer
KeepsLedger == L!Spec

(***************************************************************************)
(* Whoever comes too soon is told to try again: no request dies in the     *)
(* subtraction of two seconds that is to find that out.  A request of a    *)
(* hasty address that another one overtakes does, where overflow is        *)
(* checked.                                                                *)
(***************************************************************************)
NoPanic == \A r \in Request : at[r] # "panicked"

\* Every request is answered, as the guard is gone before the lock it would block: again
\* and again nobody is in the server (each request comes once).
Answered == []<>(\A r \in Request : ~Inside(r))
=============================================================================
