-------------------------- MODULE BallotBoxProofs --------------------------
(***************************************************************************)
(* BallotBox.tla for any number of requests, addresses and candidates,     *)
(* hasty addresses among them, and both builds: what is reported is        *)
(* current, and all together implement Ledger.  If every address waits for *)
(* its answers, each has one vote per second.                              *)
(***************************************************************************)
EXTENDS BallotBox, FiniteSetTheorems, TLAPS

-----------------------------------------------------------------------------
LEMMA TypeInit == Init => TypeOK
BY ClockAssumption DEF Init, TypeOK, Points

\* The steps that only move r on; the conjuncts of TypeOK that are not about at.
LEMMA GotoType ==
  ASSUME TypeOK, NEW r \in Request, NEW w \in Points \cup Answers, Goto(r, w)
  PROVE  at' \in [Request -> Points \cup Answers]
BY DEF TypeOK, Goto

LEMMA TypeStep == TypeOK /\ [Next]_vars => TypeOK'
<1> SUFFICES ASSUME TypeOK, [Next]_vars PROVE TypeOK'
  OBVIOUS
<1>1. CASE Tick
  BY <1>1, ClockAssumption DEF Tick, TypeOK
<1>2. CASE UNCHANGED vars
  BY <1>2 DEF vars, TypeOK
<1>3. ASSUME NEW r \in Request, Arrive(r)
      PROVE  TypeOK'
  <2>1. at' \in [Request -> Points \cup Answers]
    BY <1>3, GotoType DEF Arrive, Points
  <2>2. /\ arrival' \in [Request -> [Candidate -> Nat]]
        /\ epoch_seconds' \in [Request -> 0..MaxClock]
        /\ UNCHANGED <<clock, votes, rate_limiter, guards, tally>>
    BY <1>3 DEF Arrive, TypeOK
  <2> QED BY <2>1, <2>2 DEF TypeOK
<1>4. ASSUME NEW r \in Request, Lookup(r) \/ Compare(r) \/ Stamp(r) \/ CheckVote(r)
      PROVE  TypeOK'
  <2>1. \E w \in Points \cup Answers : Goto(r, w)
    BY <1>4 DEF Lookup, Compare, Stamp, CheckVote, Points, Answers
  <2>2. at' \in [Request -> Points \cup Answers]
    BY <2>1, GotoType
  <2>3. guards' \subseteq Request /\ UNCHANGED <<clock, votes, epoch_seconds, tally, arrival>>
    BY <1>4 DEF Lookup, Compare, Stamp, CheckVote, TypeOK
  <2>4. rate_limiter' \in [Ip -> 0..MaxClock \cup {Never}]
    BY <1>4, RequestAssumption DEF Lookup, Compare, Stamp, CheckVote, TypeOK
  <2> QED BY <2>2, <2>3, <2>4 DEF TypeOK
<1>5. ASSUME NEW r \in Request, Add(r)
      PROVE  TypeOK'
  <2>1. at' \in [Request -> Points \cup Answers]
    BY <1>5, GotoType DEF Add, Points
  <2>2. /\ votes' = [votes EXCEPT ![Ballot[r]] = votes[Ballot[r]] + 1]
        /\ UNCHANGED <<clock, rate_limiter, guards, epoch_seconds, tally, arrival>>
    BY <1>5 DEF Add
  <2>3. votes' \in [Candidate -> Nat]
    <3>1. CASE Ballot[r] \in Candidate
      BY <2>2, <3>1 DEF TypeOK
    <3>2. CASE Ballot[r] \notin Candidate
      BY <2>2, <3>2 DEF TypeOK
    <3> QED BY <3>1, <3>2
  <2> QED BY <2>1, <2>2, <2>3 DEF TypeOK
<1>6. ASSUME NEW r \in Request, NEW c \in Candidate, Load(r, c)
      PROVE  TypeOK'
  <2>1. \E w \in Points \cup Answers : Goto(r, w)
    BY <1>6 DEF Load, Points, Answers
  <2>2. at' \in [Request -> Points \cup Answers]
    BY <2>1, GotoType
  <2>3. /\ tally' \in [Request -> [Candidate -> Nat \cup {Never}]]
        /\ UNCHANGED <<clock, votes, rate_limiter, guards, epoch_seconds, arrival>>
    BY <1>6 DEF Load, TypeOK
  <2> QED BY <2>2, <2>3 DEF TypeOK
<1> QED BY <1>1, <1>2, <1>3, <1>4, <1>5, <1>6 DEF Next, Handle

\* Type correctness of the handlers' state, for both build profiles.
THEOREM BallotBoxTypeOK == Spec => []TypeOK
BY TypeInit, TypeStep, PTL DEF Spec

-----------------------------------------------------------------------------
(***************************************************************************)
(* Reports.  Counters only grow; nothing is loaded before "load", when the *)
(* voter's own vote is in; and a report has all of the counts.             *)
(***************************************************************************)
ReportInv ==
  /\ ReportIsCurrent
  /\ \A r \in Request : 
       /\ \A c \in Candidate : arrival[r][c] <= votes[c]
       /\ at[r] \notin {"load", "tallied"} => \A c \in Candidate : tally[r][c] = Never
       /\ at[r] \in {"load", "tallied"} /\ Ballot[r] \in Candidate
            => arrival[r][Ballot[r]] < votes[Ballot[r]]
       /\ at[r] = "tallied" => \A c \in Candidate : tally[r][c] # Never

\* A step that leaves counters and loads alone and moves r, but neither to nor from "load".
LEMMA ReportMoves ==
  ASSUME TypeOK, ReportInv, NEW r \in Request, NEW w \in Points \cup Answers, Goto(r, w),
         w \notin {"load", "tallied"}, at[r] \notin {"load", "tallied"},
         UNCHANGED <<votes, tally, arrival>>
  PROVE  ReportInv'
BY DEF ReportInv, ReportIsCurrent, TypeOK, Goto

LEMMA ReportStep ==
  ASSUME TypeOK, ReportInv, [Next]_vars
  PROVE  ReportInv'
<1>1. CASE Tick \/ UNCHANGED vars
  BY <1>1 DEF Tick, vars, ReportInv, ReportIsCurrent
<1>2. ASSUME NEW r \in Request, Arrive(r)
      PROVE  ReportInv'
  <2>1. /\ at[r] = "outside" /\ arrival' = [arrival EXCEPT ![r] = votes]
        /\ UNCHANGED <<votes, tally>>
        /\ \/ at' = [at EXCEPT ![r] = "load"] /\ Ballot[r] = Poll
           \/ at' = [at EXCEPT ![r] = "lookup"]
    BY <1>2 DEF Arrive, Goto
  <2>2. \A c \in Candidate : tally[r][c] = Never
    BY <2>1 DEF ReportInv
  <2>3. \A q \in Request : arrival'[q] = IF q = r THEN votes ELSE arrival[q]
    BY <2>1 DEF TypeOK
  <2>4. \A q \in Request : q # r => at'[q] = at[q]
    BY <2>1 DEF TypeOK
  <2>5. at'[r] = "lookup" \/ (at'[r] = "load" /\ Ballot[r] = Poll)
    BY <2>1 DEF TypeOK
  <2>6. ReportIsCurrent'
    BY <2>1, <2>2, <2>3 DEF ReportInv, ReportIsCurrent
  <2>7. \A q \in Request : \A c \in Candidate : arrival'[q][c] <= votes'[c]
    BY <2>1, <2>3 DEF ReportInv, TypeOK
  <2> QED BY <2>1, <2>2, <2>3, <2>4, <2>5, <2>6, <2>7, RequestAssumption DEF ReportInv
<1>3. ASSUME NEW r \in Request, Lookup(r) \/ Compare(r) \/ Stamp(r) \/ CheckVote(r)
      PROVE  ReportInv'
  <2>1. \E w \in (Points \cup Answers) \ {"load", "tallied"} : Goto(r, w)
    BY <1>3 DEF Lookup, Compare, Stamp, CheckVote, Points, Answers
  <2>2. at[r] \notin {"load", "tallied"} /\ UNCHANGED <<votes, tally, arrival>>
    BY <1>3 DEF Lookup, Compare, Stamp, CheckVote
  <2> QED BY <2>1, <2>2, ReportMoves
<1>4. ASSUME NEW r \in Request, Add(r)
      PROVE  ReportInv'
  <2>1. /\ at[r] = "add" /\ at' = [at EXCEPT ![r] = "load"]
        /\ votes' = [votes EXCEPT ![Ballot[r]] = @ + 1]
        /\ UNCHANGED <<tally, arrival>>
    BY <1>4 DEF Add, Goto
  <2>2. \A c \in Candidate : /\ votes[c] \in Nat /\ votes'[c] \in Nat /\ votes[c] <= votes'[c]
                             /\ Ballot[r] = c => votes[c] < votes'[c]
    BY <2>1 DEF TypeOK
  <2>3. \A q \in Request : \A c \in Candidate : /\ arrival[q][c] \in Nat
                                                /\ tally[q][c] \in Nat \cup {Never}
    BY DEF TypeOK
  <2>4. \A q \in Request : at'[q] = IF q = r THEN "load" ELSE at[q]
    BY <2>1 DEF TypeOK
  <2>5. ReportIsCurrent'
    <3> SUFFICES ASSUME NEW q \in Request, NEW c \in Candidate, tally[q][c] # Never
                 PROVE  /\ arrival[q][c] <= tally[q][c] /\ tally[q][c] <= votes'[c]
                        /\ Ballot[q] = c => arrival[q][c] < tally[q][c]
      BY <2>1 DEF ReportIsCurrent
    <3> QED BY <2>2, <2>3 DEF ReportInv, ReportIsCurrent
  <2>6. \A q \in Request : \A c \in Candidate : arrival'[q][c] <= votes'[c]
    BY <2>1, <2>2, <2>3 DEF ReportInv
  <2>7. ASSUME NEW q \in Request, at'[q] \in {"load", "tallied"}, Ballot[q] \in Candidate
        PROVE  arrival'[q][Ballot[q]] < votes'[Ballot[q]]
    <3>1. arrival[q][Ballot[q]] <= votes[Ballot[q]]
      BY <2>7 DEF ReportInv
    <3>2. q # r => arrival[q][Ballot[q]] < votes[Ballot[q]]
      BY <2>4, <2>7 DEF ReportInv
    <3> QED BY <2>1, <2>2, <2>3, <2>7, <3>1, <3>2
  <2> QED BY <2>1, <2>4, <2>5, <2>6, <2>7 DEF ReportInv
<1>5. ASSUME NEW r \in Request, NEW c \in Candidate, Load(r, c)
      PROVE  ReportInv'
  <2>1. /\ at[r] = "load" /\ UNCHANGED <<votes, arrival>>
        /\ tally' = [tally EXCEPT ![r][c] = votes[c]]
        /\ at' = [at EXCEPT ![r] = IF \A d \in Candidate \ {c} : tally[r][d] # Never
                                   THEN "tallied" ELSE "load"]
    BY <1>5 DEF Load, Goto
  <2>2. \A q \in Request : \A d \in Candidate :
          tally'[q][d] = IF q = r /\ d = c THEN votes[c] ELSE tally[q][d]
    BY <2>1 DEF TypeOK
  <2>3. \A q \in Request : q # r => at'[q] = at[q]
    BY <2>1 DEF TypeOK
  <2>4. /\ at'[r] \in {"load", "tallied"}
        /\ at'[r] = "tallied" => \A d \in Candidate \ {c} : tally[r][d] # Never
    BY <2>1 DEF TypeOK
  <2>5. votes[c] \in Nat /\ votes[c] # Never
    BY ClockAssumption DEF TypeOK
  <2>6. ReportIsCurrent'
    <3> SUFFICES ASSUME NEW q \in Request, NEW d \in Candidate, tally'[q][d] # Never
                 PROVE  /\ arrival[q][d] <= tally'[q][d] /\ tally'[q][d] <= votes[d]
                        /\ Ballot[q] = d => arrival[q][d] < tally'[q][d]
      BY <2>1 DEF ReportIsCurrent
    <3>1. CASE q = r /\ d = c
      BY <2>1, <2>2, <2>5, <3>1 DEF ReportInv
    <3>2. CASE ~ (q = r /\ d = c)
      BY <2>2, <3>2 DEF ReportInv, ReportIsCurrent
    <3> QED BY <3>1, <3>2
  <2> QED BY <2>1, <2>2, <2>3, <2>4, <2>5, <2>6 DEF ReportInv
<1> QED BY <1>1, <1>2, <1>3, <1>4, <1>5 DEF Next, Handle

LEMMA ReportAlways == Spec => [](TypeOK /\ ReportInv)
<1>1. Init => TypeOK /\ ReportInv
  BY TypeInit, ClockAssumption DEF Init, ReportInv, ReportIsCurrent
<1>2. TypeOK /\ ReportInv /\ [Next]_vars => (TypeOK /\ ReportInv)'
  BY TypeStep, ReportStep
<1> QED BY <1>1, <1>2, PTL DEF Spec

\* Whatever votes are served in parallel, what vote_handler and votes_handler report is current.
THEOREM ReportsCurrent == Spec => []ReportIsCurrent
<1>1. ReportInv => ReportIsCurrent
  BY DEF ReportInv
<1> QED BY <1>1, ReportAlways, PTL

-----------------------------------------------------------------------------
(***************************************************************************)
(* The rate limiter.  An address that waits has one request at a time in   *)
(* the server: between its lookup and its stamp nobody else stamps, and    *)
(* what the limiter holds is no later than the request's own second.  Of   *)
(* a hasty address only what follows from its own steps is known.          *)
(***************************************************************************)
Waits(r) == From[r] \notin Hasty
Single ==
  \A q, r \in Request : Inside(q) /\ Inside(r) /\ From[q] = From[r] /\ Waits(r) => q = r
Clocked ==
  /\ \A r \in Request : epoch_seconds[r] <= clock
  /\ \A a \in Ip : rate_limiter[a] # Never => rate_limiter[a] <= clock
Placed(r) ==
  LET last == rate_limiter[From[r]] IN
  /\ at[r] = "compare" \/ Stamped(r) => last # Never
  /\ at[r] \in {"lookup", "compare", "stamp"} => Ballot[r] # Poll
Limited(r) ==
  LET last == rate_limiter[From[r]] IN
  /\ at[r] \in {"lookup", "compare"} /\ last # Never => last <= epoch_seconds[r]
  /\ at[r] = "stamp" /\ last # Never => last < epoch_seconds[r]
  /\ Stamped(r) => epoch_seconds[r] <= last
LimitInv ==
  /\ Single /\ Clocked
  /\ \A r \in Request : Placed(r) /\ (Waits(r) => Limited(r))
  /\ \A q, r \in Request :
       q # r /\ Stamped(q) /\ Stamped(r) /\ From[q] = From[r] /\ Waits(r)
         => epoch_seconds[q] # epoch_seconds[r]

\* r goes on in the server, or leaves it; the limiter stays as it is.
LEMMA LimitMoves ==
  ASSUME TypeOK, LimitInv, NEW r \in Request, NEW w \in (Points \ {"outside"}) \cup Answers,
         Goto(r, w), Inside(r), w # "check",
         w \in {"add", "load", "tallied", "bad_vote"} => (Stamped(r) \/ Ballot[r] = Poll),
         Placed(r)', Waits(r) => Limited(r)', UNCHANGED <<clock, rate_limiter, epoch_seconds>>
  PROVE  LimitInv'
<1>1. \A q \in Request : at'[q] = IF q = r THEN w ELSE at[q]
  BY DEF TypeOK, Goto
<1>2. Single'
  BY <1>1 DEF LimitInv, Single, Inside, Waits
<1>3. Clocked'
  BY <1>1 DEF LimitInv, Clocked
<1>4. \A q \in Request : Placed(q)' /\ (Waits(q) => Limited(q)')
  <2> SUFFICES ASSUME NEW q \in Request, q # r PROVE Placed(q)' /\ (Waits(q) => Limited(q)')
    OBVIOUS
  <2>1. at'[q] = at[q] /\ Placed(q) /\ (Waits(q) => Limited(q))
    BY <1>1 DEF LimitInv
  <2> QED BY <2>1 DEF Placed, Limited, Stamped
<1>5. \A q \in Request : Stamped(q)' => Stamped(q)
  BY <1>1 DEF Stamped
<1> QED BY <1>2, <1>3, <1>4, <1>5 DEF LimitInv, Waits

\* What the comparison of seconds decides, wrapped or not.
LEMMA CompareDecides ==
  ASSUME TypeOK, LimitInv, NEW r \in Request, Compare(r)
  PROVE  /\ rate_limiter[From[r]] \in Nat /\ epoch_seconds[r] \in Nat
         /\ \/ Goto(r, "too_many") /\ rate_limiter[From[r]] = epoch_seconds[r]
            \/ Goto(r, "stamp") /\ (Waits(r) => rate_limiter[From[r]] < epoch_seconds[r])
            \/ Goto(r, "panicked") /\ ~Waits(r) /\ rate_limiter[From[r]] > epoch_seconds[r]
<1> DEFINE elapsed == epoch_seconds[r] - rate_limiter[From[r]]
<1>1. /\ epoch_seconds[r] \in Nat /\ epoch_seconds[r] <= MaxClock
      /\ rate_limiter[From[r]] \in 0..MaxClock \cup {Never}
      /\ MaxClock \in Nat /\ Modulus \in Nat /\ MaxClock < Modulus
  BY ClockAssumption, RequestAssumption DEF TypeOK
<1>2. /\ rate_limiter[From[r]] # Never
      /\ Waits(r) => rate_limiter[From[r]] <= epoch_seconds[r]
  BY DEF Compare, LimitInv, Limited, Placed
<1>3. rate_limiter[From[r]] \in Nat /\ rate_limiter[From[r]] <= MaxClock
  BY <1>1, <1>2
<1>4. CASE elapsed >= 0
  <2>1. elapsed \in Nat /\ elapsed < Modulus
    BY <1>1, <1>3, <1>4
  <2>2. elapsed % Modulus = elapsed
    <3> HIDE DEF elapsed
    <3> QED BY <1>1, <2>1
  <2>3. Goto(r, IF elapsed < 1 THEN "too_many" ELSE "stamp")
    BY <1>1, <2>1, <2>2 DEF Compare
  <2> QED BY <1>1, <1>3, <2>1, <2>3
<1>5. CASE elapsed < 0
  <2>1. ~Waits(r) /\ rate_limiter[From[r]] > epoch_seconds[r]
    BY <1>1, <1>2, <1>3, <1>5
  <2>2. elapsed \in Int /\ elapsed + Modulus \in 1..(Modulus - 1)
    BY <1>1, <1>3, <1>5
  <2>3. elapsed % Modulus = elapsed + Modulus
    <3> HIDE DEF elapsed
    <3> QED BY <1>1, <1>5, <2>2
  <2>4. Goto(r, IF OverflowChecks THEN "panicked" ELSE "stamp")
    BY <1>1, <1>5, <2>2, <2>3 DEF Compare
  <2> QED BY <1>1, <1>3, <2>1, <2>4
<1> QED BY <1>1, <1>3, <1>4, <1>5

LEMMA LimitStep ==
  ASSUME TypeOK, LimitInv, [Next]_vars
  PROVE  LimitInv'
<1>0. /\ clock \in Nat /\ Never \notin Nat
      /\ \A r \in Request : epoch_seconds[r] \in Nat /\ epoch_seconds[r] < Modulus
      /\ \A r \in Request : rate_limiter[From[r]] \in Nat \cup {Never} /\ From[r] \in Ip
      /\ \A r \in Request : Placed(r) /\ (Waits(r) => Limited(r))
      /\ Modulus \in Nat
  BY ClockAssumption, RequestAssumption DEF TypeOK, LimitInv
<1>1. CASE Tick
  <2>1. /\ clock' = clock + 1 /\ UNCHANGED <<rate_limiter, at, epoch_seconds>>
    BY <1>1 DEF Tick
  <2>2. Clocked'
    BY <1>0, <2>1, ClockAssumption DEF LimitInv, Clocked, TypeOK
  <2> QED BY <2>1, <2>2 DEF LimitInv, Single, Inside, Placed, Limited, Stamped, Waits
<1>2. CASE UNCHANGED vars
  BY <1>2 DEF vars, LimitInv, Single, Inside, Clocked, Placed, Limited, Stamped, Waits
<1>3. ASSUME NEW r \in Request, Arrive(r)
      PROVE  LimitInv'
  <2>1. /\ at[r] = "outside"
        /\ Waits(r) => \A q \in Request : Inside(q) => From[q] # From[r]
        /\ UNCHANGED <<clock, rate_limiter>>
        /\ \/ /\ at' = [at EXCEPT ![r] = "load"] /\ Ballot[r] = Poll
              /\ epoch_seconds' = epoch_seconds
           \/ /\ at' = [at EXCEPT ![r] = "lookup"] /\ Ballot[r] # Poll
              /\ epoch_seconds' = [epoch_seconds EXCEPT ![r] = clock]
    BY <1>3 DEF Arrive, Goto, Waits
  <2>2. \A q \in Request \ {r} : at'[q] = at[q] /\ epoch_seconds'[q] = epoch_seconds[q]
    BY <2>1 DEF TypeOK
  <2>3. \/ at'[r] = "load" /\ Ballot[r] = Poll /\ epoch_seconds'[r] = epoch_seconds[r]
        \/ at'[r] = "lookup" /\ Ballot[r] # Poll /\ epoch_seconds'[r] = clock
    BY <2>1 DEF TypeOK
  <2>4. Single'
    <3> SUFFICES ASSUME NEW p \in Request, NEW q \in Request, Inside(p)', Inside(q)',
                        From[p] = From[q], Waits(q), p # q
                 PROVE  FALSE
      BY DEF Single, Waits
    <3>1. CASE p = r
      BY <2>1, <2>2, <3>1 DEF Inside, Waits
    <3>2. CASE q = r
      BY <2>1, <2>2, <3>2 DEF Inside, Waits
    <3>3. CASE p # r /\ q # r
      BY <2>2, <3>3 DEF LimitInv, Single, Inside
    <3> QED BY <3>1, <3>2, <3>3
  <2>5. Clocked'
    BY <1>0, <2>1, <2>2, <2>3 DEF LimitInv, Clocked
  <2>6. \A q \in Request \ {r} : /\ Placed(q)' /\ (Waits(q) => Limited(q)')
                                 /\ Stamped(q)' => Stamped(q)
    BY <1>0, <2>1, <2>2 DEF Placed, Limited, Stamped
  <2>7. Placed(r)' /\ Limited(r)' /\ ~Stamped(r)'
    <3>1. rate_limiter[From[r]] # Never => rate_limiter[From[r]] <= clock
      BY <1>0 DEF LimitInv, Clocked
    <3> QED BY <2>1, <2>3, <3>1 DEF Placed, Limited, Stamped
  <2> QED BY <2>2, <2>4, <2>5, <2>6, <2>7 DEF LimitInv, Waits
<1>4. ASSUME NEW r \in Request, Lookup(r)
      PROVE  LimitInv'
  <2>1. /\ at[r] = "lookup" /\ UNCHANGED <<clock, rate_limiter, epoch_seconds>>
        /\ \/ Goto(r, "stamp") /\ rate_limiter[From[r]] = Never
           \/ Goto(r, "compare") /\ rate_limiter[From[r]] # Never
    BY <1>4 DEF Lookup
  <2>2. Placed(r)' /\ (Waits(r) => Limited(r)')
    BY <1>0, <2>1 DEF Placed, Limited, Stamped, Goto, TypeOK
  <2> QED BY <2>1, <2>2, LimitMoves DEF Inside, Points
<1>5. ASSUME NEW r \in Request, Compare(r)
      PROVE  LimitInv'
  <2>1. at[r] = "compare" /\ UNCHANGED <<clock, rate_limiter, epoch_seconds>>
    BY <1>5 DEF Compare
  <2>2. rate_limiter[From[r]] \in Nat /\ Ballot[r] # Poll
    BY <1>0, <2>1 DEF Placed
  <2>3. \/ Goto(r, "too_many")
        \/ Goto(r, "panicked")
        \/ Goto(r, "stamp") /\ (Waits(r) => rate_limiter[From[r]] < epoch_seconds[r])
    BY <1>5, CompareDecides
  <2>4. Placed(r)' /\ (Waits(r) => Limited(r)')
    BY <1>0, <2>1, <2>2, <2>3 DEF Placed, Limited, Stamped, Goto, TypeOK
  <2> QED BY <2>1, <2>3, <2>4, LimitMoves DEF Inside, Points, Answers
<1>6. ASSUME NEW r \in Request, Stamp(r)
      PROVE  LimitInv'
  <2>1. /\ at[r] = "stamp" /\ at' = [at EXCEPT ![r] = "check"]
        /\ rate_limiter' = [rate_limiter EXCEPT ![From[r]] = epoch_seconds[r]]
        /\ UNCHANGED <<clock, epoch_seconds>>
    BY <1>6 DEF Stamp, Goto
  <2>2. \A q \in Request : at'[q] = IF q = r THEN "check" ELSE at[q]
    BY <2>1 DEF TypeOK
  <2>3. \A a \in Ip : rate_limiter'[a] = IF a = From[r] THEN epoch_seconds[r] ELSE rate_limiter[a]
    BY <2>1 DEF TypeOK
  <2>4. Single'
    BY <2>1, <2>2 DEF LimitInv, Single, Inside, Points, Waits
  <2>5. Clocked'
    BY <1>0, <2>1, <2>3 DEF LimitInv, Clocked
  <2>6. Waits(r) => \A q \in Request \ {r} : From[q] = From[r] => ~Inside(q)
    BY <2>1 DEF LimitInv, Single, Inside, Points
  <2>7. Placed(r)' /\ Limited(r)'
    BY <1>0, <2>1, <2>2, <2>3 DEF Placed, Limited, Stamped
  <2>8. ASSUME NEW q \in Request \ {r}
        PROVE  /\ Placed(q)' /\ (Waits(q) => Limited(q)')
               /\ Stamped(q)' = Stamped(q)
               /\ From[q] = From[r] /\ Stamped(q) /\ Waits(r) => epoch_seconds[q] < epoch_seconds[r]
    <3>1. at'[q] = at[q] /\ Stamped(q)' = Stamped(q)
      BY <2>2 DEF Stamped
    <3>2. Placed(q)'
      BY <1>0, <2>1, <2>3, <3>1 DEF Placed
    <3>3. CASE From[q] = From[r] /\ Waits(r)
      <4>1. at[q] \in {"outside", "tallied", "too_many", "bad_vote", "panicked"}
        BY <2>6, <3>3 DEF Inside, Points, Answers, TypeOK
      <4>2. Stamped(q) => epoch_seconds[q] < epoch_seconds[r]
        <5>1. Waits(q) /\ Limited(q) /\ Limited(r) /\ Placed(q)
          BY <1>0, <3>3 DEF Waits
        <5> QED BY <1>0, <2>1, <3>3, <5>1 DEF Limited, Placed
      <4>3. rate_limiter'[From[q]] = epoch_seconds[r]
        BY <1>0, <2>3, <3>3
      <4>4. Limited(q)'
        BY <1>0, <2>1, <3>1, <4>1, <4>2, <4>3 DEF Limited
      <4> QED BY <3>1, <3>2, <4>2, <4>4
    <3>4. CASE From[q] = From[r] /\ ~Waits(r)
      BY <3>1, <3>2, <3>4 DEF Waits
    <3>5. CASE From[q] # From[r]
      <4>1. rate_limiter'[From[q]] = rate_limiter[From[q]]
        BY <1>0, <2>3, <3>5
      <4>2. Waits(q) => Limited(q)'
        BY <1>0, <2>1, <3>1, <3>5, <4>1 DEF Limited
      <4> QED BY <3>1, <3>2, <3>5, <4>2
    <3> QED BY <3>3, <3>4, <3>5
  <2>9. ASSUME NEW p \in Request, NEW q \in Request, p # q, From[p] = From[q], Waits(q),
               Stamped(p)', Stamped(q)'
        PROVE  epoch_seconds'[p] # epoch_seconds'[q]
    <3>1. CASE p = r
      BY <1>0, <2>1, <2>8, <2>9, <3>1 DEF Waits
    <3>2. CASE q = r
      BY <1>0, <2>1, <2>8, <2>9, <3>2
    <3>3. CASE p # r /\ q # r
      BY <2>1, <2>8, <2>9, <3>3 DEF LimitInv
    <3> QED BY <3>1, <3>2, <3>3
  <2> QED BY <2>4, <2>5, <2>7, <2>8, <2>9 DEF LimitInv, Waits
<1>7. ASSUME NEW r \in Request, CheckVote(r) \/ Add(r) \/ \E c \in Candidate : Load(r, c)
      PROVE  LimitInv'
  <2>1. /\ at[r] \in {"check", "add", "load"} /\ UNCHANGED <<clock, rate_limiter, epoch_seconds>>
        /\ \E w \in {"bad_vote", "add", "load", "tallied"} : Goto(r, w)
    BY <1>7 DEF CheckVote, Add, Load
  <2>2. Stamped(r) \/ Ballot[r] = Poll
    BY <2>1 DEF Stamped
  <2>3. Placed(r)' /\ (Waits(r) => Limited(r)')
    BY <1>0, <2>1, <2>2 DEF Placed, Limited, Stamped, Goto, TypeOK
  <2> QED BY <2>1, <2>2, <2>3, LimitMoves DEF Inside, Points, Answers
<1> QED BY <1>1, <1>2, <1>3, <1>4, <1>5, <1>6, <1>7 DEF Next, Handle

LEMMA LimitAlways == Spec => []LimitInv
<1>1. Init => LimitInv
  BY RequestAssumption, ClockAssumption
     DEF Init, LimitInv, Single, Inside, Clocked, Placed, Limited, Stamped, Points
<1>2. TypeOK /\ LimitInv /\ [Next]_vars => LimitInv'
  BY LimitStep
<1> QED BY <1>1, <1>2, BallotBoxTypeOK, PTL DEF Spec

(***************************************************************************)
(* The limiter keeps its promise if every address waits for its answers;   *)
(* the run ballot_box_twin shows that it does not otherwise.               *)
(***************************************************************************)
THEOREM LimitKept ==
  ASSUME Hasty = {}
  PROVE  Spec => []OneVotePerSecond
<1>1. LimitInv => OneVotePerSecond
  BY RequestAssumption DEF LimitInv, OneVotePerSecond, Counted, Stamped, Waits
<1> QED BY <1>1, LimitAlways, PTL

-----------------------------------------------------------------------------
(***************************************************************************)
(* The ledger.  A counter is the number of votes that count for it, what   *)
(* the limiter holds is the second of a vote it let through, and the       *)
(* ballot of a request fits the point it has reached.                      *)
(***************************************************************************)
VotesOf(c) == {r \in Counts : Ballot[r] = c}
CountersHonest == \A c \in Candidate : IsFiniteSet(VotesOf(c)) /\ votes[c] = Cardinality(VotesOf(c))
StampHasOwner ==
  \A a \in Ip : rate_limiter[a] # Never =>
    \E q \in Request : Stamped(q) /\ From[q] = a /\ epoch_seconds[q] = rate_limiter[a]
BallotFits ==
  \A r \in Request :
    /\ at[r] \in {"lookup", "compare", "stamp", "check", "bad_vote"} => Ballot[r] # Poll
    /\ at[r] = "add" => Ballot[r] \in Candidate
    /\ at[r] \in {"load", "tallied"} => Ballot[r] \in Candidate \cup {Poll}
LedgerInv == CountersHonest /\ StampHasOwner /\ BallotFits

\* A request that goes on: what becomes of the sets that Ledger speaks of.
LEMMA GoesOn ==
  ASSUME TypeOK, NEW r \in Request, NEW w \in (Points \cup Answers) \ {"outside"},
         at[r] # "outside", Goto(r, w), UNCHANGED epoch_seconds
  PROVE  /\ \A q \in Request : at'[q] = IF q = r THEN w ELSE at[q]
         /\ UNCHANGED <<Second, Came>>
         /\ Admitted' = IF w \in {"check", "add", "load", "tallied", "bad_vote"} /\ Ballot[r] # Poll
                        THEN Admitted \cup {r} ELSE Admitted \ {r}
         /\ Counts' = IF w \in {"load", "tallied"} /\ Ballot[r] \in Candidate
                      THEN Counts \cup {r} ELSE Counts \ {r}
         /\ Answer' = [Answer EXCEPT ![r] = IF w \in Answers THEN w ELSE Never]
<1>1. \A q \in Request : at'[q] = IF q = r THEN w ELSE at[q]
  BY DEF TypeOK, Goto
<1>2. UNCHANGED <<Second, Came>>
  BY <1>1 DEF Second, Came
<1>3. Admitted' = IF w \in {"check", "add", "load", "tallied", "bad_vote"} /\ Ballot[r] # Poll
                  THEN Admitted \cup {r} ELSE Admitted \ {r}
  BY <1>1 DEF Admitted, Stamped
<1>4. Counts' = IF w \in {"load", "tallied"} /\ Ballot[r] \in Candidate
                THEN Counts \cup {r} ELSE Counts \ {r}
  BY <1>1 DEF Counts, Counted
<1>5. Answer' = [Answer EXCEPT ![r] = IF w \in Answers THEN w ELSE Never]
  BY <1>1 DEF Answer
<1> QED BY <1>1, <1>2, <1>3, <1>4, <1>5

\* It starts empty.
LEMMA LedgerInit == Init => LedgerInv /\ L!Init
<1> SUFFICES ASSUME Init PROVE LedgerInv /\ L!Init
  OBVIOUS
<1>1. \A r \in Request : at[r] = "outside" /\ ~Stamped(r) /\ ~Counted(r) /\ at[r] \notin Answers
  BY DEF Init, Stamped, Counted, Answers
<1>2. Came = {} /\ Admitted = {} /\ Counts = {}
  BY <1>1 DEF Came, Admitted, Counts
<1>3. Second = [r \in Request |-> Never] /\ Answer = [r \in Request |-> Never]
  BY <1>1 DEF Second, Answer
<1>4. L!Init
  BY <1>2, <1>3 DEF Init, L!Init
<1>5. CountersHonest
  <2>1. \A c \in Candidate : VotesOf(c) = {} /\ votes[c] = 0
    BY <1>2 DEF VotesOf, Init
  <2> QED BY <2>1, FS_EmptySet DEF CountersHonest
<1>6. StampHasOwner /\ BallotFits
  BY <1>1 DEF StampHasOwner, BallotFits, Init
<1> QED BY <1>4, <1>5, <1>6 DEF LedgerInv

\* Steps of a request on which nothing turns in the ledger.
LEMMA QuietSteps ==
  ASSUME TypeOK, LedgerInv, NEW r \in Request, NEW w \in {"compare", "stamp", "add"}, Goto(r, w),
         \/ at[r] \in {"lookup", "compare"} /\ w # "add"
         \/ at[r] = "check" /\ w = "add" /\ Ballot[r] \in Candidate,
         UNCHANGED <<clock, votes, rate_limiter, epoch_seconds, tally>>
  PROVE  LedgerInv' /\ UNCHANGED L!vars
<1>1. /\ \A q \in Request : at'[q] = IF q = r THEN w ELSE at[q]
      /\ UNCHANGED <<Second, Came>>
      /\ Admitted' = IF w = "add" /\ Ballot[r] # Poll THEN Admitted \cup {r} ELSE Admitted \ {r}
      /\ Counts' = Counts \ {r}
      /\ Answer' = [Answer EXCEPT ![r] = Never]
  BY GoesOn DEF Points, Answers
<1>2. Ballot[r] # Poll
  BY RequestAssumption DEF LedgerInv, BallotFits
<1>3. UNCHANGED <<Admitted, Counts, Answer>>
  BY <1>1, <1>2 DEF Admitted, Stamped, Counts, Counted, Answer, Answers
<1>4. CountersHonest'
  BY <1>3 DEF LedgerInv, CountersHonest, VotesOf
<1>5. StampHasOwner'
  BY <1>3 DEF LedgerInv, StampHasOwner, Admitted
<1>6. BallotFits'
  BY <1>1, <1>2 DEF LedgerInv, BallotFits
<1> QED BY <1>1, <1>3, <1>4, <1>5, <1>6 DEF LedgerInv, L!vars

\* One lemma for each statement of the handlers that the ledger sees.
LEMMA LedgerArrive ==
  ASSUME TypeOK, LedgerInv, NEW r \in Request, Arrive(r)
  PROVE  LedgerInv' /\ L!Come(r)
<1>1. /\ at[r] = "outside" /\ UNCHANGED <<clock, votes, rate_limiter, tally>>
      /\ \/ /\ at' = [at EXCEPT ![r] = "load"] /\ Ballot[r] = Poll
            /\ epoch_seconds' = epoch_seconds
         \/ /\ at' = [at EXCEPT ![r] = "lookup"] /\ Ballot[r] # Poll
            /\ epoch_seconds' = [epoch_seconds EXCEPT ![r] = clock]
  BY DEF Arrive, Goto
<1>2. \A q \in Request \ {r} : at'[q] = at[q] /\ epoch_seconds'[q] = epoch_seconds[q]
  BY <1>1 DEF TypeOK
<1>3. \/ at'[r] = "load" /\ Ballot[r] = Poll
      \/ at'[r] = "lookup" /\ Ballot[r] # Poll /\ epoch_seconds'[r] = clock
  BY <1>1 DEF TypeOK
<1>4. Came' = Came \cup {r} /\ r \notin Came
  BY <1>1, <1>2, <1>3 DEF Came
<1>5. Second' = IF Ballot[r] = Poll THEN Second ELSE [Second EXCEPT ![r] = clock]
  BY <1>1, <1>2, <1>3 DEF Second
<1>6. \A q \in Request : Stamped(q)' = Stamped(q) /\ Counted(q)' = Counted(q)
  BY <1>1, <1>2, <1>3, RequestAssumption DEF Stamped, Counted
<1>7. Admitted' = Admitted /\ Counts' = Counts
  BY <1>6 DEF Admitted, Counts
<1>8. Answer' = Answer
  BY <1>1, <1>2, <1>3 DEF Answer, Answers
<1>9. L!Come(r)
  BY <1>1, <1>4, <1>5, <1>7, <1>8 DEF L!Come
<1>10. CountersHonest'
  BY <1>1, <1>7 DEF LedgerInv, CountersHonest, VotesOf
<1>11. StampHasOwner'
  <2>1. \A q \in Request : Stamped(q) => q # r
    BY <1>1 DEF Stamped
  <2> QED BY <1>1, <1>2, <1>6, <2>1 DEF LedgerInv, StampHasOwner
<1>12. BallotFits'
  BY <1>2, <1>3 DEF LedgerInv, BallotFits
<1> QED BY <1>9, <1>10, <1>11, <1>12 DEF LedgerInv

LEMMA LedgerTurnAway ==
  ASSUME TypeOK, LimitInv, LedgerInv, NEW r \in Request, Compare(r), Goto(r, "too_many"),
         rate_limiter[From[r]] = epoch_seconds[r]
  PROVE  LedgerInv' /\ L!TurnAway(r)
<1>1. at[r] = "compare" /\ UNCHANGED <<clock, votes, rate_limiter, epoch_seconds, tally>>
  BY DEF Compare
<1>2. /\ \A q \in Request : at'[q] = IF q = r THEN "too_many" ELSE at[q]
      /\ UNCHANGED <<Second, Came>>
      /\ Admitted' = Admitted \ {r} /\ Counts' = Counts \ {r}
      /\ Answer' = [Answer EXCEPT ![r] = "too_many"]
  BY <1>1, GoesOn DEF Points, Answers
<1>3. Ballot[r] # Poll /\ r \notin Admitted /\ r \notin Counts
  BY <1>1 DEF LedgerInv, BallotFits, Admitted, Stamped, Counts, Counted
<1>4. PICK q \in Request : Stamped(q) /\ From[q] = From[r] /\ epoch_seconds[q] = epoch_seconds[r]
  <2>1. rate_limiter[From[r]] # Never /\ From[r] \in Ip
    BY <1>1, ClockAssumption, RequestAssumption DEF TypeOK
  <2> QED BY <2>1 DEF LedgerInv, StampHasOwner
<1>5. q \in Admitted /\ Second[q] = epoch_seconds[q] /\ Second[r] = epoch_seconds[r]
  BY <1>1, <1>3, <1>4 DEF Admitted, Stamped, Second
<1>6. L!SecondTaken(r)
  BY <1>4, <1>5 DEF L!SecondTaken
<1>7. L!Undecided(r)
  BY <1>1, <1>3 DEF L!Undecided, Came, Answer, Answers
<1>8. L!TurnAway(r)
  BY <1>1, <1>2, <1>3, <1>6, <1>7 DEF L!TurnAway
<1>9. CountersHonest'
  BY <1>1, <1>2, <1>3 DEF LedgerInv, CountersHonest, VotesOf
<1>10. StampHasOwner'
  BY <1>1, <1>2, <1>3 DEF LedgerInv, StampHasOwner, Stamped
<1>11. BallotFits'
  BY <1>2 DEF LedgerInv, BallotFits
<1> QED BY <1>8, <1>9, <1>10, <1>11 DEF LedgerInv

LEMMA LedgerOvertaken ==
  ASSUME TypeOK, LimitInv, LedgerInv, NEW r \in Request, Compare(r), Goto(r, "panicked"),
         ~Waits(r), rate_limiter[From[r]] \in Nat, rate_limiter[From[r]] > epoch_seconds[r]
  PROVE  LedgerInv' /\ L!Overtaken(r)
<1>1. at[r] = "compare" /\ UNCHANGED <<clock, votes, rate_limiter, epoch_seconds, tally>>
  BY DEF Compare
<1>2. /\ \A q \in Request : at'[q] = IF q = r THEN "panicked" ELSE at[q]
      /\ UNCHANGED <<Second, Came>>
      /\ Admitted' = Admitted \ {r} /\ Counts' = Counts \ {r}
      /\ Answer' = [Answer EXCEPT ![r] = "panicked"]
  BY <1>1, GoesOn DEF Points, Answers
<1>3. Ballot[r] # Poll /\ r \notin Admitted /\ r \notin Counts
  BY <1>1 DEF LedgerInv, BallotFits, Admitted, Stamped, Counts, Counted
<1>4. PICK q \in Request : /\ Stamped(q) /\ From[q] = From[r]
                           /\ epoch_seconds[q] = rate_limiter[From[r]]
  <2>1. rate_limiter[From[r]] # Never /\ From[r] \in Ip
    BY ClockAssumption, RequestAssumption
  <2> QED BY <2>1 DEF LedgerInv, StampHasOwner
<1>5. q \in Admitted /\ Second[q] = epoch_seconds[q] /\ Second[r] = epoch_seconds[r]
  BY <1>1, <1>3, <1>4 DEF Admitted, Stamped, Second
<1>6. L!Undecided(r)
  BY <1>1, <1>3 DEF L!Undecided, Came, Answer, Answers
<1>7. L!Overtaken(r)
  BY <1>1, <1>2, <1>3, <1>4, <1>5, <1>6 DEF L!Overtaken, Waits
<1>8. CountersHonest'
  BY <1>1, <1>2, <1>3 DEF LedgerInv, CountersHonest, VotesOf
<1>9. StampHasOwner'
  BY <1>1, <1>2, <1>3 DEF LedgerInv, StampHasOwner, Stamped
<1>10. BallotFits'
  BY <1>2 DEF LedgerInv, BallotFits
<1> QED BY <1>7, <1>8, <1>9, <1>10 DEF LedgerInv

LEMMA LedgerStamp ==
  ASSUME TypeOK, LimitInv, LedgerInv, NEW r \in Request, Stamp(r)
  PROVE  LedgerInv' /\ L!Admit(r)
<1>1. /\ at[r] = "stamp" /\ Goto(r, "check")
      /\ rate_limiter' = [rate_limiter EXCEPT ![From[r]] = epoch_seconds[r]]
      /\ UNCHANGED <<clock, votes, epoch_seconds, tally>>
  BY DEF Stamp
<1>2. Ballot[r] # Poll /\ r \notin Admitted /\ r \notin Counts
  BY <1>1 DEF LedgerInv, BallotFits, Admitted, Stamped, Counts, Counted
<1>3. /\ \A q \in Request : at'[q] = IF q = r THEN "check" ELSE at[q]
      /\ UNCHANGED <<Second, Came>>
      /\ Admitted' = Admitted \cup {r} /\ Counts' = Counts \ {r}
      /\ Answer' = [Answer EXCEPT ![r] = Never]
  BY <1>1, <1>2, GoesOn DEF Points, Answers
<1>4. Counts' = Counts /\ Answer' = Answer
  BY <1>1, <1>2, <1>3 DEF Answer, Answers
<1>5. From[r] \in Hasty \/ ~L!SecondTaken(r)
  <2> SUFFICES ASSUME Waits(r), NEW q \in Admitted, From[q] = From[r], Second[q] = Second[r]
               PROVE  FALSE
    BY DEF L!SecondTaken, Waits
  <2>1. q \in Request /\ Stamped(q) /\ Second[q] = epoch_seconds[q] /\ Second[r] = epoch_seconds[r]
    BY <1>1, <1>2 DEF Admitted, Stamped, Second
  <2>2. Limited(q) /\ Limited(r) /\ Placed(q)
    BY <2>1 DEF LimitInv, Waits
  <2>3. /\ rate_limiter[From[r]] # Never /\ epoch_seconds[q] <= rate_limiter[From[r]]
        /\ rate_limiter[From[r]] < epoch_seconds[r]
    BY <1>1, <2>1, <2>2 DEF Limited, Placed
  <2>4. rate_limiter[From[r]] \in Nat /\ epoch_seconds[r] \in Nat /\ epoch_seconds[q] \in Nat
    BY <2>1, <2>3, RequestAssumption, ClockAssumption DEF TypeOK
  <2>5. epoch_seconds[q] = epoch_seconds[r]
    BY <2>1
  <2>6. epoch_seconds[q] < epoch_seconds[r]
    BY <2>3, <2>4
  <2> QED BY <2>4, <2>5, <2>6
<1>6. L!Undecided(r)
  BY <1>1, <1>2 DEF L!Undecided, Came, Answer, Answers
<1>7. L!Admit(r)
  BY <1>1, <1>3, <1>4, <1>5, <1>6 DEF L!Admit
<1>8. CountersHonest'
  BY <1>1, <1>4 DEF LedgerInv, CountersHonest, VotesOf
<1>9. StampHasOwner'
  <2> SUFFICES ASSUME NEW a \in Ip, rate_limiter'[a] # Never
               PROVE  \E q \in Request : Stamped(q)' /\ From[q] = a /\ epoch_seconds[q] = rate_limiter'[a]
    BY <1>1 DEF StampHasOwner
  <2>1. \A q \in Request : Stamped(q)' <=> q = r \/ Stamped(q)
    BY <1>3 DEF Admitted
  <2>2. CASE a = From[r]
    BY <1>1, <2>1, <2>2 DEF TypeOK
  <2>3. CASE a # From[r]
    <3>1. rate_limiter'[a] = rate_limiter[a]
      BY <1>1, <2>3 DEF TypeOK
    <3> QED BY <2>1, <3>1 DEF LedgerInv, StampHasOwner
  <2> QED BY <2>2, <2>3
<1>10. BallotFits'
  BY <1>2, <1>3 DEF LedgerInv, BallotFits
<1> QED BY <1>7, <1>8, <1>9, <1>10 DEF LedgerInv

LEMMA LedgerCheck ==
  ASSUME TypeOK, LedgerInv, NEW r \in Request, CheckVote(r)
  PROVE  LedgerInv' /\ (L!Reject(r) \/ UNCHANGED L!vars)
<1>1. /\ at[r] = "check" /\ UNCHANGED <<clock, votes, rate_limiter, epoch_seconds, tally>>
      /\ Goto(r, IF Ballot[r] = Spoiled THEN "bad_vote" ELSE "add")
  BY DEF CheckVote
<1>2. Ballot[r] # Poll
  BY <1>1 DEF LedgerInv, BallotFits
<1>3. CASE Ballot[r] # Spoiled
  <2>1. Ballot[r] \in Candidate
    BY <1>2, <1>3, RequestAssumption
  <2> QED BY <1>1, <1>3, <2>1, QuietSteps
<1>4. CASE Ballot[r] = Spoiled
  <2>1. /\ \A q \in Request : at'[q] = IF q = r THEN "bad_vote" ELSE at[q]
        /\ UNCHANGED <<Second, Came>>
        /\ Admitted' = Admitted \cup {r} /\ Counts' = Counts \ {r}
        /\ Answer' = [Answer EXCEPT ![r] = "bad_vote"]
    BY <1>1, <1>2, <1>4, GoesOn DEF Points, Answers
  <2>2. r \in Admitted /\ r \notin Counts /\ Answer[r] = Never
    BY <1>1, <1>2 DEF Admitted, Stamped, Counts, Counted, Answer, Answers
  <2>3. L!Reject(r)
    BY <1>1, <1>4, <2>1, <2>2 DEF L!Reject
  <2>4. CountersHonest'
    BY <1>1, <2>1, <2>2 DEF LedgerInv, CountersHonest, VotesOf
  <2>5. StampHasOwner'
    BY <1>1, <2>1, <2>2 DEF LedgerInv, StampHasOwner, Admitted
  <2>6. BallotFits'
    BY <1>2, <2>1 DEF LedgerInv, BallotFits
  <2> QED BY <2>3, <2>4, <2>5, <2>6 DEF LedgerInv
<1> QED BY <1>3, <1>4

LEMMA LedgerAdd ==
  ASSUME TypeOK, LedgerInv, NEW r \in Request, Add(r)
  PROVE  LedgerInv' /\ L!Count(r)
<1>1. /\ at[r] = "add" /\ Goto(r, "load")
      /\ votes' = [votes EXCEPT ![Ballot[r]] = @ + 1]
      /\ UNCHANGED <<clock, rate_limiter, epoch_seconds, tally>>
  BY DEF Add
<1>2. Ballot[r] \in Candidate /\ Ballot[r] # Poll
  BY <1>1, RequestAssumption DEF LedgerInv, BallotFits
<1>3. /\ \A q \in Request : at'[q] = IF q = r THEN "load" ELSE at[q]
      /\ UNCHANGED <<Second, Came>>
      /\ Admitted' = Admitted \cup {r} /\ Counts' = Counts \cup {r}
      /\ Answer' = [Answer EXCEPT ![r] = Never]
  BY <1>1, <1>2, GoesOn DEF Points, Answers
<1>4. r \in Admitted /\ r \notin Counts /\ Answer[r] = Never
  BY <1>1, <1>2 DEF Admitted, Stamped, Counts, Counted, Answer, Answers
<1>5. Answer' = Answer
  BY <1>3, <1>4 DEF Answer
<1>6. L!Count(r)
  BY <1>1, <1>2, <1>3, <1>4, <1>5 DEF L!Count
<1>7. CountersHonest'
  <2> SUFFICES ASSUME NEW c \in Candidate
               PROVE  IsFiniteSet(VotesOf(c)') /\ votes'[c] = Cardinality(VotesOf(c)')
    BY DEF CountersHonest
  <2>1. IsFiniteSet(VotesOf(c)) /\ votes[c] = Cardinality(VotesOf(c)) /\ r \notin VotesOf(c)
    BY <1>4 DEF LedgerInv, CountersHonest, VotesOf
  <2>2. CASE c = Ballot[r]
    <3>1. VotesOf(c)' = VotesOf(c) \cup {r} /\ votes'[c] = votes[c] + 1
      BY <1>1, <1>3, <2>2 DEF VotesOf, TypeOK
    <3> QED BY <2>1, <3>1, FS_AddElement
  <2>3. CASE c # Ballot[r]
    <3>1. VotesOf(c)' = VotesOf(c) /\ votes'[c] = votes[c]
      BY <1>1, <1>3, <2>3 DEF VotesOf, TypeOK
    <3> QED BY <2>1, <3>1
  <2> QED BY <2>2, <2>3
<1>8. StampHasOwner'
  BY <1>1, <1>3, <1>4 DEF LedgerInv, StampHasOwner, Admitted
<1>9. BallotFits'
  BY <1>2, <1>3 DEF LedgerInv, BallotFits
<1> QED BY <1>6, <1>7, <1>8, <1>9 DEF LedgerInv

LEMMA LedgerLoad ==
  ASSUME TypeOK, LedgerInv, NEW r \in Request, NEW c \in Candidate, Load(r, c)
  PROVE  LedgerInv' /\ L!Tell(r, c)
<1> DEFINE w == IF \A d \in Candidate \ {c} : tally[r][d] # Never THEN "tallied" ELSE "load"
<1>1. /\ at[r] = "load" /\ tally[r][c] = Never /\ Goto(r, w)
      /\ tally' = [tally EXCEPT ![r][c] = votes[c]]
      /\ UNCHANGED <<clock, votes, rate_limiter, epoch_seconds>>
  BY DEF Load
<1>2. Ballot[r] \in Candidate \cup {Poll}
  BY <1>1 DEF LedgerInv, BallotFits
<1>3. w \in {"load", "tallied"}
  OBVIOUS
<1>4. /\ \A q \in Request : at'[q] = IF q = r THEN w ELSE at[q]
      /\ UNCHANGED <<Second, Came>>
      /\ Admitted' = IF Ballot[r] # Poll THEN Admitted \cup {r} ELSE Admitted \ {r}
      /\ Counts' = IF Ballot[r] \in Candidate THEN Counts \cup {r} ELSE Counts \ {r}
      /\ Answer' = [Answer EXCEPT ![r] = IF w \in Answers THEN w ELSE Never]
  <2> HIDE DEF w
  <2> QED BY <1>1, <1>3, GoesOn DEF Points, Answers
<1>5. /\ r \in Admitted <=> Ballot[r] # Poll
      /\ r \in Counts <=> Ballot[r] \in Candidate
      /\ Answer[r] = Never /\ r \in Came
  BY <1>1 DEF Admitted, Stamped, Counts, Counted, Answer, Answers, Came
<1>6. UNCHANGED <<Admitted, Counts>>
  BY <1>4, <1>5
<1>7. Answer' = IF w = "tallied" THEN [Answer EXCEPT ![r] = "tallied"] ELSE Answer
  BY <1>3, <1>4, <1>5 DEF Answer, Answers
\* Ledger brings its own copy of FiniteSets.
<1>8. votes[c] = L!Cardinality(L!VotesFor(c))
  BY DEF LedgerInv, CountersHonest, VotesOf, L!VotesFor, L!Cardinality, Cardinality
<1>9. L!Tell(r, c)
  BY <1>1, <1>2, <1>4, <1>5, <1>6, <1>7, <1>8 DEF L!Tell
<1>10. CountersHonest'
  BY <1>1, <1>6 DEF LedgerInv, CountersHonest, VotesOf
<1>11. StampHasOwner'
  BY <1>1, <1>6 DEF LedgerInv, StampHasOwner, Admitted
<1>12. BallotFits'
  BY <1>2, <1>3, <1>4 DEF LedgerInv, BallotFits
<1> QED BY <1>9, <1>10, <1>11, <1>12 DEF LedgerInv

\* A step is a step of Ledger or a stutter.
LEMMA LedgerStep ==
  ASSUME TypeOK, LimitInv, LedgerInv, [Next]_vars
  PROVE  LedgerInv' /\ [L!Next]_(L!vars)
<1>1. CASE Tick
  <2>1. UNCHANGED <<votes, rate_limiter, at, epoch_seconds, tally>> /\ clock' = clock + 1
    BY <1>1 DEF Tick
  <2>2. UNCHANGED <<Second, Came, Admitted, Counts, Answer>>
    BY <2>1 DEF Second, Came, Admitted, Stamped, Counts, Counted, Answer
  <2>3. L!Tick
    BY <2>1, <2>2 DEF L!Tick
  <2>4. LedgerInv'
    BY <2>1, <2>2 DEF LedgerInv, CountersHonest, VotesOf, StampHasOwner, Stamped, BallotFits
  <2> QED BY <2>3, <2>4 DEF L!Next
<1>2. CASE UNCHANGED vars
  <2>1. UNCHANGED <<clock, votes, rate_limiter, at, epoch_seconds, tally>>
    BY <1>2 DEF vars
  <2>2. UNCHANGED <<Second, Came, Admitted, Counts, Answer>>
    BY <2>1 DEF Second, Came, Admitted, Stamped, Counts, Counted, Answer
  <2>3. LedgerInv'
    BY <2>1, <2>2 DEF LedgerInv, CountersHonest, VotesOf, StampHasOwner, Stamped, BallotFits
  <2> QED BY <2>1, <2>2, <2>3 DEF L!vars
<1>3. ASSUME NEW r \in Request, Arrive(r)
      PROVE  LedgerInv' /\ [L!Next]_(L!vars)
  BY <1>3, LedgerArrive DEF L!Next
<1>4. ASSUME NEW r \in Request, Lookup(r)
      PROVE  LedgerInv' /\ [L!Next]_(L!vars)
  <2>1. /\ at[r] = "lookup" /\ (Goto(r, "stamp") \/ Goto(r, "compare"))
        /\ UNCHANGED <<clock, votes, rate_limiter, epoch_seconds, tally>>
    BY <1>4 DEF Lookup
  <2> QED BY <1>4, <2>1, QuietSteps DEF Lookup
<1>5. ASSUME NEW r \in Request, Compare(r)
      PROVE  LedgerInv' /\ [L!Next]_(L!vars)
  <2>1. CASE Goto(r, "too_many") /\ rate_limiter[From[r]] = epoch_seconds[r]
    BY <1>5, <2>1, LedgerTurnAway DEF L!Next
  <2>2. CASE Goto(r, "stamp")
    <3>1. at[r] = "compare" /\ UNCHANGED <<clock, votes, rate_limiter, epoch_seconds, tally>>
      BY <1>5 DEF Compare
    <3> QED BY <2>2, <3>1, QuietSteps
  <2>3. CASE /\ Goto(r, "panicked") /\ ~Waits(r)
             /\ rate_limiter[From[r]] \in Nat /\ rate_limiter[From[r]] > epoch_seconds[r]
    BY <1>5, <2>3, LedgerOvertaken DEF L!Next
  <2> QED BY <1>5, <2>1, <2>2, <2>3, CompareDecides
<1>6. ASSUME NEW r \in Request, Stamp(r)
      PROVE  LedgerInv' /\ [L!Next]_(L!vars)
  BY <1>6, LedgerStamp DEF L!Next
<1>7. ASSUME NEW r \in Request, CheckVote(r)
      PROVE  LedgerInv' /\ [L!Next]_(L!vars)
  BY <1>7, LedgerCheck DEF L!Next
<1>8. ASSUME NEW r \in Request, Add(r)
      PROVE  LedgerInv' /\ [L!Next]_(L!vars)
  BY <1>8, LedgerAdd DEF L!Next
<1>9. ASSUME NEW r \in Request, NEW c \in Candidate, Load(r, c)
      PROVE  LedgerInv' /\ [L!Next]_(L!vars)
  BY <1>9, LedgerLoad DEF L!Next
<1> QED BY <1>1, <1>2, <1>3, <1>4, <1>5, <1>6, <1>7, <1>8, <1>9 DEF Next, Handle

(***************************************************************************)
(* The ballot box implements Ledger: every valid vote that is let through  *)
(* counts exactly once, nobody is turned away but for a vote of the same   *)
(* address in the same second, a request dies only if overtaken, and what  *)
(* is reported are numbers of votes that count.                            *)
(***************************************************************************)
THEOREM LedgerKept == Spec => KeepsLedger
<1>1. TypeOK /\ LimitInv /\ LedgerInv /\ [Next]_vars => LedgerInv' /\ [L!Next]_(L!vars)
  BY LedgerStep
<1> QED BY <1>1, LedgerInit, BallotBoxTypeOK, LimitAlways, PTL DEF Spec, KeepsLedger, L!Spec
=============================================================================
