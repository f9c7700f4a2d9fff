------------------------------ MODULE Election ------------------------------
(***************************************************************************)
(* get_current_winner (democracy-scheduler/src/main.rs): decode the answer *)
(* of the ballot box, keep the best tally seen, turn its name into a       *)
(* competitor.                                                             *)
(***************************************************************************)
EXTENDS Tally

CONSTANTS
  Name,             \* the names that a tally may carry
  Competitor,       \* enum Competitors
  Unknown,          \* Competitors::from_str returned Err
  FromStr,          \* Competitors::from_str
  Blank,            \* String::from("")
  Answers,          \* the lists of tallies that the ballot box may send
  MaxU32            \* the largest u32; the ballot box counts in u64

ASSUME ElectionAssumption ==
  /\ Unknown \notin Competitor
  /\ FromStr \in [Name \cup {Blank} -> Competitor \cup {Unknown}]
  /\ FromStr[Blank] = Unknown
  /\ Answers \subseteq Seq([name : Name, votes : Nat])
  /\ MaxU32 \in Nat

VARIABLES tallies, i, winner, result
vars == <<tallies, i, winner, result>>

Pending == "pending"
Err == "err"
ASSUME ResultAssumption == Pending \notin Competitor /\ Err \notin Competitor

Init ==
  /\ tallies \in Answers
  /\ i = 0
  /\ winner = [name |-> Blank, votes |-> 0]
  /\ result = Pending

\* mutant: the largest u32 is refused too
DecodeNarrow ==
  /\ result = Pending /\ i = 0
  /\ i' = 1
  /\ result' = IF \E k \in DOMAIN tallies : tallies[k].votes >= MaxU32 THEN Err ELSE Pending
  /\ UNCHANGED <<tallies, winner>>
\* winner.json(): a count that does not fit the u32 of Vote is an error.
Decode ==
  /\ result = Pending /\ i = 0
  /\ i' = 1
  /\ result' = IF \E k \in DOMAIN tallies : tallies[k].votes > MaxU32 THEN Err ELSE Pending
  /\ UNCHANGED <<tallies, winner>>

\* mutant: a tie goes to the later tally
ScanLatest ==
  /\ result = Pending /\ i \in DOMAIN tallies
  /\ winner' = IF tallies[i].votes >= winner.votes THEN tallies[i] ELSE winner
  /\ i' = i + 1
  /\ UNCHANGED <<tallies, result>>
\* One turn of the loop.
Scan ==
  /\ result = Pending /\ i \in DOMAIN tallies
  /\ winner' = IF tallies[i].votes > winner.votes THEN tallies[i] ELSE winner
  /\ i' = i + 1
  /\ UNCHANGED <<tallies, result>>

\* mutant: the error of from_str is not looked at
FinishUnchecked ==
  /\ result = Pending /\ i > Len(tallies) /\ i > 0
  /\ result' = FromStr[winner.name]
  /\ UNCHANGED <<tallies, i, winner>>
\* Competitors::from_str(&winner.0)
Finish ==
  /\ result = Pending /\ i > Len(tallies) /\ i > 0
  /\ result' = IF FromStr[winner.name] = Unknown THEN Err ELSE FromStr[winner.name]
  /\ UNCHANGED <<tallies, i, winner>>

Next == Decode \/ Scan \/ Finish
Spec == Init /\ [][Next]_vars

-----------------------------------------------------------------------------
TypeOK ==
  /\ tallies \in Answers
  /\ i \in Nat
  /\ winner \in [name : Name \cup {Blank}, votes : Nat]
  /\ result \in Competitor \cup {Pending, Err}

Scanned == {k \in DOMAIN tallies : k < i}

\* The loop invariant: winner is the first most of what was scanned, or nobody voted there.
LoopInv ==
  /\ i <= Len(tallies) + 1
  /\ \A k \in Scanned : tallies[k].votes <= winner.votes
  /\ \/ winner = [name |-> Blank, votes |-> 0]
     \/ \E k \in Scanned : /\ winner = tallies[k] /\ winner.votes > 0
                           /\ \A j \in 1..(k - 1) : tallies[j].votes < winner.votes

(***************************************************************************)
(* The competitor that the scheduler runs is the one of the first tally    *)
(* with the most votes, in the order of the list: a tie goes to the one    *)
(* that the ballot box lists first, never to one that has fewer votes, and *)
(* with no vote cast there is no winner.                                   *)
(***************************************************************************)
NamesTheWinner ==
  result \in Competitor =>
    \E k \in WinningPlaces(tallies) : result = FromStr[tallies[k].name]

(***************************************************************************)
(* Conversely the call fails only for a reason: no vote, a name that is no *)
(* competitor in front, or a count of the ballot box's u64 that the u32    *)
(* of the scheduler cannot hold.                                           *)
(***************************************************************************)
FailsForAReason ==
  result = Err =>
    \/ WinningPlaces(tallies) = {}
    \/ \E k \in WinningPlaces(tallies) : FromStr[tallies[k].name] = Unknown
    \/ \E k \in DOMAIN tallies : tallies[k].votes > MaxU32
=============================================================================
