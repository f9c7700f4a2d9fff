------------------------------- MODULE Tally --------------------------------
(***************************************************************************)
(* What get_current_winner should compute from the list of tallies that    *)
(* the ballot box sends, said without its loop.                            *)
(***************************************************************************)
EXTENDS Naturals, Sequences

\* Place k holds the most votes, and no place before it as many.
FirstMost(tallies, k) ==
  /\ \A j \in DOMAIN tallies : tallies[j].votes <= tallies[k].votes
  /\ \A j \in 1..(k - 1) : tallies[j].votes < tallies[k].votes

\* The places that win: the first with the most votes, if anybody voted.
WinningPlaces(tallies) ==
  {k \in DOMAIN tallies : tallies[k].votes > 0 /\ FirstMost(tallies, k)}
=============================================================================
