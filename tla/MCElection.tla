----------------------------- MODULE MCElection -----------------------------
(* Every list of up to three tallies, with counts past MaxU32. *)
EXTENDS Election
CONSTANTS summer1, summer2, other
MCFromStr == [n \in {summer1, summer2, other, Blank} |->
                IF n \in Competitor THEN n ELSE Unknown]
Lists(n) == [1..n -> [name : Name, votes : 0..MaxU32 + 1]]
MCAnswers == UNION {Lists(n) : n \in 0..3}
=============================================================================
