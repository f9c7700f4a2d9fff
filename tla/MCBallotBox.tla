---------------------------- MODULE MCBallotBox -----------------------------
(* Instances of BallotBox for TLC: requests are named v1, v2, ... (votes) and p1. *)
EXTENDS BallotBox, TLC
CONSTANTS v1, v2, v3, v4, p1, ip1, ip2, summer1, summer2

AllBallots == v1 :> summer1 @@ v2 :> Spoiled @@ v3 :> summer2 @@ v4 :> summer1 @@ p1 :> Poll
AllFrom    == v1 :> ip1 @@ v2 :> ip1 @@ v3 :> ip2 @@ v4 :> ip2 @@ p1 :> ip2
MCBallot == [r \in Request |-> AllBallots[r]]
MCFrom   == [r \in Request |-> AllFrom[r]]
=============================================================================
