--------------------------- MODULE ElectionProofs ---------------------------
(***************************************************************************)
(* get_current_winner for every list of tallies: the loop invariant, and   *)
(* what it gives when the loop is over.                                    *)
(***************************************************************************)
EXTENDS Election, TLAPS

\* The invariant: Finish alone sets a competitor, Decode and Finish alone an error.
Inv ==
  /\ TypeOK /\ LoopInv
  /\ result = Pending /\ i > 0 => \A k \in DOMAIN tallies : tallies[k].votes <= MaxU32
  /\ NamesTheWinner /\ FailsForAReason

LEMMA SeqType ==
  ASSUME NEW S, NEW s \in Seq(S)
  PROVE  /\ Len(s) \in Nat /\ DOMAIN s = 1..Len(s)
         /\ \A k \in DOMAIN s : s[k] \in S
OBVIOUS

LEMMA TallyType ==
  ASSUME TypeOK
  PROVE  /\ tallies \in Seq([name : Name, votes : Nat])
         /\ Len(tallies) \in Nat /\ DOMAIN tallies = 1..Len(tallies)
         /\ \A k \in DOMAIN tallies : /\ tallies[k] \in [name : Name, votes : Nat]
                                      /\ tallies[k].name \in Name /\ tallies[k].votes \in Nat
         /\ winner.votes \in Nat /\ winner.name \in Name \cup {Blank}
<1>1. tallies \in Seq([name : Name, votes : Nat])
  BY ElectionAssumption DEF TypeOK
<1>2. /\ Len(tallies) \in Nat /\ DOMAIN tallies = 1..Len(tallies)
      /\ \A k \in DOMAIN tallies : tallies[k] \in [name : Name, votes : Nat]
  BY <1>1, SeqType
<1>3. \A k \in DOMAIN tallies : tallies[k].name \in Name /\ tallies[k].votes \in Nat
  BY <1>2
<1>4. winner.votes \in Nat /\ winner.name \in Name \cup {Blank}
  BY DEF TypeOK
<1> QED BY <1>1, <1>2, <1>3, <1>4

\* Once the loop is over, the winner is on a winning place or nobody voted.
LEMMA LoopGives ==
  ASSUME TypeOK, LoopInv, i > Len(tallies)
  PROVE  \/ winner.name = Blank /\ WinningPlaces(tallies) = {}
         \/ \E k \in WinningPlaces(tallies) : winner = tallies[k]
<1>1. Scanned = DOMAIN tallies
  <2>1. i \in Nat /\ Len(tallies) \in Nat /\ DOMAIN tallies = 1..Len(tallies)
    BY TallyType DEF TypeOK
  <2> QED BY <2>1 DEF Scanned
<1>2. CASE winner = [name |-> Blank, votes |-> 0]
  <2>1. \A k \in DOMAIN tallies : ~(tallies[k].votes > 0)
    BY <1>1, <1>2, TallyType DEF LoopInv
  <2> QED BY <1>2, <2>1 DEF WinningPlaces
<1>3. CASE winner # [name |-> Blank, votes |-> 0]
  <2>1. PICK k \in DOMAIN tallies : 
           /\ winner = tallies[k] /\ winner.votes > 0
           /\ \A j \in 1..(k - 1) : tallies[j].votes < winner.votes
    BY <1>1, <1>3 DEF LoopInv
  <2>2. \A j \in DOMAIN tallies : tallies[j].votes <= tallies[k].votes
    BY <1>1, <2>1 DEF LoopInv
  <2> QED BY <2>1, <2>2 DEF WinningPlaces, FirstMost
<1> QED BY <1>2, <1>3

LEMMA InvInit == Init => Inv
<1> SUFFICES ASSUME Init PROVE Inv
  OBVIOUS
<1>1. TypeOK
  BY ElectionAssumption DEF Init, TypeOK
<1>2. LoopInv
  BY <1>1, TallyType DEF Init, LoopInv, Scanned
<1>3. NamesTheWinner /\ FailsForAReason
  BY ResultAssumption DEF Init, NamesTheWinner, FailsForAReason, Pending, Err
<1> QED BY <1>1, <1>2, <1>3 DEF Inv, Init

\* A turn of the loop keeps the loop invariant.
LEMMA ScanKeeps ==
  ASSUME TypeOK, LoopInv, Scan, i > 0
  PROVE  LoopInv'
<1>0. /\ i \in 1..Len(tallies) /\ tallies' = tallies /\ i' = i + 1
      /\ Scanned' = Scanned \cup {i}
  BY TallyType DEF Scan, Scanned, TypeOK
<1>1. CASE tallies[i].votes > winner.votes
  <2>1. winner' = tallies[i]
    BY <1>1 DEF Scan
  <2>2. \A k \in Scanned : tallies[k].votes < winner'.votes
    <3>1. \A k \in Scanned : tallies[k].votes <= winner.votes /\ k \in DOMAIN tallies
      BY <1>0 DEF LoopInv, Scanned
    <3>2. winner.votes \in Nat /\ winner'.votes \in Nat /\ winner.votes < winner'.votes
      BY <1>0, <1>1, <2>1, TallyType
    <3> QED BY <3>1, <3>2, TallyType
  <2>3. \A k \in Scanned' : tallies[k].votes <= winner'.votes
    <3>1. winner'.votes \in Nat /\ tallies[i].votes = winner'.votes
      BY <1>0, <2>1, TallyType
    <3>2. \A k \in Scanned : tallies[k].votes \in Nat
      BY TallyType DEF Scanned
    <3> QED BY <1>0, <2>2, <3>1, <3>2
  <2>4. \A j \in 1..(i - 1) : tallies[j].votes < winner'.votes
    BY <1>0, <2>2, TallyType, SMTT(30) DEF Scanned
  <2>5. winner'.votes > 0
    BY <1>0, <1>1, <2>1, TallyType
  <2> QED BY <1>0, <2>1, <2>3, <2>4, <2>5, TallyType DEF LoopInv
<1>2. CASE ~(tallies[i].votes > winner.votes)
  <2>1. winner' = winner
    BY <1>2 DEF Scan
  <2>2. \A k \in Scanned' : tallies[k].votes <= winner.votes
    BY <1>0, <1>2, TallyType DEF LoopInv
  <2> QED BY <1>0, <2>1, <2>2, TallyType DEF LoopInv
<1> QED BY <1>1, <1>2

LEMMA InvNext ==
  ASSUME Inv, [Next]_vars
  PROVE  Inv'
<1>0. TypeOK /\ LoopInv /\ NamesTheWinner /\ FailsForAReason
  BY DEF Inv
<1>1. CASE Decode
  <2>1. TypeOK'
    BY <1>0, <1>1 DEF Decode, TypeOK
  <2>2. LoopInv'
    BY <1>0, <1>1, TallyType DEF Decode, LoopInv, Scanned
  <2>3. NamesTheWinner' /\ FailsForAReason'
    BY <1>1, ResultAssumption DEF Decode, NamesTheWinner, FailsForAReason, Pending, Err
  <2>4. result' = Pending => \A k \in DOMAIN tallies : tallies[k].votes <= MaxU32
    BY <1>0, <1>1, TallyType, ElectionAssumption DEF Decode, Pending, Err
  <2> QED BY <1>1, <2>1, <2>2, <2>3, <2>4 DEF Inv, Decode
<1>2. CASE Scan
  <2>1. TypeOK'
    BY <1>0, <1>2, TallyType DEF Scan, TypeOK
  <2>2. LoopInv'
    <3>1. CASE i > 0
      BY <1>0, <1>2, <3>1, ScanKeeps
    <3>2. CASE ~(i > 0)
      BY <1>0, <1>2, <3>2, TallyType DEF Scan, TypeOK
    <3> QED BY <3>1, <3>2
  <2>3. NamesTheWinner' /\ FailsForAReason'
    BY <1>0, <1>2 DEF Scan, NamesTheWinner, FailsForAReason
  <2>4. i > 0
    BY <1>0, <1>2, TallyType DEF Scan, TypeOK
  <2> QED BY <1>2, <2>1, <2>2, <2>3, <2>4 DEF Inv, Scan
<1>3. CASE Finish
  <2>1. FromStr[winner.name] \in Competitor \cup {Unknown} /\ i > Len(tallies)
    BY <1>0, <1>3, TallyType, ElectionAssumption DEF Finish
  <2>2. TypeOK'
    BY <1>0, <1>3, <2>1 DEF Finish, TypeOK
  <2>3. LoopInv'
    BY <1>0, <1>3 DEF Finish, LoopInv, Scanned
  <2>4. NamesTheWinner' /\ FailsForAReason'
    <3>1. \/ winner.name = Blank /\ WinningPlaces(tallies) = {}
          \/ \E k \in WinningPlaces(tallies) : winner = tallies[k]
      BY <1>0, <2>1, LoopGives
    <3>2. tallies' = tallies /\ result' = IF FromStr[winner.name] = Unknown THEN Err ELSE FromStr[winner.name]
      BY <1>3 DEF Finish
    <3>3. CASE FromStr[winner.name] = Unknown
      BY <3>1, <3>2, <3>3, ResultAssumption DEF NamesTheWinner, FailsForAReason
    <3>4. CASE FromStr[winner.name] # Unknown
      <4>1. \E k \in WinningPlaces(tallies) : winner = tallies[k]
        BY <3>1, <3>4, ElectionAssumption
      <4>2. result' = FromStr[winner.name] /\ result' \in Competitor /\ result' # Err
        BY <2>1, <3>2, <3>4, ResultAssumption
      <4> QED BY <3>2, <4>1, <4>2 DEF NamesTheWinner, FailsForAReason
    <3> QED BY <3>3, <3>4
  <2>5. result' # Pending
    BY <1>3, <2>1, ResultAssumption DEF Finish, Pending, Err
  <2> QED BY <2>2, <2>3, <2>4, <2>5 DEF Inv
<1>4. CASE UNCHANGED vars
  BY <1>0, <1>4 DEF vars, Inv, TypeOK, LoopInv, Scanned, NamesTheWinner, FailsForAReason
<1> QED BY <1>1, <1>2, <1>3, <1>4 DEF Next

\* get_current_winner's invariant, of which the theorems below are parts.
THEOREM ElectionInv == Spec => []Inv
BY InvInit, InvNext, PTL DEF Spec

\* The types of what get_current_winner keeps and returns.
THEOREM ElectionTypeOK == Spec => []TypeOK
<1>1. Inv => TypeOK
  BY DEF Inv
<1> QED BY <1>1, ElectionInv, PTL

\* At each turn of the loop, winner is the first most of what was scanned.
THEOREM LoopCorrect == Spec => []LoopInv
<1>1. Inv => LoopInv
  BY DEF Inv
<1> QED BY <1>1, ElectionInv, PTL

\* The competitor that is returned has the first largest tally of the list.
THEOREM WinnerCorrect == Spec => []NamesTheWinner
<1>1. Inv => NamesTheWinner
  BY DEF Inv
<1> QED BY <1>1, ElectionInv, PTL

\* An error means no vote, an unknown name in front, or a count too large for a u32.
THEOREM ErrorHasReason == Spec => []FailsForAReason
<1>1. Inv => FailsForAReason
  BY DEF Inv
<1> QED BY <1>1, ElectionInv, PTL
=============================================================================
