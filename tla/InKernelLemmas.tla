-------------------------- MODULE InKernelLemmas --------------------------
(***************************************************************************)
(* What the operators of InKernel.tla compute, for any queues, CPUs and    *)
(* tasks: insertion by virtual time, the scan of consume for a task that   *)
(* may run here, the order in which the queues are tried, the charge.      *)
(***************************************************************************)
EXTENDS InKernel, FiniteSetTheorems, SequenceTheorems, WellFoundedInduction, TLAPS

\* Integer division: its range and that it is monotone.
LEMMA DivNat ==
  ASSUME NEW a \in Nat, NEW w \in Nat \ {0}
  PROVE  a \div w \in Nat /\ a \div w <= a
OBVIOUS
LEMMA DivMono ==
  ASSUME NEW a \in Nat, NEW b \in Nat, NEW w \in Nat \ {0}, a <= b
  PROVE  a \div w <= b \div w
OBVIOUS

\* A bounded set of numbers has a largest member, any set of numbers a smallest one.
LEMMA Bounded ==
  ASSUME NEW S \in SUBSET Nat, S # {}, NEW b \in Nat, \A x \in S : x <= b
  PROVE  Max(S) \in S /\ \A x \in S : x <= Max(S)
<1> DEFINE T == {b - x : x \in S}
<1>1. T \subseteq Nat /\ T # {}
  <2>1. \A x \in S : b - x \in Nat
    OBVIOUS
  <2>2. T \subseteq Nat
    BY <2>1
  <2> QED BY <2>2
<1>2. PICK m \in T : \A y \in T : ~ (<<y, m>> \in OpToRel(<, Nat))
  BY <1>1, NatLessThanWellFounded, WFMin
<1>3. \A y \in T : m <= y
  <2> HIDE DEF T
  <2> SUFFICES ASSUME NEW y \in T PROVE ~(y < m)
    BY <1>1
  <2>1. <<y, m>> \in Nat \X Nat
    BY <1>1
  <2> QED BY <1>2, <2>1 DEF OpToRel
<1>4. PICK x \in S : m = b - x
  OBVIOUS
<1>5. \A y \in S : x >= y
  BY <1>3, <1>4
<1> QED BY <1>4, <1>5 DEF Max

LEMMA MinOfNat ==
  ASSUME NEW S \in SUBSET Nat, S # {}
  PROVE  Min(S) \in S /\ \A x \in S : Min(S) <= x
<1>1. PICK m \in S : \A y \in S : ~ (<<y, m>> \in OpToRel(<, Nat))
  BY NatLessThanWellFounded, WFMin
<1>2. \A y \in S : m <= y
  <2> SUFFICES ASSUME NEW y \in S PROVE ~(y < m)
    OBVIOUS
  <2>1. <<y, m>> \in Nat \X Nat
    OBVIOUS
  <2> QED BY <1>1, <2>1 DEF OpToRel
<1> QED BY <1>2 DEF Min

\* t is s with e put in as entry number at.
Inserted(t, s, at, e) ==
  /\ Len(t) = Len(s) + 1
  /\ \A j \in 1..Len(s) + 1 : t[j] = IF j < at THEN s[j] ELSE IF j = at THEN e ELSE s[j - 1]

\* What is where in a sequence after an insertion, a removal.
LEMMA InsertAtElements ==
  ASSUME NEW S, NEW s \in Seq(S), NEW at \in 1..Len(s) + 1, NEW e \in S
  PROVE  /\ InsertAt(s, at, e) \in Seq(S)
         /\ Inserted(InsertAt(s, at, e), s, at, e)
<1> DEFINE l == SubSeq(s, 1, at - 1)  r == SubSeq(s, at, Len(s))  le == l \o <<e>>
<1>0. Len(s) \in Nat /\ \A j \in 1..Len(s) : s[j] \in S
  BY LenProperties, ElementOfSeq
<1>1. l \in Seq(S) /\ Len(l) = at - 1 /\ \A j \in 1..at - 1 : l[j] = s[j]
  BY <1>0, SubSeqProperties
<1>2. r \in Seq(S) /\ Len(r) = Len(s) - at + 1 /\ \A j \in 1..Len(s) - at + 1 : r[j] = s[at + j - 1]
  BY <1>0, SubSeqProperties
<1>3. <<e>> \in Seq(S) /\ Len(<<e>>) = 1 /\ <<e>>[1] = e
  OBVIOUS
<1> HIDE DEF l, r
<1>4. /\ le \in Seq(S) /\ Len(le) = at
      /\ \A j \in 1..at : le[j] = IF j < at THEN s[j] ELSE e
  BY <1>1, <1>3, ConcatProperties
<1> HIDE DEF le
<1>5. /\ le \o r \in Seq(S) /\ Len(le \o r) = Len(s) + 1
      /\ \A j \in 1..Len(s) + 1 : (le \o r)[j] = IF j <= at THEN le[j] ELSE r[j - at]
  <2>1. Len(le) + Len(r) = Len(s) + 1
    BY <1>0, <1>2, <1>4
  <2>2. /\ le \o r \in Seq(S) /\ Len(le \o r) = Len(le) + Len(r)
        /\ \A j \in 1..Len(le) + Len(r) :
             (le \o r)[j] = IF j <= Len(le) THEN le[j] ELSE r[j - Len(le)]
    BY <1>2, <1>4, ConcatProperties
  <2> QED BY <1>4, <2>1, <2>2
<1>6. InsertAt(s, at, e) = le \o r
  BY DEF InsertAt, le, l, r
<1>7. ASSUME NEW j \in 1..Len(s) + 1
      PROVE  (le \o r)[j] = IF j < at THEN s[j] ELSE IF j = at THEN e ELSE s[j - 1]
  <2>1. CASE j <= at
    BY <1>4, <1>5, <2>1, <1>0
  <2>2. CASE ~ (j <= at)
    <3>1. j - at \in 1..Len(s) - at + 1 /\ at + (j - at) - 1 = j - 1
      BY <2>2, <1>0
    <3>2. r[j - at] = s[j - 1]
      BY <1>2, <3>1
    <3>3. (le \o r)[j] = r[j - at]
      BY <1>5, <2>2, <1>0
    <3> QED BY <2>2, <3>2, <3>3, <1>0
  <2> QED BY <2>1, <2>2
<1> QED BY <1>5, <1>6, <1>7 DEF Inserted

LEMMA RemoveAtElements ==
  ASSUME NEW S, NEW s \in Seq(S), NEW at \in 1..Len(s)
  PROVE  /\ RemoveAt(s, at) \in Seq(S)
         /\ Len(RemoveAt(s, at)) = Len(s) - 1
         /\ \A j \in 1..Len(s) - 1 : RemoveAt(s, at)[j] = IF j < at THEN s[j] ELSE s[j + 1]
<1> DEFINE l == SubSeq(s, 1, at - 1)  r == SubSeq(s, at + 1, Len(s))
<1>0. Len(s) \in Nat /\ \A j \in 1..Len(s) : s[j] \in S
  BY LenProperties, ElementOfSeq
<1>1. l \in Seq(S) /\ Len(l) = at - 1 /\ \A j \in 1..at - 1 : l[j] = s[j]
  BY <1>0, SubSeqProperties
<1>2. r \in Seq(S) /\ Len(r) = Len(s) - at /\ \A j \in 1..Len(s) - at : r[j] = s[at + j]
  BY <1>0, SubSeqProperties
<1> HIDE DEF l, r
<1>3. /\ l \o r \in Seq(S) /\ Len(l \o r) = Len(s) - 1
      /\ \A j \in 1..Len(s) - 1 : (l \o r)[j] = IF j <= at - 1 THEN l[j] ELSE r[j - (at - 1)]
  <2>1. Len(l) + Len(r) = Len(s) - 1
    BY <1>0, <1>1, <1>2
  <2>2. /\ l \o r \in Seq(S) /\ Len(l \o r) = Len(l) + Len(r)
        /\ \A j \in 1..Len(l) + Len(r) :
             (l \o r)[j] = IF j <= Len(l) THEN l[j] ELSE r[j - Len(l)]
    BY <1>1, <1>2, ConcatProperties
  <2> QED BY <1>1, <2>1, <2>2
<1>4. RemoveAt(s, at) = l \o r
  BY DEF RemoveAt, l, r
<1>5. ASSUME NEW j \in 1..Len(s) - 1
      PROVE  (l \o r)[j] = IF j < at THEN s[j] ELSE s[j + 1]
  <2>1. CASE j < at
    BY <1>1, <1>3, <2>1, <1>0
  <2>2. CASE ~ (j < at)
    <3>1. j - (at - 1) \in 1..Len(s) - at /\ at + (j - (at - 1)) = j + 1
      BY <2>2, <1>0
    <3>2. r[j - (at - 1)] = s[j + 1]
      BY <1>2, <3>1
    <3>3. (l \o r)[j] = r[j - (at - 1)]
      BY <1>3, <2>2, <1>0
    <3> QED BY <2>2, <3>2, <3>3, <1>0
  <2> QED BY <2>1, <2>2
<1> QED BY <1>3, <1>4, <1>5

-----------------------------------------------------------------------------
\* Queues of tasks; no task twice, on one queue or on two; a task is on some queue.
SeqOK(queues) == queues \in [Dsq -> Seq(Task)]
Once(queues) ==
  \A d, e \in Dsq : \A i \in 1..Len(queues[d]), j \in 1..Len(queues[e]) :
    queues[d][i] = queues[e][j] => d = e /\ i = j
On(queues, p) == \E d \in Dsq : \E i \in 1..Len(queues[d]) : queues[d][i] = p

\* scx_bpf_dispatch_vtime puts the task at one place and loses nobody, ...
LEMMA DispatchVtimeElements ==
  ASSUME NEW queues, SeqOK(queues), Once(queues),
         NEW d \in Dsq, NEW p \in Task, ~On(queues, p), NEW vt
  PROVE  LET new == DispatchVtime(queues, d, p, vt) IN
         /\ SeqOK(new) /\ Once(new)
         /\ \A q : On(new, q) <=> q = p \/ On(queues, q)
<1> DEFINE s == queues[d]
           before == {i \in DOMAIN s : vt[s[i]] <= vt[p]}
           at == 1 + Cardinality(before)
           t == InsertAt(s, at, p)
           new == DispatchVtime(queues, d, p, vt)
<1>1. s \in Seq(Task) /\ Len(s) \in Nat /\ DOMAIN s = 1..Len(s)
  BY LenProperties DEF SeqOK
<1>2. at \in 1..Len(s) + 1
  <2>1. IsFiniteSet(1..Len(s)) /\ Cardinality(1..Len(s)) = Len(s)
    BY <1>1, FS_Interval
  <2>2. before \subseteq 1..Len(s)
    BY <1>1
  <2> HIDE DEF before
  <2>3. Cardinality(before) \in Nat /\ Cardinality(before) <= Len(s)
    BY <2>1, <2>2, FS_Subset, FS_CardinalityType
  <2> QED BY <1>1, <2>3
<1> HIDE DEF at, s
<1>3. /\ t \in Seq(Task) /\ Len(t) = Len(s) + 1
      /\ \A j \in 1..Len(s) + 1 : t[j] = IF j < at THEN s[j] ELSE IF j = at THEN p ELSE s[j - 1]
  <2> HIDE DEF t
  <2>1. s \in Seq(Task) /\ at \in 1..Len(s) + 1 /\ t = InsertAt(s, at, p)
    BY <1>1, <1>2 DEF t
  <2>2. t \in Seq(Task) /\ Inserted(t, s, at, p)
    BY <2>1, InsertAtElements
  <2> QED BY <2>2 DEF Inserted
<1>4. new = [queues EXCEPT ![d] = t]
  BY DEF DispatchVtime, at, s
<1> HIDE DEF t
<1>5. SeqOK(new) /\ \A e \in Dsq : new[e] = IF e = d THEN t ELSE queues[e]
  BY <1>3, <1>4 DEF SeqOK
<1> HIDE DEF new
\* Where an entry of new comes from.
<1> DEFINE Was(i) == IF i < at THEN i ELSE i - 1
<1>6. \A i \in 1..Len(t) : \/ i = at /\ t[i] = p
                           \/ i # at /\ Was(i) \in 1..Len(s) /\ t[i] = s[Was(i)]
  BY <1>1, <1>2, <1>3
<1>7. \A i, j \in 1..Len(t) : i # at /\ j # at /\ Was(i) = Was(j) => i = j
  BY <1>1, <1>2, <1>3
<1>8. \A e \in Dsq : \A i \in 1..Len(queues[e]) : queues[e][i] # p
  BY DEF On
<1>9. Once(new)
  <2> SUFFICES ASSUME NEW e \in Dsq, NEW f \in Dsq, NEW i \in 1..Len(new[e]), NEW j \in 1..Len(new[f]),
                      new[e][i] = new[f][j]
               PROVE  e = f /\ i = j
    BY DEF Once
  <2>1. CASE e # d /\ f # d
    BY <1>5, <2>1 DEF Once
  <2>2. CASE e = d /\ f # d
    <3>1. i \in 1..Len(t) /\ t[i] = queues[f][j] /\ j \in 1..Len(queues[f])
      BY <1>5, <2>2
    <3>2. Was(i) \in 1..Len(s) /\ s[Was(i)] = queues[f][j]
      BY <1>6, <1>8, <3>1
    <3> QED BY <2>2, <3>1, <3>2 DEF Once, s
  <2>3. CASE e # d /\ f = d
    BY <1>5, <1>6, <1>8, <2>3, SMTT(30) DEF Once, s
  <2>4. CASE e = d /\ f = d
    <3>1. i \in 1..Len(t) /\ j \in 1..Len(t) /\ t[i] = t[j]
      BY <1>5, <2>4
    <3>2. CASE i = at \/ j = at
      <4>1. \A k \in 1..Len(s) : s[k] # p
        BY <1>8 DEF s
      <4>2. t[i] = p /\ t[j] = p
        BY <1>6, <3>1, <3>2
      <4> QED BY <1>6, <2>4, <3>1, <4>1, <4>2
    <3>3. CASE i # at /\ j # at
      <4>1. s[Was(i)] = s[Was(j)] /\ Was(i) \in 1..Len(s) /\ Was(j) \in 1..Len(s)
        BY <1>6, <3>1, <3>3
      <4>2. Was(i) = Was(j)
        BY <4>1, SMTT(30) DEF Once, s
      <4> QED BY <1>7, <2>4, <3>1, <3>3, <4>2
    <3> QED BY <2>4, <3>2, <3>3
  <2> QED BY <2>1, <2>2, <2>3, <2>4
<1>10. ASSUME NEW q
       PROVE  On(new, q) <=> q = p \/ On(queues, q)
  <2>1. ASSUME On(new, q) PROVE q = p \/ On(queues, q)
    BY <1>5, <1>6, <2>1 DEF On, s
  <2>2. On(new, p)
    <3>1. at \in 1..Len(t) /\ t[at] = p
      BY <1>2, <1>3, <1>1
    <3> QED BY <1>5, <3>1 DEF On
  <2>3. ASSUME On(queues, q) PROVE On(new, q)
    <3>1. PICK e \in Dsq, i \in Nat : i \in 1..Len(queues[e]) /\ queues[e][i] = q
      BY <2>3 DEF On
    <3>2. CASE e # d
      BY <1>5, <3>1, <3>2 DEF On
    <3>3. CASE e = d
      <4>1. i \in 1..Len(s) /\ s[i] = q
        BY <3>1, <3>3 DEF s
      <4>2. CASE i < at
        <5>1. i \in 1..Len(t) /\ t[i] = q
          BY <1>1, <1>2, <1>3, <4>1, <4>2
        <5> QED BY <1>5, <5>1 DEF On
      <4>3. CASE ~ (i < at)
        <5>1. i + 1 \in 1..Len(t) /\ t[i + 1] = q
          BY <1>1, <1>2, <1>3, <4>1, <4>3
        <5> QED BY <1>5, <5>1 DEF On
      <4> QED BY <4>2, <4>3
    <3> QED BY <3>2, <3>3
  <2> QED BY <2>1, <2>2, <2>3
<1> QED BY <1>5, <1>9, <1>10 DEF new

\* ... and a consume takes the task it names and nobody else.
LEMMA WithoutElements ==
  ASSUME SeqOK(dsq), Once(dsq), NEW d \in Dsq, NEW k \in 1..Len(dsq[d])
  PROVE  LET new == Without(d, k) IN
         /\ dsq[d][k] \in Task
         /\ SeqOK(new) /\ Once(new)
         /\ \A q : On(new, q) <=> q # dsq[d][k] /\ On(dsq, q)
<1> DEFINE s == dsq[d]
           t == RemoveAt(s, k)
           new == Without(d, k)
<1>1. s \in Seq(Task) /\ Len(s) \in Nat /\ s[k] \in Task
  BY LenProperties, ElementOfSeq DEF SeqOK
<1>2. /\ t \in Seq(Task) /\ Len(t) = Len(s) - 1
      /\ \A j \in 1..Len(s) - 1 : t[j] = IF j < k THEN s[j] ELSE s[j + 1]
  BY <1>1, RemoveAtElements
<1>3. new = [dsq EXCEPT ![d] = t]
  BY DEF Without
<1>4. k \in 1..Len(s)
  OBVIOUS
<1> HIDE DEF s, t
<1>5. SeqOK(new) /\ \A e \in Dsq : new[e] = IF e = d THEN t ELSE dsq[e]
  BY <1>2, <1>3 DEF SeqOK
<1> HIDE DEF new
<1> DEFINE Was(i) == IF i < k THEN i ELSE i + 1
<1>6. \A i \in 1..Len(t) : Was(i) \in (1..Len(s)) \ {k} /\ t[i] = s[Was(i)]
  BY <1>1, <1>2, <1>4
<1>7. \A i, j \in 1..Len(t) : Was(i) = Was(j) => i = j
  BY <1>1, <1>2, <1>4
<1>8. Once(new)
  <2> SUFFICES ASSUME NEW e \in Dsq, NEW f \in Dsq, NEW i \in 1..Len(new[e]), NEW j \in 1..Len(new[f]),
                      new[e][i] = new[f][j]
               PROVE  e = f /\ i = j
    BY DEF Once
  <2>1. CASE e # d /\ f # d
    BY <1>5, <2>1 DEF Once
  <2>2. CASE e = d /\ f # d
    <3>1. i \in 1..Len(t) /\ t[i] = dsq[f][j] /\ j \in 1..Len(dsq[f])
      BY <1>5, <2>2
    <3>2. Was(i) \in 1..Len(s) /\ s[Was(i)] = dsq[f][j]
      BY <1>6, <3>1
    <3> QED BY <2>2, <3>1, <3>2 DEF Once, s
  <2>3. CASE e # d /\ f = d
    <3>1. j \in 1..Len(t) /\ t[j] = dsq[e][i] /\ i \in 1..Len(dsq[e])
      BY <1>5, <2>3
    <3>2. Was(j) \in 1..Len(s) /\ s[Was(j)] = dsq[e][i]
      BY <1>6, <3>1
    <3> QED BY <2>3, <3>1, <3>2 DEF Once, s
  <2>4. CASE e = d /\ f = d
    <3>1. i \in 1..Len(t) /\ j \in 1..Len(t) /\ t[i] = t[j]
      BY <1>5, <2>4
    <3>2. s[Was(i)] = s[Was(j)] /\ Was(i) \in 1..Len(s) /\ Was(j) \in 1..Len(s)
      BY <1>6, <3>1
    <3>3. Was(i) = Was(j)
      BY <3>2 DEF Once, s
    <3> QED BY <1>7, <2>4, <3>1, <3>3
  <2> QED BY <2>1, <2>2, <2>3, <2>4
<1>9. ASSUME NEW q
      PROVE  On(new, q) <=> q # dsq[d][k] /\ On(dsq, q)
  <2>1. ASSUME On(new, q) PROVE q # dsq[d][k] /\ On(dsq, q)
    <3>1. PICK e \in Dsq, i \in Nat : i \in 1..Len(new[e]) /\ new[e][i] = q
      BY <2>1 DEF On
    <3>2. PICK j \in 1..Len(dsq[e]) : dsq[e][j] = q /\ ~ (e = d /\ j = k)
      BY <1>5, <1>6, <3>1 DEF s
    <3> QED BY <3>2 DEF On, Once
  <2>2. ASSUME On(dsq, q), q # dsq[d][k] PROVE On(new, q)
    <3>1. PICK e \in Dsq, i \in Nat : i \in 1..Len(dsq[e]) /\ dsq[e][i] = q
      BY <2>2 DEF On
    <3>2. CASE e # d
      BY <1>5, <3>1, <3>2 DEF On
    <3>3. CASE e = d
      <4>1. i \in 1..Len(s) /\ s[i] = q /\ i # k
        BY <2>2, <3>1, <3>3 DEF s
      <4>2. CASE i < k
        <5>1. i \in 1..Len(t) /\ t[i] = q
          BY <1>1, <1>2, <1>4, <4>1, <4>2
        <5> QED BY <1>5, <5>1 DEF On
      <4>3. CASE ~ (i < k)
        <5>1. i - 1 \in 1..Len(t) /\ t[i - 1] = q
          BY <1>1, <1>2, <1>4, <4>1, <4>3
        <5> QED BY <1>5, <5>1 DEF On
      <4> QED BY <4>2, <4>3
    <3> QED BY <3>2, <3>3
  <2> QED BY <2>1, <2>2
<1> QED BY <1>1, <1>5, <1>8, <1>9 DEF new, s

-----------------------------------------------------------------------------
\* CPU numbers taken round the corner, as bpf_for over c + i does.
LEMMA ModAround ==
  ASSUME NEW n \in Nat \ {0}, NEW d \in 0..n - 1
  PROVE  d % n = d /\ (d + n) % n = d
OBVIOUS

\* The entries of a concatenation are those of its parts.
LEMMA JoinedElements ==
  ASSUME NEW S, NEW s \in Seq(S), NEW t \in Seq(S)
  PROVE  s \o t \in Seq(S) /\ Range(s \o t) = Range(s) \cup Range(t)
BY ConcatProperties, RangeConcatenation

\* democracy_dispatch tries every queue there is, some of them twice.
LEMMA TriesElements ==
  ASSUME NEW c \in Cpu
  PROVE  Tries(c) \in Seq(Dsq) /\ Cpu \cup {PrioDsq, SharedDsq} \subseteq Range(Tries(c))
<1> DEFINE first == IF StarvationThreshNs = 0 THEN <<>> ELSE Starving
           own == <<c>>
           others == OtherCpus(c)
           last == <<PrioDsq, SharedDsq>>
<1>1. first \in Seq(Dsq)
  <2> DEFINE s == IfAny(shared_age > StarvationThreshNs, SharedDsq)
             p == IfAny(prio_age > StarvationThreshNs, PrioDsq)
  <2>1. s \in Seq(Dsq) /\ p \in Seq(Dsq)
    <3>1. <<>> \in Seq(Dsq) /\ <<SharedDsq>> \in Seq(Dsq) /\ <<PrioDsq>> \in Seq(Dsq)
      BY DEF Dsq
    <3> QED BY <3>1 DEF IfAny
  <2> HIDE DEF s, p
  <2>2. s \o p \in Seq(Dsq)
    BY <2>1, JoinedElements
  <2>3. Starving = s \o p
    BY DEF Starving, s, p
  <2> QED BY <2>2, <2>3
<1>2. own \in Seq(Dsq) /\ Range(own) = {c}
  BY DEF Dsq, Range
<1>3. others \in Seq(Dsq)
  <2>1. \A i \in 1..NrCpus - 1 : (c + i) % NrCpus \in Dsq
    BY CpuAssumption DEF Cpu, Dsq
  <2> QED BY <2>1, CpuAssumption, IsASeq DEF OtherCpus
<1>4. Cpu \ {c} \subseteq Range(others)
  <2> SUFFICES ASSUME NEW d \in Cpu, d # c
               PROVE  \E i \in 1..NrCpus - 1 : (c + i) % NrCpus = d
    BY DEF OtherCpus, Range
  <2>1. CASE d > c
    <3>1. d - c \in 1..NrCpus - 1 /\ c + (d - c) = d
      BY <2>1, CpuAssumption DEF Cpu
    <3>2. d % NrCpus = d
      BY ModAround, CpuAssumption DEF Cpu
    <3> QED BY <3>1, <3>2
  <2>2. CASE d < c
    <3>1. d - c + NrCpus \in 1..NrCpus - 1 /\ c + (d - c + NrCpus) = d + NrCpus
      BY <2>2, CpuAssumption DEF Cpu
    <3>2. (d + NrCpus) % NrCpus = d
      BY ModAround, CpuAssumption DEF Cpu
    <3> QED BY <3>1, <3>2
  <2> QED BY <2>1, <2>2, CpuAssumption DEF Cpu
<1>5. last \in Seq(Dsq) /\ Range(last) = {PrioDsq, SharedDsq}
  <2>1. last \in Seq(Dsq) /\ DOMAIN last = {1, 2}
    BY DEF Dsq
  <2> QED BY <2>1 DEF Range
<1> HIDE DEF first, own, others, last
<1> DEFINE a == first \o own  b == a \o others  all == b \o last
<1>6. a \in Seq(Dsq) /\ Range(a) = Range(first) \cup {c}
  BY <1>1, <1>2, JoinedElements
<1> HIDE DEF a
<1>7. b \in Seq(Dsq) /\ Range(b) = Range(a) \cup Range(others)
  BY <1>3, <1>6, JoinedElements
<1> HIDE DEF b
<1>8. all \in Seq(Dsq) /\ Range(all) = Range(b) \cup Range(last)
  BY <1>5, <1>7, JoinedElements
<1> HIDE DEF all
<1>9. Tries(c) = all
  BY DEF Tries, all, b, a, first, own, others, last
<1> QED BY <1>4, <1>5, <1>6, <1>7, <1>8, <1>9

\* Consuming finds a task that may run on the CPU exactly when there is one, ...
LEMMA ConsumableWhere ==
  ASSUME SeqOK(dsq), NEW c, NEW d \in Dsq
  PROVE  /\ Consumable(c, d) # 0 => Consumable(c, d) \in 1..Len(dsq[d])
         /\ (\E i \in DOMAIN dsq[d] : c \in CpusPtr[dsq[d][i]]) => Consumable(c, d) # 0
<1> DEFINE I == {i \in 1..Len(dsq[d]) : c \in CpusPtr[dsq[d][i]]}
<1>1. Consumable(c, d) = IF I # {} THEN Min(I) ELSE 0
  BY DEF Consumable, SelectInSeq
<1>2. DOMAIN dsq[d] = 1..Len(dsq[d])
  BY LenProperties DEF SeqOK
<1>3. I \in SUBSET Nat /\ 0 \notin I
  BY DEF SeqOK
<1>4. I # {} => Min(I) \in I
  BY <1>3, MinOfNat
<1> QED BY <1>1, <1>2, <1>3, <1>4

\* ... so a CPU that has work gets a task.
LEMMA FromHasWork ==
  ASSUME SeqOK(dsq), offline_cpumask \subseteq Cpu, NEW c \in Cpu, HasWork(c)
  PROVE  From(c) \in Dsq /\ Consumable(c, From(c)) \in 1..Len(dsq[From(c)])
<1> DEFINE tries == Tries(c)
           Good(d) == ~Skipped(c, d) /\ Consumable(c, d) # 0
           I == {i \in 1..Len(tries) : Good(tries[i])}
<1>1. From(c) = tries[IF I # {} THEN Min(I) ELSE 0]
  BY DEF From, SelectInSeq
<1>2. tries \in Seq(Dsq) /\ Len(tries) \in Nat /\ DOMAIN tries = 1..Len(tries)
  BY TriesElements, LenProperties
<1>3. PICK d \in {c, PrioDsq, SharedDsq} \cup offline_cpumask :
        \E i \in DOMAIN dsq[d] : c \in CpusPtr[dsq[d][i]]
  BY DEF HasWork
<1>4. d \in Dsq /\ Good(d)
  BY <1>3, ConsumableWhere, CpuAssumption DEF Skipped, Dsq
<1>5. \E i \in 1..Len(tries) : tries[i] = d
  BY <1>2, <1>4, TriesElements DEF Range, Dsq
<1>6. Min(I) \in I
  <2>1. I # {}
    BY <1>4, <1>5
  <2>2. I \in SUBSET Nat
    BY <1>2
  <2> HIDE DEF I
  <2> QED BY <2>1, <2>2, MinOfNat
<1>7. From(c) \in Dsq /\ Consumable(c, From(c)) # 0
  BY <1>1, <1>2, <1>6, ElementOfSeq
<1> QED BY <1>7, ConsumableWhere

\* The largest charge bounds that of any task, however little of its slice is left.
LEMMA FullCharge ==
  ASSUME NEW p \in Task
  PROVE  /\ MaxCharge \in Nat
         /\ (SliceNs * 100) \div Weight[p] \in 0..MaxCharge
<1> DEFINE Full(q) == (SliceNs * 100) \div Weight[q]
           S == {Full(q) : q \in Task}
<1>1. SliceNs \in Nat /\ \A q \in Task : Weight[q] \in Nat \ {0}
  BY TimeAssumption, TaskAssumption
<1>2. SliceNs * 100 \in Nat
  BY <1>1
<1>3. \A q \in Task : Full(q) \in Nat /\ Full(q) <= SliceNs * 100
  BY <1>1, <1>2, DivNat
<1>4. S \in SUBSET Nat /\ S # {} /\ \A x \in S : x <= SliceNs * 100
  BY <1>3
<1>5. MaxCharge = Max(S)
  BY DEF MaxCharge
<1>6. MaxCharge \in S /\ \A x \in S : x <= MaxCharge
  <2> HIDE DEF S
  <2> QED BY <1>2, <1>4, <1>5, Bounded
<1> QED BY <1>4, <1>6

\* What democracy_stopping charges a task for its turn.
LEMMA ChargeBound ==
  ASSUME TypeOK, NEW p \in Task
  PROVE  MaxCharge \in Nat /\ Charge(p) \in 0..MaxCharge
<1> DEFINE full == (SliceNs * 100) \div Weight[p]
<1>1. SliceNs \in Nat /\ Weight[p] \in Nat \ {0} /\ SliceNs * 100 \in Nat
  BY TimeAssumption, TaskAssumption
<1>2. MaxCharge \in Nat /\ full \in 0..MaxCharge
  BY FullCharge
<1>3. CASE SliceNs > slice[p]
  <2>1. slice[p] \in Nat
    BY DEF TypeOK
  <2> DEFINE a == (SliceNs - slice[p]) * 100
  <2>2. a \in Nat /\ a <= SliceNs * 100
    BY <1>1, <1>3, <2>1
  <2>3. Charge(p) = a \div Weight[p]
    BY <1>3 DEF Charge
  <2> HIDE DEF a
  <2>4. a \div Weight[p] \in Nat /\ a \div Weight[p] <= full
    BY <1>1, <2>2, DivNat, DivMono
  <2> HIDE DEF full
  <2> QED BY <1>2, <2>3, <2>4
<1>4. CASE ~ (SliceNs > slice[p])
  BY <1>2, <1>4 DEF Charge
<1> QED BY <1>3, <1>4
=============================================================================
