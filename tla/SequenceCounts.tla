--------------------------- MODULE SequenceCounts ---------------------------
(***************************************************************************)
(* How often a sequence holds a member of a set.  The queues of this       *)
(* project (the scheduler's ready queue, the retry queue's list, the       *)
(* pool's channel and queues) lose nothing and double nothing; the proofs  *)
(* of that count with the lemmas of this module.                           *)
(***************************************************************************)
EXTENDS SequenceTheorems, FiniteSetTheorems, TLAPS

Positions(s, X) == {i \in DOMAIN s : s[i] \in X}
Count(s, X) == Cardinality(Positions(s, X))

\* A sequence has finitely many positions.
LEMMA CountType ==
    ASSUME NEW S, NEW s \in Seq(S), NEW X
    PROVE  /\ IsFiniteSet(Positions(s, X))
           /\ Count(s, X) \in Nat
<1>1. IsFiniteSet(1..Len(s))
  BY FS_Interval
<1>2. Positions(s, X) \in SUBSET (1..Len(s))
  BY DEF Positions
<1> QED
  BY <1>1, <1>2, FS_Subset, FS_CardinalityType DEF Count

\* Nothing is counted exactly if nothing is there.
LEMMA CountZero ==
    ASSUME NEW S, NEW s \in Seq(S), NEW X
    PROVE  Count(s, X) = 0 <=> \A i \in 1..Len(s) : s[i] \notin X
<1>1. Count(s, X) = 0 <=> Positions(s, X) = {}
  BY CountType, FS_EmptySet DEF Count
<1> QED
  BY <1>1 DEF Positions

\* Two sequences that agree, position by position, on being in the set.
LEMMA CountSame ==
    ASSUME NEW S, NEW T, NEW s \in Seq(S), NEW t \in Seq(T), NEW X, NEW Y,
           Len(s) = Len(t),
           \A i \in 1..Len(s) : s[i] \in X <=> t[i] \in Y
    PROVE  Count(s, X) = Count(t, Y)
<1>1. Positions(s, X) = Positions(t, Y)
  BY DEF Positions
<1> QED
  BY <1>1 DEF Count

\* Cardinalities of disjoint sets add up.
LEMMA DisjointUnion ==
    ASSUME NEW A, NEW B, IsFiniteSet(A), IsFiniteSet(B), A \cap B = {}
    PROVE  /\ IsFiniteSet(A \cup B)
           /\ Cardinality(A \cup B) = Cardinality(A) + Cardinality(B)
<1>1. Cardinality(A) \in Nat /\ Cardinality(B) \in Nat /\ Cardinality({}) = 0
  BY FS_CardinalityType, FS_EmptySet
<1>2. /\ IsFiniteSet(A \cup B)
      /\ Cardinality(A \cup B) = Cardinality(A) + Cardinality(B) - Cardinality(A \cap B)
  BY FS_Union
<1>3. Cardinality(A \cap B) = Cardinality({})
  BY Zenon
<1> QED
  BY <1>1, <1>2, <1>3

\* The counts of the parts of a sequence add up.
LEMMA CountConcat ==
    ASSUME NEW S, NEW s \in Seq(S), NEW t \in Seq(S), NEW X
    PROVE  Count(s \o t, X) = Count(s, X) + Count(t, X)
<1> DEFINE m  == Len(s)
           Q  == {i \in DOMAIN (s \o t) : i > m /\ (s \o t)[i] \in X}
           sh == [i \in Positions(t, X) |-> i + m]
<1>1. /\ s \o t \in Seq(S) /\ Len(s \o t) = m + Len(t) /\ m \in Nat /\ Len(t) \in Nat
      /\ \A i \in 1..(m + Len(t)) :
            (s \o t)[i] = IF i <= m THEN s[i] ELSE t[i - m]
  BY ConcatProperties
<1>2. Positions(s \o t, X) = Positions(s, X) \cup Q
  BY <1>1 DEF Positions
<1>3. Positions(s, X) \cap Q = {}
  BY <1>1 DEF Positions
<1>4. sh \in [Positions(t, X) -> Q]
  BY <1>1 DEF Positions
<1>5. \A i, j \in Positions(t, X) : sh[i] = sh[j] => i = j
  BY <1>1 DEF Positions
<1>6. \A k \in Q : \E i \in Positions(t, X) : sh[i] = k
  <2> SUFFICES ASSUME NEW k \in Q PROVE \E i \in Positions(t, X) : sh[i] = k
    OBVIOUS
  <2>1. k - m \in Positions(t, X) /\ sh[k - m] = k
    BY <1>1 DEF Positions
  <2> QED
    BY <2>1
<1>7. ExistsBijection(Positions(t, X), Q)
  <2>1. sh \in Bijection(Positions(t, X), Q)
    BY <1>4, <1>5, <1>6 DEF Bijection, Injection, Surjection, IsInjective
  <2> QED
    BY <2>1 DEF ExistsBijection
<1>8. /\ IsFiniteSet(Positions(s, X)) /\ IsFiniteSet(Positions(t, X))
      /\ Count(s, X) \in Nat /\ Count(t, X) \in Nat
  BY CountType
<1>9. IsFiniteSet(Q) /\ Cardinality(Q) = Count(t, X)
  BY <1>7, <1>8, FS_Bijection DEF Count
<1>10. Cardinality(Positions(s, X) \cup Q) = Count(s, X) + Count(t, X)
  <2> HIDE DEF Q
  <2> QED
    BY <1>3, <1>8, <1>9, DisjointUnion DEF Count
<1> QED
  BY <1>2, <1>10 DEF Count

\* The empty sequence, and a sequence of one element.
LEMMA CountUnit ==
    ASSUME NEW e, NEW X
    PROVE  /\ Count(<<>>, X) = 0
           /\ Count(<<e>>, X) = IF e \in X THEN 1 ELSE 0
<1>1. Positions(<<>>, X) = {}
  BY DEF Positions
<1>2. Positions(<<e>>, X) = IF e \in X THEN {1} ELSE {}
  BY DEF Positions
<1> QED
  BY <1>1, <1>2, FS_EmptySet, FS_Singleton DEF Count

\* Append puts in one.
LEMMA CountAppend ==
    ASSUME NEW S, NEW s \in Seq(S), NEW e \in S, NEW X
    PROVE  /\ Append(s, e) \in Seq(S)
           /\ Count(Append(s, e), X) = Count(s, X) + IF e \in X THEN 1 ELSE 0
<1>1. Append(s, e) = s \o <<e>> /\ <<e>> \in Seq(S)
  BY AppendIsConcat
<1>2. Count(s \o <<e>>, X) = Count(s, X) + Count(<<e>>, X)
  BY <1>1, CountConcat
<1> QED
  BY <1>1, <1>2, CountUnit

\* Head takes out one.
LEMMA CountTail ==
    ASSUME NEW S, NEW s \in Seq(S), s # <<>>, NEW X
    PROVE  /\ Head(s) \in S /\ Tail(s) \in Seq(S)
           /\ Count(s, X) = Count(Tail(s), X) + IF Head(s) \in X THEN 1 ELSE 0
<1>1. Head(s) \in S /\ Tail(s) \in Seq(S) /\ <<Head(s)>> \in Seq(S)
  OBVIOUS
<1>2. s = <<Head(s)>> \o Tail(s)
  OBVIOUS
<1>3. Count(<<Head(s)>> \o Tail(s), X) = Count(<<Head(s)>>, X) + Count(Tail(s), X)
  BY <1>1, CountConcat
<1>4. Count(Tail(s), X) \in Nat
  BY <1>1, CountType
<1>5. Count(s, X) = Count(<<Head(s)>> \o Tail(s), X)
  BY <1>2, Zenon
<1> QED
  BY <1>1, <1>3, <1>4, <1>5, CountUnit

\* Cutting a sequence in two loses nothing.
LEMMA CountSplit ==
    ASSUME NEW S, NEW s \in Seq(S), NEW n \in 0..Len(s), NEW X
    PROVE  /\ SubSeq(s, 1, n) \in Seq(S) /\ SubSeq(s, n + 1, Len(s)) \in Seq(S)
           /\ Count(s, X) = Count(SubSeq(s, 1, n), X) + Count(SubSeq(s, n + 1, Len(s)), X)
<1>1. SubSeq(s, 1, n) \in Seq(S) /\ SubSeq(s, n + 1, Len(s)) \in Seq(S)
  BY SubSeqProperties
<1>2. SubSeq(s, 1, n) \o SubSeq(s, n + 1, Len(s)) = SubSeq(s, 1, Len(s))
  <2>1. 1 \in 1..(Len(s) + 1) /\ n \in (1 - 1)..Len(s) /\ Len(s) \in n..Len(s)
    OBVIOUS
  <2> QED
    BY <2>1, ConcatAdjacentSubSeq
<1>3. SubSeq(s, 1, Len(s)) = s
  BY SubSeqFull
<1>4. Count(s, X) = Count(SubSeq(s, 1, n) \o SubSeq(s, n + 1, Len(s)), X)
  BY <1>2, <1>3, Zenon
<1> DEFINE a == SubSeq(s, 1, n)
           b == SubSeq(s, n + 1, Len(s))
<1>5. a \in Seq(S) /\ b \in Seq(S) /\ Count(s, X) = Count(a \o b, X)
  BY <1>1, <1>4
<1> HIDE DEF a, b
<1>6. Count(a \o b, X) = Count(a, X) + Count(b, X)
  BY <1>5, CountConcat
<1>7. Count(s, X) = Count(a, X) + Count(b, X)
  BY <1>5, <1>6
<1> QED
  BY <1>1, <1>7 DEF a, b

-----------------------------------------------------------------------------
\* The same for one value.

Occ(s, x) == Cardinality({i \in DOMAIN s : s[i] = x})

\* An occurrence is a position in the singleton.
LEMMA OccIsCount ==
    ASSUME NEW s, NEW x
    PROVE  Occ(s, x) = Count(s, {x})
<1>1. {i \in DOMAIN s : s[i] = x} = Positions(s, {x})
  BY DEF Positions
<1> QED
  BY <1>1, Zenon DEF Occ, Count

\* An empty sequence has no occurrences; none are below zero, and one that is
\* counted is there.
LEMMA OccType ==
    ASSUME NEW S, NEW s \in Seq(S), NEW x
    PROVE  /\ Occ(s, x) \in Nat /\ Occ(<<>>, x) = 0
           /\ Occ(s, x) > 0 <=> \E i \in 1..Len(s) : s[i] = x
<1>1. Occ(s, x) \in Nat /\ Occ(<<>>, x) = 0
  BY OccIsCount, CountType, CountUnit
<1>2. Occ(s, x) = 0 <=> \A i \in 1..Len(s) : s[i] \notin {x}
  BY OccIsCount, CountZero
<1> QED
  BY <1>1, <1>2

\* Append puts in one occurrence.
LEMMA OccAppend ==
    ASSUME NEW S, NEW s \in Seq(S), NEW e \in S, NEW x
    PROVE  /\ Append(s, e) \in Seq(S)
           /\ Occ(Append(s, e), x) = Occ(s, x) + IF e = x THEN 1 ELSE 0
<1>1. /\ Append(s, e) \in Seq(S)
      /\ Count(Append(s, e), {x}) = Count(s, {x}) + IF e \in {x} THEN 1 ELSE 0
  BY CountAppend
<1>2. Occ(Append(s, e), x) = Count(Append(s, e), {x}) /\ Occ(s, x) = Count(s, {x})
  BY OccIsCount
<1> QED
  BY <1>1, <1>2

\* Head takes out one.
LEMMA OccTail ==
    ASSUME NEW S, NEW s \in Seq(S), s # <<>>, NEW x
    PROVE  /\ Head(s) \in S /\ Tail(s) \in Seq(S)
           /\ Occ(s, x) = Occ(Tail(s), x) + IF Head(s) = x THEN 1 ELSE 0
  BY OccIsCount, CountTail

\* Concatenation adds.
LEMMA OccConcat ==
    ASSUME NEW S, NEW s \in Seq(S), NEW t \in Seq(S), NEW x
    PROVE  /\ s \o t \in Seq(S)
           /\ Occ(s \o t, x) = Occ(s, x) + Occ(t, x)
<1>1. Count(s \o t, {x}) = Count(s, {x}) + Count(t, {x})
  BY CountConcat
<1>2. /\ Occ(s \o t, x) = Count(s \o t, {x})
      /\ Occ(s, x) = Count(s, {x}) /\ Occ(t, x) = Count(t, {x})
  BY OccIsCount
<1> QED
  BY <1>1, <1>2

\* Cutting in two keeps.
LEMMA OccSplit ==
    ASSUME NEW S, NEW s \in Seq(S), NEW n \in 0..Len(s), NEW x
    PROVE  /\ SubSeq(s, 1, n) \in Seq(S) /\ SubSeq(s, n + 1, Len(s)) \in Seq(S)
           /\ Occ(s, x) = Occ(SubSeq(s, 1, n), x) + Occ(SubSeq(s, n + 1, Len(s)), x)
  BY OccIsCount, CountSplit

\* A singleton and what it shares with a set.
LEMMA CardinalityIndicator ==
    ASSUME NEW x, NEW S
    PROVE  Cardinality({x} \cap S) = IF x \in S THEN 1 ELSE 0
<1>1. {x} \cap S = IF x \in S THEN {x} ELSE {}
  OBVIOUS
<1> QED
  BY <1>1, FS_EmptySet, FS_Singleton

=============================================================================
