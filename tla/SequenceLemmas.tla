--------------------------- MODULE SequenceLemmas ---------------------------
(***************************************************************************)
(* What the operators on sequences that the specifications use return: the *)
(* removal of an element from a list (list.remove) and the search for the  *)
(* first of some kind.                                                     *)
(***************************************************************************)
EXTENDS SequencesExt, SequenceTheorems, WellFoundedInduction, TLAPS

(* A set of numbers that is not empty has a least one. *)
LEMMA LeastNumber ==
    ASSUME NEW T \in SUBSET Nat, T # {}
    PROVE  Min(T) \in T /\ \A m \in T : Min(T) <= m
<1>1. PICK n \in T : \A m \in T : ~ (<<m, n>> \in OpToRel(<, Nat))
  BY WFMin, NatLessThanWellFounded
<1>2. \A m \in T : ~(m < n)
  BY <1>1 DEF OpToRel
<1>3. \A m \in T : n <= m
  BY <1>2
<1>4. QED
  BY <1>3 DEF Min

(* The first of the places of a list that a search has selected. *)
LEMMA LeastPlace ==
    ASSUME NEW S, NEW q \in Seq(S), NEW I \in SUBSET (1..Len(q)), I # {}
    PROVE  Min(I) \in I /\ \A i \in I : Min(I) <= i
<1>1. Len(q) \in Nat
  BY LenProperties
<1>2. I \in SUBSET Nat
  BY <1>1
<1>3. QED
  BY <1>2, LeastNumber

Distinct(q) == \A i, j \in 1..Len(q) : q[i] = q[j] => i = j

(* The elements of a sequence, by their places. *)
LEMMA SetOfSeq ==
    ASSUME NEW S, NEW q \in Seq(S)
    PROVE  /\ ToSet(q) \subseteq S
           /\ \A e : e \in ToSet(q) <=> \E i \in 1..Len(q) : q[i] = e
<1>1. DOMAIN q = 1..Len(q) /\ \A i \in 1..Len(q) : q[i] \in S
  BY LenProperties, ElementOfSeq
<1>2. QED
  BY <1>1 DEF ToSet

(* Appending what is not in a list yet brings no duplicates. *)
LEMMA AppendDistinct ==
    ASSUME NEW S, NEW q \in Seq(S), NEW e \in S, e \notin ToSet(q), Distinct(q)
    PROVE  /\ Append(q, e) \in Seq(S)
           /\ ToSet(Append(q, e)) = ToSet(q) \cup {e}
           /\ Distinct(Append(q, e))
<1> DEFINE r == Append(q, e)
<1>1. /\ r \in Seq(S) /\ Len(q) \in Nat /\ Len(r) = Len(q) + 1
      /\ \A i \in 1..Len(q) : r[i] = q[i]
      /\ r[Len(q) + 1] = e
  BY AppendProperties, LenProperties
<1>2. \A i \in 1..Len(r) : i \in 1..Len(q) \/ i = Len(q) + 1
  BY <1>1
<1>3. 1..Len(q) \subseteq 1..Len(r) /\ Len(q) + 1 \in 1..Len(r)
  BY <1>1
<1>4. \A i \in 1..Len(q) : q[i] # e
  BY SetOfSeq
<1>5. \A d : d \in ToSet(r) <=> d \in ToSet(q) \cup {e}
  <2>1. \A d : d \in ToSet(r) <=> \E i \in 1..Len(r) : r[i] = d
    BY <1>1, SetOfSeq
  <2>2. \A d : d \in ToSet(q) <=> \E i \in 1..Len(q) : q[i] = d
    BY SetOfSeq
  <2>3. QED
    BY <1>1, <1>2, <1>3, <2>1, <2>2
<1>6. Distinct(r)
  BY <1>1, <1>2, <1>4 DEF Distinct
<1>7. QED
  BY <1>1, <1>5, <1>6

(* The places of a concatenation.                                          *)
LEMMA ConcatPlaces ==
    ASSUME NEW S, NEW p \in Seq(S), NEW q \in Seq(S)
    PROVE  /\ p \o q \in Seq(S) /\ Len(p) \in Nat /\ Len(q) \in Nat
           /\ Len(p \o q) = Len(p) + Len(q)
           /\ \A i \in 1..Len(p) : i \in 1..Len(p \o q) /\ (p \o q)[i] = p[i]
           /\ \A i \in 1..Len(q) :
                 i + Len(p) \in 1..Len(p \o q) /\ (p \o q)[i + Len(p)] = q[i]
           /\ \A i \in 1..Len(p \o q) :
                 i \in 1..Len(p) \/ (i > Len(p) /\ i - Len(p) \in 1..Len(q)
                                     /\ (p \o q)[i] = q[i - Len(p)])
<1>1. Len(p) \in Nat /\ Len(q) \in Nat
  BY LenProperties
<1>2. /\ p \o q \in Seq(S) /\ Len(p \o q) = Len(p) + Len(q)
      /\ \A i \in 1..(Len(p) + Len(q)) :
            (p \o q)[i] = IF i <= Len(p) THEN p[i] ELSE q[i - Len(p)]
  BY ConcatProperties
<1>3. ASSUME NEW i \in 1..Len(p)
      PROVE  i \in 1..(Len(p) + Len(q)) /\ i <= Len(p)
  BY <1>1
<1>4. ASSUME NEW i \in 1..Len(q)
      PROVE  /\ i + Len(p) \in 1..(Len(p) + Len(q)) /\ ~(i + Len(p) <= Len(p))
             /\ (i + Len(p)) - Len(p) = i
  BY <1>1
<1>5. ASSUME NEW i \in 1..(Len(p) + Len(q)), i \notin 1..Len(p)
      PROVE  i > Len(p) /\ ~(i <= Len(p)) /\ i - Len(p) \in 1..Len(q)
  BY <1>1, <1>5
<1>6. QED
  BY <1>1, <1>2, <1>3, <1>4, <1>5

(* What remains of a list is a list, also if there was nothing to remove. *)
LEMMA RemoveType ==
    ASSUME NEW S, NEW q \in Seq(S), NEW e
    PROVE  RemoveFirst(q, e) \in Seq(S)
<1> DEFINE I == {i \in 1..Len(q) : q[i] = e}
<1>1. Len(q) \in Nat
  BY LenProperties
<1>2. CASE I = {}
  BY <1>2 DEF RemoveFirst
<1>3. CASE I # {}
  <2>1. SelectInSeq(q, LAMBDA v : v = e) = Min(I)
    BY <1>3 DEF SelectInSeq
  <2>2. I \in SUBSET Nat
    BY <1>1
  <2>3. PICK k \in 1..Len(q) : k = Min(I)
    BY <1>3, <2>2, LeastNumber
  <2>4. RemoveFirst(q, e) = RemoveAt(q, k)
    BY <1>3, <2>1, <2>3 DEF RemoveFirst
  <2>5. SubSeq(q, 1, k - 1) \in Seq(S) /\ SubSeq(q, k + 1, Len(q)) \in Seq(S)
    <3>1. /\ \A i \in 1..(k - 1) : i \in 1..Len(q)
          /\ \A i \in (k + 1)..Len(q) : i \in 1..Len(q)
      BY <1>1
    <3>2. QED
      BY <1>1, <3>1, SubSeqProperties
  <2>6. QED
    BY <2>4, <2>5, ConcatProperties DEF RemoveAt
<1>4. QED
  BY <1>2, <1>3

(* Removing an element of a list without duplicates removes it for good,   *)
(* and nothing else.                                                       *)
LEMMA RemoveDistinct ==
    ASSUME NEW S, NEW q \in Seq(S), NEW e, Distinct(q)
    PROVE  /\ RemoveFirst(q, e) \in Seq(S)
           /\ ToSet(RemoveFirst(q, e)) = ToSet(q) \ {e}
           /\ Distinct(RemoveFirst(q, e))
<1> DEFINE r == RemoveFirst(q, e)
<1>1. Len(q) \in Nat
  BY LenProperties
<1>2. \A d : d \in ToSet(q) <=> \E i \in 1..Len(q) : q[i] = d
  BY SetOfSeq
<1>3. CASE \A i \in 1..Len(q) : q[i] # e
  <2>1. r = q
    BY <1>3 DEF RemoveFirst
  <2>2. QED
    BY <1>2, <1>3, <2>1
<1>4. ASSUME NEW k \in 1..Len(q), q[k] = e
      PROVE  r \in Seq(S) /\ ToSet(r) = ToSet(q) \ {e} /\ Distinct(r)
  <2>1. {i \in 1..Len(q) : q[i] = e} = {k}
    BY <1>4 DEF Distinct
  <2>2. SelectInSeq(q, LAMBDA v : v = e) = k
    BY <1>1, <1>4, <2>1 DEF SelectInSeq, Min
  <2>3. r = RemoveAt(q, k)
    BY <1>4, <2>2 DEF RemoveFirst
  <2> DEFINE front == SubSeq(q, 1, k - 1)
             back  == SubSeq(q, k + 1, Len(q))
  <2>4. /\ k \in Nat /\ k >= 1 /\ k <= Len(q)
        /\ front \in Seq(S) /\ Len(front) = k - 1
        /\ \A i \in 1..(k - 1) : front[i] = q[i]
    <3>1. k - 1 \in Int /\ 1 \in Int /\ k - 1 <= Len(q)
      BY <1>1
    <3>2. \A i \in 1..(k - 1) : i \in 1..Len(q)
      BY <1>1
    <3>3. QED
      BY <1>1, <3>1, <3>2, SubSeqProperties
  <2>5. /\ back \in Seq(S) /\ Len(back) = Len(q) - k
        /\ \A i \in 1..(Len(q) - k) : back[i] = q[k + i]
    <3>1. \A i \in (k + 1)..Len(q) : i \in 1..Len(q)
      BY <1>1
    <3>2. QED
      BY <1>1, <3>1, SubSeqProperties
  <2>6. /\ r \in Seq(S) /\ Len(r) = Len(q) - 1
        /\ \A i \in 1..Len(r) : r[i] = IF i < k THEN q[i] ELSE q[i + 1]
    <3>1. r = front \o back
      BY <2>3 DEF RemoveAt
    <3> HIDE DEF front, back, r
    <3>2. /\ r \in Seq(S) /\ Len(r) = Len(front) + Len(back)
          /\ \A i \in 1..(Len(front) + Len(back)) :
                r[i] = IF i <= Len(front) THEN front[i] ELSE back[i - Len(front)]
      BY <2>4, <2>5, <3>1, ConcatProperties
    <3>3. Len(r) = Len(q) - 1
      BY <1>1, <2>4, <2>5, <3>2
    <3>4. ASSUME NEW i \in 1..Len(r)
          PROVE  r[i] = IF i < k THEN q[i] ELSE q[i + 1]
      <4>1. CASE i < k
        <5>1. i \in 1..(k - 1) /\ i <= k - 1 /\ i \in 1..(Len(front) + Len(back))
          BY <1>1, <2>4, <2>5, <3>3, <4>1
        <5>2. r[i] = front[i]
          BY <2>4, <3>2, <5>1
        <5>3. QED
          BY <2>4, <4>1, <5>1, <5>2
      <4>2. CASE i >= k
        <5>1. i - (k - 1) \in 1..(Len(q) - k) /\ k + (i - (k - 1)) = i + 1 /\ ~(i <= k - 1)
          BY <1>1, <2>4, <3>3, <4>2
        <5>2. r[i] = back[i - (k - 1)]
          BY <1>1, <2>4, <2>5, <3>2, <3>3, <5>1
        <5>3. QED
          BY <2>4, <2>5, <4>2, <5>1, <5>2
      <4>3. QED
        BY <1>1, <2>4, <3>3, <4>1, <4>2
    <3>5. QED
      BY <3>2, <3>3, <3>4
  <2>7. \A i \in 1..Len(r) : i \in 1..Len(q) /\ i + 1 \in 1..Len(q)
    BY <1>1, <2>6
  <2>8. Distinct(r)
    <3>1. SUFFICES ASSUME NEW i \in 1..Len(r), NEW j \in 1..Len(r), r[i] = r[j]
                   PROVE  i = j
      BY DEF Distinct
    <3>2. q[IF i < k THEN i ELSE i + 1] = q[IF j < k THEN j ELSE j + 1]
      BY <2>6, <3>1
    <3>3. (IF i < k THEN i ELSE i + 1) = (IF j < k THEN j ELSE j + 1)
      BY <2>7, <3>2 DEF Distinct
    <3>4. QED
      BY <1>1, <2>4, <2>6, <3>3
  <2>9. \A d : d \in ToSet(r) <=> d \in ToSet(q) \ {e}
    <3>1. \A d : d \in ToSet(r) <=> \E i \in 1..Len(r) : r[i] = d
      BY <2>6, SetOfSeq
    <3>2. ASSUME NEW i \in 1..Len(r)
          PROVE  \E j \in 1..Len(q) : q[j] = r[i] /\ j # k
      BY <2>4, <2>6, <2>7
    <3>3. ASSUME NEW j \in 1..Len(q), j # k
          PROVE  \E i \in 1..Len(r) : r[i] = q[j]
      <4>1. CASE j < k
        <5>1. j \in 1..Len(r)
          BY <1>1, <2>4, <2>6, <4>1
        <5>2. QED
          BY <2>6, <4>1, <5>1
      <4>2. CASE j > k
        <5>1. j - 1 \in 1..Len(r) /\ ~(j - 1 < k) /\ (j - 1) + 1 = j
          BY <1>1, <2>4, <2>6, <4>2
        <5>2. QED
          BY <2>6, <5>1
      <4>3. QED
        BY <2>4, <3>3, <4>1, <4>2
    <3>4. QED
      BY <1>2, <1>4, <3>1, <3>2, <3>3 DEF Distinct
  <2>10. QED
    BY <2>6, <2>8, <2>9
<1>5. QED
  BY <1>3, <1>4
=============================================================================
