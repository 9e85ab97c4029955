------------------------- MODULE StartSequence_proofs -------------------------
(***************************************************************************)
(* Proofs about StartSequence, for every number of subprocesses, whichever *)
(* of them tell their parent, of events and of requests: the order of what *)
(* the IDE is sent while a session starts, that no process is reported to  *)
(* it twice, and that it is sent the events as EventRelay promises.        *)
(***************************************************************************)
EXTENDS StartSequence, SequenceLemmas, FiniteSetTheorems

-----------------------------------------------------------------------------
(* What a list of messages has, and in which order.                        *)

Has(q, m)  == \E i \in 1..Len(q) : q[i] = m
Once(q, m) == \A i, j \in 1..Len(q) : q[i] = m /\ q[j] = m => i = j
FirstIn(q, m, n) ==
    \A i \in 1..Len(q) : q[i] = n => \E j \in 1..(i - 1) : q[j] = m

(* A message sent after others: what there is, in which order, how often.  *)
LEMMA ConcatMessages ==
    ASSUME NEW S, NEW p \in Seq(S), NEW q \in Seq(S)
    PROVE  /\ p \o q \in Seq(S)
           /\ \A m : Has(p \o q, m) <=> Has(p, m) \/ Has(q, m)
           /\ \A m, n : /\ FirstIn(p, m, n)
                        /\ Has(p, m) \/ ~Has(q, n) \/ FirstIn(q, m, n)
                        => FirstIn(p \o q, m, n)
           /\ \A m : /\ Once(p, m) /\ Once(q, m)
                     /\ ~Has(p, m) \/ ~Has(q, m)
                     => Once(p \o q, m)
<1> DEFINE r == p \o q
<1>1. /\ r \in Seq(S) /\ Len(p) \in Nat /\ Len(q) \in Nat /\ Len(r) = Len(p) + Len(q)
      /\ \A i \in 1..Len(p) : i \in 1..Len(r) /\ r[i] = p[i]
      /\ \A i \in 1..Len(q) : i + Len(p) \in 1..Len(r) /\ r[i + Len(p)] = q[i]
      /\ \A i \in 1..Len(r) : i \in 1..Len(p) \/ (i > Len(p) /\ i - Len(p) \in 1..Len(q)
                                                  /\ r[i] = q[i - Len(p)])
  BY ConcatPlaces
<1> HIDE DEF r
<1>2. \A m : Has(r, m) <=> Has(p, m) \/ Has(q, m)
  BY <1>1 DEF Has
<1>3. ASSUME NEW m, NEW n, FirstIn(p, m, n),
             Has(p, m) \/ ~Has(q, n) \/ FirstIn(q, m, n),
             NEW i \in 1..Len(r), r[i] = n
      PROVE  \E j \in 1..(i - 1) : r[j] = m
  <2>1. CASE i \in 1..Len(p)
    <3>1. PICK j \in 1..(i - 1) : p[j] = m
      BY <1>1, <1>3, <2>1 DEF FirstIn
    <3>2. j \in 1..Len(p)
      BY <1>1, <2>1
    <3>3. QED
      BY <1>1, <3>1, <3>2
  <2>2. CASE i > Len(p) /\ i - Len(p) \in 1..Len(q) /\ r[i] = q[i - Len(p)]
    <3>1. CASE Has(p, m)
      <4>1. PICK j \in 1..Len(p) : p[j] = m
        BY <3>1 DEF Has
      <4>2. j \in 1..(i - 1)
        BY <1>1, <2>2
      <4>3. QED
        BY <1>1, <4>1, <4>2
    <3>2. CASE FirstIn(q, m, n)
      <4>1. PICK j \in 1..((i - Len(p)) - 1) : q[j] = m
        BY <1>3, <2>2, <3>2 DEF FirstIn
      <4>2. j \in 1..Len(q) /\ j + Len(p) \in 1..(i - 1)
        BY <1>1, <2>2
      <4>3. QED
        BY <1>1, <4>1, <4>2
    <3>3. Has(q, n)
      BY <1>3, <2>2 DEF Has
    <3>4. QED
      BY <1>3, <3>1, <3>2, <3>3
  <2>3. QED
    BY <1>1, <2>1, <2>2
<1>4. ASSUME NEW m, Once(p, m), Once(q, m), ~Has(p, m) \/ ~Has(q, m),
             NEW i \in 1..Len(r), NEW j \in 1..Len(r), r[i] = m, r[j] = m
      PROVE  i = j
  <2>1. CASE i \in 1..Len(p) /\ j \in 1..Len(p)
    BY <1>1, <1>4, <2>1 DEF Once
  <2>2. CASE i \notin 1..Len(p) /\ j \notin 1..Len(p)
    <3>1. i - Len(p) \in 1..Len(q) /\ q[i - Len(p)] = m
      BY <1>1, <1>4, <2>2
    <3>2. j - Len(p) \in 1..Len(q) /\ q[j - Len(p)] = m
      BY <1>1, <1>4, <2>2
    <3>3. \A a, b \in 1..Len(q) : q[a] = m /\ q[b] = m => a = b
      BY <1>4 DEF Once
    <3>4. i - Len(p) = j - Len(p)
      BY <3>1, <3>2, <3>3
    <3>5. QED
      BY <1>1, <3>4
  <2>3. ASSUME NEW k \in 1..Len(p), NEW l \in 1..Len(r), l \notin 1..Len(p),
               r[k] = m, r[l] = m
        PROVE  FALSE
    <3>1. p[k] = m /\ q[l - Len(p)] = m /\ l - Len(p) \in 1..Len(q)
      BY <1>1, <2>3
    <3>2. QED
      BY <1>4, <3>1 DEF Has
  <2>4. QED
    BY <1>4, <2>1, <2>2, <2>3
<1>5. \A m, n : FirstIn(p, m, n) /\ (Has(p, m) \/ ~Has(q, n) \/ FirstIn(q, m, n))
                => FirstIn(r, m, n)
  BY <1>3 DEF FirstIn
<1>6. \A m : Once(p, m) /\ Once(q, m) /\ (~Has(p, m) \/ ~Has(q, m)) => Once(r, m)
  BY <1>4 DEF Once
<1>7. QED
  BY <1>1, <1>2, <1>5, <1>6 DEF r

(* One message, and two.                                                   *)
LEMMA OneMessage ==
    ASSUME NEW S, NEW a \in S
    PROVE  /\ <<a>> \in Seq(S)
           /\ \A m : Has(<<a>>, m) <=> m = a
           /\ \A m : Once(<<a>>, m)
           /\ \A m, n : n # a => FirstIn(<<a>>, m, n)
<1>1. <<a>> \in Seq(S) /\ Len(<<a>>) = 1 /\ <<a>>[1] = a
  OBVIOUS
<1>2. \A i : i \in 1..Len(<<a>>) <=> i = 1
  BY <1>1
<1>3. QED
  BY <1>1, <1>2 DEF Has, Once, FirstIn

(* Two messages, the first before the second. *)
LEMMA TwoMessages ==
    ASSUME NEW S, NEW a \in S, NEW b \in S, a # b
    PROVE  /\ <<a, b>> \in Seq(S)
           /\ \A m : Has(<<a, b>>, m) <=> m = a \/ m = b
           /\ FirstIn(<<a, b>>, a, b)
           /\ \A m, n : n # a /\ n # b => FirstIn(<<a, b>>, m, n)
           /\ \A m : Once(<<a, b>>, m)
<1>1. /\ <<a, b>> \in Seq(S) /\ Len(<<a, b>>) = 2
      /\ <<a, b>>[1] = a /\ <<a, b>>[2] = b
  OBVIOUS
<1>2. \A i : i \in 1..Len(<<a, b>>) <=> i = 1 \/ i = 2
  BY <1>1
<1>3. 1 \in 1..(2 - 1)
  OBVIOUS
<1>4. \A m : Has(<<a, b>>, m) <=> m = a \/ m = b
  BY <1>1, <1>2 DEF Has
<1>5. FirstIn(<<a, b>>, a, b)
  BY <1>1, <1>2, <1>3 DEF FirstIn
<1>6. \A m, n : n # a /\ n # b => FirstIn(<<a, b>>, m, n)
  BY <1>1, <1>2 DEF FirstIn
<1>7. \A m : Once(<<a, b>>, m)
  BY <1>1, <1>2 DEF Once
<1>8. QED
  BY <1>1, <1>4, <1>5, <1>6, <1>7

(* The messages differ in their kind, or in what they are about.           *)
LEMMA MessagesDiffer ==
    /\ \A r, s : (Ok(r) = Ok(s) <=> r = s) /\ (Failed(r) = Failed(s) <=> r = s)
    /\ \A r, s : Ok(r) # Failed(s)
    /\ \A r, x : Ok(r) # AnEvent(x) /\ Failed(r) # AnEvent(x)
    /\ \A r, x : Ok(r) # Child(x) /\ Failed(r) # Child(x)
    /\ \A r : Ok(r) # Initialized /\ Failed(r) # Initialized
    /\ \A x, y : AnEvent(x) # Child(y)
    /\ \A x : AnEvent(x) # Initialized /\ Child(x) # Initialized
    /\ \A x, y : Child(x) = Child(y) <=> x = y
BY DEF Ok, Failed, AnEvent, Child, Initialized


(* What is sent is a message. *)
LEMMA MessageTypes ==
    /\ \A r \in Requests : Ok(r) \in Messages /\ Failed(r) \in Messages
    /\ Initialized \in Messages
    /\ \A e \in Events : AnEvent(e) \in Messages
    /\ \A c \in Procs : Child(c) \in Messages
    /\ {"initialize", "start", "configurationDone"} = Requests
<1> USE DEF Messages
<1>1. \A r \in Requests : Ok(r) \in Answers /\ Failed(r) \in Answers
  BY DEF Answers
<1>2. QED
  BY <1>1 DEF Requests

-----------------------------------------------------------------------------
(* The events among messages.                                              *)

(* f numbers the places P, from 1 to n, in their order.                    *)
CountsUp(f, n, P) ==
    /\ \A k, l \in 1..n : k < l => f[k] < f[l]
    /\ \A i \in P : \E k \in 1..n : f[k] = i

(* The messages q have the events es, in this order.                       *)
Lists(q, es) ==
    \E f \in [1..Len(es) -> EventPlaces(q)] :
        /\ CountsUp(f, Len(es), EventPlaces(q))
        /\ \A k \in 1..Len(es) : q[f[k]] = AnEvent(es[k])

(* The rank of a place is its number.                                      *)
LEMMA RankIsNumber ==
    ASSUME NEW n \in Nat, NEW P \in SUBSET Nat, NEW f \in [1..n -> P],
           CountsUp(f, n, P)
    PROVE  /\ Cardinality(P) = n
           /\ \A k \in 1..n : Rank(f[k], P) = k
<1>1. /\ f \in [1..n -> P]
      /\ \A k, l \in 1..n : k < l => f[k] < f[l]
      /\ \A i \in P : \E k \in 1..n : f[k] = i
  BY DEF CountsUp
<1>2. \A k \in 1..n : f[k] \in P /\ f[k] \in Nat
  BY <1>1
<1>3. ASSUME NEW k \in 0..n, NEW Q \in SUBSET P,
             \A l \in 1..n : f[l] \in Q <=> l <= k
      PROVE  Cardinality(Q) = k
  <2> DEFINE g == [l \in 1..k |-> f[l]]
  <2>1. \A l \in 1..k : l \in 1..n /\ l <= k
    BY <1>3
  <2>2. \A l \in 1..k : g[l] = f[l] /\ g[l] \in Q
    BY <1>3, <2>1
  <2>3. g \in [1..k -> Q]
    BY <2>2
  <2>4. \A a, b \in 1..k : g[a] = g[b] => a = b
    <3>1. ASSUME NEW a \in 1..n, NEW b \in 1..n, a # b PROVE f[a] # f[b]
      <4>1. a < b \/ b < a
        BY <3>1
      <4>2. f[a] < f[b] \/ f[b] < f[a]
        BY <1>1, <4>1
      <4>3. QED
        BY <1>2, <4>2
    <3>2. QED
      BY <2>1, <2>2, <3>1
  <2>5. \A i \in Q : \E l \in 1..k : g[l] = i
    <3>1. ASSUME NEW i \in Q PROVE \E l \in 1..k : g[l] = i
      <4>1. PICK l \in 1..n : f[l] = i
        BY <1>1
      <4>2. l <= k
        BY <1>3, <4>1
      <4>3. l \in 1..k
        BY <4>2
      <4>4. QED
        BY <2>2, <4>1, <4>3
    <3>2. QED
      BY <3>1
  <2> HIDE DEF g
  <2>6. g \in Bijection(1..k, Q)
    BY <2>3, <2>4, <2>5 DEF Bijection, Injection, Surjection, IsInjective
  <2>7. k \in Nat /\ IsFiniteSet(1..k) /\ Cardinality(1..k) = k
    <3>1. k \in Nat
      OBVIOUS
    <3>2. 1 \in Int /\ k \in Int /\ (IF 1 > k THEN 0 ELSE k - 1 + 1) = k
      BY <3>1
    <3>3. QED
      BY <3>1, <3>2, FS_Interval
  <2>8. ExistsBijection(1..k, Q)
    BY <2>6 DEF ExistsBijection
  <2>9. QED
    BY <2>7, <2>8, FS_Bijection
<1>4. Cardinality(P) = n
  <2>1. n \in 0..n /\ P \in SUBSET P /\ \A l \in 1..n : f[l] \in P <=> l <= n
    BY <1>2
  <2>2. QED
    BY <1>3, <2>1
<1>5. ASSUME NEW k \in 1..n PROVE Rank(f[k], P) = k
  <2> DEFINE Q == {j \in P : j <= f[k]}
  <2>1. \A l \in 1..n : f[l] <= f[k] <=> l <= k
    <3>1. ASSUME NEW l \in 1..n PROVE f[l] <= f[k] <=> l <= k
      <4>1. CASE l < k
        <5>1. f[l] < f[k]
          BY <1>1, <4>1
        <5>2. QED
          BY <1>2, <4>1, <5>1
      <4>2. CASE k < l
        <5>1. f[k] < f[l]
          BY <1>1, <4>2
        <5>2. QED
          BY <1>2, <4>2, <5>1
      <4>3. CASE l = k
        BY <1>2, <4>3
      <4>4. QED
        BY <4>1, <4>2, <4>3
    <3>2. QED
      BY <3>1
  <2>2. Q \in SUBSET P /\ \A l \in 1..n : f[l] \in Q <=> l <= k
    BY <1>2, <2>1
  <2>3. k \in 0..n
    OBVIOUS
  <2>4. Cardinality(Q) = k
    BY <1>3, <2>2, <2>3
  <2>5. QED
    BY <2>4 DEF Rank
<1>6. QED
  BY <1>4, <1>5

(* What the model takes for the events among messages are these.           *)
LEMMA EventsAreListed ==
    ASSUME NEW S, NEW q \in Seq(S), NEW es \in Seq(Events), Lists(q, es)
    PROVE  EventsOf(q) = es
<1>1. PICK f \in [1..Len(es) -> EventPlaces(q)] :
          /\ CountsUp(f, Len(es), EventPlaces(q))
          /\ \A k \in 1..Len(es) : q[f[k]] = AnEvent(es[k])
  BY DEF Lists
<1>2. PICK n \in Nat : n = Len(es)
  BY LenProperties
<1>3. PICK P \in SUBSET Nat : P = EventPlaces(q)
  <2>1. DOMAIN q = 1..Len(q) /\ Len(q) \in Nat
    BY LenProperties
  <2>2. EventPlaces(q) \subseteq DOMAIN q
    BY DEF EventPlaces
  <2>3. EventPlaces(q) \in SUBSET Nat
    BY <2>1, <2>2
  <2>4. QED
    BY <2>3
<1>4. /\ f \in [1..n -> P] /\ \A i \in P : \E k \in 1..n : f[k] = i
      /\ \A k \in 1..n : q[f[k]] = AnEvent(es[k])
  BY <1>1, <1>2, <1>3 DEF CountsUp
<1>5. Cardinality(P) = n /\ \A k \in 1..n : Rank(f[k], P) = k
  BY <1>1, <1>2, <1>3, RankIsNumber
<1>6. ASSUME NEW k \in 1..n
      PROVE  q[CHOOSE i \in P : Rank(i, P) = k][2] = es[k]
  <2>1. f[k] \in P /\ Rank(f[k], P) = k
    BY <1>4, <1>5
  <2>2. \A i \in P : Rank(i, P) = k => i = f[k]
    BY <1>4, <1>5
  <2>3. (CHOOSE i \in P : Rank(i, P) = k) = f[k]
    BY <2>1, <2>2
  <2>4. AnEvent(es[k])[2] = es[k]
    BY DEF AnEvent
  <2>5. QED
    BY <1>4, <2>3, <2>4
<1>7. EventsOf(q) = [k \in 1..n |-> q[CHOOSE i \in P : Rank(i, P) = k][2]]
  BY <1>3, <1>5 DEF EventsOf
<1>8. es = [k \in 1..n |-> es[k]]
  BY <1>2
<1>9. QED
  BY <1>6, <1>7, <1>8

(* Messages that are not events have none, ...                             *)
LEMMA ListsNone ==
    ASSUME NEW S, NEW q \in Seq(S), \A i \in 1..Len(q) : q[i][1] # "event"
    PROVE  Lists(q, <<>>)
<1>1. EventPlaces(q) = {}
  <2>1. DOMAIN q = 1..Len(q)
    BY LenProperties
  <2>2. QED
    BY <2>1 DEF EventPlaces
<1>2. Len(<<>>) = 0 /\ 1..0 = {}
  OBVIOUS
<1>3. PICK f : f = [k \in {} |-> 0]
  OBVIOUS
<1>4. f \in [1..0 -> {}]
  BY <1>2, <1>3
<1>5. CountsUp(f, Len(<<>>), EventPlaces(q))
  BY <1>1, <1>2, <1>4 DEF CountsUp
<1>6. PICK es : es = <<>> /\ Len(es) = 0
  OBVIOUS
<1>7. f \in [1..Len(es) -> EventPlaces(q)] /\ \A k \in 1..Len(es) : q[f[k]] = AnEvent(es[k])
  BY <1>1, <1>2, <1>4, <1>6
<1>8. Lists(q, es)
  BY <1>5, <1>6, <1>7 DEF Lists
<1>9. QED
  BY <1>6, <1>8

(* ... those that all are events have these, ...                           *)
LEMMA ListsEvents ==
    ASSUME NEW S, NEW q \in Seq(S), NEW es \in Seq(Events), Len(q) = Len(es),
           \A i \in 1..Len(es) : q[i] = AnEvent(es[i])
    PROVE  Lists(q, es)
<1>1. PICK n \in Nat : n = Len(es)
  BY LenProperties
<1>2. DOMAIN q = 1..n /\ \A i \in 1..n : q[i] = AnEvent(es[i])
  BY <1>1, LenProperties
<1>3. \A e : AnEvent(e)[1] = "event"
  BY DEF AnEvent
<1>4. EventPlaces(q) = 1..n
  BY <1>2, <1>3 DEF EventPlaces
<1>5. PICK f : f = [k \in 1..n |-> k]
  OBVIOUS
<1>6. f \in [1..n -> 1..n] /\ \A k \in 1..n : f[k] = k
  BY <1>5
<1>7. CountsUp(f, n, 1..n)
  BY <1>6 DEF CountsUp
<1>8. QED
  BY <1>1, <1>2, <1>4, <1>6, <1>7 DEF Lists

(* ... and two lists have those of the first and then of the second.       *)
LEMMA ListsConcat ==
    ASSUME NEW S, NEW p \in Seq(S), NEW q \in Seq(S),
           NEW es \in Seq(Events), NEW fs \in Seq(Events), Lists(p, es), Lists(q, fs)
    PROVE  Lists(p \o q, es \o fs)
<1>1. PICK r : r = p \o q
  OBVIOUS
<1>2. PICK gs : gs = es \o fs
  OBVIOUS
<1>3. /\ r \in Seq(S) /\ Len(p) \in Nat /\ Len(q) \in Nat /\ Len(r) = Len(p) + Len(q)
      /\ \A i \in 1..Len(p) : i \in 1..Len(r) /\ r[i] = p[i]
      /\ \A i \in 1..Len(q) : i + Len(p) \in 1..Len(r) /\ r[i + Len(p)] = q[i]
      /\ \A i \in 1..Len(r) : i \in 1..Len(p) \/ (i > Len(p) /\ i - Len(p) \in 1..Len(q)
                                                  /\ r[i] = q[i - Len(p)])
  BY <1>1, ConcatPlaces
<1>4. /\ gs \in Seq(Events) /\ Len(es) \in Nat /\ Len(fs) \in Nat
      /\ Len(gs) = Len(es) + Len(fs)
      /\ \A i \in 1..Len(es) : i \in 1..Len(gs) /\ gs[i] = es[i]
      /\ \A i \in 1..Len(fs) : i + Len(es) \in 1..Len(gs) /\ gs[i + Len(es)] = fs[i]
      /\ \A i \in 1..Len(gs) : i \in 1..Len(es) \/ (i > Len(es) /\ i - Len(es) \in 1..Len(fs)
                                                   /\ gs[i] = fs[i - Len(es)])
  BY <1>2, ConcatPlaces
<1>5. PICK a \in Nat, b \in Nat, l \in Nat, m \in Nat :
          a = Len(es) /\ b = Len(fs) /\ l = Len(p) /\ m = Len(q)
  BY <1>3, <1>4
<1>6. PICK f \in [1..a -> EventPlaces(p)], g \in [1..b -> EventPlaces(q)] :
          /\ CountsUp(f, a, EventPlaces(p)) /\ CountsUp(g, b, EventPlaces(q))
          /\ \A k \in 1..a : p[f[k]] = AnEvent(es[k])
          /\ \A k \in 1..b : q[g[k]] = AnEvent(fs[k])
  BY <1>5 DEF Lists
<1>7. /\ \A i : i \in EventPlaces(p) <=> i \in 1..l /\ p[i][1] = "event"
      /\ \A i : i \in EventPlaces(q) <=> i \in 1..m /\ q[i][1] = "event"
      /\ \A i : i \in EventPlaces(r) <=> i \in 1..(l + m) /\ r[i][1] = "event"
  <2>1. DOMAIN p = 1..l /\ DOMAIN q = 1..m /\ DOMAIN r = 1..(l + m)
    BY <1>3, <1>5, LenProperties
  <2>2. QED
    BY <2>1 DEF EventPlaces
<1>8. /\ \A k \in 1..a : f[k] \in EventPlaces(p) /\ f[k] \in 1..l
      /\ \A k \in 1..b : g[k] \in EventPlaces(q) /\ g[k] \in 1..m
      /\ \A i \in EventPlaces(p) : \E k \in 1..a : f[k] = i
      /\ \A i \in EventPlaces(q) : \E k \in 1..b : g[k] = i
      /\ \A j, k \in 1..a : j < k => f[j] < f[k]
      /\ \A j, k \in 1..b : j < k => g[j] < g[k]
  BY <1>6, <1>7 DEF CountsUp
<1>9. PICK h : h = [k \in 1..(a + b) |-> IF k <= a THEN f[k] ELSE g[k - a] + l]
  OBVIOUS
<1>10. /\ \A k \in 1..a : k \in 1..(a + b) /\ h[k] = f[k]
       /\ \A k \in 1..b : k + a \in 1..(a + b) /\ h[k + a] = g[k] + l
  <2>1. ASSUME NEW k \in 1..a PROVE k \in 1..(a + b) /\ k <= a
    OBVIOUS
  <2>2. ASSUME NEW k \in 1..b PROVE k + a \in 1..(a + b) /\ ~(k + a <= a) /\ (k + a) - a = k
    OBVIOUS
  <2>3. QED
    BY <1>9, <2>1, <2>2
<1>11. \A k \in 1..(a + b) : k \in 1..a \/ \E j \in 1..b : k = j + a
  <2>1. ASSUME NEW k \in 1..(a + b), k \notin 1..a PROVE k - a \in 1..b /\ k = (k - a) + a
    BY <2>1
  <2>2. QED
    BY <2>1
<1>12. h \in [1..(a + b) -> EventPlaces(r)]
  <2>1. ASSUME NEW k \in 1..a PROVE h[k] \in EventPlaces(r)
    <3>1. f[k] \in 1..l /\ f[k] \in 1..(l + m) /\ p[f[k]][1] = "event" /\ h[k] = f[k]
      BY <1>7, <1>8, <1>10
    <3>2. r[f[k]] = p[f[k]]
      BY <1>3, <1>5, <3>1
    <3>3. QED
      BY <1>7, <3>1, <3>2
  <2>2. ASSUME NEW k \in 1..b PROVE h[k + a] \in EventPlaces(r)
    <3>1. g[k] \in 1..m /\ q[g[k]][1] = "event" /\ h[k + a] = g[k] + l
      BY <1>7, <1>8, <1>10
    <3>2. g[k] + l \in 1..(l + m)
      BY <3>1
    <3>3. r[g[k] + l] = q[g[k]]
      BY <1>3, <1>5, <3>1
    <3>4. QED
      BY <1>7, <3>1, <3>2, <3>3
  <2>3. \A k \in 1..(a + b) : h[k] \in EventPlaces(r)
    BY <1>11, <2>1, <2>2
  <2>4. QED
    BY <1>9, <2>3
<1>13. ASSUME NEW j \in 1..(a + b), NEW k \in 1..(a + b), j < k PROVE h[j] < h[k]
  <2>1. CASE j \in 1..a /\ k \in 1..a
    BY <1>8, <1>10, <1>13, <2>1
  <2>2. ASSUME NEW i \in 1..b, j \in 1..a, k = i + a PROVE h[j] < h[k]
    <3>1. h[j] \in 1..l /\ h[k] = g[i] + l /\ g[i] \in 1..m
      BY <1>8, <1>10, <2>2
    <3>2. QED
      BY <3>1
  <2>3. ASSUME NEW i \in 1..b, NEW n \in 1..b, j = i + a, k = n + a PROVE h[j] < h[k]
    <3>1. i < n
      BY <1>13, <2>3
    <3>2. g[i] < g[n] /\ g[i] \in 1..m /\ g[n] \in 1..m
      BY <1>8, <3>1
    <3>3. h[j] = g[i] + l /\ h[k] = g[n] + l
      BY <1>10, <2>3
    <3>4. QED
      BY <3>2, <3>3
  <2>4. ASSUME NEW i \in 1..b, j = i + a PROVE k \notin 1..a
    BY <1>13, <2>4
  <2>5. QED
    BY <1>11, <2>1, <2>2, <2>3, <2>4
<1>14. ASSUME NEW i \in EventPlaces(r) PROVE \E k \in 1..(a + b) : h[k] = i
  <2>1. i \in 1..(l + m) /\ r[i][1] = "event"
    BY <1>7
  <2>2. CASE i \in 1..l
    <3>1. i \in EventPlaces(p)
      BY <1>3, <1>5, <1>7, <2>1, <2>2
    <3>2. QED
      BY <1>8, <1>10, <3>1
  <2>3. ASSUME i > l, i - l \in 1..m, r[i] = q[i - l] PROVE \E k \in 1..(a + b) : h[k] = i
    <3>1. i - l \in EventPlaces(q)
      BY <1>7, <2>1, <2>3
    <3>2. PICK k \in 1..b : g[k] = i - l
      BY <1>8, <3>1
    <3>3. k + a \in 1..(a + b) /\ h[k + a] = g[k] + l
      BY <1>10
    <3>4. (i - l) + l = i
      BY <2>1
    <3>5. QED
      BY <3>2, <3>3, <3>4
  <2>4. QED
    BY <1>3, <1>5, <2>1, <2>2, <2>3
<1>15. \A k \in 1..(a + b) : r[h[k]] = AnEvent(gs[k])
  <2>1. ASSUME NEW k \in 1..a PROVE r[h[k]] = AnEvent(gs[k])
    <3>1. h[k] = f[k] /\ f[k] \in 1..l /\ gs[k] = es[k] /\ p[f[k]] = AnEvent(es[k])
      BY <1>4, <1>5, <1>6, <1>8, <1>10
    <3>2. r[f[k]] = p[f[k]]
      BY <1>3, <1>5, <3>1
    <3>3. QED
      BY <3>1, <3>2
  <2>2. ASSUME NEW k \in 1..b PROVE r[h[k + a]] = AnEvent(gs[k + a])
    <3>1. /\ h[k + a] = g[k] + l /\ g[k] \in 1..m /\ gs[k + a] = fs[k]
          /\ q[g[k]] = AnEvent(fs[k])
      BY <1>4, <1>5, <1>6, <1>8, <1>10
    <3>2. r[g[k] + l] = q[g[k]]
      BY <1>3, <1>5, <3>1
    <3>3. QED
      BY <3>1, <3>2
  <2>3. QED
    BY <1>11, <2>1, <2>2
<1>16. CountsUp(h, a + b, EventPlaces(r))
  BY <1>12, <1>13, <1>14 DEF CountsUp
<1>17. Len(gs) = a + b
  BY <1>4, <1>5
<1>18. /\ h \in [1..Len(gs) -> EventPlaces(r)] /\ CountsUp(h, Len(gs), EventPlaces(r))
       /\ \A k \in 1..Len(gs) : r[h[k]] = AnEvent(gs[k])
  BY <1>12, <1>15, <1>16, <1>17
<1>19. Lists(r, gs)
  BY <1>18 DEF Lists
<1>20. QED
  BY <1>1, <1>2, <1>19

(* The deferred events are sent as events, in their order.                 *)
(* (_propagate_deferred_events)                                            *)
LEMMA DeferredMessages ==
    ASSUME deferred \in [on : BOOLEAN, events : Seq(Events)]
    PROVE  /\ deferred.events \in Seq(Events) /\ DeferredEvents \in Seq(Messages)
           /\ Lists(DeferredEvents, deferred.events)
           /\ \A m : Has(DeferredEvents, m) => \E e \in Events : m = AnEvent(e)
<1>1. PICK evs \in Seq(Events) : evs = deferred.events
  OBVIOUS
<1>2. Len(evs) \in Nat /\ \A i \in 1..Len(evs) : evs[i] \in Events
  BY LenProperties, ElementOfSeq
<1>3. DeferredEvents = [i \in 1..Len(evs) |-> AnEvent(evs[i])]
  BY <1>1 DEF DeferredEvents
<1>4. \A i \in 1..Len(evs) : AnEvent(evs[i]) \in Messages
  BY <1>2, MessageTypes
<1>5. PICK q : q = [i \in 1..Len(evs) |-> AnEvent(evs[i])]
  OBVIOUS
<1>6. q \in Seq(Messages) /\ Len(q) = Len(evs) /\ \A i \in 1..Len(evs) : q[i] = AnEvent(evs[i])
  BY <1>2, <1>4, <1>5, IsASeq
<1>7. \A m : Has(q, m) => \E e \in Events : m = AnEvent(e)
  BY <1>2, <1>6 DEF Has
<1>8. Lists(q, evs)
  BY <1>6, ListsEvents
<1>9. QED
  BY <1>1, <1>3, <1>5, <1>6, <1>7, <1>8

-----------------------------------------------------------------------------
(* The inductive invariant.                                                *)

(* Only a session that has not started yet handles a request to start it,  *)
(* and only one that waits for it is being configured; a session that has  *)
(* started, or waits for "configurationDone", has a launcher or a server,  *)
(* so that it is not started again; the events are deferred until the      *)
(* start request is answered.                                              *)
StartWaits ==
    {"spawn", "launching", "process", "server", "initialize", "start", "property"}

ControlInv ==
    /\ ide.pc \in StartWaits => start = "none"
    /\ ide.pc \in {"spawn", "launching"} => ~HasServer
    /\ ide.pc = "launching" => launcher # "none"
    /\ ide.pc = "configure" => start = "pending"
    /\ start # "none" => launcher # "none" \/ HasServer
    /\ deferred.on <=> start # "answered"

(* What the IDE has been sent says how far its session has started.        *)
SentInv ==
    /\ Has(told, Ok("start")) <=> start = "answered"
    /\ start = "pending" => Has(told, Initialized)
    /\ life = "running" /\ start # "answered" => ~Has(told, Failed("configurationDone"))

(* A process is known before it is reported, and one that the accept       *)
(* thread is about to report has not been.                                 *)
ChildInv ==
    \A c \in Procs :
        /\ Once(told, Child(c))
        /\ Has(told, Child(c)) => c \in known
        /\ at[c] = "report" => c \in known /\ ~Has(told, Child(c))

OrderInv ==
    /\ \A e \in Events : FirstIn(told, Ok("start"), AnEvent(e))
    /\ FirstIn(told, Initialized, Ok("configurationDone"))
    /\ start = "answered" /\ HasServer =>
           \/ FirstIn(told, Ok("configurationDone"), Ok("start"))
           \/ srv = "gone" /\ FirstIn(told, Ok("start"), Failed("configurationDone"))


-----------------------------------------------------------------------------
(* Types. *)

IdeStates  == [pc : {"idle"} \cup Waits, kind : Kinds, byPid : BOOLEAN, asked : 0..MaxRequests]
KeptStates == [on : BOOLEAN, events : Seq(Events)]

(* The handler of the IDE goes to another place.                           *)
LEMMA GotoType ==
    ASSUME TypeOK, NEW pc \in {"idle"} \cup Waits, Goto(pc)
    PROVE  ide' \in IdeStates /\ ide'.pc = pc /\ ide'.byPid = ide.byPid
<1>1. ide \in IdeStates
  BY DEF TypeOK, IdeStates
<1>2. QED
  BY <1>1 DEF Goto, IdeStates

(* ... or receives another request, ...                                    *)
LEMMA AskedType ==
    ASSUME TypeOK, Receives, NEW pc \in {"idle"} \cup Waits, Asked(pc)
    PROVE  ide' \in IdeStates /\ ide'.pc = pc
<1>1. ide \in IdeStates /\ ide.asked < MaxRequests
  BY DEF TypeOK, IdeStates, Receives
<1>2. ide.asked + 1 \in 0..MaxRequests
  BY <1>1, StartConstants DEF IdeStates
<1>3. QED
  BY <1>1, <1>2 DEF Asked, IdeStates

(* ... or fails.                                                           *)
LEMMA FailType ==
    ASSUME TypeOK, NEW r \in Requests, Fail(r)
    PROVE  /\ ide' \in IdeStates /\ ide'.pc = "idle"
           /\ told' = told \o <<Failed(r)>> /\ told' \in Seq(Messages)
<1>1. ide \in IdeStates /\ told \in Seq(Messages)
  BY DEF TypeOK, IdeStates
<1>2. Idle \in IdeStates
  BY StartConstants DEF Idle, IdeStates, Kinds
<1>3. ide' \in IdeStates /\ ide'.pc = "idle"
  <2>1. PICK n \in 0..MaxRequests : n = ide.asked
    BY <1>1 DEF IdeStates
  <2>2. ide' = [Idle EXCEPT !.asked = n]
    BY <2>1 DEF Fail
  <2>3. QED
    BY <1>2, <2>2 DEF IdeStates, Idle
<1>4. told' = told \o <<Failed(r)>>
  BY DEF Fail, Tell
<1>5. QED
  BY <1>1, <1>3, <1>4, MessageTypes, OneMessage, ConcatMessages

(* A message is sent. *)
LEMMA TellType ==
    ASSUME TypeOK, NEW m \in Messages, Tell(<<m>>)
    PROVE  told' = told \o <<m>> /\ told' \in Seq(Messages)
<1>1. told \in Seq(Messages)
  BY DEF TypeOK
<1>2. QED
  BY <1>1, OneMessage, ConcatMessages DEF Tell

(* The deferred events are sent after the responses that were due.         *)
LEMMA TellDeferredType ==
    ASSUME TypeOK, NEW before \in Seq(Messages), NEW after \in Seq(Messages),
           TellDeferred(before, after)
    PROVE  /\ told' = told \o ((before \o DeferredEvents) \o after)
           /\ before \o DeferredEvents \in Seq(Messages)
           /\ (before \o DeferredEvents) \o after \in Seq(Messages)
           /\ told' \in Seq(Messages)
           /\ deferred' \in KeptStates /\ ~deferred'.on
<1>1. told \in Seq(Messages) /\ DeferredEvents \in Seq(Messages)
  BY DeferredMessages DEF TypeOK
<1>2. before \o DeferredEvents \in Seq(Messages)
  BY <1>1, ConcatMessages
<1>3. (before \o DeferredEvents) \o after \in Seq(Messages)
  BY <1>2, ConcatMessages
<1>4. told' = told \o ((before \o DeferredEvents) \o after)
  BY DEF TellDeferred, Tell, WithDeferred
<1>5. told' \in Seq(Messages)
  BY <1>1, <1>3, <1>4, ConcatMessages
<1>6. <<>> \in Seq(Events) /\ deferred' = [on |-> FALSE, events |-> <<>>]
  BY EmptySeq DEF TellDeferred
<1>7. deferred' \in KeptStates /\ ~deferred'.on
  BY <1>6 DEF KeptStates
<1>8. QED
  BY <1>2, <1>3, <1>4, <1>5, <1>7

(* The initial state has its types. *)
LEMMA InitType == Init => TypeOK
<1> SUFFICES ASSUME Init PROVE TypeOK
  OBVIOUS
<1>1. \A S : <<>> \in Seq(S)
  BY EmptySeq
<1>2. ide \in IdeStates
  BY StartConstants DEF Init, Idle, IdeStates, Kinds
<1>3. deferred \in KeptStates
  BY <1>1 DEF Init, KeptStates
<1>4. count \in [Sources -> 0..MaxEvents]
  BY StartConstants DEF Init
<1>5. QED
  BY <1>1, <1>2, <1>3, <1>4 DEF Init, TypeOK, IdeStates, KeptStates


(* The steps of the handlers of "initialize", "launch" and "attach", ...   *)
LEMMA StartTypes == TypeOK /\ (initialize_request \/ StartHandler) => TypeOK'
<1> SUFFICES ASSUME TypeOK, initialize_request \/ StartHandler PROVE TypeOK'
  OBVIOUS
<1> USE DEF control, relay, procs, children
<1>1. /\ {"initialize", "start", "configurationDone"} = Requests
      /\ \A r \in Requests : Ok(r) \in Messages /\ Failed(r) \in Messages
      /\ Initialized \in Messages
  BY MessageTypes
<1>2. Waits \subseteq {"idle"} \cup Waits /\ "idle" \in {"idle"} \cup Waits
      /\ {"spawn", "launching", "process", "server", "initialize", "start",
          "property"} \subseteq Waits
  BY DEF Waits
<1>3. ASSUME Refuse("start") PROVE told' \in Seq(Messages) /\ life' = "crashed"
  BY <1>1, <1>3, TellType DEF Refuse, Crash
<1>4. CASE initialize_request
  <2>1. ide' \in IdeStates
    BY <1>2, <1>4, AskedType DEF initialize_request
  <2>2. told' \in Seq(Messages) /\ life' \in {life, "crashed"}
    <3>1. CASE initReq
      BY <1>1, <1>4, <3>1, TellType DEF initialize_request, Refuse, Crash
    <3>2. CASE ~initReq
      BY <1>1, <1>4, <3>2, TellType DEF initialize_request
    <3>3. QED
      BY <3>1, <3>2
  <2>3. QED
    BY <1>4, <2>1, <2>2 DEF initialize_request, TypeOK, IdeStates
<1>5. CASE StartRefused
  <2>1. ide' \in IdeStates
    BY <1>2, <1>5, AskedType DEF StartRefused
  <2>2. QED
    BY <1>3, <1>5, <2>1 DEF StartRefused, TypeOK, IdeStates
<1>6. ASSUME NEW kind \in Kinds, NEW byPid \in BOOLEAN, StartAccepted(kind, byPid)
      PROVE  TypeOK'
  <2>1. PICK pc \in Waits : /\ pc = (IF kind = "attach" THEN "server" ELSE "spawn")
                            /\ ide' = [pc |-> pc, kind |-> kind, byPid |-> byPid,
                                       asked |-> ide.asked + 1]
    BY <1>2, <1>6 DEF StartAccepted
  <2>2. ide.asked \in 0..MaxRequests /\ ide.asked < MaxRequests
    BY <1>6 DEF TypeOK, StartAccepted, Receives
  <2>3. ide.asked + 1 \in 0..MaxRequests
    BY <2>2, StartConstants
  <2>4. ide' \in IdeStates
    BY <2>1, <2>3 DEF IdeStates
  <2>5. QED
    BY <1>6, <2>4 DEF StartAccepted, TypeOK, IdeStates
<1>7. CASE LaunchRefused \/ NoPid \/ AttachTaken \/ NoServer
  BY <1>3, <1>7 DEF LaunchRefused, NoPid, AttachTaken, NoServer, TypeOK
<1>8. CASE SpawnLauncher
  <2>1. ide' \in IdeStates
    BY <1>2, <1>8, GotoType DEF SpawnLauncher
  <2>2. QED
    BY <1>8, <2>1 DEF SpawnLauncher, TypeOK, IdeStates
<1>9. CASE SpawnFails
  <2>1. CASE Fail("start") /\ UNCHANGED life
    BY <1>1, <1>9, <2>1, FailType DEF SpawnFails, TypeOK, IdeStates
  <2>2. CASE Crash /\ UNCHANGED <<told, ide>>
    BY <1>9, <2>2 DEF SpawnFails, TypeOK, Crash
  <2>3. QED
    BY <1>9, <2>1, <2>2 DEF SpawnFails
<1>10. CASE LauncherAnswers
  <2>1. CASE ide.kind = "noDebug"
    <3>1. ide' \in IdeStates
      BY <1>2, <1>10, <2>1, GotoType DEF LauncherAnswers
    <3>2. <<Ok("start")>> \in Seq(Messages) /\ <<>> \in Seq(Messages)
      BY <1>1, OneMessage, EmptySeq
    <3>3. told' \in Seq(Messages) /\ deferred' \in KeptStates
      BY <1>10, <2>1, <3>2, TellDeferredType DEF LauncherAnswers
    <3>4. QED
      BY <1>10, <2>1, <3>1, <3>3 DEF LauncherAnswers, TypeOK, IdeStates, KeptStates
  <2>2. CASE ide.kind # "noDebug"
    <3>1. ide' \in IdeStates
      BY <1>2, <1>10, <2>2, GotoType DEF LauncherAnswers
    <3>2. QED
      BY <1>10, <2>2, <3>1 DEF LauncherAnswers, TypeOK, IdeStates
  <2>3. QED
    BY <2>1, <2>2
<1>11. CASE LauncherFails
  BY ZenonT(60), <1>1, <1>11, FailType DEF LauncherFails, TypeOK, IdeStates
<1>12. CASE HasPid
  <2>1. ide' \in IdeStates
    BY <1>2, <1>12, GotoType DEF HasPid
  <2>2. QED
    BY <1>12, <2>1 DEF HasPid, TypeOK, IdeStates
<1>13. CASE AttachServer
  <2>1. ide' \in IdeStates
    BY <1>2, <1>13, GotoType DEF AttachServer
  <2>2. QED
    BY <1>13, <2>1 DEF AttachServer, TypeOK, IdeStates
<1>14. CASE ServerAnswers
  <2>1. /\ ide' \in IdeStates
        /\ told' \in Seq(Messages) /\ start' \in {start, "pending"}
        /\ initReq' \in BOOLEAN
    <3>1. CASE At("initialize") /\ Goto("start") /\ initReq' = FALSE
               /\ UNCHANGED <<start, told>>
      BY <1>2, <3>1, GotoType DEF TypeOK
    <3>2. CASE At("start") /\ Goto("property") /\ UNCHANGED <<initReq, start, told>>
      BY <1>2, <3>2, GotoType DEF TypeOK
    <3>3. CASE At("property") /\ Goto("idle") /\ Tell(<<Initialized>>)
               /\ start' = "pending" /\ UNCHANGED initReq
      BY <1>1, <1>2, <3>3, GotoType, TellType DEF TypeOK
    <3>4. QED
      BY <1>14, <3>1, <3>2, <3>3 DEF ServerAnswers
  <2>2. QED
    BY <1>14, <2>1 DEF ServerAnswers, TypeOK, IdeStates
<1>15. CASE ServerFails
  BY ZenonT(60), <1>1, <1>15, FailType DEF ServerFails, TypeOK, IdeStates
<1>16. QED
  BY <1>4, <1>5, <1>6, <1>7, <1>8, <1>9, <1>10, <1>11, <1>12, <1>13, <1>14, <1>15
     DEF StartHandler

(* ... of "configurationDone", ...                                         *)
LEMMA ConfigurationTypes == TypeOK /\ ConfigurationHandler => TypeOK'
<1> SUFFICES ASSUME TypeOK, ConfigurationHandler PROVE TypeOK'
  OBVIOUS
<1> USE DEF control, relay, procs, children
<1>1. /\ {"initialize", "start", "configurationDone"} = Requests
      /\ \A r \in Requests : Ok(r) \in Messages /\ Failed(r) \in Messages
      /\ \A c \in Procs : Child(c) \in Messages
  BY MessageTypes
<1>2. "idle" \in {"idle"} \cup Waits
      /\ {"configure", "list", "notify"} \subseteq {"idle"} \cup Waits
  BY DEF Waits
<1>3. ASSUME NEW r \in Requests, Refuse(r)
      PROVE  told' \in Seq(Messages) /\ life' = "crashed"
  BY <1>1, <1>3, TellType DEF Refuse, Crash
<1>4. CASE ConfigurationDone
  <2>1. ide' \in IdeStates
    BY <1>2, <1>4, GotoType DEF ConfigurationDone
  <2>2. QED
    BY <1>4, <2>1 DEF ConfigurationDone, TypeOK, IdeStates
<1>5. CASE ConfigurationMisplaced
  BY <1>1, <1>3, <1>5 DEF ConfigurationMisplaced, TypeOK
<1>6. CASE ConfigurationFails
  BY <1>1, <1>3, <1>6 DEF ConfigurationFails, TypeOK
<1>7. CASE ConfigurationAnswered
  <2>1. ide' \in IdeStates
    BY <1>2, <1>7, GotoType DEF ConfigurationAnswered
  <2>2. <<Ok("configurationDone"), Ok("start")>> \in Seq(Messages) /\ <<>> \in Seq(Messages)
    BY <1>1, TwoMessages, MessagesDiffer, EmptySeq
  <2>3. told' \in Seq(Messages) /\ deferred' \in KeptStates
    BY <1>7, <2>2, TellDeferredType DEF ConfigurationAnswered
  <2>4. QED
    BY <1>7, <2>1, <2>3 DEF ConfigurationAnswered, TypeOK, IdeStates, KeptStates
<1>8. CASE ConfigurationLost
  <2>1. ide' \in IdeStates
    BY <1>2, <1>8, GotoType DEF ConfigurationLost
  <2>2. <<Ok("start")>> \in Seq(Messages) /\ <<Failed("configurationDone")>> \in Seq(Messages)
    BY <1>1, OneMessage
  <2>3. told' \in Seq(Messages) /\ deferred' \in KeptStates
    BY <1>8, <2>2, TellDeferredType DEF ConfigurationLost
  <2>4. QED
    BY <1>8, <2>1, <2>3 DEF ConfigurationLost, TypeOK, IdeStates, KeptStates
<1>9. CASE ListChildren
  <2>1. ide' \in IdeStates
    BY <1>2, <1>9, GotoType DEF ListChildren
  <2>2. QED
    BY <1>9, <2>1 DEF ListChildren, TypeOK, IdeStates
<1>10. CASE NotifyListed
  <2>1. ide' \in IdeStates
    BY <1>2, <1>10, GotoType DEF NotifyListed
  <2>2. listing \in Seq(Children) /\ listing # <<>>
    BY <1>10 DEF TypeOK, NotifyListed
  <2>3. Head(listing) \in Procs /\ Tail(listing) \in Seq(Children)
    BY <2>2, HeadTailProperties DEF Procs
  <2>4. Reportable(({Head(listing)} \cap NotDebugged) \ Orphans) \subseteq Procs
    BY <2>3 DEF Reportable
  <2>5. told' \in Seq(Messages)
    <3>1. CASE Tell(<<Child(Head(listing))>>)
      BY <1>1, <2>3, <3>1, TellType
    <3>2. CASE UNCHANGED told
      BY <3>2 DEF TypeOK
    <3>3. QED
      BY <1>10, <3>1, <3>2 DEF NotifyListed
  <2>6. known' \subseteq Procs /\ listing' \in Seq(Children)
    BY <1>10, <2>3, <2>4 DEF NotifyListed, TypeOK
  <2>7. QED
    BY <1>10, <2>1, <2>5, <2>6 DEF NotifyListed, TypeOK, IdeStates
<1>11. QED
  BY <1>4, <1>5, <1>6, <1>7, <1>8, <1>9, <1>10 DEF ConfigurationHandler

(* ... of a request that is delegated, ...                                 *)
LEMMA DelegateTypes == TypeOK /\ (DelegateRequest \/ DelegateAnswered) => TypeOK'
<1> SUFFICES ASSUME TypeOK, DelegateRequest \/ DelegateAnswered PROVE TypeOK'
  OBVIOUS
<1>1. {"idle", "delegate"} \subseteq {"idle"} \cup Waits
  BY DEF Waits
<1>2. ide' \in IdeStates
  BY <1>1, GotoType DEF DelegateRequest, DelegateAnswered
<1>3. QED
  BY <1>2 DEF DelegateRequest, DelegateAnswered, relay, procs, children, TypeOK, IdeStates

(* ... of the launcher and of the debug server, ...                        *)
LEMMA EventTypes ==
    TypeOK /\ (\/ \E s \in Sources : HandleEvent(s)
               \/ ServerGone \/ SessionEnds \/ ServerConnects \/ ServerTaken)
    => TypeOK'
<1> SUFFICES ASSUME TypeOK, \/ \E s \in Sources : HandleEvent(s)
                            \/ ServerGone \/ SessionEnds \/ ServerConnects \/ ServerTaken
             PROVE TypeOK'
  OBVIOUS
<1> USE DEF control, relay, procs, children
<1>1. ASSUME NEW s \in Sources, HandleEvent(s) PROVE TypeOK'
  <2>1. count[s] \in 0..MaxEvents /\ count[s] < MaxEvents
    BY <1>1 DEF TypeOK, HandleEvent
  <2>2. count[s] + 1 \in 1..MaxEvents /\ count[s] + 1 \in 0..MaxEvents
    BY <2>1, StartConstants
  <2>3. PICK e \in Events : e = Event(s)
    BY <2>2 DEF Event, Events
  <2>4. count' \in [Sources -> 0..MaxEvents]
    BY <1>1, <2>2 DEF HandleEvent, TypeOK
  <2>5. handled' \in Seq(Events)
    BY <1>1, <2>3, AppendProperties DEF HandleEvent, TypeOK
  <2>6. deferred' \in KeptStates /\ told' \in Seq(Messages)
    <3>1. CASE deferred.on
      <4>1. Append(deferred.events, e) \in Seq(Events)
        BY <2>3, AppendProperties DEF TypeOK
      <4>2. deferred' = [deferred EXCEPT !.events = Append(@, e)] /\ told' = told
        BY <1>1, <2>3, <3>1 DEF HandleEvent
      <4>3. QED
        BY <4>1, <4>2 DEF TypeOK, KeptStates
    <3>2. CASE ~deferred.on
      <4>1. Tell(<<AnEvent(e)>>) /\ deferred' = deferred
        BY <1>1, <2>3, <3>2 DEF HandleEvent
      <4>2. told' \in Seq(Messages)
        BY <2>3, <4>1, MessageTypes, TellType
      <4>3. QED
        BY <4>1, <4>2 DEF TypeOK, KeptStates
    <3>3. QED
      BY <3>1, <3>2
  <2>7. launcher' \in {launcher, "pid"}
    BY <1>1 DEF HandleEvent
  <2>8. QED
    BY <1>1, <2>4, <2>5, <2>6, <2>7 DEF HandleEvent, TypeOK, KeptStates
<1>2. CASE ServerGone \/ SessionEnds \/ ServerTaken
  BY <1>2 DEF ServerGone, SessionEnds, ServerTaken, TypeOK
<1>3. CASE ServerConnects
  BY <1>3 DEF ServerConnects, Step, TypeOK
<1>4. QED
  BY <1>1, <1>2, <1>3

(* ... and of the accept thread ...                                        *)
Places == {"none", "connected", "registered", "found", "report", "done"}

LEMMA StepType ==
    ASSUME TypeOK, NEW c \in Procs, NEW from, NEW to \in Places, Step(c, from, to)
    PROVE  at' \in [Procs -> Places] /\ at[c] = from /\ at'[c] = to
BY DEF Step, TypeOK, Places

LEMMA AcceptTypes ==
    ASSUME TypeOK, NEW c \in Procs, AcceptThread(c)
    PROVE  TypeOK'
<1> USE DEF control, relay, procs, children, Places
<1>1. CASE FindParent(c)
  <2>1. PICK to \in {"found", "done"} : Step(c, "registered", to)
    BY <1>1 DEF FindParent
  <2>2. at' \in [Procs -> Places]
    BY <2>1, StepType
  <2>3. QED
    BY <1>1, <2>2 DEF FindParent, TypeOK
<1>2. CASE Notify(c)
  <2>1. PICK to \in {"report", "done"} : Step(c, "found", to)
    BY <1>2 DEF Notify
  <2>2. at' \in [Procs -> Places]
    BY <2>1, StepType
  <2>3. Reportable({c}) \subseteq Procs
    BY DEF Reportable
  <2>4. known' \subseteq Procs
    BY <1>2, <2>3 DEF Notify, TypeOK
  <2>5. QED
    BY ZenonT(60), <1>2, <2>2, <2>4 DEF Notify, TypeOK
<1>3. CASE SendChild(c)
  <2>1. told' \in Seq(Messages)
    BY <1>3, MessageTypes, TellType DEF SendChild
  <2>2. at' \in [Procs -> Places]
    BY <1>3, StepType DEF SendChild
  <2>3. QED
    BY <1>3, <2>1, <2>2 DEF SendChild, TypeOK
<1>4. QED
  BY <1>1, <1>2, <1>3 DEF AcceptThread

(* ... and the subprocesses keep the types.                                *)
LEMMA ChildTypes ==
    ASSUME TypeOK, NEW c \in Children, ChildStep(c)
    PROVE  TypeOK'
<1> USE DEF control, relay, procs, children, Places
<1>1. c \in Procs
  BY DEF Procs
<1>2. CASE ChildConnects(c)
  <2>1. at' \in [Procs -> Places]
    BY <1>1, <1>2, StepType DEF ChildConnects
  <2>2. QED
    BY <1>2, <2>1 DEF ChildConnects, TypeOK
<1>3. CASE ChildRegisters(c)
  <2>1. conns' \in Seq(Children)
    BY <1>3, AppendProperties DEF ChildRegisters, TypeOK
  <2>2. at' \in [Procs -> Places]
    BY <1>1, <1>3, StepType DEF ChildRegisters
  <2>3. QED
    BY <1>3, <2>1, <2>2 DEF ChildRegisters, TypeOK
<1>4. CASE ChildTaken(c)
  BY <1>4 DEF ChildTaken, TypeOK
<1>5. CASE ChildGone(c)
  BY <1>5, RemoveType DEF ChildGone, TypeOK
<1>6. QED
  BY <1>2, <1>3, <1>4, <1>5 DEF ChildStep

(* Every step keeps the types. *)
LEMMA StepTypes == TypeOK /\ [Next]_vars => TypeOK'
<1> SUFFICES ASSUME TypeOK, [Next]_vars PROVE TypeOK'
  OBVIOUS
<1>1. CASE UNCHANGED vars
  BY <1>1 DEF vars, control, relay, procs, children, TypeOK
<1>2. CASE Next
  BY <1>2, StartTypes, ConfigurationTypes, DelegateTypes, EventTypes, AcceptTypes, ChildTypes
     DEF Next, RequestHandler
<1>3. QED
  BY <1>1, <1>2


-----------------------------------------------------------------------------
(* How far the session is. *)

(* The initial state has nothing started, ... *)
LEMMA InitControl == Init => ControlInv
BY DEF Init, Idle, ControlInv, StartWaits, HasServer

(* ... and every step keeps the handler of the IDE, the start request and  *)
(* what was started for it together.                                       *)
LEMMA StepControl == TypeOK /\ ControlInv /\ [Next]_vars => ControlInv'
<1> SUFFICES ASSUME TypeOK, ControlInv, [Next]_vars PROVE ControlInv'
  OBVIOUS
<1> USE DEF control, relay, procs, children, ControlInv, StartWaits, HasServer, At, Receives
<1>1. ide \in IdeStates
  BY DEF TypeOK, IdeStates
<1> DEFINE Same == UNCHANGED <<ide, start, launcher, srv, deferred>>
<1>2. CASE Same
  BY <1>2
<1>3. ASSUME NEW pc, Asked(pc) PROVE ide'.pc = pc
  BY <1>1, <1>3 DEF Asked, IdeStates
<1>4. ASSUME NEW pc, Goto(pc) PROVE ide'.pc = pc
  BY <1>1, <1>4 DEF Goto, IdeStates
<1>5. ASSUME Fail("start") PROVE ide'.pc = "idle"
  BY <1>5 DEF Fail, Idle
<1>6. ASSUME NEW p, NEW q, TellDeferred(p, q) PROVE ~deferred'.on
  BY <1>6 DEF TellDeferred
<1>7. CASE initialize_request \/ StartRefused
  BY <1>3, <1>7 DEF initialize_request, StartRefused
<1>8. ASSUME NEW kind \in Kinds, NEW byPid \in BOOLEAN, StartAccepted(kind, byPid)
      PROVE  ControlInv'
  <2>1. ide'.pc \in {"server", "spawn"}
    BY <1>8 DEF StartAccepted
  <2>2. QED
    BY <1>8, <2>1 DEF StartAccepted
<1>9. CASE LaunchRefused \/ NoPid \/ AttachTaken \/ NoServer \/ ConfigurationMisplaced
           \/ ConfigurationFails
  BY <1>2, <1>9 DEF LaunchRefused, NoPid, AttachTaken, NoServer, ConfigurationMisplaced,
                    ConfigurationFails
<1>10. CASE SpawnLauncher
  BY <1>4, <1>10 DEF SpawnLauncher
<1>11. CASE SpawnFails
  BY <1>5, <1>11 DEF SpawnFails
<1>12. CASE LauncherAnswers
  BY <1>4, <1>6, <1>12 DEF LauncherAnswers
<1>13. CASE LauncherFails \/ ServerFails
  BY <1>5, <1>13 DEF LauncherFails, ServerFails
<1>14. CASE HasPid
  BY <1>4, <1>14 DEF HasPid
<1>15. CASE AttachServer
  BY <1>4, <1>15 DEF AttachServer
<1>16. CASE ServerAnswers
  BY <1>4, <1>16 DEF ServerAnswers
<1>17. CASE ConfigurationDone
  BY <1>4, <1>17 DEF ConfigurationDone
<1>18. CASE ConfigurationAnswered
  BY <1>4, <1>6, <1>18 DEF ConfigurationAnswered
<1>19. CASE ConfigurationLost
  BY <1>4, <1>6, <1>19 DEF ConfigurationLost
<1>20. CASE ListChildren
  BY <1>4, <1>20 DEF ListChildren
<1>21. CASE NotifyListed
  BY <1>4, <1>21 DEF NotifyListed
<1>22. ASSUME NEW s \in Sources, HandleEvent(s) PROVE ControlInv'
  <2>1. deferred'.on = deferred.on
    BY <1>22 DEF HandleEvent, TypeOK
  <2>2. launcher # "none" => launcher' # "none"
    BY <1>22 DEF HandleEvent
  <2>3. QED
    BY <1>22, <2>1, <2>2 DEF HandleEvent
<1>23. CASE ServerGone \/ SessionEnds \/ ServerConnects \/ ServerTaken
  BY <1>23 DEF ServerGone, SessionEnds, ServerConnects, ServerTaken
<1>24. ASSUME NEW c \in Procs, AcceptThread(c) PROVE ControlInv'
  BY <1>2, <1>24 DEF AcceptThread, FindParent, Notify, SendChild
<1>25. ASSUME NEW c \in Children, ChildStep(c) PROVE ControlInv'
  BY <1>2, <1>25 DEF ChildStep, ChildConnects, ChildRegisters, ChildTaken, ChildGone
<1>26. CASE DelegateRequest \/ DelegateAnswered
  BY <1>4, <1>26 DEF DelegateRequest, DelegateAnswered
<1>27. CASE UNCHANGED vars
  BY <1>2, <1>27 DEF vars
<1>28. QED
  BY <1>7, <1>8, <1>9, <1>10, <1>11, <1>12, <1>13, <1>14, <1>15, <1>16, <1>17, <1>18,
     <1>19, <1>20, <1>21, <1>22, <1>23, <1>24, <1>25, <1>26, <1>27
     DEF Next, RequestHandler, StartHandler, ConfigurationHandler


-----------------------------------------------------------------------------
(* What the IDE has been sent. *)

(* Nothing has been sent in the initial state. *)
LEMMA InitSent == Init => SentInv /\ OrderInv /\ ChildInv
<1> SUFFICES ASSUME Init PROVE SentInv /\ OrderInv /\ ChildInv
  OBVIOUS
<1>1. told = <<>> /\ \A i : i \notin 1..Len(told)
  BY EmptySeq DEF Init
<1>2. /\ \A m : ~Has(told, m) /\ Once(told, m)
      /\ \A m, n : FirstIn(told, m, n)
  BY <1>1 DEF Has, Once, FirstIn
<1>3. QED
  BY <1>2 DEF Init, SentInv, OrderInv, ChildInv

(* A session keeps what it is: it does not run again, gets its debug       *)
(* server before the IDE has been told that it has started, and does not   *)
(* get back one that is gone.                                              *)
Onward ==
    /\ life' = "running" => life = "running"
    /\ HasServer' => HasServer \/ start # "answered"
    /\ srv = "gone" => srv' = "gone"

(* A step that sends nothing.                                              *)
LEMMA SendNothing ==
    ASSUME SentInv, OrderInv, Onward, UNCHANGED <<told, start>>
    PROVE  SentInv' /\ OrderInv'
<1>1. SentInv'
  BY DEF SentInv, Onward
<1>2. OrderInv'
  BY DEF OrderInv, Onward
<1>3. QED
  BY <1>1, <1>2

(* A step that sends one message, which is not the response to a request   *)
(* that starts the session: an event only if it has started, and a failure *)
(* of "configurationDone" only if it has, or runs no more.                 *)
LEMMA SendOne ==
    ASSUME TypeOK, SentInv, OrderInv, Onward, NEW m \in Messages, told' = told \o <<m>>,
           m # Ok("start"), m # Ok("configurationDone"),
           m = Failed("configurationDone") => life' # "running",
           \A e \in Events : m = AnEvent(e) => start = "answered",
           start' = start \/ (start = "none" /\ start' = "pending" /\ m = Initialized)
    PROVE  SentInv' /\ OrderInv'
<1>1. told \in Seq(Messages)
  BY DEF TypeOK
<1>2. /\ \A x : Has(<<m>>, x) <=> x = m
      /\ <<m>> \in Seq(Messages)
  BY OneMessage
<1>3. /\ \A x : Has(told', x) <=> Has(told, x) \/ x = m
      /\ \A x, n : FirstIn(told, x, n) /\ (Has(told, x) \/ n # m)
                   => FirstIn(told', x, n)
  BY <1>1, <1>2, ConcatMessages
<1>4. SentInv'
  BY <1>3 DEF SentInv, Onward
<1>5. \A e \in Events : FirstIn(told', Ok("start"), AnEvent(e))
  BY <1>3 DEF OrderInv, SentInv
<1>6. FirstIn(told', Initialized, Ok("configurationDone"))
  BY <1>3 DEF OrderInv
<1>7. ASSUME start' = "answered", HasServer'
      PROVE  \/ FirstIn(told', Ok("configurationDone"), Ok("start"))
             \/ srv' = "gone" /\ FirstIn(told', Ok("start"), Failed("configurationDone"))
  <2>1. start = "answered" /\ HasServer
    BY <1>7 DEF Onward
  <2>2. CASE FirstIn(told, Ok("configurationDone"), Ok("start"))
    BY <1>3, <2>2
  <2>3. CASE srv = "gone" /\ FirstIn(told, Ok("start"), Failed("configurationDone"))
    BY <1>3, <2>1, <2>3 DEF SentInv, Onward
  <2>4. QED
    BY <2>1, <2>2, <2>3 DEF OrderInv
<1>8. OrderInv'
  BY <1>5, <1>6, <1>7 DEF OrderInv
<1>9. QED
  BY <1>4, <1>8

(* The messages that open the gate have the responses, then the events.    *)
LEMMA GateMessages ==
    ASSUME TypeOK, NEW before \in Seq(Messages), NEW after \in Seq(Messages),
           TellDeferred(before, after)
    PROVE  LET ms == (before \o DeferredEvents) \o after IN
           /\ told' = told \o ms /\ ms \in Seq(Messages)
           /\ \A m : Has(before, m) \/ Has(after, m) => Has(ms, m)
           /\ \A m : Has(ms, m) => \/ Has(before, m) \/ Has(after, m)
                                   \/ \E e \in Events : m = AnEvent(e)
           /\ \A m, n : Has(before, m) /\ FirstIn(before, m, n) => FirstIn(ms, m, n)
<1> DEFINE ms == (before \o DeferredEvents) \o after
<1>1. /\ told' = told \o ms /\ ms \in Seq(Messages)
      /\ before \o DeferredEvents \in Seq(Messages)
  BY TellDeferredType
<1>2. /\ DeferredEvents \in Seq(Messages)
      /\ \A m : Has(DeferredEvents, m) => \E e \in Events : m = AnEvent(e)
  BY DeferredMessages DEF TypeOK
<1>3. /\ \A m : Has(before \o DeferredEvents, m) <=> Has(before, m) \/ Has(DeferredEvents, m)
      /\ \A m, n : FirstIn(before, m, n) /\ Has(before, m)
                   => FirstIn(before \o DeferredEvents, m, n)
  BY <1>2, ConcatMessages
<1>4. /\ \A m : Has(ms, m) <=> Has(before \o DeferredEvents, m) \/ Has(after, m)
      /\ \A m, n : FirstIn(before \o DeferredEvents, m, n) /\ Has(before \o DeferredEvents, m)
                   => FirstIn(ms, m, n)
  BY <1>1, ConcatMessages
<1>5. QED
  BY <1>1, <1>2, <1>3, <1>4

(* The response to "launch" without a debugger opens the gate, ...         *)
LEMMA LaunchOpens ==
    ASSUME TypeOK, SentInv, OrderInv, Onward, TellDeferred(<<Ok("start")>>, <<>>),
           start = "none", start' = "answered", ~HasServer', life = "running"
    PROVE  SentInv' /\ OrderInv'
<1> DEFINE p    == <<Ok("start")>>
           none == <<>>
<1>1. Ok("start") \in Messages /\ none \in Seq(Messages) /\ told \in Seq(Messages)
  BY MessageTypes, EmptySeq DEF TypeOK
<1>2. /\ p \in Seq(Messages)
      /\ \A m : Has(p, m) <=> m = Ok("start")
      /\ \A m, n : n # Ok("start") => FirstIn(p, m, n)
  BY <1>1, OneMessage
<1>3. \A m : ~Has(none, m)
  BY EmptySeq DEF Has
<1>4. TellDeferred(p, none)
  OBVIOUS
<1> HIDE DEF p, none
<1>5. PICK ms : ms = (p \o DeferredEvents) \o none
  OBVIOUS
<1>6. /\ told' = told \o ms /\ ms \in Seq(Messages)
      /\ \A m : Has(p, m) => Has(ms, m)
      /\ \A m : Has(ms, m) => Has(p, m) \/ Has(none, m) \/ \E e \in Events : m = AnEvent(e)
      /\ \A m, n : Has(p, m) /\ FirstIn(p, m, n) => FirstIn(ms, m, n)
  BY <1>1, <1>2, <1>4, <1>5, GateMessages
<1>7. /\ told' = told \o ms /\ ms \in Seq(Messages)
      /\ Has(ms, Ok("start"))
      /\ \A m : Has(ms, m) => m = Ok("start") \/ \E e \in Events : m = AnEvent(e)
      /\ \A n : n # Ok("start") => FirstIn(ms, Ok("start"), n)
  BY <1>2, <1>3, <1>6
<1>8. /\ \A m : Has(told', m) <=> Has(told, m) \/ Has(ms, m)
      /\ \A m, n : FirstIn(told, m, n) /\ (Has(told, m) \/ ~Has(ms, n) \/ FirstIn(ms, m, n))
                   => FirstIn(told', m, n)
  BY <1>1, <1>7, ConcatMessages
<1>9. Ok("start") # Ok("configurationDone")
  BY MessagesDiffer
<1>10. SentInv'
  BY <1>7, <1>8 DEF SentInv
<1>11. \A e \in Events : FirstIn(told', Ok("start"), AnEvent(e))
  BY <1>7, <1>8, MessagesDiffer DEF OrderInv
<1>12. ~Has(ms, Ok("configurationDone"))
  BY <1>7, <1>9, MessagesDiffer
<1>13. FirstIn(told', Initialized, Ok("configurationDone"))
  BY <1>8, <1>12 DEF OrderInv
<1>14. QED
  BY <1>10, <1>11, <1>13 DEF OrderInv

(* ... those to "configurationDone" and the start request do, in this      *)
(* order, ...                                                              *)
LEMMA ConfigurationOpens ==
    ASSUME TypeOK, SentInv, OrderInv,
           TellDeferred(<<Ok("configurationDone"), Ok("start")>>, <<>>),
           start = "pending", start' = "answered"
    PROVE  SentInv' /\ OrderInv'
<1> DEFINE p    == <<Ok("configurationDone"), Ok("start")>>
           none == <<>>
<1>1. /\ Ok("start") \in Messages /\ Ok("configurationDone") \in Messages
      /\ Ok("configurationDone") # Ok("start")
      /\ none \in Seq(Messages) /\ told \in Seq(Messages)
  BY MessageTypes, MessagesDiffer, EmptySeq DEF TypeOK
<1>2. /\ p \in Seq(Messages)
      /\ \A m : Has(p, m) <=> m = Ok("configurationDone") \/ m = Ok("start")
      /\ FirstIn(p, Ok("configurationDone"), Ok("start"))
      /\ \A m, n : n # Ok("configurationDone") /\ n # Ok("start") => FirstIn(p, m, n)
  BY <1>1, TwoMessages
<1>3. \A m : ~Has(none, m)
  BY EmptySeq DEF Has
<1>4. TellDeferred(p, none)
  OBVIOUS
<1> HIDE DEF p, none
<1>5. PICK ms : ms = (p \o DeferredEvents) \o none
  OBVIOUS
<1>6. /\ told' = told \o ms /\ ms \in Seq(Messages)
      /\ \A m : Has(p, m) => Has(ms, m)
      /\ \A m : Has(ms, m) => Has(p, m) \/ Has(none, m) \/ \E e \in Events : m = AnEvent(e)
      /\ \A m, n : Has(p, m) /\ FirstIn(p, m, n) => FirstIn(ms, m, n)
  BY <1>1, <1>2, <1>4, <1>5, GateMessages
<1>7. /\ told' = told \o ms /\ ms \in Seq(Messages)
      /\ \A m : Has(p, m) => Has(ms, m)
      /\ \A m : Has(ms, m) => Has(p, m) \/ \E e \in Events : m = AnEvent(e)
      /\ \A m, n : Has(p, m) /\ FirstIn(p, m, n) => FirstIn(ms, m, n)
  BY <1>3, <1>6
<1>8. /\ \A m : Has(told', m) <=> Has(told, m) \/ Has(ms, m)
      /\ \A m, n : FirstIn(told, m, n) /\ (Has(told, m) \/ ~Has(ms, n) \/ FirstIn(ms, m, n))
                   => FirstIn(told', m, n)
  BY <1>1, <1>7, ConcatMessages
<1>9. SentInv'
  BY <1>2, <1>7, <1>8 DEF SentInv
<1>10. \A e \in Events : FirstIn(told', Ok("start"), AnEvent(e))
  BY <1>2, <1>7, <1>8, MessagesDiffer DEF OrderInv
<1>11. FirstIn(told', Initialized, Ok("configurationDone"))
  BY <1>8 DEF OrderInv, SentInv
<1>12. FirstIn(told, Ok("configurationDone"), Ok("start"))
  BY DEF SentInv, Has, FirstIn
<1>13. FirstIn(told', Ok("configurationDone"), Ok("start"))
  BY <1>2, <1>7, <1>8, <1>12
<1>14. QED
  BY <1>9, <1>10, <1>11, <1>13 DEF OrderInv

(* ... and so does the response to the start request alone, if the debug   *)
(* server is gone.                                                         *)
LEMMA LossOpens ==
    ASSUME TypeOK, SentInv, OrderInv,
           TellDeferred(<<Ok("start")>>, <<Failed("configurationDone")>>),
           life = "running", srv' = "gone", start = "pending", start' = "answered"
    PROVE  SentInv' /\ OrderInv'
<1> DEFINE p  == <<Ok("start")>>
           q  == <<Failed("configurationDone")>>
<1>1. /\ Ok("start") \in Messages /\ Failed("configurationDone") \in Messages
      /\ told \in Seq(Messages)
  BY MessageTypes DEF TypeOK
<1>2. /\ p \in Seq(Messages) /\ q \in Seq(Messages)
      /\ \A m : Has(p, m) <=> m = Ok("start")
      /\ \A m : Has(q, m) <=> m = Failed("configurationDone")
      /\ \A m, n : n # Ok("start") => FirstIn(p, m, n)
  BY <1>1, OneMessage
<1>3. TellDeferred(p, q)
  OBVIOUS
<1> HIDE DEF p, q
<1>4. PICK ms : ms = (p \o DeferredEvents) \o q
  OBVIOUS
<1>5. /\ told' = told \o ms /\ ms \in Seq(Messages)
      /\ \A m : Has(p, m) => Has(ms, m)
      /\ \A m : Has(ms, m) => Has(p, m) \/ Has(q, m) \/ \E e \in Events : m = AnEvent(e)
      /\ \A m, n : Has(p, m) /\ FirstIn(p, m, n) => FirstIn(ms, m, n)
  BY <1>1, <1>2, <1>3, <1>4, GateMessages
<1>6. /\ \A m : Has(told', m) <=> Has(told, m) \/ Has(ms, m)
      /\ \A m, n : FirstIn(told, m, n) /\ (Has(told, m) \/ ~Has(ms, n) \/ FirstIn(ms, m, n))
                   => FirstIn(told', m, n)
  BY <1>1, <1>5, ConcatMessages
<1>7. SentInv'
  BY <1>2, <1>5, <1>6 DEF SentInv
<1>8. \A e \in Events : FirstIn(told', Ok("start"), AnEvent(e))
  BY <1>2, <1>5, <1>6, MessagesDiffer DEF OrderInv
<1>9. FirstIn(told', Initialized, Ok("configurationDone"))
  BY <1>6 DEF OrderInv, SentInv
<1>10. FirstIn(told, Ok("start"), Failed("configurationDone"))
  BY DEF SentInv, Has, FirstIn
<1>11. FirstIn(told', Ok("start"), Failed("configurationDone"))
  BY SMTT(30), <1>2, <1>5, <1>6, <1>10, MessagesDiffer
<1>12. QED
  BY <1>7, <1>8, <1>9, <1>11 DEF OrderInv


(* The step of a handler that refuses a request, and ends the process.     *)
LEMMA SendRefusal ==
    ASSUME TypeOK, SentInv, OrderInv, NEW r \in Requests, Refuse(r),
           UNCHANGED <<start, srv>>
    PROVE  SentInv' /\ OrderInv'
<1>1. Failed(r) \in Messages /\ told' = told \o <<Failed(r)>> /\ life' = "crashed"
  BY MessageTypes DEF Refuse, Tell, Crash
<1>2. Onward
  BY <1>1 DEF Onward, HasServer
<1>3. /\ Failed(r) # Ok("start") /\ Failed(r) # Ok("configurationDone")
      /\ \A e \in Events : Failed(r) # AnEvent(e)
  BY MessagesDiffer
<1>4. life' # "running"
  BY <1>1
<1>5. QED
  BY <1>1, <1>2, <1>3, <1>4, SendOne

(* The step of a handler that fails a request to start, and goes on.       *)
LEMMA SendFailure ==
    ASSUME TypeOK, SentInv, OrderInv, Fail("start"), UNCHANGED <<life, start, srv>>
    PROVE  SentInv' /\ OrderInv'
<1>1. Failed("start") \in Messages /\ told' = told \o <<Failed("start")>>
  BY MessageTypes DEF Fail, Tell
<1>2. Onward
  BY DEF Onward, HasServer
<1>3. /\ Failed("start") # Ok("start") /\ Failed("start") # Ok("configurationDone")
      /\ Failed("start") # Failed("configurationDone")
      /\ \A e \in Events : Failed("start") # AnEvent(e)
  BY MessagesDiffer
<1>4. QED
  BY <1>1, <1>2, <1>3, SendOne

(* Every step keeps what has been sent in step with the start of the       *)
(* session, and in order.                                                  *)
LEMMA StepSent ==
    TypeOK /\ ControlInv /\ SentInv /\ OrderInv /\ [Next]_vars => SentInv' /\ OrderInv'
<1> SUFFICES ASSUME TypeOK, ControlInv, SentInv, OrderInv, [Next]_vars
             PROVE  SentInv' /\ OrderInv'
  OBVIOUS
<1> USE DEF control, relay, procs, children, At, Receives
<1>1. {"initialize", "start", "configurationDone"} = Requests
  BY MessageTypes
<1>2. CASE initialize_request
  <2>1. CASE initReq
    BY <1>1, <1>2, <2>1, SendRefusal DEF initialize_request
  <2>2. CASE ~initReq
    <3>1. /\ Ok("initialize") \in Messages /\ told' = told \o <<Ok("initialize")>>
          /\ UNCHANGED <<life, start, srv>>
      BY <1>1, <1>2, <2>2, MessageTypes DEF initialize_request, Tell
    <3>2. /\ Ok("initialize") # Ok("start") /\ Ok("initialize") # Ok("configurationDone")
          /\ Ok("initialize") # Failed("configurationDone")
          /\ \A e \in Events : Ok("initialize") # AnEvent(e)
      BY MessagesDiffer
    <3>3. Onward
      BY <3>1 DEF Onward, HasServer
    <3>4. QED
      BY <3>1, <3>2, <3>3, SendOne
  <2>3. QED
    BY <2>1, <2>2
<1>3. CASE StartRefused \/ LaunchRefused \/ NoPid \/ AttachTaken \/ NoServer
           \/ ConfigurationFails
  BY <1>1, <1>3, SendRefusal DEF StartRefused, LaunchRefused, NoPid, AttachTaken, NoServer,
                                 ConfigurationFails
<1>4. CASE ConfigurationMisplaced
  BY <1>1, <1>4, SendRefusal DEF ConfigurationMisplaced
<1>5. ASSUME NEW kind \in Kinds, NEW byPid \in BOOLEAN, StartAccepted(kind, byPid)
      PROVE  SentInv' /\ OrderInv'
  BY <1>5, SendNothing DEF StartAccepted, Onward, HasServer
<1>6. CASE SpawnLauncher \/ HasPid \/ ConfigurationDone \/ ListChildren
           \/ DelegateRequest \/ DelegateAnswered
  BY <1>6, SendNothing DEF SpawnLauncher, HasPid, ConfigurationDone, ListChildren,
                           DelegateRequest, DelegateAnswered, Onward, HasServer
<1>7. CASE SpawnFails
  <2>1. CASE Fail("start") /\ UNCHANGED life
    BY <1>7, <2>1, SendFailure DEF SpawnFails
  <2>2. CASE Crash /\ UNCHANGED <<told, ide>>
    BY <1>7, <2>2, SendNothing DEF SpawnFails, Crash, Onward, HasServer
  <2>3. QED
    BY <1>7, <2>1, <2>2 DEF SpawnFails
<1>8. CASE LauncherAnswers
  <2>1. CASE ide.kind = "noDebug"
    <3>1. /\ TellDeferred(<<Ok("start")>>, <<>>) /\ start' = "answered"
          /\ life = "running" /\ UNCHANGED <<life, srv>>
      BY <1>8, <2>1 DEF LauncherAnswers
    <3>2. start = "none" /\ ~HasServer
      BY <1>8 DEF LauncherAnswers, ControlInv, StartWaits
    <3>3. Onward /\ ~HasServer'
      BY <3>1, <3>2 DEF Onward, HasServer
    <3>4. QED
      BY <3>1, <3>2, <3>3, LaunchOpens
  <2>2. CASE ide.kind # "noDebug"
    BY <1>8, <2>2, SendNothing DEF LauncherAnswers, Onward, HasServer
  <2>3. QED
    BY <2>1, <2>2
<1>9. CASE LauncherFails \/ ServerFails
  BY <1>9, SendFailure DEF LauncherFails, ServerFails
<1>10. CASE AttachServer
  <2>1. start = "none"
    BY <1>10 DEF AttachServer, ControlInv, StartWaits
  <2>2. QED
    BY <1>10, <2>1, SendNothing DEF AttachServer, Onward, HasServer
<1>11. CASE ServerAnswers
  <2>1. CASE At("initialize") \/ At("start")
    BY <1>11, <2>1, SendNothing DEF ServerAnswers, Onward, HasServer
  <2>2. CASE At("property")
    <3>1. /\ told' = told \o <<Initialized>> /\ start' = "pending"
          /\ UNCHANGED <<life, srv>> /\ Initialized \in Messages
      BY <1>11, <2>2, MessageTypes DEF ServerAnswers, Tell
    <3>2. start = "none"
      BY <2>2 DEF ControlInv, StartWaits
    <3>3. /\ Initialized # Ok("start") /\ Initialized # Ok("configurationDone")
          /\ Initialized # Failed("configurationDone")
          /\ \A e \in Events : Initialized # AnEvent(e)
      BY MessagesDiffer
    <3>4. Onward
      BY <3>1 DEF Onward, HasServer
    <3>5. QED
      BY <3>1, <3>2, <3>3, <3>4, SendOne
  <2>3. QED
    BY <1>11, <2>1, <2>2 DEF ServerAnswers
<1>12. CASE ConfigurationAnswered
  <2>1. start = "pending"
    BY <1>12 DEF ConfigurationAnswered, ControlInv
  <2>2. QED
    BY <1>12, <2>1, ConfigurationOpens DEF ConfigurationAnswered
<1>13. CASE ConfigurationLost
  <2>1. start = "pending" /\ life = "running" /\ srv' = "gone"
    BY <1>13 DEF ConfigurationLost, ControlInv
  <2>2. QED
    BY <1>13, <2>1, LossOpens DEF ConfigurationLost
<1>14. ASSUME NEW c \in Procs, Tell(<<Child(c)>>), UNCHANGED <<life, start, srv>>
       PROVE  SentInv' /\ OrderInv'
  <2>1. told' = told \o <<Child(c)>> /\ Child(c) \in Messages
    BY <1>14, MessageTypes DEF Tell
  <2>2. /\ Child(c) # Ok("start") /\ Child(c) # Ok("configurationDone")
        /\ Child(c) # Failed("configurationDone")
        /\ \A e \in Events : Child(c) # AnEvent(e)
    BY MessagesDiffer
  <2>3. Onward
    BY <1>14 DEF Onward, HasServer
  <2>4. QED
    BY <1>14, <2>1, <2>2, <2>3, SendOne
<1>15. CASE NotifyListed
  <2>1. Head(listing) \in Procs /\ UNCHANGED <<life, start, srv>>
    BY <1>15, HeadTailProperties DEF NotifyListed, TypeOK, Procs
  <2>2. CASE Tell(<<Child(Head(listing))>>)
    BY <1>14, <2>1, <2>2
  <2>3. CASE UNCHANGED told
    BY <2>1, <2>3, SendNothing DEF Onward, HasServer
  <2>4. QED
    BY <1>15, <2>2, <2>3 DEF NotifyListed
<1>16. ASSUME NEW s \in Sources, HandleEvent(s) PROVE SentInv' /\ OrderInv'
  <2>1. Event(s) \in Events /\ UNCHANGED <<life, start, srv>>
    <3>1. count[s] \in 0..MaxEvents /\ count[s] < MaxEvents
      BY <1>16 DEF TypeOK, HandleEvent
    <3>2. count[s] + 1 \in 1..MaxEvents
      BY <3>1, StartConstants
    <3>3. QED
      BY <1>16, <3>2 DEF Event, Events, HandleEvent
  <2>2. CASE deferred.on
    BY <1>16, <2>1, <2>2, SendNothing DEF HandleEvent, Onward, HasServer
  <2>3. CASE ~deferred.on
    <3>1. PICK e \in Events : told' = told \o <<AnEvent(e)>> /\ AnEvent(e) \in Messages
      BY <1>16, <2>1, <2>3, MessageTypes DEF HandleEvent, Tell
    <3>2. /\ AnEvent(e) # Ok("start") /\ AnEvent(e) # Ok("configurationDone")
          /\ AnEvent(e) # Failed("configurationDone")
      BY MessagesDiffer
    <3>3. start = "answered"
      BY <2>3 DEF ControlInv
    <3>4. Onward
      BY <2>1 DEF Onward, HasServer
    <3>5. QED
      BY <2>1, <3>1, <3>2, <3>3, <3>4, SendOne
  <2>4. QED
    BY <2>2, <2>3
<1>17. CASE ServerGone \/ SessionEnds \/ ServerConnects \/ ServerTaken
  BY <1>17, SendNothing DEF ServerGone, SessionEnds, ServerConnects, ServerTaken, Onward,
                            HasServer
<1>18. ASSUME NEW c \in Procs, AcceptThread(c) PROVE SentInv' /\ OrderInv'
  <2>1. CASE SendChild(c)
    BY <1>14, <2>1 DEF SendChild
  <2>2. CASE FindParent(c) \/ Notify(c)
    BY <2>2, SendNothing DEF FindParent, Notify, Onward, HasServer
  <2>3. QED
    BY <1>18, <2>1, <2>2 DEF AcceptThread
<1>19. ASSUME NEW c \in Children, ChildStep(c) PROVE SentInv' /\ OrderInv'
  BY <1>19, SendNothing DEF ChildStep, ChildConnects, ChildRegisters, ChildTaken, ChildGone,
                            Onward, HasServer
<1>20. CASE UNCHANGED vars
  BY <1>20, SendNothing DEF vars, Onward, HasServer
<1>21. QED
  BY <1>2, <1>3, <1>4, <1>5, <1>6, <1>7, <1>8, <1>9, <1>10, <1>11, <1>12, <1>13, <1>15,
     <1>16, <1>17, <1>18, <1>19, <1>20
     DEF Next, RequestHandler, StartHandler, ConfigurationHandler


-----------------------------------------------------------------------------
(* The subprocesses that are reported. *)

(* A step that reports no subprocess: it sends nothing, or other messages, *)
(* and the accept thread does not begin to report one.                     *)
LEMMA SendOthers ==
    ASSUME TypeOK, ChildInv, NEW ms \in Seq(Messages),
           \A c \in Procs : ~Has(ms, Child(c)),
           told' = told \/ told' = told \o ms,
           known \subseteq known',
           \A c \in Procs : at'[c] = "report" => at[c] = "report"
    PROVE  ChildInv'
<1>1. told \in Seq(Messages)
  BY DEF TypeOK
<1>2. \A c \in Procs : Once(ms, Child(c))
  BY DEF Has, Once
<1>3. /\ \A m : Has(told \o ms, m) <=> Has(told, m) \/ Has(ms, m)
      /\ \A m : Once(told, m) /\ Once(ms, m) /\ (~Has(told, m) \/ ~Has(ms, m))
                => Once(told \o ms, m)
  BY <1>1, ConcatMessages
<1>4. \A c \in Procs : /\ Has(told', Child(c)) <=> Has(told, Child(c))
                       /\ Once(told', Child(c))
  BY <1>2, <1>3 DEF ChildInv
<1>5. ASSUME NEW c \in Procs
      PROVE  /\ Has(told', Child(c)) => c \in known'
             /\ at'[c] = "report" => c \in known' /\ ~Has(told', Child(c))
  <2>1. /\ Has(told, Child(c)) => c \in known
        /\ at[c] = "report" => c \in known /\ ~Has(told, Child(c))
    BY DEF ChildInv
  <2>2. c \in known => c \in known'
    OBVIOUS
  <2>3. QED
    BY <1>4, <2>1, <2>2
<1>6. QED
  BY <1>4, <1>5 DEF ChildInv

(* A step that reports one that has not been reported.                     *)
LEMMA SendChildOnce ==
    ASSUME TypeOK, ChildInv, NEW c \in Procs, told' = told \o <<Child(c)>>,
           ~Has(told, Child(c)), c \in known', known \subseteq known', at'[c] # "report",
           \A d \in Procs : at'[d] = "report" => at[d] = "report"
    PROVE  ChildInv'
<1>1. told \in Seq(Messages) /\ Child(c) \in Messages
  BY MessageTypes DEF TypeOK
<1>2. /\ <<Child(c)>> \in Seq(Messages)
      /\ \A m : Has(<<Child(c)>>, m) <=> m = Child(c)
      /\ \A m : Once(<<Child(c)>>, m)
  BY <1>1, OneMessage
<1>3. /\ \A m : Has(told', m) <=> Has(told, m) \/ m = Child(c)
      /\ \A m : Once(told, m) /\ (~Has(told, m) \/ m # Child(c)) => Once(told', m)
  BY <1>1, <1>2, ConcatMessages
<1>4. \A d \in Procs : Child(d) = Child(c) <=> d = c
  BY MessagesDiffer
<1>5. QED
  BY <1>3, <1>4 DEF ChildInv

(* The messages that open the gate report no subprocess.                   *)
LEMMA GateOthers ==
    ASSUME TypeOK, ChildInv, NEW before \in Seq(Messages), NEW after \in Seq(Messages),
           TellDeferred(before, after), UNCHANGED <<known, at>>,
           \A c \in Procs : ~Has(before, Child(c)) /\ ~Has(after, Child(c))
    PROVE  ChildInv'
<1>1. PICK ms : ms = (before \o DeferredEvents) \o after
  OBVIOUS
<1>2. /\ told' = told \o ms /\ ms \in Seq(Messages)
      /\ \A m : Has(ms, m) => \/ Has(before, m) \/ Has(after, m)
                              \/ \E e \in Events : m = AnEvent(e)
  BY <1>1, GateMessages
<1>3. \A c \in Procs : ~Has(ms, Child(c))
  BY <1>2, MessagesDiffer
<1>4. QED
  BY <1>2, <1>3, SendOthers

(* Every step keeps each subprocess from being reported again. *)
LEMMA StepChild == TypeOK /\ ChildInv /\ [Next]_vars => ChildInv'
<1> SUFFICES ASSUME TypeOK, ChildInv, [Next]_vars PROVE ChildInv'
  OBVIOUS
<1> USE DEF control, relay, procs, children
<1>1. ASSUME NEW m \in Messages, \A c \in Procs : m # Child(c), Tell(<<m>>),
             UNCHANGED <<known, at>>
      PROVE  ChildInv'
  <2>1. <<m>> \in Seq(Messages) /\ \A c \in Procs : ~Has(<<m>>, Child(c))
    BY <1>1, OneMessage
  <2>2. told' = told \o <<m>>
    BY <1>1 DEF Tell
  <2>3. QED
    BY <1>1, <2>1, <2>2, SendOthers
<1>2. ASSUME UNCHANGED told, known \subseteq known',
             \A c \in Procs : at'[c] = "report" => at[c] = "report"
      PROVE  ChildInv'
  <2>1. <<>> \in Seq(Messages) /\ \A c \in Procs : ~Has(<<>>, Child(c))
    BY EmptySeq DEF Has
  <2>2. QED
    BY <1>2, <2>1, SendOthers
<1>3. /\ {"initialize", "start", "configurationDone"} = Requests
      /\ \A r \in Requests : Ok(r) \in Messages /\ Failed(r) \in Messages
      /\ Initialized \in Messages
      /\ \A e \in Events : AnEvent(e) \in Messages
  BY MessageTypes
<1>4. \A c \in Procs : /\ \A r : Ok(r) # Child(c) /\ Failed(r) # Child(c)
                          /\ Initialized # Child(c)
                          /\ \A e : AnEvent(e) # Child(c)
  BY MessagesDiffer
<1>5. ASSUME NEW r \in Requests, Refuse(r) \/ Fail(r), UNCHANGED <<known, at>>
      PROVE  ChildInv'
  BY <1>1, <1>3, <1>4, <1>5 DEF Refuse, Fail
<1>6. CASE initialize_request
  BY <1>1, <1>3, <1>4, <1>5, <1>6 DEF initialize_request
<1>7. CASE StartRefused \/ LaunchRefused \/ NoPid \/ AttachTaken \/ NoServer
           \/ ConfigurationFails \/ ConfigurationMisplaced \/ LauncherFails \/ ServerFails
  BY <1>3, <1>5, <1>7 DEF StartRefused, LaunchRefused, NoPid, AttachTaken, NoServer,
     ConfigurationFails, ConfigurationMisplaced, LauncherFails, ServerFails
<1>8. CASE SpawnFails
  BY <1>2, <1>3, <1>5, <1>8 DEF SpawnFails
<1>9. ASSUME \/ SpawnLauncher \/ HasPid \/ AttachServer \/ ConfigurationDone \/ ListChildren
             \/ DelegateRequest \/ DelegateAnswered
             \/ ServerGone \/ SessionEnds \/ ServerTaken
             \/ \E kind \in Kinds, byPid \in BOOLEAN : StartAccepted(kind, byPid)
             \/ UNCHANGED vars
      PROVE  ChildInv'
  BY <1>2, <1>9 DEF SpawnLauncher, HasPid, AttachServer, ConfigurationDone, ListChildren,
     DelegateRequest, DelegateAnswered, ServerGone, SessionEnds, ServerTaken, StartAccepted,
     vars
<1>10. ServerAnswers => ChildInv'
  BY <1>1, <1>2, <1>3, <1>4 DEF ServerAnswers
<1>11. CASE LauncherAnswers
  <2>1. CASE ide.kind = "noDebug"
    <3>1. /\ <<Ok("start")>> \in Seq(Messages) /\ <<>> \in Seq(Messages)
          /\ \A c \in Procs : ~Has(<<Ok("start")>>, Child(c)) /\ ~Has(<<>>, Child(c))
      BY <1>3, <1>4, OneMessage, EmptySeq DEF Has
    <3>2. TellDeferred(<<Ok("start")>>, <<>>) /\ UNCHANGED <<known, at>>
      BY <1>11, <2>1 DEF LauncherAnswers
    <3>3. QED
      BY <3>1, <3>2, GateOthers
  <2>2. CASE ide.kind # "noDebug"
    BY <1>2, <1>11, <2>2 DEF LauncherAnswers
  <2>3. QED
    BY <2>1, <2>2
<1>12. CASE ConfigurationAnswered
  <2>1. /\ <<Ok("configurationDone"), Ok("start")>> \in Seq(Messages)
        /\ <<>> \in Seq(Messages)
        /\ \A c \in Procs : /\ ~Has(<<Ok("configurationDone"), Ok("start")>>, Child(c))
                               /\ ~Has(<<>>, Child(c))
    <3>1. Ok("configurationDone") # Ok("start")
      BY MessagesDiffer
    <3>2. QED
      BY <1>3, <1>4, <3>1, TwoMessages, EmptySeq DEF Has
  <2>2. /\ TellDeferred(<<Ok("configurationDone"), Ok("start")>>, <<>>)
        /\ UNCHANGED <<known, at>>
    BY <1>12 DEF ConfigurationAnswered
  <2>3. QED
    BY <2>1, <2>2, GateOthers
<1>13. CASE ConfigurationLost
  <2>1. /\ <<Ok("start")>> \in Seq(Messages)
        /\ <<Failed("configurationDone")>> \in Seq(Messages)
        /\ \A c \in Procs : /\ ~Has(<<Ok("start")>>, Child(c))
                               /\ ~Has(<<Failed("configurationDone")>>, Child(c))
    BY <1>3, <1>4, OneMessage
  <2>2. /\ TellDeferred(<<Ok("start")>>, <<Failed("configurationDone")>>)
        /\ UNCHANGED <<known, at>>
    BY <1>13 DEF ConfigurationLost
  <2>3. QED
    BY <2>1, <2>2, GateOthers
<1>14. CASE NotifyListed
  <2>1. PICK c \in Procs : c = Head(listing)
    BY <1>14, HeadTailProperties DEF NotifyListed, TypeOK, Procs
  <2>2. UNCHANGED at
    BY <1>14 DEF NotifyListed
  <2>3. CASE Reportable(({c} \cap NotDebugged) \ Orphans) = {}
    BY <1>2, <1>14, <2>1, <2>2, <2>3 DEF NotifyListed
  <2>4. CASE Reportable(({c} \cap NotDebugged) \ Orphans) # {}
    <3>1. c \notin known /\ Reportable(({c} \cap NotDebugged) \ Orphans) = {c}
      BY <2>4 DEF Reportable
    <3>2. told' = told \o <<Child(c)>> /\ known' = known \cup {c}
      BY <1>14, <2>1, <2>4, <3>1 DEF NotifyListed, Tell
    <3>3. ~Has(told, Child(c)) /\ at[c] # "report"
      BY <3>1 DEF ChildInv
    <3>4. QED
      BY <2>2, <3>2, <3>3, SendChildOnce
  <2>5. QED
    BY <2>3, <2>4
<1>15. ASSUME NEW s \in Sources, HandleEvent(s) PROVE ChildInv'
  <2>1. Event(s) \in Events /\ UNCHANGED <<known, at>>
    <3>1. count[s] \in 0..MaxEvents /\ count[s] < MaxEvents
      BY <1>15 DEF TypeOK, HandleEvent
    <3>2. count[s] + 1 \in 1..MaxEvents
      BY <3>1, StartConstants
    <3>3. QED
      BY <1>15, <3>2 DEF Event, Events, HandleEvent
  <2>2. CASE deferred.on
    BY <1>2, <1>15, <2>1, <2>2 DEF HandleEvent
  <2>3. CASE ~deferred.on
    BY <1>1, <1>3, <1>4, <1>15, <2>1, <2>3 DEF HandleEvent
  <2>4. QED
    BY <2>2, <2>3
<1>16. at \in [Procs -> Places]
  BY DEF TypeOK, Places
<1>17. ASSUME NEW c \in Procs, NEW from, NEW to \in Places \ {"report"}, Step(c, from, to)
       PROVE  \A d \in Procs : at'[d] = "report" => at[d] = "report"
  BY <1>16, <1>17 DEF Step
<1>18. ASSUME NEW c \in Procs, AcceptThread(c) PROVE ChildInv'
  <2>1. CASE SendChild(c)
    <3>1. /\ at[c] = "report" /\ at' = [at EXCEPT ![c] = "done"] /\ known' = known
          /\ told' = told \o <<Child(c)>>
      BY <2>1 DEF SendChild, Step, Tell
    <3>2. c \in known /\ ~Has(told, Child(c))
      BY <3>1 DEF ChildInv
    <3>3. QED
      BY <1>16, <3>1, <3>2, SendChildOnce
  <2>2. CASE Notify(c)
    <3>1. told' = told /\ known' = known \cup Reportable({c})
      BY <2>2 DEF Notify
    <3>2. CASE c \in Reportable({c})
      <4>1. c \notin known /\ at' = [at EXCEPT ![c] = "report"] /\ c \in known'
        BY <2>2, <3>1, <3>2 DEF Notify, Step, Reportable
      <4>2. ~Has(told, Child(c))
        BY <4>1 DEF ChildInv
      <4>3. QED
        BY <1>16, <3>1, <4>1, <4>2 DEF ChildInv
    <3>3. CASE c \notin Reportable({c})
      BY <1>2, <1>16, <2>2, <3>1, <3>3 DEF Notify, Step
    <3>4. QED
      BY <3>2, <3>3
  <2>3. CASE FindParent(c)
    <3>1. PICK to \in {"found", "done"} : Step(c, "registered", to)
      BY <2>3 DEF FindParent
    <3>2. QED
      BY <1>2, <1>17, <2>3, <3>1 DEF FindParent, Places
  <2>4. QED
    BY <1>18, <2>1, <2>2, <2>3 DEF AcceptThread
<1>19. ASSUME NEW c \in Children, ChildStep(c) PROVE ChildInv'
  <2>1. c \in Procs
    BY DEF Procs
  <2>2. CASE ChildConnects(c)
    BY <1>2, <1>17, <2>1, <2>2 DEF ChildConnects, Places
  <2>3. CASE ChildRegisters(c)
    BY <1>2, <1>17, <2>1, <2>3 DEF ChildRegisters, Places
  <2>4. CASE ChildTaken(c) \/ ChildGone(c)
    BY <1>2, <2>4 DEF ChildTaken, ChildGone
  <2>5. QED
    BY <1>19, <2>2, <2>3, <2>4 DEF ChildStep
<1>20. CASE ServerConnects
  <2>1. Root \in Procs /\ Step(Root, "none", "registered")
    BY <1>20 DEF Procs, ServerConnects
  <2>2. QED
    BY <1>2, <1>17, <1>20, <2>1 DEF ServerConnects, Places
<1>21. QED
  BY <1>6, <1>7, <1>8, <1>9, <1>10, <1>11, <1>12, <1>13, <1>14, <1>15, <1>18, <1>19, <1>20
     DEF Next, RequestHandler, StartHandler, ConfigurationHandler

-----------------------------------------------------------------------------
(* The events that the IDE is sent.                                        *)

(* Those that were handled, once the session has started; before, none,    *)
(* and all are kept.                                                       *)
RelayInv ==
    /\ Lists(told, IF start = "answered" THEN handled ELSE <<>>)
    /\ start # "answered" => deferred.events = handled

(* Other messages hold no event.                                           *)
LEMMA NoEvent ==
    /\ \A r : Lists(<<Ok(r)>>, <<>>) /\ Lists(<<Failed(r)>>, <<>>)
    /\ \A r, s : Lists(<<Ok(r), Ok(s)>>, <<>>)
    /\ Lists(<<Initialized>>, <<>>)
    /\ \A c : Lists(<<Child(c)>>, <<>>)
    /\ Lists(<<>>, <<>>)
<1>1. ASSUME NEW a, NEW b, a[1] # "event", b[1] # "event"
      PROVE  Lists(<<a>>, <<>>) /\ Lists(<<a, b>>, <<>>)
  <2>1. PICK p, q : p = <<a>> /\ q = <<a, b>>
    OBVIOUS
  <2>2. p \in Seq({a, b}) /\ q \in Seq({a, b})
    BY <2>1
  <2>3. Len(p) = 1 /\ p[1] = a /\ Len(q) = 2 /\ q[1] = a /\ q[2] = b
    BY <2>1
  <2>4. \A i \in 1..1 : i = 1
    OBVIOUS
  <2>5. \A i \in 1..2 : i = 1 \/ i = 2
    OBVIOUS
  <2>6. /\ \A i \in 1..Len(p) : p[i][1] # "event"
        /\ \A i \in 1..Len(q) : q[i][1] # "event"
    BY <1>1, <2>3, <2>4, <2>5
  <2>7. Lists(p, <<>>) /\ Lists(q, <<>>)
    BY <2>2, <2>6, ListsNone
  <2>8. QED
    BY <2>1, <2>7
<1>2. /\ \A r : Ok(r)[1] = "ok" /\ Failed(r)[1] = "failed"
      /\ Initialized[1] = "initialized" /\ \A c : Child(c)[1] = "child"
  BY DEF Ok, Failed, Initialized, Child
<1>3. /\ \A r : Ok(r)[1] # "event" /\ Failed(r)[1] # "event"
      /\ Initialized[1] # "event" /\ \A c : Child(c)[1] # "event"
  BY <1>2
<1>4. Lists(<<>>, <<>>)
  <2>1. <<>> \in Seq({}) /\ \A i \in 1..Len(<<>>) : <<>>[i][1] # "event"
    BY EmptySeq
  <2>2. QED
    BY <2>1, ListsNone
<1>5. QED
  BY <1>1, <1>3, <1>4

(* A step that sends no event, before and after the gate opens.            *)
LEMMA TellQuiet ==
    ASSUME TypeOK, RelayInv, NEW ms \in Seq(Messages), Lists(ms, <<>>),
           told' = told \/ told' = told \o ms,
           UNCHANGED <<handled, deferred>>, start' = "answered" <=> start = "answered"
    PROVE  RelayInv'
<1>1. PICK es \in Seq(Events) : es = IF start = "answered" THEN handled ELSE <<>>
  BY EmptySeq DEF TypeOK
<1>2. Lists(told, es) /\ told \in Seq(Messages)
  BY <1>1 DEF RelayInv, TypeOK
<1>3. <<>> \in Seq(Events) /\ es \o <<>> = es
  BY EmptySeq, ConcatEmptySeq
<1>4. Lists(told \o ms, es \o <<>>)
  BY <1>2, <1>3, ListsConcat
<1>5. Lists(told', es)
  BY <1>2, <1>3, <1>4
<1>6. es = IF start' = "answered" THEN handled' ELSE <<>>
  BY <1>1
<1>7. QED
  BY <1>5, <1>6 DEF RelayInv

(* A step that sends one message, not an event, or nothing.                *)
LEMMA TellOneQuiet ==
    ASSUME TypeOK, RelayInv, NEW m \in Messages, Lists(<<m>>, <<>>),
           Tell(<<m>>) \/ UNCHANGED told,
           UNCHANGED <<handled, deferred>>, start' = "answered" <=> start = "answered"
    PROVE  RelayInv'
<1>1. <<m>> \in Seq(Messages)
  BY OneMessage
<1>2. told' = told \/ told' = told \o <<m>>
  BY DEF Tell
<1>3. QED
  BY <1>1, <1>2, TellQuiet

(* The gate opens: the events that were kept are sent.                     *)
LEMMA GateRelays ==
    ASSUME TypeOK, RelayInv, NEW before \in Seq(Messages), NEW after \in Seq(Messages),
           Lists(before, <<>>), Lists(after, <<>>), TellDeferred(before, after),
           start # "answered", start' = "answered", UNCHANGED handled
    PROVE  RelayInv'
<1>1. PICK es \in Seq(Events), D \in Seq(Messages) :
          es = handled /\ D = DeferredEvents /\ Lists(D, es)
  <2>1. deferred.events = handled
    BY DEF RelayInv
  <2>2. QED
    BY <2>1, DeferredMessages DEF TypeOK
<1>2. /\ told \in Seq(Messages) /\ Lists(told, <<>>) /\ <<>> \in Seq(Events)
      /\ told' = told \o ((before \o D) \o after)
      /\ before \o D \in Seq(Messages) /\ (before \o D) \o after \in Seq(Messages)
  BY <1>1, TellDeferredType, EmptySeq DEF TypeOK, RelayInv
<1>3. <<>> \o es = es /\ es \o <<>> = es
  BY ConcatEmptySeq
<1>4. Lists(before \o D, es)
  <2>1. Lists(before \o D, <<>> \o es)
    BY <1>1, <1>2, ListsConcat
  <2>2. QED
    BY <1>3, <2>1
<1>5. Lists((before \o D) \o after, es)
  <2>1. Lists((before \o D) \o after, es \o <<>>)
    BY <1>2, <1>4, ListsConcat
  <2>2. QED
    BY <1>3, <2>1
<1>6. Lists(told', es)
  <2>1. Lists(told \o ((before \o D) \o after), <<>> \o es)
    BY <1>2, <1>5, ListsConcat
  <2>2. QED
    BY <1>2, <1>3, <2>1
<1>7. QED
  BY <1>1, <1>6 DEF RelayInv

(* An event is kept or sent.                                               *)
LEMMA EventRelayed ==
    ASSUME TypeOK, ControlInv, RelayInv, NEW s \in Sources, HandleEvent(s)
    PROVE  /\ \E e \in Events : handled' = Append(handled, e)
           /\ start' = start
           /\ RelayInv'
<1>1. PICK e \in Events : e = Event(s)
  <2>1. count[s] \in 0..MaxEvents /\ count[s] < MaxEvents
    BY DEF TypeOK, HandleEvent
  <2>2. count[s] + 1 \in 1..MaxEvents
    BY <2>1, StartConstants
  <2>3. QED
    BY <2>2 DEF Event, Events
<1>2. handled' = Append(handled, e) /\ start' = start
  BY <1>1 DEF HandleEvent, control
<1>3. CASE start # "answered"
  <2>1. deferred.on
    BY <1>3 DEF ControlInv
  <2>2. deferred' = [deferred EXCEPT !.events = Append(@, e)] /\ told' = told
    BY <1>1, <2>1 DEF HandleEvent
  <2>3. deferred'.events = Append(deferred.events, e)
    BY <2>2 DEF TypeOK
  <2>4. Lists(told, <<>>) /\ deferred.events = handled
    BY <1>3 DEF RelayInv
  <2>5. QED
    BY <1>1, <1>2, <1>3, <2>2, <2>3, <2>4 DEF RelayInv
<1>4. CASE start = "answered"
  <2>1. ~deferred.on
    BY <1>4 DEF ControlInv
  <2>2. told' = told \o <<AnEvent(e)>>
    BY <1>1, <2>1 DEF HandleEvent, Tell
  <2>3. PICK hs \in Seq(Events) : hs = handled
    BY DEF TypeOK
  <2>4. told \in Seq(Messages) /\ Lists(told, hs)
    BY <1>4, <2>3 DEF TypeOK, RelayInv
  <2>5. <<AnEvent(e)>> \in Seq(Messages) /\ <<e>> \in Seq(Events)
    BY MessageTypes, OneMessage
  <2>6. Lists(<<AnEvent(e)>>, <<e>>)
    <3>1. PICK p, q : p = <<AnEvent(e)>> /\ q = <<e>>
      OBVIOUS
    <3>2. Len(p) = 1 /\ Len(q) = 1 /\ p[1] = AnEvent(e) /\ q[1] = e
      BY <3>1
    <3>3. \A i \in 1..1 : i = 1
      OBVIOUS
    <3>4. \A i \in 1..Len(q) : p[i] = AnEvent(q[i])
      BY <3>2, <3>3
    <3>5. p \in Seq(Messages) /\ q \in Seq(Events) /\ Len(p) = Len(q)
      BY <2>5, <3>1, <3>2
    <3>6. Lists(p, q)
      BY <3>4, <3>5, ListsEvents
    <3>7. QED
      BY <3>1, <3>6
  <2>7. Lists(told \o <<AnEvent(e)>>, hs \o <<e>>)
    BY <2>4, <2>5, <2>6, ListsConcat
  <2>8. handled' = hs \o <<e>>
    BY <1>2, <2>3, AppendIsConcat
  <2>9. QED
    BY <1>2, <1>4, <2>2, <2>7, <2>8 DEF RelayInv
<1>5. QED
  BY <1>1, <1>2, <1>3, <1>4

(* Every step hands the IDE the events it should have.                     *)
LEMMA StepRelay ==
    ASSUME TypeOK, ControlInv, RelayInv, [Next]_vars
    PROVE  /\ RelayInv'
           /\ start = "answered" => start' = "answered"
           /\ \/ UNCHANGED handled
              \/ start' = start /\ \E e \in Events : handled' = Append(handled, e)
<1> DEFINE Goal == /\ RelayInv'
                   /\ start = "answered" => start' = "answered"
                   /\ \/ UNCHANGED handled
                      \/ start' = start /\ \E e \in Events : handled' = Append(handled, e)
<1> USE DEF control, relay, procs, children
<1>1. ASSUME NEW m \in Messages, Lists(<<m>>, <<>>), Tell(<<m>>) \/ UNCHANGED told,
             UNCHANGED <<handled, deferred>>, start' = "answered" <=> start = "answered"
      PROVE  Goal
  BY <1>1, TellOneQuiet
<1>2. /\ {"initialize", "start", "configurationDone"} = Requests
      /\ \A r \in Requests : Ok(r) \in Messages /\ Failed(r) \in Messages
      /\ Initialized \in Messages
      /\ \A c \in Procs : Child(c) \in Messages
  BY MessageTypes
<1>3. ASSUME UNCHANGED <<told, handled, deferred>>,
             start' = "answered" <=> start = "answered"
      PROVE  Goal
  BY <1>1, <1>2, <1>3, NoEvent
<1>4. ASSUME NEW r \in Requests, Refuse(r) \/ Fail(r) \/ Tell(<<Ok(r)>>),
             UNCHANGED <<start, handled, deferred>>
      PROVE  Goal
  <2>1. Tell(<<Failed(r)>>) \/ Tell(<<Ok(r)>>)
    BY <1>4 DEF Refuse, Fail
  <2>2. QED
    BY <1>1, <1>2, <1>4, <2>1, NoEvent
<1>5. ASSUME NEW before \in Seq(Messages), NEW after \in Seq(Messages),
             Lists(before, <<>>), Lists(after, <<>>), TellDeferred(before, after),
             start # "answered", start' = "answered", UNCHANGED handled
      PROVE  Goal
  BY <1>5, GateRelays
<1>6. CASE initialize_request
  BY <1>2, <1>4, <1>6 DEF initialize_request
<1>7. CASE StartRefused \/ LaunchRefused \/ NoPid \/ AttachTaken \/ NoServer
           \/ ConfigurationFails \/ ConfigurationMisplaced \/ LauncherFails \/ ServerFails
  BY <1>2, <1>4, <1>7 DEF StartRefused, LaunchRefused, NoPid, AttachTaken, NoServer,
     ConfigurationFails, ConfigurationMisplaced, LauncherFails, ServerFails
<1>8. CASE SpawnFails
  BY <1>2, <1>3, <1>4, <1>8 DEF SpawnFails
<1>9. ASSUME \/ SpawnLauncher \/ HasPid \/ AttachServer \/ ConfigurationDone \/ ListChildren
             \/ DelegateRequest \/ DelegateAnswered
             \/ ServerGone \/ SessionEnds \/ ServerConnects \/ ServerTaken
             \/ \E kind \in Kinds, byPid \in BOOLEAN : StartAccepted(kind, byPid)
             \/ UNCHANGED vars
      PROVE  Goal
  BY <1>3, <1>9 DEF SpawnLauncher, HasPid, AttachServer, ConfigurationDone, ListChildren,
     DelegateRequest, DelegateAnswered, ServerGone, SessionEnds, ServerConnects, ServerTaken,
     StartAccepted, vars
<1>10. CASE ServerAnswers
  <2>1. UNCHANGED <<handled, deferred>> /\ (Tell(<<Initialized>>) \/ UNCHANGED told)
    BY <1>10 DEF ServerAnswers
  <2>2. start' = start \/ (start' = "pending" /\ ide.pc = "property")
    BY <1>10 DEF ServerAnswers, At
  <2>3. ide.pc = "property" => start = "none"
    BY DEF ControlInv, StartWaits
  <2>4. start' = "answered" <=> start = "answered"
    BY <2>2, <2>3
  <2>5. QED
    BY <1>1, <1>2, <2>1, <2>4, NoEvent
<1>11. CASE LauncherAnswers
  <2>1. CASE ide.kind = "noDebug"
    <3>1. <<Ok("start")>> \in Seq(Messages) /\ <<>> \in Seq(Messages)
      BY <1>2, OneMessage, EmptySeq
    <3>2. start # "answered"
      BY <1>11 DEF ControlInv, StartWaits, LauncherAnswers, At
    <3>3. /\ TellDeferred(<<Ok("start")>>, <<>>) /\ UNCHANGED handled
          /\ start' = "answered"
      BY <1>11, <2>1 DEF LauncherAnswers
    <3>4. QED
      BY <1>5, <3>1, <3>2, <3>3, NoEvent
  <2>2. CASE ide.kind # "noDebug"
    BY <1>3, <1>11, <2>2 DEF LauncherAnswers
  <2>3. QED
    BY <2>1, <2>2
<1>12. CASE ConfigurationAnswered \/ ConfigurationLost
  <2>1. start # "answered" /\ start' = "answered" /\ UNCHANGED handled
    BY <1>12 DEF ControlInv, ConfigurationAnswered, ConfigurationLost, At
  <2>2. CASE ConfigurationAnswered
    <3>1. <<Ok("configurationDone"), Ok("start")>> \in Seq(Messages) /\ <<>> \in Seq(Messages)
      BY <1>2, MessagesDiffer, TwoMessages, EmptySeq
    <3>2. TellDeferred(<<Ok("configurationDone"), Ok("start")>>, <<>>)
      BY <2>2 DEF ConfigurationAnswered
    <3>3. QED
      BY <1>5, <2>1, <3>1, <3>2, NoEvent
  <2>3. CASE ConfigurationLost
    <3>1. <<Ok("start")>> \in Seq(Messages) /\ <<Failed("configurationDone")>> \in Seq(Messages)
      BY <1>2, OneMessage
    <3>2. TellDeferred(<<Ok("start")>>, <<Failed("configurationDone")>>)
      BY <2>3 DEF ConfigurationLost
    <3>3. QED
      BY <1>5, <2>1, <3>1, <3>2, NoEvent
  <2>4. QED
    BY <1>12, <2>2, <2>3
<1>13. ASSUME NEW c \in Procs, Tell(<<Child(c)>>) \/ UNCHANGED told,
              UNCHANGED <<start, handled, deferred>>
       PROVE  Goal
  BY <1>1, <1>2, <1>13, NoEvent
<1>14. CASE NotifyListed
  <2>1. PICK c \in Procs : c = Head(listing)
    BY <1>14, HeadTailProperties DEF NotifyListed, TypeOK, Procs
  <2>2. Tell(<<Child(c)>>) \/ UNCHANGED told
    BY <1>14, <2>1 DEF NotifyListed
  <2>3. UNCHANGED <<start, handled, deferred>>
    BY <1>14 DEF NotifyListed
  <2>4. QED
    BY <1>13, <2>2, <2>3
<1>15. ASSUME NEW s \in Sources, HandleEvent(s) PROVE Goal
  BY <1>15, EventRelayed
<1>16. ASSUME NEW c \in Procs, AcceptThread(c) PROVE Goal
  BY <1>13, <1>16 DEF AcceptThread, FindParent, Notify, SendChild
<1>17. ASSUME NEW c \in Children, ChildStep(c) PROVE Goal
  BY <1>3, <1>17 DEF ChildStep, ChildConnects, ChildRegisters, ChildTaken, ChildGone
<1>18. QED
  BY <1>6, <1>7, <1>8, <1>9, <1>10, <1>11, <1>12, <1>14, <1>15, <1>16, <1>17
     DEF Next, RequestHandler, StartHandler, ConfigurationHandler

-----------------------------------------------------------------------------
(* The theorems. *)

StartInv == TypeOK /\ ControlInv /\ SentInv /\ OrderInv /\ ChildInv

(* Every execution has the inductive invariant.                            *)
LEMMA Invariant == Spec => []StartInv
<1>1. Init => StartInv
  BY InitType, InitControl, InitSent DEF StartInv
<1>2. StartInv /\ [Next]_vars => StartInv'
  BY StepTypes, StepControl, StepSent, StepChild DEF StartInv
<1>3. QED
  BY <1>1, <1>2, PTL DEF Spec

(* The state of a starting session has its type: the handlers of the IDE   *)
(* go where they should, and each event and message is one there is.       *)
THEOREM Typing == Spec => []TypeOK
<1>1. StartInv => TypeOK
  BY DEF StartInv
<1>2. QED
  BY <1>1, Invariant, PTL

(* What the order of two kinds of messages is, in the words of the model.  *)
LEMMA BeforeIsFirst ==
    ASSUME TypeOK
    PROVE  \A m, n : Before(m, n) <=> FirstIn(told, m, n)
<1>1. DOMAIN told = 1..Len(told)
  BY LenProperties DEF TypeOK
<1>2. QED
  BY <1>1 DEF Before, FirstIn

(* The IDE gets no event of the debuggee before the response to "launch"   *)
(* or "attach", and that response after the one to "configurationDone",    *)
(* which follows "initialized" (ide.py:225-231, 355-370).                  *)
THEOREM ResponsesThenEvents == Spec => []ResponsesInOrder
<1>1. StartInv => ResponsesInOrder
  BY BeforeIsFirst DEF StartInv, OrderInv, ResponsesInOrder
<1>2. QED
  BY <1>1, Invariant, PTL

(* The accept thread and "configurationDone" do not both report a          *)
(* subprocess, in whatever order they look for it (ide.py:374-376,         *)
(* 422-448).                                                               *)
THEOREM ReportsOnce == Spec => []ChildReportedOnce
<1>1. ASSUME TypeOK, ChildInv, NEW c \in Procs PROVE Times(Child(c)) <= 1
  <2> DEFINE places == {i \in DOMAIN told : told[i] = Child(c)}
  <2>1. DOMAIN told = 1..Len(told)
    BY <1>1, LenProperties DEF TypeOK
  <2>2. \A i, j \in places : i = j
    BY <1>1, <2>1 DEF ChildInv, Once
  <2>3. CASE places = {}
    BY <2>3, FS_EmptySet DEF Times
  <2>4. CASE places # {}
    <3>1. PICK i : places = {i}
      BY <2>2, <2>4
    <3>2. Cardinality(places) = 1
      BY <3>1, FS_Singleton
    <3>3. QED
      BY <3>2 DEF Times
  <2>5. QED
    BY <2>3, <2>4
<1>2. StartInv => ChildReportedOnce
  BY <1>1 DEF StartInv, ChildReportedOnce
<1>3. QED
  BY <1>2, Invariant, PTL

(* What the IDE has of the events, by the state of the gate.               *)
DeliveredInv == Delivered = IF start = "answered" THEN handled ELSE <<>>

LEMMA DeliveredIs == TypeOK /\ RelayInv => DeliveredInv
<1> SUFFICES ASSUME TypeOK, RelayInv PROVE DeliveredInv
  OBVIOUS
<1>1. PICK es \in Seq(Events) : es = IF start = "answered" THEN handled ELSE <<>>
  BY EmptySeq DEF TypeOK
<1>2. told \in Seq(Messages) /\ Lists(told, es)
  BY <1>1 DEF TypeOK, RelayInv
<1>3. QED
  BY <1>1, <1>2, EventsAreListed DEF Delivered, DeliveredInv

(* The step of EventRelay that a step is: one event is handled, or the     *)
(* gate opens.                                                             *)
LEMMA RelayStep ==
    ASSUME DeliveredInv, DeliveredInv',
           start = "answered" => start' = "answered",
           \/ UNCHANGED handled
           \/ start' = start /\ \E e \in Events : handled' = Append(handled, e)
    PROVE  [Relay!Next]_Relay!vars
<1>1. /\ Delivered = IF start = "answered" THEN handled ELSE <<>>
      /\ Delivered' = IF start' = "answered" THEN handled' ELSE <<>>
  BY DEF DeliveredInv
<1>2. CASE UNCHANGED handled /\ (start' = "answered" <=> start = "answered")
  BY <1>1, <1>2 DEF Relay!vars
<1>3. CASE UNCHANGED handled /\ start # "answered" /\ start' = "answered"
  BY <1>1, <1>3 DEF Relay!Next, Relay!Open
<1>4. ASSUME NEW e \in Events, start' = start, handled' = Append(handled, e)
      PROVE  Relay!Handle(e)
  BY <1>1, <1>4 DEF Relay!Handle
<1>5. QED
  BY <1>2, <1>3, <1>4 DEF Relay!Next

(* The IDE is sent the events of the launcher and of the debug server all, *)
(* once, and in the order of their handlers, from the response to "launch" *)
(* or "attach" on, and none before (ide.py:89-106): StartSequence          *)
(* implements EventRelay.                                                  *)
THEOREM RelaysEvents == Spec => EventsRelayed
<1>1. Init => RelayInv
  BY NoEvent DEF Init, RelayInv
<1>2. StartInv /\ RelayInv => DeliveredInv
  BY DeliveredIs DEF StartInv
<1>3. Init /\ DeliveredInv => Relay!Init
  BY DEF Init, DeliveredInv, Relay!Init
<1>4. StartInv /\ RelayInv /\ [Next]_vars => RelayInv'
  BY StepRelay DEF StartInv
<1>5. StartInv /\ RelayInv /\ [Next]_vars /\ DeliveredInv /\ DeliveredInv'
      => [Relay!Next]_Relay!vars
  BY StepRelay, RelayStep DEF StartInv
<1>6. QED
  BY <1>1, <1>2, <1>3, <1>4, <1>5, Invariant, PTL DEF Spec, EventsRelayed, Relay!Spec
===============================================================================
