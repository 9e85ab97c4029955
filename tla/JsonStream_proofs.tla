------------------------- MODULE JsonStream_proofs -------------------------
(***************************************************************************)
(* Proofs about JsonStream, for every number, length and limit of messages:*)
(* that read_json returns what was written whatever the connection does,   *)
(* and takes a message for malformed only if there is a cause.             *)
(*                                                                         *)
(* The argument follows the units.  What is on the wire is cut into        *)
(* encodings, of which only the last, or one that was torn, may lack its   *)
(* end.  That is said of neighbours: each unit follows the one before it.  *)
(* The unit that was read last, of which the reader need not remember      *)
(* more than its state, is the neighbour of the first on the wire.         *)
(***************************************************************************)
EXTENDS JsonStream, SequenceLemmas

-----------------------------------------------------------------------------
(* Before the first message: a unit that ends a message of number 0.       *)
Start  == Unit([n |-> 0, length |-> 0], 3)
Placed == Units \cup {Start}

IsEnd(u)   == u.at = Size(u.of)
EndUnit(m) == Unit(m, Size(m))

(* One unit comes after another: the next of its message, or the first of  *)
(* a later one, if the message before is at its end or (t) one was torn.   *)
Follows(t, u, v) ==
    \/ v = Unit(u.of, u.at + 1)
    \/ v.at = 1 /\ u.of.n < v.of.n /\ (IsEnd(u) \/ t)

(* The unit before a place of the wire w, if u was read last; and the last.*)
Before(w, u, i) == IF i = 1 THEN u ELSE w[i - 1]
LastOf(w, u)    == Before(w, u, Len(w) + 1)

(* What is on the wire follows u, unit by unit, in the order of messages.  *)
Chain(t, w, u) ==
    /\ \A i \in 1..Len(w) : Follows(t, Before(w, u, i), w[i])
    /\ \A i \in 1..Len(w) : u.of.n <= w[i].of.n
    /\ \A i, j \in 1..Len(w) : i <= j => w[i].of.n <= w[j].of.n

(* The messages that end under way, b if u may be the end of a body that   *)
(* is not decoded yet; and those of a list after its first g.              *)
Ending(w, u, b) ==
    {m \in Messages : \/ b /\ u = EndUnit(m)
                      \/ \E i \in 1..Len(w) : w[i] = EndUnit(m)}
After(q, g) == {q[j] : j \in (g + 1)..Len(q)}

(* The body is empty before it is read. *)
TypeInv == TypeOK /\ (reader.pc = "line" => reader.body = <<>>)

(* The reader is as it is when it has read u.                              *)
InLine(u) ==
    /\ IsText(u) /\ u \in Units
    /\ reader.pc = "line" /\ reader.body = <<>> /\ reader.line # <<>>
    /\ reader.line[Len(reader.line)] = u /\ (Len(reader.line) = 1 \/ torn)
AfterLine(u) ==
    /\ u.at = 2 /\ u \in Units
    /\ reader.pc = "line" /\ reader.body = <<>> /\ reader.line = <<>>
    /\ reader.length = u.of.length \/ (torn /\ reader.length = 0)
InBody(u) ==
    /\ u.at >= 3 /\ u \in Units
    /\ reader.pc = "body" /\ reader.length = u.of.length
    /\ reader.body = Part(u.of, 4, u.at)
Between(u) == IsEnd(u) /\ reader = NewValue
HasRead(u) == InLine(u) \/ AfterLine(u) \/ InBody(u) \/ Between(u)

(* What is being written follows what is on the wire; between two writes,  *)
(* a message is at its end unless a write failed, or the writer is gone.   *)
WriterOrder(u) ==
    /\ LastOf(wire, u).of.n <= writer.sent
    /\ writer.rest = <<>> => IsEnd(LastOf(wire, u)) \/ torn \/ ~writer.open
    /\ writer.rest # <<>> => Follows(torn, LastOf(wire, u), writer.rest[1])

(* The messages written and not returned are those whose end is under way. *)
Reading(u) ==
    /\ HasRead(u) /\ Chain(torn, wire, u) /\ WriterOrder(u)
    /\ Ending(wire, u, reader.pc = "body") = After(whole, Len(got))

(* That is so as long as neither end has given the connection up, and no   *)
(* torn message swallows the others.                                       *)
StreamInv ==
    ~lost /\ ~Over => \/ reader.pc = "body" /\ Swallows
                      \/ \E u \in Placed : Reading(u)

(* The body under way is one that was torn, or the next to be returned.    *)
BodyInv ==
    reader.pc = "body" =>
       /\ torn \/ \E m \in Messages :
             reader.length = m.length /\ reader.body = Part(m, 4, 3 + Len(reader.body))
       /\ \A m \in Messages : reader.body = Body(m) =>
             Len(got) < Len(whole) /\ whole[Len(got) + 1] = m

(* The messages are written in order, and returned in that order.          *)
WholeInv ==
    /\ \A i \in 1..Len(whole) :
          whole[i].n <= writer.sent /\ (writer.rest # <<>> => whole[i].n < writer.sent)
    /\ \A i, j \in 1..Len(whole) : i < j => whole[i].n < whole[j].n
    /\ Len(got) <= Len(whole)
    /\ \A i \in 1..Len(got) : got[i] = whole[i]

(* When nothing more comes.                                                *)
EndInv ==
    /\ ~writer.open => writer.rest = <<>> /\ eof
    /\ eof /\ ~lost => ~writer.open
    /\ lost => eof /\ (wire = <<>> \/ Over)
    /\ reader.pc = "ended" => eof
    /\ reader.pc = "ended" /\ ~lost => got = whole \/ Swallows

IInv == TypeInv /\ StreamInv /\ BodyInv /\ WholeInv /\ EndInv /\ ErrorHasCause


-----------------------------------------------------------------------------
(* Units and their messages.                                               *)

(* A message has a number and a body; so has what the start stands for.    *)
LEMMA MessageFacts ==
    ASSUME NEW m \in Messages
    PROVE  /\ m.n \in 1..MaxSend /\ m.n \in Nat /\ m.n >= 1
           /\ m.length \in Lengths /\ m.length \in Nat /\ m.length >= 1
           /\ Size(m) \in Nat /\ Size(m) >= 4 /\ Size(m) = 3 + m.length
<1>1. m.n \in 1..MaxSend /\ m.length \in Lengths
  BY DEF Messages
<1>2. MaxSend \in Nat /\ m.length \in Nat \ {0}
  BY <1>1, StreamConstants
<1>3. m.n \in Nat /\ m.n >= 1 /\ m.length \in Nat /\ m.length >= 1
  BY <1>1, <1>2
<1>4. QED
  BY <1>1, <1>3 DEF Size

(* A place of an encoding is a unit. *)
LEMMA UnitIn ==
    ASSUME NEW m \in Messages, NEW i \in 1..Size(m)
    PROVE  Unit(m, i) \in Units /\ Unit(m, i) \in Placed
BY DEF Units, Placed

(* ... and a unit is a place of the encoding of its message. *)
LEMMA UnitFacts ==
    ASSUME NEW u \in Units
    PROVE  /\ u.of \in Messages /\ u.at \in 1..Size(u.of)
           /\ u.at \in Nat /\ u.at >= 1 /\ u.at <= Size(u.of)
           /\ u = Unit(u.of, u.at) /\ u \in Placed
<1>1. PICK m \in Messages : u \in {Unit(m, i) : i \in 1..Size(m)}
  BY DEF Units
<1>2. PICK i \in 1..Size(m) : u = Unit(m, i)
  BY <1>1
<1>3. u.of = m /\ u.at = i
  BY <1>2 DEF Unit
<1>4. i \in Nat /\ i >= 1 /\ i <= Size(m)
  BY <1>2, MessageFacts
<1>5. QED
  BY <1>1, <1>2, <1>3, <1>4 DEF Placed

(* The start ends, and is of no message. *)
LEMMA StartFacts ==
    /\ Start.at = 3 /\ Start.of.n = 0 /\ Size(Start.of) = 3 /\ IsEnd(Start)
    /\ Start.of \notin Messages /\ Start \notin Units
<1>1. Start.at = 3 /\ Start.of = [n |-> 0, length |-> 0]
  BY DEF Start, Unit
<1>2. Start.of.n = 0 /\ Start.of.length = 0
  BY <1>1
<1>3. Size(Start.of) = 3
  BY <1>2 DEF Size
<1>4. Start.of \notin Messages
  BY <1>2, MessageFacts
<1>5. QED
  BY <1>1, <1>2, <1>3, <1>4, UnitFacts DEF IsEnd

(* What was read last has a number and a place. *)
LEMMA PlacedFacts ==
    ASSUME NEW u \in Placed
    PROVE  /\ u.of.n \in Nat /\ u.at \in Nat /\ u.at >= 1
           /\ Size(u.of) \in Nat /\ u.at <= Size(u.of)
<1>1. CASE u \in Units
  BY <1>1, UnitFacts, MessageFacts
<1>2. CASE u = Start
  BY <1>2, StartFacts
<1>3. QED
  BY <1>1, <1>2 DEF Placed

(* The units of a message from one place to another. *)
LEMMA PartFacts ==
    ASSUME NEW m \in Messages, NEW i \in Nat, NEW j \in Nat,
           1 <= i, i <= j + 1, j <= Size(m)
    PROVE  /\ Part(m, i, j) \in Seq(Units) /\ Len(Part(m, i, j)) = j - i + 1
           /\ \A k \in 1..(j - i + 1) :
                 i + k - 1 \in 1..Size(m) /\ Part(m, i, j)[k] = Unit(m, i + k - 1)
<1> DEFINE N == j - i + 1
<1>1. N \in Nat
  OBVIOUS
<1>2. \A k \in 1..N : i + k - 1 \in 1..Size(m)
  BY MessageFacts
<1>3. \A k \in 1..N : Unit(m, i + k - 1) \in Units
  BY <1>2, UnitIn
<1> DEFINE p == [k \in 1..N |-> Unit(m, i + k - 1)]
<1>4. p \in [1..N -> Units]
  BY <1>3
<1>5. p \in Seq(Units) /\ Len(p) = N
  <2>1. p \in Seq(Units)
    BY <1>1, <1>4, SeqDef, ZenonT(60)
  <2>2. DOMAIN p = 1..N
    OBVIOUS
  <2>3. QED
    BY <1>1, <2>1, <2>2, LenProperties
<1>6. Part(m, i, j) = p
  BY DEF Part
<1>7. \A k \in 1..N : p[k] = Unit(m, i + k - 1)
  OBVIOUS
<1>8. QED
  BY <1>2, <1>5, <1>6, <1>7

(* Two parts are equal if they have the same units. *)
LEMMA PartIs ==
    ASSUME NEW m \in Messages, NEW i \in Nat, NEW j \in Nat,
           1 <= i, i <= j + 1, j <= Size(m),
           NEW q \in Seq(Units), Len(q) = j - i + 1,
           \A k \in 1..(j - i + 1) : q[k] = Unit(m, i + k - 1)
    PROVE  q = Part(m, i, j)
<1>1. /\ Part(m, i, j) \in Seq(Units) /\ Len(Part(m, i, j)) = j - i + 1
      /\ \A k \in 1..(j - i + 1) : Part(m, i, j)[k] = Unit(m, i + k - 1)
  BY PartFacts
<1>2. QED
  BY <1>1, SeqEqual

(* ... to the end of the message, ... *)
LEMMA EndPart ==
    ASSUME NEW m \in Messages, NEW i \in Nat, 1 <= i, i <= Size(m) + 1
    PROVE  /\ Part(m, i, Size(m)) \in Seq(Units)
           /\ Len(Part(m, i, Size(m))) = Size(m) - i + 1
           /\ \A k \in 1..(Size(m) - i + 1) :
                 i + k - 1 \in 1..Size(m) /\ Part(m, i, Size(m))[k] = Unit(m, i + k - 1)
<1>1. PICK N \in Nat : N = Size(m)
  BY MessageFacts
<1>2. i <= N + 1 /\ N <= Size(m)
  BY <1>1
<1>3. /\ Part(m, i, N) \in Seq(Units) /\ Len(Part(m, i, N)) = N - i + 1
      /\ \A k \in 1..(N - i + 1) :
            i + k - 1 \in 1..Size(m) /\ Part(m, i, N)[k] = Unit(m, i + k - 1)
  BY <1>2, PartFacts
<1>4. QED
  BY <1>1, <1>3

(* What remains of a part when its first k units are gone, and these.      *)
LEMMA PartCut ==
    ASSUME NEW m \in Messages, NEW i \in Nat, NEW j \in Nat,
           1 <= i, i <= j + 1, j <= Size(m), NEW k \in 0..(j - i + 1)
    PROVE  /\ SubSeq(Part(m, i, j), 1, k) = Part(m, i, i + k - 1)
           /\ SubSeq(Part(m, i, j), k + 1, Len(Part(m, i, j))) = Part(m, i + k, j)
<1> DEFINE p == Part(m, i, j)
<1>1. /\ p \in Seq(Units) /\ Len(p) = j - i + 1
      /\ \A l \in 1..(j - i + 1) : p[l] = Unit(m, i + l - 1)
  BY PartFacts
<1> HIDE DEF p
<1>2. SubSeq(p, 1, k) = Part(m, i, i + k - 1)
  <2>1. \A l \in 1..k : l \in 1..Len(p)
    BY <1>1
  <2>2. /\ SubSeq(p, 1, k) \in Seq(Units) /\ Len(SubSeq(p, 1, k)) = k
        /\ \A l \in 1..k : SubSeq(p, 1, k)[l] = p[l]
    <3>1. /\ SubSeq(p, 1, k) \in Seq(Units)
          /\ Len(SubSeq(p, 1, k)) = IF 1 <= k THEN k - 1 + 1 ELSE 0
          /\ \A l \in 1..(k - 1 + 1) : SubSeq(p, 1, k)[l] = p[1 + l - 1]
      BY <1>1, <2>1, SubSeqProperties, SMTT(60)
    <3>2. QED
      BY <3>1
  <2>3. \A l \in 1..k : SubSeq(p, 1, k)[l] = Unit(m, i + l - 1)
    BY <1>1, <2>2
  <2>4. i + k - 1 \in Nat /\ i <= (i + k - 1) + 1 /\ i + k - 1 <= Size(m)
        /\ (i + k - 1) - i + 1 = k
    BY MessageFacts
  <2>5. PICK z \in Nat : z = i + k - 1
    BY <2>4
  <2>6. PICK q \in Seq(Units) : q = SubSeq(p, 1, k)
    BY <2>2
  <2>7. /\ i <= z + 1 /\ z <= Size(m) /\ z - i + 1 = k
        /\ Len(q) = k /\ \A l \in 1..k : q[l] = Unit(m, i + l - 1)
    BY <2>2, <2>3, <2>4, <2>5, <2>6
  <2>8. Len(q) = z - i + 1 /\ \A l \in 1..(z - i + 1) : q[l] = Unit(m, i + l - 1)
    BY <2>7
  <2>9. q = Part(m, i, z)
    BY <2>7, <2>8, PartIs
  <2>10. QED
    BY <2>5, <2>6, <2>9
<1>3. SubSeq(p, k + 1, Len(p)) = Part(m, i + k, j)
  <2>1. \A l \in (k + 1)..Len(p) : l \in 1..Len(p)
    BY <1>1
  <2> DEFINE q == SubSeq(p, k + 1, Len(p))
  <2>2. /\ q \in Seq(Units) /\ Len(q) = j - (i + k) + 1
        /\ \A l \in 1..(j - (i + k) + 1) : q[l] = p[k + l]
    <3>1. /\ q \in Seq(Units)
          /\ Len(q) = IF k + 1 <= Len(p) THEN Len(p) - (k + 1) + 1 ELSE 0
          /\ \A l \in 1..(Len(p) - (k + 1) + 1) : q[l] = p[(k + 1) + l - 1]
      BY <1>1, <2>1, SubSeqProperties
    <3> HIDE DEF q
    <3>2. Len(p) - (k + 1) + 1 = j - (i + k) + 1
      BY <1>1
    <3>3. \A l \in Nat : (k + 1) + l - 1 = k + l
      OBVIOUS
    <3>4. Len(q) = j - (i + k) + 1
      BY <1>1, <3>1
    <3>5. ASSUME NEW l \in 1..(j - (i + k) + 1)
          PROVE  q[l] = p[k + l]
      BY <3>1, <3>2, <3>3
    <3>6. QED
      BY <3>1, <3>4, <3>5
  <2> HIDE DEF q
  <2>3. \A l \in 1..(j - (i + k) + 1) : q[l] = Unit(m, (i + k) + l - 1)
    <3> TAKE l \in 1..(j - (i + k) + 1)
    <3>1. k + l \in 1..(j - i + 1) /\ i + (k + l) - 1 = (i + k) + l - 1
      OBVIOUS
    <3>2. q[l] = p[k + l]
      BY <2>2
    <3>3. p[k + l] = Unit(m, i + (k + l) - 1)
      BY <1>1, <3>1
    <3>4. QED
      BY <3>1, <3>2, <3>3
  <2>4. i + k \in Nat /\ 1 <= i + k /\ i + k <= j + 1
    OBVIOUS
  <2>5. QED
    BY <2>2, <2>3, <2>4, PartIs DEF q
<1>4. QED
  BY <1>2, <1>3 DEF p


-----------------------------------------------------------------------------
(* The order of the units.                                                 *)

(* What is left of a wire of which the first k units are read. *)
LEMMA DropFacts ==
    ASSUME NEW S, NEW w \in Seq(S), NEW k \in 0..Len(w)
    PROVE  LET d == SubSeq(w, k + 1, Len(w))
           IN  /\ d \in Seq(S) /\ Len(d) \in Nat /\ Len(w) \in Nat
               /\ Len(d) = Len(w) - k
               /\ \A i \in 1..Len(d) : k + i \in 1..Len(w) /\ d[i] = w[k + i]
<1> DEFINE d == SubSeq(w, k + 1, Len(w))
<1>1. Len(w) \in Nat /\ \A i \in 1..Len(w) : w[i] \in S
  BY LenProperties, ElementOfSeq
<1>2. k \in Nat /\ k <= Len(w)
  BY <1>1
<1>3. \A i \in (k + 1)..Len(w) : i \in 1..Len(w)
  BY <1>1, <1>2
<1>4. /\ d \in Seq(S)
      /\ Len(d) = IF k + 1 <= Len(w) THEN Len(w) - (k + 1) + 1 ELSE 0
      /\ \A i \in 1..(Len(w) - (k + 1) + 1) : d[i] = w[(k + 1) + i - 1]
  BY <1>1, <1>2, <1>3, SubSeqProperties
<1> HIDE DEF d
<1>5. Len(w) - (k + 1) + 1 = Len(w) - k
  BY <1>1, <1>2
<1>6. Len(d) = Len(w) - k /\ Len(d) \in Nat
  <2>1. Len(d) = IF k + 1 <= Len(w) THEN Len(w) - (k + 1) + 1 ELSE 0
    BY <1>4
  <2>2. Len(d) = Len(w) - k
    BY <1>1, <1>2, <2>1
  <2>3. QED
    BY <1>1, <1>2, <2>2
<1>7. ASSUME NEW i \in 1..Len(d) PROVE k + i \in 1..Len(w) /\ d[i] = w[k + i]
  <2>1. (k + 1) + i - 1 = k + i /\ i \in 1..(Len(w) - k) /\ k + i \in 1..Len(w)
    BY <1>1, <1>2, <1>6
  <2>2. d[i] = w[(k + 1) + i - 1]
    BY <1>4, <1>5, <2>1
  <2>3. QED
    BY <2>1, <2>2
<1>8. QED
  BY <1>1, <1>4, <1>6, <1>7 DEF d

(* Reading one unit is reading the head. *)
LEMMA DropOne ==
    ASSUME NEW S, NEW w \in Seq(S), w # <<>>
    PROVE  /\ Head(w) = w[1] /\ Tail(w) = SubSeq(w, 1 + 1, Len(w))
           /\ Len(w) \in Nat /\ 1 \in 1..Len(w)
<1>1. Len(w) \in Nat /\ Len(w) >= 1
  BY EmptySeq, LenProperties
<1> DEFINE d == SubSeq(w, 1 + 1, Len(w))
<1>2. /\ d \in Seq(S) /\ Len(d) = Len(w) - 1
      /\ \A i \in 1..Len(d) : d[i] = w[1 + i]
  <2>1. 1 \in 0..Len(w)
    BY <1>1
  <2>2. LET e == SubSeq(w, 1 + 1, Len(w))
        IN  /\ e \in Seq(S) /\ Len(e) = Len(w) - 1
            /\ \A i \in 1..Len(e) : e[i] = w[1 + i]
    BY <2>1, DropFacts
  <2>3. QED
    BY <2>2
<1>3. /\ Tail(w) \in Seq(S) /\ Len(Tail(w)) = Len(w) - 1
      /\ \A i \in 1..Len(Tail(w)) : Tail(w)[i] = w[i + 1]
  BY HeadTailProperties
<1> HIDE DEF d
<1>4. \A i \in 1..Len(d) : Tail(w)[i] = d[i]
  <2> TAKE i \in 1..Len(d)
  <2>1. i + 1 = 1 + i /\ i \in 1..Len(Tail(w))
    BY <1>1, <1>2, <1>3
  <2>2. QED
    BY <1>2, <1>3, <2>1
<1>5. Tail(w) = d
  BY <1>2, <1>3, <1>4, SeqEqual
<1>6. Head(w) = w[1]
  OBVIOUS
<1>7. QED
  BY <1>1, <1>5, <1>6 DEF d

(* No message on the wire is later than the last. *)
LEMMA LastBound ==
    ASSUME NEW t, NEW w \in Seq(Units), NEW u \in Placed, Chain(t, w, u)
    PROVE  /\ LastOf(w, u) \in Placed
           /\ LastOf(w, u).of.n \in Nat
           /\ u.of.n <= LastOf(w, u).of.n
           /\ \A i \in 1..Len(w) : w[i].of.n \in Nat /\ w[i].of.n <= LastOf(w, u).of.n
<1>1. Len(w) \in Nat /\ \A i \in 1..Len(w) : w[i] \in Units /\ w[i] \in Placed
  BY LenProperties, ElementOfSeq, UnitFacts
<1>2. \A i \in 1..Len(w) : w[i].of.n \in Nat
  BY <1>1, PlacedFacts
<1>3. CASE Len(w) = 0
  <2>1. LastOf(w, u) = u
    BY <1>3 DEF LastOf, Before
  <2>2. QED
    BY <1>3, <2>1, PlacedFacts
<1>4. CASE Len(w) # 0
  <2>1. Len(w) \in 1..Len(w) /\ Len(w) + 1 # 1 /\ (Len(w) + 1) - 1 = Len(w)
    BY <1>1, <1>4
  <2>2. LastOf(w, u) = w[Len(w)]
    BY <2>1 DEF LastOf, Before
  <2>3. \A i \in 1..Len(w) : i <= Len(w)
    BY <1>1
  <2>4. QED
    BY <1>1, <1>2, <2>1, <2>2, <2>3 DEF Chain
<1>5. QED
  BY <1>3, <1>4

(* The order is kept when the first k units are read, ... *)
LEMMA ChainDrop ==
    ASSUME NEW t, NEW w \in Seq(Units), NEW u \in Placed, Chain(t, w, u),
           NEW k \in 1..Len(w)
    PROVE  LET d == SubSeq(w, k + 1, Len(w))
           IN  Chain(t, d, w[k]) /\ LastOf(d, w[k]) = LastOf(w, u)
<1> DEFINE d == SubSeq(w, k + 1, Len(w))
<1>1. Len(w) \in Nat /\ k \in 0..Len(w) /\ k \in Nat /\ k <= Len(w) /\ k >= 1
  BY LenProperties
<1>2. /\ Len(d) \in Nat /\ Len(d) = Len(w) - k
      /\ \A i \in 1..Len(d) : k + i \in 1..Len(w) /\ d[i] = w[k + i]
  BY <1>1, DropFacts
<1> HIDE DEF d
<1>3. \A i \in 1..(Len(d) + 1) : Before(d, w[k], i) = Before(w, u, k + i)
  <2> TAKE i \in 1..(Len(d) + 1)
  <2>1. CASE i = 1
    <3>1. k + i # 1 /\ (k + i) - 1 = k
      BY <1>1, <2>1
    <3>2. QED
      BY <2>1, <3>1 DEF Before
  <2>2. CASE i # 1
    <3>1. k + i # 1 /\ (k + i) - 1 = k + (i - 1) /\ i - 1 \in 1..Len(d)
      BY <1>1, <1>2, <2>2
    <3>2. QED
      BY <1>2, <2>2, <3>1 DEF Before
  <2>3. QED
    BY <2>1, <2>2
<1>4. LastOf(d, w[k]) = LastOf(w, u)
  <2>1. Len(d) + 1 \in 1..(Len(d) + 1) /\ k + (Len(d) + 1) = Len(w) + 1
    BY <1>1, <1>2
  <2>2. QED
    BY <1>3, <2>1 DEF LastOf
<1>5. \A i \in 1..Len(d) : Follows(t, Before(d, w[k], i), d[i])
  <2> TAKE i \in 1..Len(d)
  <2>1. i \in 1..(Len(d) + 1) /\ k + i \in 1..Len(w)
    BY <1>2
  <2>2. QED
    BY <1>2, <1>3, <2>1 DEF Chain
<1>6. \A i, j \in 1..Len(d) : i <= j => d[i].of.n <= d[j].of.n
  <2> TAKE i, j \in 1..Len(d)
  <2>1. k + i \in 1..Len(w) /\ k + j \in 1..Len(w) /\ (i <= j => k + i <= k + j)
    BY <1>1, <1>2
  <2>2. QED
    BY <1>2, <2>1 DEF Chain
<1>7. \A i \in 1..Len(d) : w[k].of.n <= d[i].of.n
  <2> TAKE i \in 1..Len(d)
  <2>1. k + i \in 1..Len(w) /\ k <= k + i
    BY <1>1, <1>2
  <2>2. QED
    BY <1>2, <2>1 DEF Chain
<1>8. QED
  BY <1>4, <1>5, <1>6, <1>7 DEF Chain, d

(* ... when the units of a message that follow are written, ... *)
LEMMA ChainJoin ==
    ASSUME NEW t, NEW w \in Seq(Units), NEW u \in Placed, Chain(t, w, u),
           NEW m \in Messages, NEW a \in 1..Size(m), NEW z \in a..Size(m),
           Follows(t, LastOf(w, u), Unit(m, a)), LastOf(w, u).of.n <= m.n,
           NEW p \in Seq(Units), p = Part(m, a, z)
    PROVE  Chain(t, w \o p, u) /\ LastOf(w \o p, u) = Unit(m, z)
<1> DEFINE r == w \o p
<1>1. a \in Nat /\ z \in Nat /\ 1 <= a /\ a <= z /\ a <= z + 1 /\ z <= Size(m)
  BY MessageFacts
<1>2. /\ Len(p) = z - a + 1 /\ Len(p) \in Nat
      /\ \A k \in 1..Len(p) : p[k] = Unit(m, a + k - 1)
  <2>1. /\ Len(p) = z - a + 1
        /\ \A k \in 1..(z - a + 1) : p[k] = Unit(m, a + k - 1)
    BY <1>1, PartFacts
  <2>2. z - a + 1 \in Nat
    BY <1>1
  <2>3. QED
    BY <2>1, <2>2
<1>3. \A k \in 1..Len(p) : p[k].of = m
  BY <1>2 DEF Unit
<1>4. /\ Len(w) \in Nat /\ Len(r) = Len(w) + Len(p)
      /\ \A i \in 1..Len(w) : i \in 1..Len(r) /\ r[i] = w[i]
      /\ \A i \in 1..Len(p) : i + Len(w) \in 1..Len(r) /\ r[i + Len(w)] = p[i]
      /\ \A i \in 1..Len(r) : i \in 1..Len(w) \/ (i > Len(w) /\ i - Len(w) \in 1..Len(p)
                                             /\ r[i] = p[i - Len(w)])
  BY ConcatPlaces
<1> HIDE DEF r
<1>5. /\ LastOf(w, u).of.n \in Nat /\ u.of.n <= m.n /\ u.of.n \in Nat /\ m.n \in Nat
      /\ \A i \in 1..Len(w) : w[i].of.n \in Nat /\ w[i].of.n <= m.n
  BY LastBound, PlacedFacts, MessageFacts
<1>6. \A i \in 1..Len(r) : Follows(t, Before(r, u, i), r[i])
  <2> TAKE i \in 1..Len(r)
  <2>1. CASE i \in 1..Len(w)
    <3>1. Before(r, u, i) = Before(w, u, i)
      <4>1. CASE i = 1
        BY <4>1 DEF Before
      <4>2. CASE i # 1
        <5>1. i - 1 \in 1..Len(w)
          BY <1>4, <2>1, <4>2
        <5>2. QED
          BY <1>4, <4>2, <5>1 DEF Before
      <4>3. QED
        BY <4>1, <4>2
    <3>2. QED
      BY <1>4, <2>1, <3>1 DEF Chain
  <2>2. CASE i = Len(w) + 1
    <3>1. Before(r, u, i) = LastOf(w, u)
      <4>1. CASE Len(w) = 0
        BY <2>2, <4>1 DEF Before, LastOf
      <4>2. CASE Len(w) # 0
        <5>1. i # 1 /\ i - 1 = Len(w) /\ Len(w) \in 1..Len(w) /\ Len(w) + 1 # 1 /\ (Len(w) + 1) - 1 = Len(w)
          BY <1>4, <2>2, <4>2
        <5>2. QED
          BY <1>4, <5>1 DEF Before, LastOf
      <4>3. QED
        BY <4>1, <4>2
    <3>2. r[i] = Unit(m, a)
      <4>1. 1 \in 1..Len(p) /\ a + 1 - 1 = a /\ 1 + Len(w) = i
        BY <1>1, <1>2, <1>4, <2>2
      <4>2. QED
        BY <1>2, <1>4, <4>1
    <3>3. QED
      BY <3>1, <3>2
  <2>3. CASE i > Len(w) + 1
    <3>1. /\ i # 1 /\ i - Len(w) \in 1..Len(p) /\ (i - 1) - Len(w) \in 1..Len(p)
          /\ i - 1 \in 1..Len(r) /\ i - 1 > Len(w) /\ i - 1 \notin 1..Len(w) /\ i \notin 1..Len(w)
      <4>1. Len(w) \in Nat /\ Len(p) \in Nat /\ Len(r) = Len(w) + Len(p)
        BY <1>2, <1>4
      <4>2. QED
        BY <2>3, <4>1
    <3>2. r[i] = p[i - Len(w)] /\ r[i - 1] = p[(i - 1) - Len(w)]
      BY <1>4, <3>1
    <3>3. r[i] = Unit(m, a + (i - Len(w)) - 1) /\ r[i - 1] = Unit(m, a + ((i - 1) - Len(w)) - 1)
      BY <1>2, <3>1, <3>2
    <3>4. a + (i - Len(w)) - 1 = (a + ((i - 1) - Len(w)) - 1) + 1
      BY <1>1, <1>4
    <3>5. QED
      BY <3>1, <3>3, <3>4 DEF Before, Follows, Unit
  <2>4. i \in 1..Len(w) \/ i = Len(w) + 1 \/ i > Len(w) + 1
    <3>1. Len(w) \in Nat /\ i \in Nat /\ i >= 1
      BY <1>2, <1>4
    <3>2. QED
      BY <3>1
  <2>5. QED
    BY <2>1, <2>2, <2>3, <2>4
<1>7. \A i \in 1..Len(r) : u.of.n <= r[i].of.n
  <2> TAKE i \in 1..Len(r)
  <2>1. CASE i \in 1..Len(w)
    BY <1>4, <2>1 DEF Chain
  <2>2. CASE i - Len(w) \in 1..Len(p) /\ r[i] = p[i - Len(w)]
    BY <1>3, <1>5, <2>2
  <2>3. QED
    BY <1>4, <2>1, <2>2
<1>8. \A i, j \in 1..Len(r) : i <= j => r[i].of.n <= r[j].of.n
  <2> SUFFICES ASSUME NEW i \in 1..Len(r), NEW j \in 1..Len(r), i <= j
               PROVE  r[i].of.n <= r[j].of.n
    OBVIOUS
  <2>1. CASE i \in 1..Len(w) /\ j \in 1..Len(w)
    BY <1>4, <2>1 DEF Chain
  <2>2. CASE i \in 1..Len(w) /\ j \notin 1..Len(w)
    BY <1>3, <1>4, <1>5, <2>2, SMTT(60)
  <2>3. CASE i \notin 1..Len(w) /\ j \notin 1..Len(w)
    <3>1. r[i].of = m /\ r[j].of = m
      <4>1. \A k \in 1..Len(r) : k \notin 1..Len(w)
                => k - Len(w) \in 1..Len(p) /\ r[k] = p[k - Len(w)]
        BY <1>4
      <4>2. \A k \in 1..Len(r) : k \notin 1..Len(w) => r[k].of = m
        BY <1>3, <4>1
      <4>3. QED
        BY <2>3, <4>2
    <3>2. QED
      BY <1>5, <3>1
  <2>4. CASE i \notin 1..Len(w) /\ j \in 1..Len(w)
    BY <1>4, <2>4
  <2>5. QED
    BY <2>1, <2>2, <2>3, <2>4
<1>9. LastOf(r, u) = Unit(m, z)
  <2>1. Len(p) \in 1..Len(p) /\ Len(p) + Len(w) = Len(r) /\ a + Len(p) - 1 = z
        /\ Len(r) + 1 # 1 /\ (Len(r) + 1) - 1 = Len(r)
    BY <1>1, <1>2, <1>4
  <2>2. r[Len(r)] = p[Len(p)]
    BY <1>4, <2>1
  <2>3. p[Len(p)] = Unit(m, z)
    BY <1>2, <2>1
  <2>4. QED
    BY <2>1, <2>2, <2>3 DEF LastOf, Before
<1>10. QED
  BY <1>6, <1>7, <1>8, <1>9 DEF Chain, r

(* ... and when a write fails. *)
LEMMA ChainTorn ==
    ASSUME NEW t, NEW v, NEW w, NEW u, Chain(t, w, u), t => v
    PROVE  Chain(v, w, u)
BY DEF Chain, Follows

(* What comes after a unit is the rest of its message, as long as that is, *)
(* or a torn message is followed by another.                               *)
LEMMA Run ==
    ASSUME NEW t \in BOOLEAN, NEW w \in Seq(Units), NEW u \in Placed, Chain(t, w, u),
           NEW k \in 1..Len(w), u.at + k <= Size(u.of)
    PROVE  \/ \A i \in 1..k : w[i] = Unit(u.of, u.at + i)
           \/ t = TRUE /\ \E i \in 1..k : w[i].at = 1
<1> DEFINE T == {i \in 1..k : w[i] # Unit(u.of, u.at + i)}
<1>1. k \in Nat /\ Len(w) \in Nat /\ k <= Len(w) /\ \A i \in 1..k : i \in 1..Len(w)
  BY LenProperties
<1>2. u.at \in Nat /\ Size(u.of) \in Nat
  BY PlacedFacts
<1>3. SUFFICES ASSUME T # {}
               PROVE  t = TRUE /\ \E i \in 1..k : w[i].at = 1
  OBVIOUS
<1>4. T \in SUBSET Nat
  OBVIOUS
<1>5. PICK i \in T : \A j \in T : i <= j
  BY <1>3, <1>4, LeastNumber
<1>6. i \in 1..k /\ i \in 1..Len(w) /\ w[i] # Unit(u.of, u.at + i)
  BY <1>1, <1>5
<1> DEFINE b == Before(w, u, i)
<1>7. b.of = u.of /\ b.at + 1 = u.at + i /\ b.at \in Nat
  <2>1. CASE i = 1
    BY <1>2, <2>1 DEF Before
  <2>2. CASE i # 1
    <3>1. i - 1 \in 1..k /\ ~(i <= i - 1)
      BY <1>1, <1>6, <2>2
    <3>2. i - 1 \notin T
      BY <1>5, <3>1
    <3>3. w[i - 1] = Unit(u.of, u.at + (i - 1))
      BY <3>1, <3>2
    <3>4. b = Unit(u.of, u.at + (i - 1))
      BY <2>2, <3>3 DEF Before
    <3>5. b.of = u.of /\ b.at = u.at + (i - 1)
      BY <3>4 DEF Unit
    <3>6. QED
      BY <1>2, <1>6, <3>5
  <2>3. QED
    BY <2>1, <2>2
<1> HIDE DEF b
<1>8. Follows(t, b, w[i])
  BY <1>6 DEF Chain, b
<1>9. w[i] # Unit(b.of, b.at + 1)
  BY <1>6, <1>7
<1>10. ~IsEnd(b)
  BY <1>1, <1>2, <1>6, <1>7 DEF IsEnd
<1>11. w[i].at = 1 /\ t
  BY <1>8, <1>9, <1>10 DEF Follows
<1>12. QED
  BY <1>6, <1>11


-----------------------------------------------------------------------------
(* The messages that are owed.                                             *)

(* A unit is the end of a message if it is at the end of its own.          *)
LEMMA EndFacts ==
    ASSUME NEW u \in Placed
    PROVE  /\ \A m \in Messages : u = EndUnit(m) <=> (u \in Units /\ IsEnd(u) /\ u.of = m)
           /\ \A m : EndUnit(m).of = m
<1>1. \A m : EndUnit(m).of = m /\ EndUnit(m).at = Size(m)
  BY DEF EndUnit, Unit
<1>2. ASSUME NEW m \in Messages, u = EndUnit(m)
      PROVE  u \in Units /\ IsEnd(u) /\ u.of = m
  <2>1. u.of = m /\ u.at = Size(m)
    BY <1>1, <1>2
  <2>2. u # Start
    BY <2>1, StartFacts
  <2>3. QED
    BY <2>1, <2>2 DEF Placed, IsEnd
<1>3. ASSUME NEW m \in Messages, u \in Units, IsEnd(u), u.of = m
      PROVE  u = EndUnit(m)
  BY <1>3, UnitFacts DEF IsEnd, EndUnit
<1>4. QED
  BY <1>1, <1>2, <1>3

(* Writing the end of a message makes it one of those that are owed. *)
LEMMA EndingJoin ==
    ASSUME NEW w \in Seq(Units), NEW u \in Placed, NEW b \in BOOLEAN,
           NEW m \in Messages, NEW a \in 1..Size(m), NEW z \in a..Size(m),
           NEW p \in Seq(Units), p = Part(m, a, z)
    PROVE  Ending(w \o p, u, b) = Ending(w, u, b) \cup (IF z = Size(m) THEN {m} ELSE {})
<1> DEFINE r == w \o p
<1>1. a \in Nat /\ z \in Nat /\ 1 <= a /\ a <= z /\ a <= z + 1 /\ z <= Size(m)
      /\ Size(m) \in Nat
  BY MessageFacts
<1>2. /\ Len(p) = z - a + 1 /\ Len(p) \in Nat
      /\ \A k \in 1..Len(p) : p[k] = Unit(m, a + k - 1)
  <2>1. /\ Len(p) = z - a + 1
        /\ \A k \in 1..(z - a + 1) : p[k] = Unit(m, a + k - 1)
    BY <1>1, PartFacts
  <2>2. z - a + 1 \in Nat
    BY <1>1
  <2>3. QED
    BY <2>1, <2>2
<1>3. /\ Len(w) \in Nat /\ Len(r) = Len(w) + Len(p)
      /\ \A i \in 1..Len(w) : i \in 1..Len(r) /\ r[i] = w[i]
      /\ \A i \in 1..Len(p) : i + Len(w) \in 1..Len(r) /\ r[i + Len(w)] = p[i]
      /\ \A i \in 1..Len(r) : i \in 1..Len(w) \/ (i > Len(w) /\ i - Len(w) \in 1..Len(p)
                                             /\ r[i] = p[i - Len(w)])
  BY ConcatPlaces
<1> HIDE DEF r
<1>4. \A e : (\E i \in 1..Len(r) : r[i] = e)
              <=> (\E i \in 1..Len(w) : w[i] = e) \/ (\E i \in 1..Len(p) : p[i] = e)
  <2> TAKE e
  <2>1. ASSUME NEW i \in 1..Len(r), r[i] = e
        PROVE  (\E k \in 1..Len(w) : w[k] = e) \/ (\E k \in 1..Len(p) : p[k] = e)
    <3>1. CASE i \in 1..Len(w)
      BY <1>3, <2>1, <3>1
    <3>2. CASE i - Len(w) \in 1..Len(p) /\ r[i] = p[i - Len(w)]
      BY <2>1, <3>2
    <3>3. QED
      BY <1>3, <3>1, <3>2
  <2>2. ASSUME NEW i \in 1..Len(w), w[i] = e PROVE \E k \in 1..Len(r) : r[k] = e
    BY <1>3, <2>2
  <2>3. ASSUME NEW i \in 1..Len(p), p[i] = e PROVE \E k \in 1..Len(r) : r[k] = e
    BY <1>3, <2>3
  <2>4. QED
    BY <2>1, <2>2, <2>3
<1>5. \A n \in Messages : (\E i \in 1..Len(p) : p[i] = EndUnit(n)) <=> (n = m /\ z = Size(m))
  <2> TAKE n \in Messages
  <2>1. EndUnit(n).of = n /\ EndUnit(n).at = Size(n)
    BY DEF EndUnit, Unit
  <2>2. ASSUME NEW i \in 1..Len(p), p[i] = EndUnit(n) PROVE n = m /\ z = Size(m)
    <3>1. p[i].of = m /\ p[i].at = a + i - 1
      <4>1. p[i] = Unit(m, a + i - 1)
        BY <1>2
      <4>2. QED
        BY <4>1 DEF Unit
    <3>2. n = m /\ a + i - 1 = Size(m)
      BY <2>1, <2>2, <3>1
    <3>3. QED
      BY <1>1, <1>2, <3>2
  <2>3. ASSUME n = m, z = Size(m) PROVE \E i \in 1..Len(p) : p[i] = EndUnit(n)
    <3>1. Len(p) \in 1..Len(p) /\ a + Len(p) - 1 = Size(m)
      BY <1>1, <1>2, <2>3
    <3>2. QED
      BY <1>2, <2>3, <3>1 DEF EndUnit
  <2>4. QED
    BY <2>2, <2>3
<1>6. \A n \in Messages : n \in Ending(r, u, b)
                            <=> n \in Ending(w, u, b) \/ (n = m /\ z = Size(m))
  BY <1>4, <1>5 DEF Ending
<1>7. Ending(r, u, b) \subseteq Messages /\ Ending(w, u, b) \subseteq Messages
  BY DEF Ending
<1>8. QED
  BY <1>6, <1>7 DEF r

(* Reading units that end nothing, and a last one, leaves them owed. *)
LEMMA EndingDrop ==
    ASSUME NEW w \in Seq(Units), NEW u \in Placed, NEW b \in BOOLEAN, NEW c \in BOOLEAN,
           NEW k \in 1..Len(w), b => ~IsEnd(u), c \/ ~IsEnd(w[k]),
           \A i \in 1..(k - 1) : ~IsEnd(w[i])
    PROVE  Ending(SubSeq(w, k + 1, Len(w)), w[k], c) = Ending(w, u, b)
<1> DEFINE d == SubSeq(w, k + 1, Len(w))
<1>1. Len(w) \in Nat /\ k \in 0..Len(w) /\ k \in Nat /\ k <= Len(w) /\ k >= 1
  BY LenProperties
<1>2. /\ Len(d) \in Nat /\ Len(d) = Len(w) - k
      /\ \A i \in 1..Len(d) : k + i \in 1..Len(w) /\ d[i] = w[k + i]
  BY <1>1, DropFacts
<1> HIDE DEF d
<1>3. \A i \in 1..Len(w) : w[i] \in Units /\ w[i] \in Placed
  BY ElementOfSeq, UnitFacts
<1>4. \A m \in Messages : ~(b /\ u = EndUnit(m))
  BY EndFacts
<1>5. ASSUME NEW m \in Messages, NEW i \in 1..Len(w), w[i] = EndUnit(m)
      PROVE  (c /\ w[k] = EndUnit(m)) \/ \E j \in 1..Len(d) : d[j] = EndUnit(m)
  <2>1. IsEnd(w[i])
    BY <1>3, <1>5, EndFacts
  <2>2. i \notin 1..(k - 1)
    BY <2>1
  <2>3. CASE i = k
    BY <1>5, <2>1, <2>3
  <2>4. CASE i # k
    <3>1. i - k \in 1..Len(d) /\ k + (i - k) = i
      BY <1>1, <1>2, <2>2, <2>4
    <3>2. QED
      BY <1>2, <1>5, <3>1
  <2>5. QED
    BY <2>3, <2>4
<1>6. ASSUME NEW m \in Messages, NEW j \in 1..Len(d), d[j] = EndUnit(m)
      PROVE  \E i \in 1..Len(w) : w[i] = EndUnit(m)
  BY <1>2, <1>6
<1>7. \A m \in Messages : m \in Ending(d, w[k], c) <=> m \in Ending(w, u, b)
  BY <1>4, <1>5, <1>6 DEF Ending
<1>8. Ending(d, w[k], c) \subseteq Messages /\ Ending(w, u, b) \subseteq Messages
  BY DEF Ending
<1>9. QED
  BY <1>7, <1>8 DEF d

(* After the end of a message, it does not come again. *)
LEMMA EndsOnce ==
    ASSUME NEW t, NEW w \in Seq(Units), NEW u \in Units, Chain(t, w, u), IsEnd(u)
    PROVE  \A i \in 1..Len(w) : u.of.n < w[i].of.n
<1>1. Len(w) \in Nat /\ \A i \in 1..Len(w) : w[i] \in Units /\ w[i] \in Placed
  BY LenProperties, ElementOfSeq, UnitFacts
<1>2. u \in Placed /\ u.of.n \in Nat
  BY UnitFacts, PlacedFacts
<1> TAKE i \in 1..Len(w)
<1>3. 1 \in 1..Len(w) /\ 1 <= i
  BY <1>1
<1>4. w[1].of.n \in Nat /\ w[i].of.n \in Nat /\ w[1].of.n <= w[i].of.n
  BY <1>1, <1>3, PlacedFacts DEF Chain
<1>5. Follows(t, u, w[1])
  BY <1>3 DEF Chain, Before
<1>6. w[1] # Unit(u.of, u.at + 1)
  <2>1. SUFFICES ASSUME w[1] = Unit(u.of, u.at + 1) PROVE FALSE
    OBVIOUS
  <2>2. w[1].of = u.of /\ w[1].at = u.at + 1
    BY <2>1 DEF Unit
  <2>3. u.at + 1 <= Size(u.of) /\ u.at = Size(u.of) /\ u.at \in Nat
    BY <1>1, <1>2, <1>3, <2>2, PlacedFacts DEF IsEnd
  <2>4. QED
    BY <2>3
<1>7. QED
  BY <1>2, <1>4, <1>5, <1>6 DEF Follows

(* Returning a message settles it. *)
LEMMA EndingDecoded ==
    ASSUME NEW t, NEW w \in Seq(Units), NEW u \in Units, Chain(t, w, u), IsEnd(u)
    PROVE  /\ u.of \in Ending(w, u, TRUE)
           /\ Ending(w, u, FALSE) = Ending(w, u, TRUE) \ {u.of}
<1>1. u \in Placed /\ u.of \in Messages /\ u.of.n \in Nat
  BY UnitFacts, PlacedFacts
<1>2. \A m \in Messages : u = EndUnit(m) <=> u.of = m
  BY <1>1, EndFacts
<1>3. ASSUME NEW i \in 1..Len(w), w[i] = EndUnit(u.of)
      PROVE  FALSE
  <2>1. w[i].of = u.of
    BY <1>3 DEF EndUnit, Unit
  <2>2. u.of.n < w[i].of.n
    BY EndsOnce
  <2>3. QED
    BY <1>1, <2>1, <2>2
<1>4. QED
  BY <1>1, <1>2, <1>3 DEF Ending

(* The messages after the first g of a list. *)
LEMMA AfterFacts ==
    ASSUME NEW q \in Seq(Messages), NEW g \in 0..Len(q)
    PROVE  /\ \A m \in Messages : After(Append(q, m), g) = After(q, g) \cup {m}
           /\ (\A i, j \in 1..Len(q) : i < j => q[i].n < q[j].n) /\ g < Len(q)
              => /\ g + 1 \in 1..Len(q) /\ q[g + 1] \in After(q, g)
                 /\ After(q, g + 1) = After(q, g) \ {q[g + 1]}
<1>1. Len(q) \in Nat /\ g \in Nat /\ g <= Len(q)
  BY LenProperties
<1>2. ASSUME NEW m \in Messages
      PROVE  After(Append(q, m), g) = After(q, g) \cup {m}
  <2> DEFINE r == Append(q, m)
  <2>1. /\ Len(r) = Len(q) + 1 /\ \A i \in 1..Len(q) : r[i] = q[i]
        /\ r[Len(q) + 1] = m
    BY AppendProperties
  <2> HIDE DEF r
  <2>2. \A j : j \in (g + 1)..Len(r) <=> j \in (g + 1)..Len(q) \/ j = Len(q) + 1
    BY <1>1, <2>1
  <2>3. \A j \in (g + 1)..Len(q) : r[j] = q[j]
    BY <1>1, <2>1
  <2>4. \A e : e \in After(r, g) <=> e \in After(q, g) \/ e = m
    BY <2>1, <2>2, <2>3 DEF After
  <2>5. QED
    BY <2>4 DEF r
<1>3. ASSUME \A i, j \in 1..Len(q) : i < j => q[i].n < q[j].n, g < Len(q)
      PROVE  /\ g + 1 \in 1..Len(q) /\ q[g + 1] \in After(q, g)
             /\ After(q, g + 1) = After(q, g) \ {q[g + 1]}
  <2>1. g + 1 \in 1..Len(q) /\ g + 1 \in (g + 1)..Len(q)
    BY <1>1, <1>3
  <2>2. \A j : j \in (g + 1)..Len(q) <=> j = g + 1 \/ j \in ((g + 1) + 1)..Len(q)
    BY <1>1, <1>3
  <2>3. ASSUME NEW j \in ((g + 1) + 1)..Len(q) PROVE q[j] # q[g + 1]
    <3>1. j \in 1..Len(q) /\ g + 1 < j
      BY <1>1
    <3>2. q[g + 1].n < q[j].n /\ q[j].n \in Nat
      BY <1>3, <2>1, <3>1, ElementOfSeq, MessageFacts
    <3>3. QED
      BY <3>2
  <2>4. QED
    BY <2>1, <2>2, <2>3 DEF After
<1>4. QED
  BY <1>2, <1>3

(* A message that was read to its end is the next that is owed. *)
LEMMA NextOwed ==
    ASSUME NEW t, NEW w \in Seq(Units), NEW u \in Units, Chain(t, w, u), IsEnd(u),
           NEW q \in Seq(Messages), NEW g \in 0..Len(q),
           \A i, j \in 1..Len(q) : i < j => q[i].n < q[j].n,
           Ending(w, u, TRUE) = After(q, g)
    PROVE  g < Len(q) /\ q[g + 1] = u.of
<1>1. Len(q) \in Nat /\ g \in Nat /\ g <= Len(q)
  BY LenProperties
<1>2. u.of \in After(q, g)
  BY EndingDecoded
<1>3. PICK j \in (g + 1)..Len(q) : q[j] = u.of
  BY <1>2 DEF After
<1>4. g < Len(q) /\ g + 1 \in 1..Len(q) /\ j \in 1..Len(q) /\ g + 1 \in (g + 1)..Len(q)
  BY <1>1
<1> DEFINE m == q[g + 1]
<1>5. m \in Messages /\ m.n \in Nat /\ u.of.n \in Nat /\ u \in Placed
  BY <1>4, ElementOfSeq, MessageFacts, UnitFacts
<1>6. m \in Ending(w, u, TRUE)
  BY <1>4 DEF After
<1>7. u.of.n <= m.n
  <2>1. CASE u = EndUnit(m)
    BY <1>5, <2>1, EndFacts
  <2>2. ASSUME NEW i \in 1..Len(w), w[i] = EndUnit(m) PROVE u.of.n <= m.n
    <3>1. w[i].of = m
      BY <2>2 DEF EndUnit, Unit
    <3>2. QED
      BY <3>1 DEF Chain
  <2>3. QED
    BY <1>6, <2>1, <2>2 DEF Ending
<1>8. ~(g + 1 < j)
  BY <1>3, <1>4, <1>5, <1>7
<1>9. j = g + 1
  BY <1>1, <1>8
<1>10. QED
  BY <1>3, <1>4, <1>9


-----------------------------------------------------------------------------
(* Types.                                                                  *)

(* What is being written. *)
LEMMA RestFacts ==
    ASSUME TypeOK, writer.rest # <<>>
    PROVE  \E m \in Messages : \E i \in 1..Size(m) :
              /\ m.n = writer.sent /\ writer.rest = Part(m, i, Size(m))
              /\ Last(writer.rest).of = m /\ writer.rest[1] = Unit(m, i)
              /\ Len(writer.rest) = Size(m) - i + 1 /\ Len(Encoding(m)) = Size(m)
<1>0. PICK m \in Messages : \E i \in 1..Size(m) :
          m.n = writer.sent /\ writer.rest = Part(m, i, Size(m))
  BY DEF TypeOK
<1>1. PICK i \in 1..Size(m) : m.n = writer.sent /\ writer.rest = Part(m, i, Size(m))
  BY <1>0
<1>2. i \in Nat /\ 1 <= i /\ i <= Size(m) /\ Size(m) \in Nat /\ i <= Size(m) + 1
      /\ 1 \in Nat /\ 1 <= Size(m) + 1
  BY MessageFacts
<1>3. /\ Len(Part(m, i, Size(m))) = Size(m) - i + 1
      /\ \A k \in 1..(Size(m) - i + 1) : Part(m, i, Size(m))[k] = Unit(m, i + k - 1)
  BY <1>2, EndPart
<1>4. Len(Part(m, 1, Size(m))) = Size(m) - 1 + 1
  BY <1>2, EndPart
<1>5. 1 \in 1..(Size(m) - i + 1) /\ Size(m) - i + 1 \in 1..(Size(m) - i + 1)
      /\ i + 1 - 1 = i /\ i + (Size(m) - i + 1) - 1 = Size(m)
  BY <1>2
<1>6. Part(m, i, Size(m))[Size(m) - i + 1] = Unit(m, Size(m))
  BY <1>3, <1>5
<1>7. Last(writer.rest).of = m
  BY <1>1, <1>3, <1>6 DEF Last, Unit
<1>8. writer.rest[1] = Unit(m, i)
  BY <1>1, <1>3, <1>5
<1>9. Len(Encoding(m)) = Size(m)
  BY <1>2, <1>4 DEF Encoding
<1>10. QED
  BY <1>1, <1>3, <1>7, <1>8, <1>9

(* A call of write() takes the next units of the message. *)
LEMMA WriteFacts ==
    ASSUME TypeOK, NEW k \in 1..Len(writer.rest), Write(k)
    PROVE  \E m \in Messages : \E i \in 1..Size(m) :
              /\ m.n = writer.sent /\ writer.rest = Part(m, i, Size(m))
              /\ writer.rest[1] = Unit(m, i)
              /\ k \in Nat /\ i + k - 1 \in i..Size(m)
              /\ Written(k) \in Seq(Units) /\ Written(k) = Part(m, i, i + k - 1)
              /\ Remaining(k) \in Seq(Units) /\ Remaining(k) = Part(m, i + k, Size(m))
              /\ Remaining(k) = <<>> <=> i + k - 1 = Size(m)
              /\ Remaining(k) # <<>> => i + k \in 1..Size(m)
                                        /\ Remaining(k)[1] = Unit(m, i + k)
              /\ wire' = wire \o Written(k)
              /\ writer' = [writer EXCEPT !.rest = Remaining(k)]
              /\ whole' = IF Remaining(k) = <<>> THEN Append(whole, m) ELSE whole
<1>1. writer.rest # <<>>
  BY DEF Write, Idle
<1>0. PICK m \in Messages : \E i \in 1..Size(m) :
              /\ m.n = writer.sent /\ writer.rest = Part(m, i, Size(m))
              /\ Last(writer.rest).of = m /\ writer.rest[1] = Unit(m, i)
              /\ Len(writer.rest) = Size(m) - i + 1 /\ Len(Encoding(m)) = Size(m)
  BY <1>1, RestFacts
<1>2. PICK i \in 1..Size(m) :
              /\ m.n = writer.sent /\ writer.rest = Part(m, i, Size(m))
              /\ Last(writer.rest).of = m /\ writer.rest[1] = Unit(m, i)
              /\ Len(writer.rest) = Size(m) - i + 1 /\ Len(Encoding(m)) = Size(m)
  BY <1>0
<1>3. i \in Nat /\ 1 <= i /\ i <= Size(m) /\ Size(m) \in Nat /\ i <= Size(m) + 1
  BY MessageFacts
<1>4. k \in Nat /\ k >= 1 /\ k <= Size(m) - i + 1 /\ k \in 0..(Size(m) - i + 1)
  BY <1>2, <1>3
<1>5. /\ SubSeq(Part(m, i, Size(m)), 1, k) = Part(m, i, i + k - 1)
      /\ SubSeq(Part(m, i, Size(m)), k + 1, Len(Part(m, i, Size(m)))) = Part(m, i + k, Size(m))
  <2>1. PICK N \in Nat : N = Size(m)
    BY <1>3
  <2>2. i <= N + 1 /\ N <= Size(m) /\ k \in 0..(N - i + 1)
    BY <1>3, <1>4, <2>1
  <2>3. /\ SubSeq(Part(m, i, N), 1, k) = Part(m, i, i + k - 1)
        /\ SubSeq(Part(m, i, N), k + 1, Len(Part(m, i, N))) = Part(m, i + k, N)
    BY <1>3, <2>2, PartCut
  <2>4. QED
    BY <2>1, <2>3
<1>6. Written(k) = Part(m, i, i + k - 1) /\ Remaining(k) = Part(m, i + k, Size(m))
  BY <1>2, <1>5 DEF Written, Remaining
<1>7. /\ i + k - 1 \in Nat /\ i + k - 1 <= Size(m) /\ i <= (i + k - 1) + 1
      /\ i + k \in Nat /\ 1 <= i + k /\ i + k <= Size(m) + 1 /\ i + k - 1 \in i..Size(m)
  BY <1>3, <1>4
<1>8. Written(k) \in Seq(Units)
  BY <1>3, <1>6, <1>7, PartFacts
<1>9. /\ Remaining(k) \in Seq(Units) /\ Len(Remaining(k)) = Size(m) - (i + k) + 1
      /\ \A l \in 1..(Size(m) - (i + k) + 1) : Remaining(k)[l] = Unit(m, (i + k) + l - 1)
  <2>1. PICK a \in Nat : a = i + k
    BY <1>7
  <2>2. 1 <= a /\ a <= Size(m) + 1
    BY <1>7, <2>1
  <2>3. /\ Part(m, a, Size(m)) \in Seq(Units)
        /\ Len(Part(m, a, Size(m))) = Size(m) - a + 1
        /\ \A l \in 1..(Size(m) - a + 1) : Part(m, a, Size(m))[l] = Unit(m, a + l - 1)
    BY <2>2, EndPart
  <2>4. QED
    BY <1>6, <2>1, <2>3
<1>10. Remaining(k) = <<>> <=> i + k - 1 = Size(m)
  <2>1. Remaining(k) = <<>> <=> Len(Remaining(k)) = 0
    BY <1>9, EmptySeq
  <2>2. QED
    BY <1>3, <1>4, <1>9, <2>1
<1>11. ASSUME Remaining(k) # <<>>
       PROVE  i + k \in 1..Size(m) /\ Remaining(k)[1] = Unit(m, i + k)
  <2>1. i + k - 1 # Size(m)
    BY <1>10, <1>11
  <2>2. i + k \in Nat /\ i + k >= 1 /\ i + k <= Size(m)
    BY <1>3, <1>4, <1>7, <2>1
  <2>3. i + k \in 1..Size(m) /\ 1 \in 1..(Size(m) - (i + k) + 1) /\ (i + k) + 1 - 1 = i + k
    BY <1>3, <2>2
  <2>4. QED
    BY <1>9, <2>3
<1>12. /\ wire' = wire \o Written(k)
       /\ writer' = [writer EXCEPT !.rest = Remaining(k)]
       /\ whole' = IF Remaining(k) = <<>> THEN Append(whole, m) ELSE whole
  BY <1>2 DEF Write
<1>13. QED
  BY <1>2, <1>4, <1>6, <1>7, <1>8, <1>9, <1>10, <1>11, <1>12

(* A call of read() takes the next units of the wire. *)
LEMMA ReadFacts ==
    ASSUME TypeOK, NEW k \in 1..MaxBody, ReadBody(k)
    PROVE  /\ k \in 1..Len(wire) /\ k \in Nat /\ k >= 1
           /\ reader.pc = "body" /\ Len(reader.body) + k <= reader.length
           /\ wire' = SubSeq(wire, k + 1, Len(wire)) /\ wire' \in Seq(Units)
           /\ \E p \in Seq(Units) :
                 /\ Len(p) = k /\ \A i \in 1..k : p[i] = wire[i]
                 /\ reader.body \o p \in Seq(Units)
                 /\ Len(reader.body \o p) = Len(reader.body) + k
                 /\ Len(reader.body) \in Nat /\ reader.length \in Nat
                 /\ reader' = [reader EXCEPT !.body = reader.body \o p]
<1>1. wire \in Seq(Units) /\ reader.body \in Seq(Units) /\ reader.length \in Nat
  <2>1. wire \in Seq(Units) /\ reader.body \in Seq(Units)
        /\ reader.length \in Lengths \cup {0}
    BY DEF TypeOK
  <2>2. Lengths \cup {0} \subseteq Nat
    BY StreamConstants
  <2>3. QED
    BY <2>1, <2>2
<1>2. Len(wire) \in Nat /\ Len(reader.body) \in Nat /\ MaxBody \in Nat
      /\ \A i \in 1..Len(wire) : wire[i] \in Units
  BY <1>1, LenProperties, ElementOfSeq, StreamConstants
<1>3. /\ reader.pc = "body" /\ k <= Len(wire) /\ k <= reader.length - Len(reader.body)
      /\ reader' = [reader EXCEPT !.body = reader.body \o SubSeq(wire, 1, k)]
      /\ wire' = SubSeq(wire, k + 1, Len(wire))
  BY DEF ReadBody, Reads, Wanted, Missing
<1>4. k \in 1..Len(wire) /\ k \in 0..Len(wire) /\ k \in Nat /\ k >= 1
      /\ Len(reader.body) + k <= reader.length
  BY <1>1, <1>2, <1>3
<1>5. wire' \in Seq(Units)
  BY <1>1, <1>3, <1>4, DropFacts
<1> DEFINE p == SubSeq(wire, 1, k)
<1>6. p \in Seq(Units) /\ Len(p) = k /\ \A i \in 1..k : p[i] = wire[i]
  <2>1. \A i \in 1..k : i \in 1..Len(wire) /\ wire[i] \in Units
    BY <1>2, <1>4
  <2>2. /\ p \in Seq(Units) /\ Len(p) = IF 1 <= k THEN k - 1 + 1 ELSE 0
        /\ \A i \in 1..(k - 1 + 1) : p[i] = wire[1 + i - 1]
    BY <1>4, <2>1, SubSeqProperties
  <2> HIDE DEF p
  <2>3. QED
    BY <1>4, <2>2
<1>7. reader' = [reader EXCEPT !.body = reader.body \o p]
  BY <1>3
<1> HIDE DEF p
<1>8. reader.body \o p \in Seq(Units) /\ Len(reader.body \o p) = Len(reader.body) + k
  BY <1>1, <1>6, ConcatProperties
<1>9. QED
  BY <1>1, <1>2, <1>3, <1>4, <1>5, <1>6, <1>7, <1>8


(* The initial state has its types. *)
LEMMA InitTypes == Init => TypeInv
<1> SUFFICES ASSUME Init PROVE TypeInv
  OBVIOUS
<1> DEFINE none == <<>>
<1>1. none \in Seq(Units) /\ none \in Seq(Messages) /\ Len(none) = 0
  BY EmptySeq
<1>2. /\ writer = [rest |-> none, sent |-> 0, open |-> TRUE]
      /\ wire = none /\ eof = FALSE
      /\ reader = [pc |-> "line", line |-> none, length |-> 0, body |-> none]
      /\ whole = none /\ got = none /\ torn = FALSE /\ lost = FALSE
  BY DEF Init, NewValue
<1>3. writer.rest = <<>> /\ reader.body = <<>> /\ reader.length = 0
  BY <1>2
<1> HIDE DEF none
<1>4. writer \in [rest : Seq(Units), sent : 0..MaxSend, open : BOOLEAN]
  BY <1>1, <1>2, StreamConstants
<1>5. reader \in [pc : {"line", "body", "ended", "error"}, line : Seq(Units),
                  length : Lengths \cup {0}, body : Seq(Units)]
  BY <1>1, <1>2
<1>6. Len(reader.body) <= reader.length
  BY <1>1, <1>2
<1>7. QED
  BY <1>1, <1>2, <1>3, <1>4, <1>5, <1>6 DEF TypeInv, TypeOK

(* The writer's steps keep the types, ... *)
LEMMA WriterTypes ==
    ASSUME TypeInv, WriteJsons \/ Writes \/ WriteFails \/ CloseWriter \/ WriterDies \/ Reset
    PROVE  TypeInv'
<1> USE DEF TypeInv
<1>1. <<>> \in Seq(Units)
  BY EmptySeq
<1>2. ASSUME NEW length \in Lengths, WriteJson(length) PROVE TypeInv'
  <2> DEFINE m == [n |-> writer.sent + 1, length |-> length]
  <2>1. m \in Messages /\ m.n = writer.sent + 1 /\ m.n \in 0..MaxSend
    BY <1>2, StreamConstants DEF WriteJson, TypeOK, Messages
  <2>2. writer' = [writer EXCEPT !.rest = Encoding(m), !.sent = m.n]
    BY <1>2 DEF WriteJson
  <2> HIDE DEF m
  <2>3. 1 \in Nat /\ 1 <= Size(m) + 1 /\ 1 \in 1..Size(m)
    BY <2>1, MessageFacts
  <2>4. Encoding(m) \in Seq(Units)
    BY <2>1, <2>3, EndPart DEF Encoding
  <2>5. /\ writer' \in [rest : Seq(Units), sent : 0..MaxSend, open : BOOLEAN]
        /\ writer'.rest = Encoding(m) /\ writer'.sent = m.n
    BY <2>1, <2>2, <2>4 DEF TypeOK
  <2>6. \E i \in 1..Size(m) : m.n = writer'.sent /\ writer'.rest = Part(m, i, Size(m))
    BY <2>3, <2>5 DEF Encoding
  <2>7. QED
    BY <1>2, <2>1, <2>5, <2>6 DEF WriteJson, TypeOK
<1>3. ASSUME NEW k \in 1..Len(writer.rest), Write(k) PROVE TypeInv'
  <2>0. PICK m \in Messages : \E i \in 1..Size(m) :
              /\ m.n = writer.sent
              /\ Written(k) \in Seq(Units)
              /\ Remaining(k) \in Seq(Units) /\ Remaining(k) = Part(m, i + k, Size(m))
              /\ Remaining(k) # <<>> => i + k \in 1..Size(m)
              /\ wire' = wire \o Written(k)
              /\ writer' = [writer EXCEPT !.rest = Remaining(k)]
              /\ whole' = IF Remaining(k) = <<>> THEN Append(whole, m) ELSE whole
    BY <1>3, WriteFacts
  <2>1. PICK i \in 1..Size(m) :
              /\ m.n = writer.sent
              /\ Written(k) \in Seq(Units)
              /\ Remaining(k) \in Seq(Units) /\ Remaining(k) = Part(m, i + k, Size(m))
              /\ Remaining(k) # <<>> => i + k \in 1..Size(m)
              /\ wire' = wire \o Written(k)
              /\ writer' = [writer EXCEPT !.rest = Remaining(k)]
              /\ whole' = IF Remaining(k) = <<>> THEN Append(whole, m) ELSE whole
    BY <2>0
  <2>2. wire' \in Seq(Units)
    BY <2>1, ConcatProperties DEF TypeOK
  <2>3. whole' \in Seq(Messages)
    BY <2>1, AppendProperties DEF TypeOK
  <2>4. /\ writer' \in [rest : Seq(Units), sent : 0..MaxSend, open : BOOLEAN]
        /\ writer'.rest = Remaining(k) /\ writer'.sent = writer.sent
    BY <2>1 DEF TypeOK
  <2>5. writer'.rest # <<>> =>
          \E n \in Messages : \E j \in 1..Size(n) :
             n.n = writer'.sent /\ writer'.rest = Part(n, j, Size(n))
    BY <2>1, <2>4
  <2>6. QED
    BY <1>3, <2>2, <2>3, <2>4, <2>5 DEF Write, TypeOK
<1>4. CASE WriteFails
  <2>1. /\ writer' \in [rest : Seq(Units), sent : 0..MaxSend, open : BOOLEAN]
        /\ writer'.rest = <<>>
    BY <1>1, <1>4 DEF WriteFails, TypeOK
  <2>2. torn' \in BOOLEAN
    BY <1>4 DEF WriteFails, TypeOK
  <2>3. QED
    BY <1>4, <2>1, <2>2 DEF WriteFails, TypeOK
<1>5. CASE CloseWriter
  <2>1. /\ writer' \in [rest : Seq(Units), sent : 0..MaxSend, open : BOOLEAN]
        /\ writer'.rest = <<>>
    BY <1>1, <1>5 DEF CloseWriter, Idle, TypeOK
  <2>2. QED
    BY <1>5, <2>1 DEF CloseWriter, TypeOK
<1>6. CASE WriterDies
  <2>1. /\ writer' \in [rest : Seq(Units), sent : 0..MaxSend, open : BOOLEAN]
        /\ writer'.rest = <<>>
    BY <1>1, <1>6 DEF WriterDies, TypeOK
  <2>2. QED
    BY <1>6, <2>1 DEF WriterDies, TypeOK
<1>7. CASE Reset
  BY <1>1, <1>7 DEF Reset, TypeOK
<1>8. QED
  BY <1>2, <1>3, <1>4, <1>5, <1>6, <1>7 DEF WriteJsons, Writes

(* ... and so do the reader's. *)
LEMMA ReaderTypes ==
    ASSUME TypeInv, Read \/ CloseReader
    PROVE  TypeInv'
<1> USE DEF TypeInv
<1> DEFINE none == <<>>
           States == [pc : {"line", "body", "ended", "error"}, line : Seq(Units),
                      length : Lengths \cup {0}, body : Seq(Units)]
<1>1. none \in Seq(Units) /\ Len(none) = 0
  BY EmptySeq
<1>2. reader \in States /\ Len(reader.body) <= reader.length
  BY DEF TypeOK
<1>3. CASE ReadHeader
  <2>1. PICK u \in Units : u = Head(wire)
    BY <1>3, HeadTailProperties DEF ReadHeader, TypeOK
  <2>2. wire' \in Seq(Units)
    BY <1>3, HeadTailProperties DEF ReadHeader, TypeOK
  <2>3. reader.pc = "line" /\ reader.body = none
    BY <1>3 DEF ReadHeader, Reads
  <2>4. PICK line \in Seq(Units) : line = Append(reader.line, u)
    BY <1>2, AppendProperties
  <2>5. PICK length : length = HeaderValue(reader.line)
    OBVIOUS
  <2>6. length \in Lengths \cup {0}
    <3>1. CASE Len(reader.line) = 1 /\ IsText(reader.line[1])
      <4>1. 1 \in 1..Len(reader.line) /\ reader.line \in Seq(Units)
        BY <1>2, <3>1
      <4>2. reader.line[1] \in Units
        BY <4>1, ElementOfSeq
      <4>3. reader.line[1].of.length \in Lengths
        BY <4>2, UnitFacts, MessageFacts
      <4>4. QED
        BY <2>5, <3>1, <4>3 DEF HeaderValue
    <3>2. CASE ~(Len(reader.line) = 1 /\ IsText(reader.line[1]))
      BY <2>5, <3>2 DEF HeaderValue
    <3>3. QED
      BY <3>1, <3>2
  <2>7. \/ reader' = [reader EXCEPT !.line = line]
        \/ reader' = [reader EXCEPT !.line = none, !.length = length]
        \/ reader' = [reader EXCEPT !.pc = "body"]
        \/ reader' = [reader EXCEPT !.pc = "error"]
    BY <1>3, <2>1, <2>4, <2>5 DEF ReadHeader
  <2> HIDE DEF none
  <2>8. 0 <= length /\ length \in Nat
    BY <2>6, StreamConstants
  <2>9. reader' \in States /\ reader'.body = none
    BY <1>1, <1>2, <2>3, <2>6, <2>7
  <2>10. Len(reader'.body) <= reader'.length
    <3>1. reader'.length \in {reader.length, length}
      BY <1>2, <2>7
    <3>2. QED
      BY <1>1, <1>2, <2>3, <2>8, <2>9, <3>1
  <2>11. reader'.body = <<>>
    BY <2>9 DEF none
  <2>12. QED
    BY <1>3, <2>2, <2>9, <2>10, <2>11 DEF ReadHeader, TypeOK
<1>4. CASE ReadEnd
  <2>1. reader' = [reader EXCEPT !.pc = "ended"]
    BY <1>4 DEF ReadEnd
  <2>2. reader' \in States /\ reader'.body = reader.body /\ reader'.length = reader.length
        /\ reader'.pc = "ended"
    BY <1>2, <2>1
  <2>3. QED
    BY <1>2, <1>4, <2>2 DEF ReadEnd, TypeOK
<1>5. ASSUME NEW k \in 1..MaxBody, ReadBody(k) PROVE TypeInv'
  <2>1. /\ reader.pc = "body" /\ Len(reader.body) + k <= reader.length
        /\ wire' \in Seq(Units)
    BY <1>5, ReadFacts
  <2>2. PICK p \in Seq(Units) :
                 /\ reader.body \o p \in Seq(Units)
                 /\ Len(reader.body \o p) = Len(reader.body) + k
                 /\ reader' = [reader EXCEPT !.body = reader.body \o p]
    BY <1>5, ReadFacts
  <2>3. PICK b \in Seq(Units) : b = reader.body \o p
    BY <2>2
  <2>4. reader' = [reader EXCEPT !.body = b] /\ Len(b) = Len(reader.body) + k
    BY <2>2, <2>3
  <2>5. reader' \in States /\ reader'.body = b /\ reader'.length = reader.length
        /\ reader'.pc = "body"
    BY <1>2, <2>1, <2>4
  <2>6. Len(reader'.body) <= reader'.length
    BY <2>1, <2>4, <2>5
  <2>7. QED
    BY <1>5, <2>1, <2>5, <2>6 DEF ReadBody, TypeOK
<1>6. CASE DecodeBody
  <2>1. CASE \E m \in Messages : got' = Append(got, m) /\ reader' = NewValue
    <3>1. got' \in Seq(Messages)
      BY <2>1, AppendProperties DEF TypeOK
    <3>2. reader' = [pc |-> "line", line |-> none, length |-> 0, body |-> none]
      BY <2>1 DEF NewValue
    <3> HIDE DEF none
    <3>3. reader' \in States /\ reader'.body = none /\ reader'.length = 0
      BY <1>1, <3>2
    <3>4. reader'.body = <<>> /\ Len(reader'.body) <= reader'.length
      BY <1>1, <3>3 DEF none
    <3>5. QED
      BY <1>6, <3>1, <3>3, <3>4 DEF DecodeBody, TypeOK
  <2>2. CASE got' = got /\ reader' = [reader EXCEPT !.pc = "error"]
    <3>1. reader' \in States /\ reader'.body = reader.body /\ reader'.length = reader.length
          /\ reader'.pc = "error"
      BY <1>2, <2>2
    <3>2. QED
      BY <1>2, <1>6, <2>2, <3>1 DEF DecodeBody, TypeOK
  <2>3. QED
    BY <1>6, <2>1, <2>2 DEF DecodeBody
<1>7. CASE CloseReader
  <2>1. reader' = [reader EXCEPT !.pc = "ended"]
    BY <1>7 DEF CloseReader
  <2>2. reader' \in States /\ reader'.body = reader.body /\ reader'.length = reader.length
        /\ reader'.pc = "ended"
    BY <1>2, <2>1
  <2>3. QED
    BY <1>2, <1>7, <2>2 DEF CloseReader, TypeOK
<1>8. QED
  BY <1>3, <1>4, <1>5, <1>6, <1>7 DEF Read

(* Every step keeps the types. *)
LEMMA NextTypes == TypeInv /\ [Next]_vars => TypeInv'
<1>1. TypeInv /\ UNCHANGED vars => TypeInv'
  BY DEF TypeInv, TypeOK, vars
<1>2. TypeInv /\ Next => TypeInv'
  BY WriterTypes, ReaderTypes DEF Next
<1>3. QED
  BY <1>1, <1>2

(* The state has its types, whatever is written, read, cut or lost.        *)
THEOREM TypeCorrect == Spec => []TypeOK
<1>1. Spec => []TypeInv
  BY InitTypes, NextTypes, PTL DEF Spec
<1>2. TypeInv => TypeOK
  BY DEF TypeInv
<1>3. QED
  BY <1>1, <1>2, PTL


-----------------------------------------------------------------------------
(* The writer's steps.                                                     *)

(* What the reader has read stays what it has read if a write is torn, too.*)
LEMMA SameReader ==
    ASSUME reader' = reader, torn => torn'
    PROVE  /\ \A u : HasRead(u) => HasRead(u)'
           /\ Swallows => Swallows'
           /\ Over' <=> Over
BY DEF HasRead, InLine, AfterLine, InBody, Between, Swallows, Over

(* What is true at the beginning. *)
LEMMA InitInv == Init => IInv
<1> SUFFICES ASSUME Init PROVE IInv
  OBVIOUS
<1> DEFINE none == <<>>
<1>1. none \in Seq(Units) /\ none \in Seq(Messages) /\ Len(none) = 0
  BY EmptySeq
<1>2. /\ writer = [rest |-> none, sent |-> 0, open |-> TRUE]
      /\ wire = none /\ eof = FALSE /\ reader = NewValue
      /\ whole = none /\ got = none /\ torn = FALSE /\ lost = FALSE
  BY DEF Init
<1>3. reader.pc = "line" /\ writer.rest = none /\ writer.sent = 0 /\ writer.open = TRUE
  BY <1>2 DEF NewValue
<1> HIDE DEF none
<1>4. \A i : i \notin 1..Len(none) /\ i \notin (0 + 1)..Len(none)
  BY <1>1
<1>5. Reading(Start)
  <2>1. HasRead(Start)
    BY <1>2, StartFacts DEF HasRead, Between
  <2>2. Chain(torn, wire, Start)
    BY <1>2, <1>4 DEF Chain
  <2>3. LastOf(wire, Start) = Start
    BY <1>1, <1>2 DEF LastOf, Before
  <2>4. WriterOrder(Start)
    <3>1. writer.rest = <<>>
      BY <1>3 DEF none
    <3>2. QED
      BY <1>3, <2>3, <3>1, StartFacts DEF WriterOrder
  <2>5. Ending(wire, Start, reader.pc = "body") = {}
    BY <1>2, <1>3, <1>4 DEF Ending
  <2>6. After(whole, Len(got)) = {}
    BY <1>1, <1>2, <1>4 DEF After
  <2>7. QED
    BY <2>1, <2>2, <2>4, <2>5, <2>6 DEF Reading
<1>6. StreamInv
  <2>1. Start \in Placed
    BY DEF Placed
  <2>2. QED
    BY <1>5, <2>1 DEF StreamInv
<1>7. BodyInv /\ ErrorHasCause
  BY <1>3 DEF BodyInv, ErrorHasCause
<1>8. WholeInv
  BY <1>1, <1>2, <1>4 DEF WholeInv
<1>9. EndInv
  BY <1>2, <1>3 DEF EndInv
<1>10. QED
  BY <1>6, <1>7, <1>8, <1>9, InitTypes DEF IInv

(* A new message follows the last, which is at its end or was torn. *)
LEMMA WriteJsonKeeps ==
    ASSUME IInv, NEW length \in Lengths, WriteJson(length)
    PROVE  StreamInv' /\ BodyInv' /\ WholeInv' /\ EndInv' /\ ErrorHasCause'
<1> DEFINE m == [n |-> writer.sent + 1, length |-> length]
<1>1. writer.sent \in Nat /\ writer.rest = <<>> /\ writer.open /\ writer.sent < MaxSend
  BY StreamConstants DEF IInv, TypeInv, TypeOK, WriteJson, Idle
<1>2. m \in Messages /\ m.n = writer.sent + 1
  BY <1>1, StreamConstants DEF Messages
<1>3. /\ writer'.rest = Encoding(m) /\ writer'.sent = m.n /\ writer'.open = writer.open
      /\ UNCHANGED <<wire, eof, reader, whole, got, torn, lost>>
  BY DEF WriteJson, IInv, TypeInv, TypeOK
<1> HIDE DEF m
<1>4. 1 \in Nat /\ 1 <= Size(m) + 1 /\ 1 \in 1..(Size(m) - 1 + 1) /\ 1 + 1 - 1 = 1
  BY <1>2, MessageFacts
<1>5. Encoding(m)[1] = Unit(m, 1)
  BY <1>2, <1>4, EndPart DEF Encoding
<1>6. Unit(m, 1).of = m /\ Unit(m, 1).at = 1
  BY DEF Unit
<1>7. StreamInv'
  <2> SUFFICES ASSUME ~lost', ~Over', ~(reader'.pc = "body" /\ Swallows')
               PROVE  \E u \in Placed : Reading(u)'
    BY DEF StreamInv
  <2>1. PICK u \in Placed : Reading(u)
    BY <1>3, SameReader DEF IInv, StreamInv
  <2>2. wire \in Seq(Units) /\ Chain(torn, wire, u) /\ WriterOrder(u)
    BY <2>1 DEF Reading, IInv, TypeInv, TypeOK
  <2>3. LastOf(wire, u).of.n \in Nat
    BY <2>2, LastBound
  <2>4. LastOf(wire, u).of.n <= writer.sent /\ (IsEnd(LastOf(wire, u)) \/ torn)
    BY <1>1, <2>2 DEF WriterOrder
  <2>5. LastOf(wire, u).of.n < m.n /\ LastOf(wire, u).of.n <= m.n
    BY <1>1, <1>2, <2>3, <2>4
  <2>6. Follows(torn, LastOf(wire, u), Encoding(m)[1])
    BY <1>5, <1>6, <2>4, <2>5 DEF Follows
  <2>7. writer'.rest # <<>>
    <3>1. Len(Encoding(m)) = Size(m) - 1 + 1
      BY <1>2, <1>4, EndPart DEF Encoding
    <3>2. Len(Encoding(m)) # 0
      BY <1>2, <3>1, MessageFacts
    <3>3. QED
      BY <1>3, <3>2, EmptySeq
  <2>8. WriterOrder(u)'
    BY <1>3, <2>5, <2>6, <2>7 DEF WriterOrder
  <2>9. HasRead(u)'
    BY <1>3, <2>1, SameReader DEF Reading
  <2>10. QED
    BY <1>3, <2>1, <2>2, <2>8, <2>9 DEF Reading
<1>8. WholeInv'
  <2>1. \A i \in 1..Len(whole) : whole[i].n <= writer.sent /\ whole[i].n \in Nat
    BY ElementOfSeq, MessageFacts DEF IInv, WholeInv, TypeInv, TypeOK
  <2>2. \A i \in 1..Len(whole) : whole[i].n <= m.n /\ whole[i].n < m.n
    BY <1>1, <1>2, <2>1
  <2>3. QED
    BY <1>3, <2>2 DEF IInv, WholeInv
<1>9. BodyInv' /\ ErrorHasCause'
  BY <1>3 DEF IInv, BodyInv, ErrorHasCause
<1>10. EndInv'
  BY <1>1, <1>3, SameReader DEF IInv, EndInv
<1>11. QED
  BY <1>7, <1>8, <1>9, <1>10

(* What is written goes from the writer to the wire. *)
LEMMA WriteKeeps ==
    ASSUME IInv, NEW k \in 1..Len(writer.rest), Write(k)
    PROVE  StreamInv' /\ BodyInv' /\ WholeInv' /\ EndInv' /\ ErrorHasCause'
<1>1. PICK m \in Messages : \E i \in 1..Size(m) :
              /\ m.n = writer.sent
              /\ writer.rest[1] = Unit(m, i)
              /\ i + k - 1 \in i..Size(m)
              /\ Written(k) \in Seq(Units) /\ Written(k) = Part(m, i, i + k - 1)
              /\ Remaining(k) = <<>> <=> i + k - 1 = Size(m)
              /\ Remaining(k) # <<>> => i + k \in 1..Size(m)
                                        /\ Remaining(k)[1] = Unit(m, i + k)
              /\ wire' = wire \o Written(k)
              /\ writer' = [writer EXCEPT !.rest = Remaining(k)]
              /\ whole' = IF Remaining(k) = <<>> THEN Append(whole, m) ELSE whole
  BY WriteFacts DEF IInv, TypeInv
<1>2. PICK i \in 1..Size(m) :
              /\ m.n = writer.sent
              /\ writer.rest[1] = Unit(m, i)
              /\ i + k - 1 \in i..Size(m)
              /\ Written(k) \in Seq(Units) /\ Written(k) = Part(m, i, i + k - 1)
              /\ Remaining(k) = <<>> <=> i + k - 1 = Size(m)
              /\ Remaining(k) # <<>> => i + k \in 1..Size(m)
                                        /\ Remaining(k)[1] = Unit(m, i + k)
              /\ wire' = wire \o Written(k)
              /\ writer' = [writer EXCEPT !.rest = Remaining(k)]
              /\ whole' = IF Remaining(k) = <<>> THEN Append(whole, m) ELSE whole
  BY <1>1
<1>3. PICK z \in i..Size(m) : z = i + k - 1
  BY <1>2
<1>4. PICK p \in Seq(Units) : p = Written(k)
  BY <1>2
<1>5. /\ p = Part(m, i, z) /\ wire' = wire \o p
      /\ writer.rest # <<>> /\ ~eof
      /\ writer'.rest = Remaining(k) /\ writer'.sent = m.n /\ writer'.open = writer.open
      /\ UNCHANGED <<eof, reader, got, torn, lost>>
  BY <1>2, <1>3, <1>4 DEF Write, Idle, IInv, TypeInv, TypeOK
<1>6. /\ wire \in Seq(Units) /\ whole \in Seq(Messages) /\ got \in Seq(Messages)
      /\ Len(whole) \in Nat /\ Len(got) \in Nat /\ Len(got) \in 0..Len(whole)
      /\ \A j \in 1..Len(whole) : whole[j] \in Messages /\ whole[j].n \in Nat
  <2>1. wire \in Seq(Units) /\ whole \in Seq(Messages) /\ got \in Seq(Messages)
        /\ Len(got) <= Len(whole)
    BY DEF IInv, TypeInv, TypeOK, WholeInv
  <2>2. Len(whole) \in Nat /\ Len(got) \in Nat
    BY <2>1, LenProperties
  <2>3. QED
    BY <2>1, <2>2, ElementOfSeq, MessageFacts
<1>7. CASE Remaining(k) # <<>>
  <2>1. whole' = whole /\ z # Size(m) /\ writer'.rest # <<>> /\ writer'.rest[1] = Unit(m, i + k)
    BY <1>2, <1>3, <1>5, <1>7
  <2>2. StreamInv'
    <3> SUFFICES ASSUME ~lost', ~Over', ~(reader'.pc = "body" /\ Swallows')
                 PROVE  \E u \in Placed : Reading(u)'
      BY DEF StreamInv
    <3>1. PICK u \in Placed : Reading(u)
      BY <1>5, SameReader DEF IInv, StreamInv
    <3>2. /\ Chain(torn, wire, u) /\ Follows(torn, LastOf(wire, u), Unit(m, i))
          /\ LastOf(wire, u).of.n <= m.n
          /\ Ending(wire, u, reader.pc = "body") = After(whole, Len(got))
      BY <1>2, <1>5, <3>1 DEF Reading, WriterOrder
    <3>3. Chain(torn, wire \o p, u) /\ LastOf(wire \o p, u) = Unit(m, z)
      BY <1>5, <1>6, <3>2, ChainJoin
    <3>4. Ending(wire \o p, u, reader.pc = "body") = After(whole, Len(got))
      <4>1. PICK b \in BOOLEAN : b = (reader.pc = "body")
        OBVIOUS
      <4>2. Ending(wire \o p, u, b)
               = Ending(wire, u, b) \cup (IF z = Size(m) THEN {m} ELSE {})
        BY <1>5, <1>6, EndingJoin
      <4>3. Ending(wire \o p, u, b) = Ending(wire, u, b)
        BY <2>1, <4>2
      <4>4. QED
        BY <3>2, <4>1, <4>3
    <3>5. WriterOrder(u)'
      <4>1. Unit(m, z).of = m /\ Unit(m, z).at = z /\ i + k = z + 1
        <5>1. z = i + k - 1 /\ i \in Nat /\ k \in Nat
          BY <1>3, MessageFacts
        <5>2. QED
          BY <5>1 DEF Unit
      <4>2. Follows(torn, Unit(m, z), Unit(m, i + k))
        BY <4>1 DEF Follows
      <4>3. m.n <= m.n
        BY MessageFacts
      <4>4. QED
        BY <1>5, <2>1, <3>3, <4>1, <4>2, <4>3 DEF WriterOrder
    <3>6. HasRead(u)'
      BY <1>5, <3>1, SameReader DEF Reading
    <3>7. QED
      BY <1>5, <2>1, <3>3, <3>4, <3>5, <3>6 DEF Reading
  <2>3. WholeInv'
    BY <1>2, <1>5, <2>1 DEF IInv, WholeInv
  <2>4. BodyInv' /\ ErrorHasCause'
    BY <1>5, <2>1 DEF IInv, BodyInv, ErrorHasCause
  <2>5. EndInv'
    BY <1>5, <2>1, SameReader DEF IInv, EndInv
  <2>6. QED
    BY <2>2, <2>3, <2>4, <2>5
<1>8. CASE Remaining(k) = <<>>
  <2>1. whole' = Append(whole, m) /\ z = Size(m) /\ writer'.rest = <<>>
    BY <1>2, <1>3, <1>5, <1>8
  <2>2. /\ Len(whole') = Len(whole) + 1 /\ whole'[Len(whole) + 1] = m
        /\ \A j \in 1..Len(whole) : whole'[j] = whole[j]
    BY <1>6, <2>1, AppendProperties
  <2>3. StreamInv'
    <3> SUFFICES ASSUME ~lost', ~Over', ~(reader'.pc = "body" /\ Swallows')
                 PROVE  \E u \in Placed : Reading(u)'
      BY DEF StreamInv
    <3>1. PICK u \in Placed : Reading(u)
      BY <1>5, SameReader DEF IInv, StreamInv
    <3>2. /\ Chain(torn, wire, u) /\ Follows(torn, LastOf(wire, u), Unit(m, i))
          /\ LastOf(wire, u).of.n <= m.n
          /\ Ending(wire, u, reader.pc = "body") = After(whole, Len(got))
      BY <1>2, <1>5, <3>1 DEF Reading, WriterOrder
    <3>3. Chain(torn, wire \o p, u) /\ LastOf(wire \o p, u) = Unit(m, z)
      BY <1>5, <1>6, <3>2, ChainJoin
    <3>4. Ending(wire \o p, u, reader.pc = "body") = After(whole, Len(got)) \cup {m}
      <4>1. PICK b \in BOOLEAN : b = (reader.pc = "body")
        OBVIOUS
      <4>2. Ending(wire \o p, u, b)
               = Ending(wire, u, b) \cup (IF z = Size(m) THEN {m} ELSE {})
        BY <1>5, <1>6, EndingJoin
      <4>3. Ending(wire \o p, u, b) = Ending(wire, u, b) \cup {m}
        BY <2>1, <4>2
      <4>4. QED
        BY <3>2, <4>1, <4>3
    <3>5. After(whole', Len(got)) = After(whole, Len(got)) \cup {m}
      BY <1>6, <2>1, AfterFacts
    <3>6. WriterOrder(u)'
      <4>1. IsEnd(Unit(m, z)) /\ Unit(m, z).of = m
        BY <2>1 DEF IsEnd, Unit
      <4>2. m.n <= m.n
        BY MessageFacts
      <4>3. QED
        BY <1>5, <2>1, <3>3, <4>1, <4>2 DEF WriterOrder
    <3>7. HasRead(u)'
      BY <1>5, <3>1, SameReader DEF Reading
    <3>8. QED
      BY <1>5, <3>3, <3>4, <3>5, <3>6, <3>7 DEF Reading
  <2>4. WholeInv'
    <3>1. \A j \in 1..Len(whole) : whole[j].n < m.n
      BY <1>2, <1>5 DEF IInv, WholeInv
    <3>2. \A j \in 1..Len(whole') : j \in 1..Len(whole) \/ j = Len(whole) + 1
      BY <1>6, <2>2
    <3>3. m.n \in Nat
      BY MessageFacts
    <3>4. \A j \in 1..Len(whole') : whole'[j].n <= m.n
      BY <1>6, <2>2, <3>1, <3>2, <3>3, SMTT(60)
    <3>5. \A j, l \in 1..Len(whole') : j < l => whole'[j].n < whole'[l].n
      <4> SUFFICES ASSUME NEW j \in 1..Len(whole'), NEW l \in 1..Len(whole'), j < l
                   PROVE  whole'[j].n < whole'[l].n
        OBVIOUS
      <4>1. j \in 1..Len(whole)
        BY <1>6, <2>2
      <4>2. CASE l \in 1..Len(whole)
        BY <2>2, <4>1, <4>2 DEF IInv, WholeInv
      <4>3. CASE l = Len(whole) + 1
        BY <2>2, <3>1, <4>1, <4>3
      <4>4. QED
        BY <3>2, <4>2, <4>3
    <3>6. \A j \in 1..Len(got) : got[j] = whole'[j]
      <4>1. \A j \in 1..Len(got) : j \in 1..Len(whole)
        BY <1>6
      <4>2. QED
        BY <2>2, <4>1 DEF IInv, WholeInv
    <3>7. Len(got) <= Len(whole')
      BY <1>6, <2>2
    <3>8. QED
      BY <1>5, <2>1, <3>4, <3>5, <3>6, <3>7 DEF WholeInv
  <2>5. BodyInv'
    <3>1. Len(got) < Len(whole) => Len(got) < Len(whole') /\ Len(got) + 1 \in 1..Len(whole)
      BY <1>6, <2>2
    <3>2. QED
      BY <1>5, <2>2, <3>1 DEF IInv, BodyInv
  <2>6. ErrorHasCause'
    BY <1>5 DEF IInv, ErrorHasCause
  <2>7. EndInv'
    BY <1>5, SameReader DEF IInv, EndInv
  <2>8. QED
    BY <2>3, <2>4, <2>5, <2>6, <2>7
<1>9. QED
  BY <1>7, <1>8

(* A write that fails leaves nothing to write, and a torn message or none. *)
LEMMA WriteFailsKeeps ==
    ASSUME IInv, WriteFails
    PROVE  StreamInv' /\ BodyInv' /\ WholeInv' /\ EndInv' /\ ErrorHasCause'
<1>1. writer.rest # <<>> /\ TypeOK
  BY DEF WriteFails, Idle, IInv, TypeInv
<1>2. PICK m \in Messages : \E i \in 1..Size(m) :
          /\ Last(writer.rest).of = m /\ writer.rest[1] = Unit(m, i)
          /\ Len(writer.rest) = Size(m) - i + 1 /\ Len(Encoding(m)) = Size(m)
  BY <1>1, RestFacts
<1>3. PICK i \in 1..Size(m) :
          /\ Last(writer.rest).of = m /\ writer.rest[1] = Unit(m, i)
          /\ Len(writer.rest) = Size(m) - i + 1 /\ Len(Encoding(m)) = Size(m)
  BY <1>2
<1>4. /\ torn' = (torn \/ Len(writer.rest) < Len(Encoding(Last(writer.rest).of)))
      /\ writer'.rest = <<>> /\ writer'.sent = writer.sent /\ writer'.open = writer.open
      /\ UNCHANGED <<wire, eof, reader, whole, got, lost>>
  BY <1>1 DEF WriteFails, TypeOK
<1>5. Len(writer.rest) < Len(Encoding(Last(writer.rest).of)) \/ i = 1
  <2>1. Size(m) \in Nat /\ i \in Nat /\ i >= 1
    BY MessageFacts
  <2>2. QED
    BY <1>3, <2>1
<1>6. (torn => torn') /\ (torn' \/ i = 1)
  BY <1>4, <1>5
<1>7. StreamInv'
  <2> SUFFICES ASSUME ~lost', ~Over', ~(reader'.pc = "body" /\ Swallows')
               PROVE  \E u \in Placed : Reading(u)'
    BY DEF StreamInv
  <2>1. PICK u \in Placed : Reading(u)
    BY <1>4, <1>6, SameReader DEF IInv, StreamInv
  <2>2. /\ wire \in Seq(Units) /\ Chain(torn, wire, u) /\ WriterOrder(u)
        /\ Ending(wire, u, reader.pc = "body") = After(whole, Len(got))
    BY <1>1, <2>1 DEF Reading, TypeOK
  <2>3. Chain(torn', wire, u)
    BY <1>6, <2>2, ChainTorn
  <2>4. IsEnd(LastOf(wire, u)) \/ torn'
    <3>1. LastOf(wire, u) \in Placed
      BY <2>2, LastBound
    <3> DEFINE v == LastOf(wire, u)
    <3>2. v.at \in Nat /\ v.at >= 1
      BY <3>1, PlacedFacts
    <3>3. Follows(torn, v, Unit(m, i))
      BY <1>1, <1>3, <2>2 DEF WriterOrder
    <3> HIDE DEF v
    <3>4. CASE i = 1
      <4>1. Unit(m, i).at = 1 /\ Unit(v.of, v.at + 1).at = v.at + 1
        BY <3>4 DEF Unit
      <4>2. Unit(m, i) # Unit(v.of, v.at + 1)
        BY <3>2, <4>1
      <4>3. IsEnd(v) \/ torn
        BY <3>3, <4>2 DEF Follows
      <4>4. QED
        BY <1>6, <4>3 DEF v
    <3>5. QED
      BY <1>6, <3>4
  <2>5. WriterOrder(u)'
    BY <1>4, <2>2, <2>4 DEF WriterOrder
  <2>6. HasRead(u)'
    BY <1>4, <1>6, <2>1, SameReader DEF Reading
  <2>7. QED
    BY <1>4, <2>2, <2>3, <2>5, <2>6 DEF Reading
<1>8. BodyInv' /\ ErrorHasCause' /\ WholeInv'
  BY <1>4, <1>6 DEF IInv, BodyInv, ErrorHasCause, WholeInv
<1>9. EndInv'
  BY <1>4, <1>6, SameReader DEF IInv, EndInv
<1>10. QED
  BY <1>7, <1>8, <1>9

(* The writer closes between two messages, or ends at any point: what it   *)
(* had not written is never written.                                       *)
LEMMA WriterGoneKeeps ==
    ASSUME IInv, CloseWriter \/ WriterDies
    PROVE  StreamInv' /\ BodyInv' /\ WholeInv' /\ EndInv' /\ ErrorHasCause'
<1>1. /\ writer'.rest = <<>> /\ writer'.sent = writer.sent /\ writer'.open = FALSE
      /\ eof' = TRUE /\ writer.open
      /\ UNCHANGED <<wire, reader, whole, got, torn, lost>>
  BY DEF CloseWriter, WriterDies, Idle, IInv, TypeInv, TypeOK
<1>2. StreamInv'
  <2> SUFFICES ASSUME ~lost', ~Over', ~(reader'.pc = "body" /\ Swallows')
               PROVE  \E u \in Placed : Reading(u)'
    BY DEF StreamInv
  <2>1. PICK u \in Placed : Reading(u)
    BY <1>1, SameReader DEF IInv, StreamInv
  <2>2. WriterOrder(u)'
    BY <1>1, <2>1 DEF Reading, WriterOrder
  <2>3. HasRead(u)'
    BY <1>1, <2>1, SameReader DEF Reading
  <2>4. QED
    BY <1>1, <2>1, <2>2, <2>3 DEF Reading
<1>3. BodyInv' /\ ErrorHasCause' /\ WholeInv'
  BY <1>1 DEF IInv, BodyInv, ErrorHasCause, WholeInv
<1>4. EndInv'
  BY <1>1, SameReader DEF IInv, EndInv
<1>5. QED
  BY <1>2, <1>3, <1>4

(* The connection is reset, or the reader closes it: nothing more is read. *)
LEMMA LostKeeps ==
    ASSUME IInv, Reset \/ CloseReader
    PROVE  StreamInv' /\ BodyInv' /\ WholeInv' /\ EndInv' /\ ErrorHasCause'
<1>1. /\ lost' = TRUE /\ eof' = TRUE
      /\ UNCHANGED <<writer, whole, got, torn>>
      /\ (reader' = reader /\ wire' = <<>>) \/ reader'.pc = "ended"
  BY DEF Reset, CloseReader, IInv, TypeInv, TypeOK
<1>2. StreamInv'
  BY <1>1 DEF StreamInv
<1>3. BodyInv' /\ ErrorHasCause'
  BY <1>1 DEF IInv, BodyInv, ErrorHasCause
<1>4. WholeInv'
  BY <1>1 DEF IInv, WholeInv
<1>5. EndInv'
  BY <1>1 DEF IInv, EndInv, Over
<1>6. QED
  BY <1>2, <1>3, <1>4, <1>5

-----------------------------------------------------------------------------
(* The reader's steps.                                                     *)

(* The unit after the end of a message begins another. *)
LEMMA AfterEnd ==
    ASSUME NEW t, NEW u \in Placed, NEW v \in Units, Follows(t, u, v), IsEnd(u)
    PROVE  v.at = 1
<1>1. SUFFICES ASSUME v = Unit(u.of, u.at + 1) PROVE FALSE
  BY DEF Follows
<1>2. v.of = u.of /\ v.at = u.at + 1
  BY <1>1 DEF Unit
<1>3. v.at <= Size(u.of) /\ u.at = Size(u.of) /\ u.at \in Nat
  BY <1>2, UnitFacts, PlacedFacts DEF IsEnd
<1>4. QED
  BY <1>2, <1>3

(* ... and the unit after one that is no end is the next, or one was torn. *)
LEMMA AfterUnit ==
    ASSUME NEW t \in BOOLEAN, NEW u \in Units, NEW v \in Units, Follows(t, u, v),
           u.at <= 3
    PROVE  /\ ~IsEnd(u)
           /\ (v.of = u.of /\ v.at = u.at + 1) \/ (v.at = 1 /\ t = TRUE)
<1>1. u.at \in Nat /\ Size(u.of) >= 4 /\ Size(u.of) \in Nat
  BY UnitFacts, MessageFacts
<1>2. ~IsEnd(u)
  BY <1>1 DEF IsEnd
<1>3. QED
  BY <1>2 DEF Follows, Unit

(* A body of which nothing is read. *)
LEMMA NoBody ==
    ASSUME NEW m \in Messages
    PROVE  Part(m, 4, 3) = <<>> /\ Body(m) # <<>> /\ Body(m) \in Seq(Units)
           /\ Len(Body(m)) = m.length
<1>1. Size(m) \in Nat /\ Size(m) >= 4 /\ Size(m) = 3 + m.length
      /\ m.length \in Nat /\ m.length >= 1
  BY MessageFacts
<1>2. Len(Part(m, 4, 3)) = 0 /\ Part(m, 4, 3) \in Seq(Units)
  <2>1. 4 \in Nat /\ 3 \in Nat /\ 1 <= 4 /\ 4 <= 3 + 1 /\ 3 <= Size(m) /\ 3 - 4 + 1 = 0
    BY <1>1
  <2>2. Part(m, 4, 3) \in Seq(Units) /\ Len(Part(m, 4, 3)) = 3 - 4 + 1
    BY <2>1, PartFacts
  <2>3. QED
    BY <2>1, <2>2
<1>3. Body(m) \in Seq(Units) /\ Len(Body(m)) = m.length
  <2>1. 4 \in Nat /\ 1 <= 4 /\ 4 <= Size(m) + 1
    BY <1>1
  <2>2. Body(m) \in Seq(Units) /\ Len(Body(m)) = Size(m) - 4 + 1
    BY <2>1, EndPart DEF Body
  <2>3. QED
    BY <1>1, <2>2
<1>4. QED
  BY <1>1, <1>2, <1>3, EmptySeq

(* What reading a unit makes of the reader. *)
LEMMA HeaderFacts ==
    ASSUME TypeInv, ReadHeader, NEW u \in Placed, HasRead(u),
           NEW v \in Units, v = Head(wire), Follows(torn, u, v)
    PROVE  \/ /\ v.at <= 3 /\ HasRead(v)' /\ reader'.pc \in {"line", "body"}
              /\ reader'.pc = "body" =>
                    reader'.length = v.of.length /\ reader'.body = <<>>
           \/ /\ reader'.pc = "error"
              /\ torn \/ \E l \in Lengths : l > MaxBody /\ reader'.length = l
<1>1. /\ reader.pc = "line" /\ reader.body = <<>> /\ torn' = torn /\ torn \in BOOLEAN
      /\ reader \in [pc : {"line", "body", "ended", "error"}, line : Seq(Units),
                     length : Lengths \cup {0}, body : Seq(Units)]
  BY DEF TypeInv, TypeOK, ReadHeader, Reads
<1>2. v.at \in Nat /\ v.at >= 1
  BY UnitFacts
<1>3. InLine(u) \/ AfterLine(u) \/ Between(u)
  BY <1>1 DEF HasRead, InBody
<1>4. CASE ~IsEol(v)
  <2>1. v.at # 2 /\ v.at # 3
    BY <1>4 DEF IsEol
  <2>2. reader' = [reader EXCEPT !.line = Append(reader.line, v)]
    BY <1>4 DEF ReadHeader
  <2>3. /\ reader'.line = Append(reader.line, v)
        /\ reader'.pc = "line" /\ reader'.body = <<>>
    BY <1>1, <2>2
  <2>4. v.at = 1 /\ (reader.line = <<>> \/ torn)
    <3>1. CASE InLine(u)
      <4>1. u \in Units /\ u.at = 1 /\ u.at <= 3 /\ u.at + 1 = 2
        BY <3>1 DEF InLine, IsText
      <4>2. (v.of = u.of /\ v.at = u.at + 1) \/ (v.at = 1 /\ torn)
        BY <1>1, <4>1, AfterUnit
      <4>3. QED
        BY <2>1, <4>1, <4>2
    <3>2. CASE AfterLine(u)
      <4>1. u \in Units /\ u.at = 2 /\ u.at <= 3 /\ u.at + 1 = 3
        BY <3>2 DEF AfterLine
      <4>2. (v.of = u.of /\ v.at = u.at + 1) \/ (v.at = 1 /\ torn)
        BY <1>1, <4>1, AfterUnit
      <4>3. QED
        BY <2>1, <4>1, <4>2
    <3>3. CASE Between(u)
      BY <3>3, AfterEnd DEF Between, NewValue
    <3>4. QED
      BY <1>3, <3>1, <3>2, <3>3
  <2>5. /\ Len(reader'.line) = Len(reader.line) + 1
        /\ reader'.line[Len(reader.line) + 1] = v
        /\ reader'.line \in Seq(Units) /\ Len(reader.line) \in Nat
    <3>1. reader.line \in Seq(Units)
      BY <1>1
    <3>2. QED
      BY <2>3, <3>1, AppendProperties, LenProperties
  <2>6. reader'.line # <<>>
    BY <2>5, EmptySeq
  <2>7. reader'.line[Len(reader'.line)] = v
    BY <2>5
  <2>8. Len(reader'.line) = 1 \/ torn
    <3>1. reader.line = <<>> => Len(reader.line) = 0
      BY <1>1, EmptySeq
    <3>2. QED
      BY <2>4, <2>5, <3>1
  <2>9. InLine(v)'
    BY <1>1, <2>3, <2>4, <2>6, <2>7, <2>8 DEF InLine, IsText
  <2>10. QED
    BY <2>3, <2>4, <2>9 DEF HasRead
<1>5. CASE IsEol(v) /\ reader.line # <<>>
  <2>1. v.at = 2 \/ v.at = 3
    BY <1>5 DEF IsEol
  <2>2. reader' = [reader EXCEPT !.line = <<>>, !.length = HeaderValue(reader.line)]
    BY <1>5 DEF ReadHeader
  <2>3. reader'.line = <<>> /\ reader'.length = HeaderValue(reader.line)
        /\ reader'.pc = "line" /\ reader'.body = <<>>
    BY <1>1, <2>2
  <2>4. InLine(u)
    BY <1>3, <1>5 DEF AfterLine, Between, NewValue
  <2>5. v.at = 2 /\ v.of = u.of
    <3>1. u \in Units /\ u.at = 1 /\ u.at <= 3 /\ u.at + 1 = 2
      BY <2>4 DEF InLine, IsText
    <3>2. (v.of = u.of /\ v.at = u.at + 1) \/ (v.at = 1 /\ torn)
      BY <1>1, <3>1, AfterUnit
    <3>3. QED
      BY <2>1, <3>1, <3>2
  <2>6. reader'.length = u.of.length \/ (torn /\ reader'.length = 0)
    <3>1. CASE Len(reader.line) = 1
      BY <2>3, <2>4, <3>1 DEF InLine, HeaderValue
    <3>2. CASE Len(reader.line) # 1
      BY <2>3, <2>4, <3>2 DEF InLine, HeaderValue
    <3>3. QED
      BY <3>1, <3>2
  <2>7. AfterLine(v)'
    BY <1>1, <2>3, <2>5, <2>6 DEF AfterLine
  <2>8. QED
    BY <2>3, <2>5, <2>7 DEF HasRead
<1>6. CASE IsEol(v) /\ reader.line = <<>>
  <2>1. v.at = 2 \/ v.at = 3
    BY <1>6 DEF IsEol
  <2>2. reader' = [reader EXCEPT !.pc = IF Accepted(reader.length) THEN "body" ELSE "error"]
    BY <1>6 DEF ReadHeader
  <2>3. /\ reader'.pc = IF Accepted(reader.length) THEN "body" ELSE "error"
        /\ reader'.length = reader.length /\ reader'.body = <<>>
    BY <1>1, <2>2
  <2>4. AfterLine(u)
    BY <1>3, <1>6, <2>1, AfterEnd DEF InLine, Between
  <2>5. v.at = 3 /\ v.of = u.of /\ u \in Units
    <3>1. u \in Units /\ u.at = 2 /\ u.at <= 3 /\ u.at + 1 = 3
      BY <2>4 DEF AfterLine
    <3>2. (v.of = u.of /\ v.at = u.at + 1) \/ (v.at = 1 /\ torn)
      BY <1>1, <3>1, AfterUnit
    <3>3. QED
      BY <2>1, <3>1, <3>2
  <2>6. reader.length = u.of.length \/ (torn /\ reader.length = 0)
    BY <2>4 DEF AfterLine
  <2>7. u.of \in Messages /\ u.of.length \in Lengths
        /\ u.of.length \in Nat /\ u.of.length >= 1
    BY <2>5, UnitFacts, MessageFacts
  <2>8. CASE Accepted(reader.length)
    <3>1. reader.length = u.of.length
      BY <2>6, <2>8 DEF Accepted
    <3>2. reader'.body = Part(v.of, 4, v.at)
      BY <2>3, <2>5, <2>7, NoBody
    <3>3. InBody(v)'
      BY <2>3, <2>5, <2>8, <3>1, <3>2 DEF InBody
    <3>4. QED
      BY <2>3, <2>5, <2>8, <3>1, <3>3 DEF HasRead
  <2>9. CASE ~Accepted(reader.length)
    <3>1. torn \/ u.of.length > MaxBody
      BY <2>6, <2>7, <2>9, StreamConstants DEF Accepted
    <3>2. QED
      BY <2>3, <2>6, <2>7, <2>9, <3>1
  <2>10. QED
    BY <2>8, <2>9
<1>7. QED
  BY <1>4, <1>5, <1>6

(* A unit of the headers leaves the wire, and is what was read last; or    *)
(* the header is refused, with cause.                                      *)
LEMMA ReadHeaderKeeps ==
    ASSUME IInv, ReadHeader
    PROVE  StreamInv' /\ BodyInv' /\ WholeInv' /\ EndInv' /\ ErrorHasCause'
<1>1. /\ TypeInv /\ wire \in Seq(Units) /\ wire # <<>> /\ reader.pc = "line"
      /\ wire' = Tail(wire) /\ UNCHANGED <<writer, eof, whole, got, torn, lost>>
  BY DEF IInv, TypeInv, TypeOK, ReadHeader, Reads
<1>2. ~lost /\ ~Over
  BY <1>1 DEF IInv, EndInv, Over
<1>3. PICK u \in Placed : Reading(u)
  BY <1>1, <1>2 DEF IInv, StreamInv
<1>4. /\ HasRead(u) /\ Chain(torn, wire, u) /\ WriterOrder(u)
      /\ Ending(wire, u, reader.pc = "body") = After(whole, Len(got))
  BY <1>3 DEF Reading
<1>5. /\ Head(wire) = wire[1] /\ Tail(wire) = SubSeq(wire, 1 + 1, Len(wire))
      /\ Len(wire) \in Nat /\ 1 \in 1..Len(wire)
  BY <1>1, DropOne
<1>6. PICK v \in Units : v = wire[1]
  BY <1>1, <1>5, ElementOfSeq
<1>7. Follows(torn, u, v)
  BY <1>4, <1>5, <1>6 DEF Chain, Before
<1>8. CASE reader'.pc = "error" /\ (torn \/ \E l \in Lengths : l > MaxBody /\ reader'.length = l)
  BY <1>1, <1>2, <1>8 DEF IInv, StreamInv, BodyInv, WholeInv, EndInv, ErrorHasCause, Over
<1>9. CASE /\ v.at <= 3 /\ HasRead(v)' /\ reader'.pc \in {"line", "body"}
           /\ reader'.pc = "body" => reader'.length = v.of.length /\ reader'.body = <<>>
  <2>1. Chain(torn, wire', v) /\ LastOf(wire', v) = LastOf(wire, u)
    BY <1>1, <1>4, <1>5, <1>6, ChainDrop
  <2>2. v.at \in Nat /\ v.of \in Messages /\ v \in Placed /\ ~IsEnd(v)
    <3>1. v.at \in Nat /\ v.of \in Messages /\ v \in Placed
      BY UnitFacts
    <3>2. Size(v.of) \in Nat /\ Size(v.of) >= 4
      BY <3>1, MessageFacts
    <3>3. QED
      BY <1>9, <3>1, <3>2 DEF IsEnd
  <2>3. Ending(wire', v, reader'.pc = "body") = After(whole, Len(got))
    <3>1. PICK c \in BOOLEAN : c = (reader'.pc = "body")
      OBVIOUS
    <3>2. PICK b \in BOOLEAN : b = (reader.pc = "body")
      OBVIOUS
    <3>3. ~b /\ \A i \in 1..(1 - 1) : ~IsEnd(wire[i])
      <4>1. ~b
        BY <1>1, <3>2
      <4>2. \A i : i \notin 1..(1 - 1)
        OBVIOUS
      <4>3. QED
        BY <4>1, <4>2
    <3>4. Ending(SubSeq(wire, 1 + 1, Len(wire)), wire[1], c) = Ending(wire, u, b)
      BY <1>1, <1>5, <1>6, <2>2, <3>3, EndingDrop
    <3>5. QED
      BY <1>1, <1>4, <1>5, <1>6, <3>1, <3>2, <3>4
  <2>4. WriterOrder(v)'
    BY <1>1, <1>4, <2>1 DEF WriterOrder
  <2>5. Reading(v)'
    BY <1>1, <1>9, <2>1, <2>3, <2>4 DEF Reading
  <2>6. StreamInv'
    BY <2>2, <2>5 DEF StreamInv
  <2>7. BodyInv'
    <3> SUFFICES ASSUME reader'.pc = "body"
                 PROVE  /\ torn' \/ \E m \in Messages :
                              /\ reader'.length = m.length
                              /\ reader'.body = Part(m, 4, 3 + Len(reader'.body))
                        /\ \A m \in Messages : reader'.body = Body(m) =>
                              Len(got') < Len(whole') /\ whole'[Len(got') + 1] = m
      BY DEF BodyInv
    <3>1. reader'.length = v.of.length /\ reader'.body = <<>>
      BY <1>9
    <3>2. 3 + Len(reader'.body) = 3
      BY <3>1
    <3>3. Part(v.of, 4, 3) = <<>> /\ \A m \in Messages : Body(m) # <<>>
      BY <2>2, NoBody
    <3>4. QED
      BY <2>2, <3>1, <3>2, <3>3
  <2>8. WholeInv' /\ EndInv' /\ ErrorHasCause'
    BY <1>1, <1>2, <1>9 DEF IInv, WholeInv, EndInv, ErrorHasCause
  <2>9. QED
    BY <2>6, <2>7, <2>8
<1>10. QED
  BY <1>1, <1>4, <1>5, <1>6, <1>7, <1>8, <1>9, HeaderFacts

(* The end of the stream is reported between two messages, within a body,  *)
(* or when the connection is lost.                                         *)
LEMMA ReadEndKeeps ==
    ASSUME IInv, ReadEnd
    PROVE  StreamInv' /\ BodyInv' /\ WholeInv' /\ EndInv' /\ ErrorHasCause'
<1>1. /\ wire = <<>> /\ eof /\ Ends /\ reader'.pc = "ended" /\ reader'.body = reader.body
      /\ UNCHANGED <<writer, wire, eof, whole, got, torn, lost>>
  BY DEF ReadEnd, AtEnd, IInv, TypeInv, TypeOK
<1>2. Swallows => Swallows'
  BY <1>1 DEF Swallows
<1>3. ASSUME ~lost, ~Swallows PROVE got = whole
  <2>1. ~Over /\ (reader.pc = "line" \/ (reader.pc = "body" /\ ~Complete))
    BY <1>1 DEF Ends, Reads, Over
  <2>2. PICK u \in Placed : Reading(u)
    BY <1>3, <2>1 DEF IInv, StreamInv
  <2>3. HasRead(u) /\ Ending(wire, u, reader.pc = "body") = After(whole, Len(got))
    BY <2>2 DEF Reading
  <2>4. reader.pc = "body" => ~IsEnd(u)
    <3> SUFFICES ASSUME reader.pc = "body" PROVE ~IsEnd(u)
      OBVIOUS
    <3>1. InBody(u)
      BY <2>3 DEF HasRead, InLine, AfterLine, Between, NewValue
    <3>2. /\ u \in Units /\ u.at >= 3 /\ reader.length = u.of.length
          /\ reader.body = Part(u.of, 4, u.at)
      BY <3>1 DEF InBody
    <3>3. /\ u.of \in Messages /\ u.at \in Nat /\ u.at <= Size(u.of)
          /\ Size(u.of) = 3 + u.of.length /\ u.of.length \in Nat
      BY <3>2, UnitFacts, MessageFacts
    <3>4. Len(reader.body) = u.at - 4 + 1
      <4>1. PICK m \in Messages : m = u.of
        BY <3>3
      <4>2. PICK j \in Nat : j = u.at
        BY <3>3
      <4>3. 1 <= 4 /\ 4 <= j + 1 /\ j <= Size(m)
        BY <3>2, <3>3, <4>1, <4>2
      <4>4. Len(Part(m, 4, j)) = j - 4 + 1
        BY <4>3, PartFacts
      <4>5. QED
        BY <3>2, <4>1, <4>2, <4>4
    <3>5. QED
      BY <2>1, <3>2, <3>3, <3>4 DEF Complete, Missing, IsEnd
  <2>5. Ending(wire, u, reader.pc = "body") = {}
    <3>1. \A i : i \notin 1..Len(wire)
      BY <1>1
    <3>2. \A m \in Messages : ~(reader.pc = "body" /\ u = EndUnit(m))
      BY <2>4, EndFacts
    <3>3. QED
      BY <3>1, <3>2 DEF Ending
  <2>6. /\ whole \in Seq(Messages) /\ got \in Seq(Messages)
        /\ Len(whole) \in Nat /\ Len(got) \in Nat /\ Len(got) <= Len(whole)
        /\ \A i \in 1..Len(got) : got[i] = whole[i]
    BY LenProperties DEF IInv, TypeInv, TypeOK, WholeInv
  <2>7. ~(Len(got) < Len(whole))
    <3>1. \A j \in (Len(got) + 1)..Len(whole) : whole[j] \in After(whole, Len(got))
      BY DEF After
    <3>2. Len(got) < Len(whole) => Len(got) + 1 \in (Len(got) + 1)..Len(whole)
      BY <2>6
    <3>3. QED
      BY <2>3, <2>5, <3>1, <3>2
  <2>8. Len(got) = Len(whole)
    BY <2>6, <2>7
  <2>9. QED
    BY <2>6, <2>8, SeqEqual
<1>4. EndInv'
  BY <1>1, <1>2, <1>3 DEF IInv, EndInv, Over
<1>5. StreamInv' /\ BodyInv' /\ WholeInv' /\ ErrorHasCause'
  BY <1>1 DEF IInv, StreamInv, BodyInv, WholeInv, ErrorHasCause, Over
<1>6. QED
  BY <1>4, <1>5

(* A body that goes on with the units that follow. *)
LEMMA BodyGrows ==
    ASSUME NEW m \in Messages, NEW a \in Nat, a >= 3, NEW k \in Nat, a + k <= Size(m),
           NEW p \in Seq(Units), Len(p) = k, \A i \in 1..k : p[i] = Unit(m, a + i)
    PROVE  Part(m, 4, a) \o p = Part(m, 4, a + k)
<1>1. Size(m) \in Nat
  BY MessageFacts
<1>2. PICK b \in Seq(Units) :
         /\ b = Part(m, 4, a) /\ Len(b) = a - 4 + 1
         /\ \A i \in 1..(a - 4 + 1) : b[i] = Unit(m, 4 + i - 1)
  <2>1. 4 \in Nat /\ 1 <= 4 /\ 4 <= a + 1 /\ a <= Size(m)
    BY <1>1
  <2>2. /\ Part(m, 4, a) \in Seq(Units) /\ Len(Part(m, 4, a)) = a - 4 + 1
        /\ \A i \in 1..(a - 4 + 1) : Part(m, 4, a)[i] = Unit(m, 4 + i - 1)
    BY <2>1, PartFacts, ZenonT(60)
  <2>3. QED
    BY <2>2
<1> DEFINE r == b \o p
<1>3. /\ r \in Seq(Units) /\ Len(r) = Len(b) + k
      /\ \A i \in 1..Len(b) : r[i] = b[i]
      /\ \A i \in 1..Len(r) : \/ i \in 1..Len(b)
                              \/ i > Len(b) /\ i - Len(b) \in 1..k /\ r[i] = p[i - Len(b)]
  <2>1. /\ r \in Seq(Units) /\ Len(b) \in Nat /\ Len(p) \in Nat
        /\ Len(r) = Len(b) + Len(p)
        /\ \A i \in 1..Len(b) : i \in 1..Len(r) /\ r[i] = b[i]
        /\ \A i \in 1..Len(p) : i + Len(b) \in 1..Len(r) /\ r[i + Len(b)] = p[i]
        /\ \A i \in 1..Len(r) :
              i \in 1..Len(b) \/ (i > Len(b) /\ i - Len(b) \in 1..Len(p)
                                  /\ r[i] = p[i - Len(b)])
    BY ConcatPlaces, ZenonT(60)
  <2>2. QED
    BY <2>1
<1> HIDE DEF r
<1>4. Len(r) = (a + k) - 4 + 1 /\ (a + k) - 4 + 1 \in Nat
  BY <1>2, <1>3
<1>5. \A i \in 1..((a + k) - 4 + 1) : r[i] = Unit(m, 4 + i - 1)
  <2> TAKE i \in 1..((a + k) - 4 + 1)
  <2>1. CASE i \in 1..Len(b)
    BY <1>2, <1>3, <2>1
  <2>2. CASE i \notin 1..Len(b)
    <3>1. i - Len(b) \in 1..k /\ r[i] = p[i - Len(b)]
      BY <1>3, <1>4, <2>2
    <3>2. r[i] = Unit(m, a + (i - Len(b)))
      BY <3>1
    <3>3. a + (i - Len(b)) = 4 + i - 1
      <4>1. Len(b) = a - 3
        BY <1>2
      <4>2. i \in Nat
        OBVIOUS
      <4>3. QED
        BY <4>1, <4>2
    <3>4. QED
      BY <3>2, <3>3
  <2>3. QED
    BY <2>1, <2>2
<1>6. 4 \in Nat /\ a + k \in Nat /\ 1 <= 4 /\ 4 <= (a + k) + 1
  OBVIOUS
<1>7. r = Part(m, 4, a + k)
  BY <1>3, <1>4, <1>5, <1>6, PartIs
<1>8. QED
  BY <1>2, <1>7 DEF r

(* A body has no unit of a header, and tells of which message it is. *)
LEMMA BodyUnits ==
    ASSUME NEW m \in Messages
    PROVE  /\ \A e \in ToSet(Body(m)) : e.at >= 4
           /\ Len(Body(m)) = m.length
           /\ Body(m)[1].of = m
<1>1. Size(m) \in Nat /\ Size(m) >= 4 /\ Size(m) = 3 + m.length
      /\ m.length \in Nat /\ m.length >= 1
  BY MessageFacts
<1>2. /\ Body(m) \in Seq(Units) /\ Len(Body(m)) = m.length
      /\ \A i \in 1..m.length : Body(m)[i] = Unit(m, 4 + i - 1)
  <2>1. 4 \in Nat /\ 1 <= 4 /\ 4 <= Size(m) + 1 /\ Size(m) - 4 + 1 = m.length
    BY <1>1
  <2>2. /\ Body(m) \in Seq(Units) /\ Len(Body(m)) = Size(m) - 4 + 1
        /\ \A i \in 1..(Size(m) - 4 + 1) : Body(m)[i] = Unit(m, 4 + i - 1)
    BY <2>1, EndPart DEF Body
  <2>3. QED
    BY <2>1, <2>2
<1>3. \A i \in 1..m.length : Body(m)[i].at = 4 + i - 1 /\ Body(m)[i].of = m
  <2>1. \A j : Unit(m, j).at = j /\ Unit(m, j).of = m
    BY DEF Unit
  <2>2. QED
    BY <1>2, <2>1
<1>4. \A e \in ToSet(Body(m)) : e.at >= 4
  <2> TAKE e \in ToSet(Body(m))
  <2>1. PICK i \in 1..m.length : Body(m)[i] = e
    BY <1>2, SetOfSeq
  <2>2. e.at = 4 + i - 1
    BY <1>3, <2>1
  <2>3. QED
    BY <1>1, <2>2
<1>5. 1 \in 1..m.length
  BY <1>1
<1>6. QED
  BY <1>2, <1>3, <1>4, <1>5

(* What was read, and what is read now, is in the body. *)
LEMMA BothIn ==
    ASSUME NEW b \in Seq(Units), NEW p \in Seq(Units)
    PROVE  \A e : e \in ToSet(b) \/ e \in ToSet(p) => e \in ToSet(b \o p)
<1> DEFINE r == b \o p
<1>1. /\ r \in Seq(Units) /\ Len(b) \in Nat /\ Len(p) \in Nat
      /\ \A i \in 1..Len(b) : i \in 1..Len(r) /\ r[i] = b[i]
      /\ \A i \in 1..Len(p) : i + Len(b) \in 1..Len(r) /\ r[i + Len(b)] = p[i]
  BY ConcatPlaces
<1> HIDE DEF r
<1>2. \A e \in ToSet(b) : \E i \in 1..Len(b) : b[i] = e
  BY SetOfSeq
<1>3. \A e \in ToSet(p) : \E i \in 1..Len(p) : p[i] = e
  BY SetOfSeq
<1>4. \A i \in 1..Len(r) : r[i] \in ToSet(r)
  BY <1>1, SetOfSeq
<1>5. \A e \in ToSet(b) : e \in ToSet(r)
  BY <1>1, <1>2, <1>4
<1>6. \A e \in ToSet(p) : e \in ToSet(r)
  BY <1>1, <1>3, <1>4
<1>7. QED
  BY <1>5, <1>6 DEF r

(* Units of the body leave the wire and join what was read of it; unless   *)
(* the message was torn, they are the next of its own.                     *)
LEMMA ReadBodyKeeps ==
    ASSUME IInv, NEW k \in 1..MaxBody, ReadBody(k)
    PROVE  StreamInv' /\ BodyInv' /\ WholeInv' /\ EndInv' /\ ErrorHasCause'
<1>1. /\ k \in 1..Len(wire) /\ k \in Nat /\ k >= 1
      /\ reader.pc = "body" /\ Len(reader.body) + k <= reader.length
      /\ wire' = SubSeq(wire, k + 1, Len(wire)) /\ wire' \in Seq(Units)
      /\ \E p \in Seq(Units) :
            /\ Len(p) = k /\ \A i \in 1..k : p[i] = wire[i]
            /\ reader.body \o p \in Seq(Units)
            /\ Len(reader.body \o p) = Len(reader.body) + k
            /\ Len(reader.body) \in Nat /\ reader.length \in Nat
            /\ reader' = [reader EXCEPT !.body = reader.body \o p]
  BY ReadFacts DEF IInv, TypeInv
<1>2. PICK p \in Seq(Units) :
            /\ Len(p) = k /\ \A i \in 1..k : p[i] = wire[i]
            /\ Len(reader.body \o p) = Len(reader.body) + k
            /\ Len(reader.body) \in Nat /\ reader.length \in Nat
            /\ reader' = [reader EXCEPT !.body = reader.body \o p]
  BY <1>1
<1>3. /\ wire \in Seq(Units) /\ reader.body \in Seq(Units) /\ torn \in BOOLEAN
      /\ reader'.body = reader.body \o p /\ reader'.pc = "body"
      /\ reader'.length = reader.length
      /\ UNCHANGED <<writer, eof, whole, got, torn, lost>>
  BY <1>1, <1>2 DEF IInv, TypeInv, TypeOK, ReadBody
<1>4. /\ Len(wire) \in Nat /\ wire # <<>>
      /\ \A i \in 1..k : i \in 1..Len(wire) /\ wire[i] \in Units
  <2>1. Len(wire) \in Nat
    BY <1>3, LenProperties
  <2>2. \A i \in 1..k : i \in 1..Len(wire)
    BY <1>1, <2>1
  <2>3. wire # <<>>
    BY <1>1, <2>1
  <2>4. QED
    BY <1>3, <2>1, <2>2, <2>3, ElementOfSeq
<1>5. ~lost /\ ~Over
  BY <1>1, <1>4 DEF IInv, EndInv, Over
<1>6. WholeInv' /\ EndInv' /\ ErrorHasCause'
  BY <1>1, <1>3, <1>5 DEF IInv, WholeInv, EndInv, ErrorHasCause
<1>7. ASSUME torn, NEW e, e.at < 4, e.at \in Nat,
             e \in ToSet(reader.body) \/ e \in ToSet(p)
      PROVE  StreamInv' /\ BodyInv'
  <2>1. e \in ToSet(reader'.body)
    BY <1>3, <1>7, BothIn
  <2>2. Swallows'
    BY <1>3, <1>7, <2>1 DEF Swallows
  <2>3. \A m \in Messages : reader'.body # Body(m)
    <3>1. ~(e.at >= 4)
      BY <1>7
    <3>2. QED
      BY <2>1, <3>1, BodyUnits
  <2>4. QED
    BY <1>3, <1>7, <2>2, <2>3 DEF StreamInv, BodyInv
<1>8. CASE Swallows
  <2>1. PICK e \in ToSet(reader.body) : e.at < 4
    BY <1>8 DEF Swallows
  <2>2. e \in Units
    BY <1>3, SetOfSeq
  <2>3. e.at \in Nat /\ torn
    BY <1>8, <2>2, UnitFacts DEF Swallows
  <2>4. QED
    BY <1>6, <1>7, <2>1, <2>3
<1>9. CASE ~Swallows
  <2>1. PICK u \in Placed : Reading(u)
    BY <1>5, <1>9 DEF IInv, StreamInv
  <2>2. /\ HasRead(u) /\ Chain(torn, wire, u) /\ WriterOrder(u)
        /\ Ending(wire, u, reader.pc = "body") = After(whole, Len(got))
    BY <2>1 DEF Reading
  <2>3. /\ u \in Units /\ u.at >= 3 /\ reader.length = u.of.length
        /\ reader.body = Part(u.of, 4, u.at)
    BY <1>1, <2>2 DEF HasRead, InLine, AfterLine, InBody, Between, NewValue
  <2>4. PICK m \in Messages : m = u.of
    BY <2>3, UnitFacts
  <2>5. PICK a \in Nat : a = u.at
    BY <2>3, UnitFacts
  <2>6. /\ Size(m) \in Nat /\ Size(m) = 3 + m.length /\ m.length \in Nat
        /\ a <= Size(m) /\ a >= 3
    BY <2>3, <2>4, <2>5, UnitFacts, MessageFacts
  <2>7. Len(reader.body) = a - 3
    <3>1. 1 <= 4 /\ 4 <= a + 1
      BY <2>6
    <3>2. Len(Part(m, 4, a)) = a - 4 + 1
      BY <2>6, <3>1, PartFacts
    <3>3. QED
      BY <2>3, <2>4, <2>5, <3>2
  <2>8. a + k <= Size(m)
    <3>1. Len(reader.body) + k <= m.length
      BY <1>1, <2>3, <2>4
    <3>2. (a - 3) + k <= m.length /\ k \in Nat
      BY <1>1, <2>7, <3>1
    <3>3. QED
      BY <2>6, <3>2
  <2>9. \/ \A i \in 1..k : wire[i] = Unit(m, a + i)
        \/ torn /\ \E i \in 1..k : wire[i].at = 1
    <3>1. u.at + k <= Size(u.of)
      BY <2>4, <2>5, <2>8
    <3>2. PICK t \in BOOLEAN : t = torn
      BY <1>3
    <3>3. Chain(t, wire, u)
      BY <2>2, <3>2
    <3>4. \/ \A i \in 1..k : wire[i] = Unit(u.of, u.at + i)
          \/ t = TRUE /\ \E i \in 1..k : wire[i].at = 1
      <4>1. k \in 1..Len(wire) /\ wire \in Seq(Units)
        BY <1>1, <1>3
      <4>2. QED
        BY <3>1, <3>3, <4>1, Run, Zenon
    <3>5. QED
      BY <2>4, <2>5, <3>2, <3>4
  <2>10. CASE torn /\ \E i \in 1..k : wire[i].at = 1
    <3>1. PICK i \in 1..k : wire[i].at = 1
      BY <2>10
    <3>2. wire[i] \in ToSet(p)
      BY <1>2, <3>1, SetOfSeq
    <3>3. wire[i].at < 4 /\ wire[i].at \in Nat
      BY <3>1
    <3>4. QED
      BY <1>6, <1>7, <2>10, <3>2, <3>3
  <2>11. CASE \A i \in 1..k : wire[i] = Unit(m, a + i)
    <3>1. PICK v \in Units : v = wire[k]
      BY <1>1, <1>4
    <3>2. v.of = m /\ v.at = a + k /\ v \in Placed
      <4>1. k \in 1..k
        BY <1>1
      <4>2. v = Unit(m, a + k)
        BY <2>11, <3>1, <4>1
      <4>3. QED
        BY <4>2, UnitFacts DEF Unit
    <3>3. reader'.body = Part(m, 4, a + k)
      <4>1. \A i \in 1..k : p[i] = Unit(m, a + i)
        BY <1>2, <2>11
      <4>2. Part(m, 4, a) \o p = Part(m, 4, a + k)
        <5>1. k \in Nat /\ Len(p) = k /\ a >= 3
          BY <1>1, <1>2, <2>6
        <5>2. QED
          BY <2>8, <4>1, <5>1, BodyGrows
      <4>3. QED
        BY <1>3, <2>3, <2>4, <2>5, <4>2
    <3>4. InBody(v)'
      <4>1. v.at >= 3
        BY <2>6, <3>2
      <4>2. QED
        BY <1>3, <2>3, <2>4, <3>2, <3>3, <4>1 DEF InBody
    <3>5. Chain(torn, wire', v) /\ LastOf(wire', v) = LastOf(wire, u)
      BY <1>1, <1>3, <2>2, <3>1, ChainDrop
    <3>6. Ending(wire', v, TRUE) = After(whole, Len(got))
      <4>1. ~IsEnd(u)
        BY <1>1, <2>4, <2>5, <2>6, <2>8 DEF IsEnd
      <4>2. \A i \in 1..(k - 1) : ~IsEnd(wire[i])
        <5> TAKE i \in 1..(k - 1)
        <5>1. i \in 1..k /\ i < k /\ i \in Nat
          BY <1>1
        <5>2. wire[i] = Unit(m, a + i)
          BY <2>11, <5>1
        <5>3. wire[i].of = m /\ wire[i].at = a + i
          BY <5>2 DEF Unit
        <5>4. a + i # Size(m)
          BY <1>1, <2>6, <2>8, <5>1
        <5>5. QED
          BY <5>3, <5>4 DEF IsEnd
      <4>3. Ending(SubSeq(wire, k + 1, Len(wire)), wire[k], TRUE) = Ending(wire, u, TRUE)
        BY <1>1, <1>3, <4>1, <4>2, EndingDrop
      <4>4. Ending(wire, u, reader.pc = "body") = Ending(wire, u, TRUE)
        BY <1>1
      <4>5. QED
        BY <1>1, <2>2, <3>1, <4>3, <4>4
    <3>7. Reading(v)'
      <4>1. WriterOrder(v)'
        BY <1>3, <2>2, <3>5 DEF WriterOrder
      <4>2. (reader'.pc = "body") = TRUE
        BY <1>3
      <4>3. QED
        BY <1>3, <3>4, <3>5, <3>6, <4>1, <4>2 DEF Reading, HasRead
    <3>8. StreamInv'
      BY <3>2, <3>7 DEF StreamInv
    <3>9. 3 + Len(reader'.body) = a + k
      <4>1. Len(reader'.body) = (a - 3) + k /\ k \in Nat
        BY <1>1, <1>2, <1>3, <2>7
      <4>2. QED
        BY <4>1
    <3>10. ASSUME NEW n \in Messages, reader'.body = Body(n)
           PROVE  Len(got) < Len(whole) /\ whole[Len(got) + 1] = n
      <4>1. Len(Body(n)) = n.length /\ Body(n)[1].of = n
        BY BodyUnits
      <4>2. Part(m, 4, a + k)[1] = Unit(m, 4)
        <5>1. PICK z \in Nat : z = a + k
          BY <1>1
        <5>2. 1 <= 4 /\ 4 <= z + 1 /\ z <= Size(m) /\ 1 \in 1..(z - 4 + 1) /\ 4 + 1 - 1 = 4
          BY <1>1, <2>6, <2>8, <5>1, SMTT(60)
        <5>3. Part(m, 4, z)[1] = Unit(m, 4 + 1 - 1)
          BY <5>2, PartFacts
        <5>4. QED
          BY <5>1, <5>2, <5>3
      <4>3. n = m
        BY <3>3, <3>10, <4>1, <4>2 DEF Unit
      <4>4. IsEnd(v)
        BY <2>6, <3>2, <3>9, <3>10, <4>1, <4>3 DEF IsEnd
      <4>5. /\ whole \in Seq(Messages) /\ Len(got) \in 0..Len(whole)
            /\ \A i, j \in 1..Len(whole) : i < j => whole[i].n < whole[j].n
        <5>1. /\ whole \in Seq(Messages) /\ got \in Seq(Messages)
              /\ Len(got) <= Len(whole)
              /\ \A i, j \in 1..Len(whole) : i < j => whole[i].n < whole[j].n
          BY DEF IInv, TypeInv, TypeOK, WholeInv
        <5>2. Len(whole) \in Nat /\ Len(got) \in Nat
          BY <5>1, LenProperties
        <5>3. QED
          BY <5>1, <5>2
      <4>6. Len(got) < Len(whole) /\ whole[Len(got) + 1] = v.of
        <5>1. wire' \in Seq(Units)
          BY <1>1
        <5>2. QED
          BY <3>5, <3>6, <4>4, <4>5, <5>1, NextOwed, ZenonT(60)
      <4>7. QED
        BY <3>2, <4>3, <4>6
    <3>11. BodyInv'
      BY <1>3, <2>3, <2>4, <3>3, <3>9, <3>10 DEF BodyInv
    <3>12. QED
      BY <1>6, <3>8, <3>11
  <2>12. QED
    BY <2>9, <2>10, <2>11
<1>10. QED
  BY <1>8, <1>9

(* A body that is complete and was written is of the next message owed;    *)
(* one that was not is of a message that was torn.                         *)
LEMMA DecodeBodyKeeps ==
    ASSUME IInv, DecodeBody
    PROVE  StreamInv' /\ BodyInv' /\ WholeInv' /\ EndInv' /\ ErrorHasCause'
<1>1. /\ reader.pc = "body" /\ reader.length - Len(reader.body) = 0
      /\ UNCHANGED <<writer, wire, eof, whole, torn, lost>>
      /\ reader.body \in Seq(Units) /\ wire \in Seq(Units)
      /\ whole \in Seq(Messages) /\ got \in Seq(Messages)
      /\ reader.length \in Lengths \cup {0}
  BY DEF DecodeBody, Reads, Complete, Missing, IInv, TypeInv, TypeOK
<1>2. /\ Len(whole) \in Nat /\ Len(got) \in Nat /\ Len(reader.body) \in Nat
      /\ reader.length \in Nat
  <2>1. Lengths \cup {0} \subseteq Nat
    BY StreamConstants
  <2>2. Len(whole) \in Nat /\ Len(got) \in Nat /\ Len(reader.body) \in Nat
    BY <1>1, LenProperties
  <2>3. QED
    BY <1>1, <2>1, <2>2
<1>3. reader.length = Len(reader.body)
  BY <1>1, <1>2
<1>4. CASE \E m \in Messages :
              reader.body = Body(m) /\ got' = Append(got, m) /\ reader' = NewValue
  <2>1. PICK m \in Messages :
              reader.body = Body(m) /\ got' = Append(got, m) /\ reader' = NewValue
    BY <1>4
  <2>2. Len(got) < Len(whole) /\ whole[Len(got) + 1] = m
    BY <1>1, <2>1 DEF IInv, BodyInv
  <2>3. /\ Len(got') = Len(got) + 1 /\ got'[Len(got) + 1] = m
        /\ \A i \in 1..Len(got) : got'[i] = got[i]
    BY <1>1, <2>1, AppendProperties
  <2>4. reader'.pc = "line"
    BY <2>1 DEF NewValue
  <2>5. StreamInv'
    <3> SUFFICES ASSUME ~lost PROVE \E u \in Placed : Reading(u)'
      BY <1>1 DEF StreamInv
    <3>1. ~Swallows
      <4>1. \A e \in ToSet(reader.body) : e.at \in Nat /\ e.at >= 4
        <5>1. \A e \in ToSet(reader.body) : e \in Units
          BY <1>1, SetOfSeq
        <5>2. QED
          BY <2>1, <5>1, UnitFacts, BodyUnits
      <4>2. \A e \in ToSet(reader.body) : ~(e.at < 4)
        BY <4>1
      <4>3. QED
        BY <4>2 DEF Swallows
    <3>2. PICK u \in Placed : Reading(u)
      BY <1>1, <3>1 DEF IInv, StreamInv, Over
    <3>3. /\ HasRead(u) /\ Chain(torn, wire, u) /\ WriterOrder(u)
          /\ Ending(wire, u, TRUE) = After(whole, Len(got))
      <4>1. (reader.pc = "body") = TRUE
        BY <1>1
      <4>2. QED
        BY <3>2, <4>1 DEF Reading
    <3>4. /\ u \in Units /\ u.at >= 3 /\ reader.length = u.of.length
          /\ reader.body = Part(u.of, 4, u.at)
      BY <1>1, <3>3 DEF HasRead, InLine, AfterLine, InBody, Between, NewValue
    <3>5. IsEnd(u)
      <4>1. PICK n \in Messages : n = u.of
        BY <3>4, UnitFacts
      <4>2. PICK a \in Nat : a = u.at
        BY <3>4, UnitFacts
      <4>3. /\ Size(n) \in Nat /\ Size(n) = 3 + n.length /\ n.length \in Nat
            /\ a <= Size(n) /\ a >= 3
        BY <3>4, <4>1, <4>2, UnitFacts, MessageFacts
      <4>4. 1 <= 4 /\ 4 <= a + 1
        BY <4>3
      <4>5. Len(Part(n, 4, a)) = a - 4 + 1
        BY <4>3, <4>4, PartFacts
      <4>6. n.length = a - 4 + 1
        BY <1>3, <3>4, <4>1, <4>2, <4>5
      <4>7. a = Size(n)
        BY <4>3, <4>6
      <4>8. QED
        BY <4>1, <4>2, <4>7 DEF IsEnd
    <3>6. /\ Len(got) \in 0..Len(whole)
          /\ \A i, j \in 1..Len(whole) : i < j => whole[i].n < whole[j].n
      BY <1>2, <2>2 DEF IInv, WholeInv
    <3>7. u.of = m
      <4>1. whole[Len(got) + 1] = u.of
        BY <1>1, <3>3, <3>4, <3>5, <3>6, NextOwed
      <4>2. QED
        BY <2>2, <4>1
    <3>8. Ending(wire, u, FALSE) = Ending(wire, u, TRUE) \ {u.of}
      <4>1. wire \in Seq(Units) /\ u \in Units /\ Chain(torn, wire, u)
        BY <1>1, <3>3, <3>4
      <4>2. QED
        BY <3>5, <4>1, EndingDecoded, ZenonT(60)
    <3>9. After(whole, Len(got) + 1) = After(whole, Len(got)) \ {whole[Len(got) + 1]}
      BY <1>1, <2>2, <3>6, AfterFacts
    <3>10. Ending(wire, u, FALSE) = After(whole, Len(got) + 1)
      BY <2>2, <3>3, <3>7, <3>8, <3>9
    <3>11. Between(u)'
      BY <2>1, <3>5 DEF Between
    <3>12. WriterOrder(u)'
      BY <1>1, <3>3 DEF WriterOrder
    <3>13. (reader'.pc = "body") = FALSE
      BY <2>4
    <3>14. Reading(u)'
      BY <1>1, <2>3, <3>3, <3>10, <3>11, <3>12, <3>13 DEF Reading, HasRead
    <3>15. QED
      BY <3>14
  <2>6. WholeInv'
    <3>1. Len(got') <= Len(whole)
      BY <1>2, <2>2, <2>3
    <3>2. \A i \in 1..Len(got') : got'[i] = whole[i]
      <4> TAKE i \in 1..Len(got')
      <4>1. CASE i = Len(got) + 1
        BY <2>2, <2>3, <4>1
      <4>2. CASE i # Len(got) + 1
        <5>1. i \in 1..Len(got)
          BY <1>2, <2>3, <4>2
        <5>2. QED
          BY <2>3, <5>1 DEF IInv, WholeInv
      <4>3. QED
        BY <4>1, <4>2
    <3>3. QED
      BY <1>1, <3>1, <3>2 DEF IInv, WholeInv
  <2>7. BodyInv' /\ ErrorHasCause'
    BY <2>4 DEF BodyInv, ErrorHasCause
  <2>8. EndInv'
    <3>1. lost => eof /\ wire = <<>>
      BY <1>1 DEF IInv, EndInv, Over
    <3>2. QED
      BY <1>1, <2>4, <3>1 DEF IInv, EndInv
  <2>9. QED
    BY <2>5, <2>6, <2>7, <2>8
<1>5. CASE /\ \A m \in Messages : reader.body # Body(m)
           /\ reader' = [reader EXCEPT !.pc = "error"]
           /\ UNCHANGED got
  <2>1. reader'.pc = "error"
    BY <1>5 DEF IInv, TypeInv, TypeOK
  <2>2. torn
    <3>1. SUFFICES ASSUME NEW m \in Messages, reader.length = m.length,
                          reader.body = Part(m, 4, 3 + Len(reader.body))
                   PROVE  FALSE
      BY <1>1 DEF IInv, BodyInv
    <3>2. 3 + Len(reader.body) = Size(m)
      BY <1>3, <3>1 DEF Size
    <3>3. reader.body = Body(m)
      BY <3>1, <3>2 DEF Body
    <3>4. QED
      BY <1>5, <3>3
  <2>3. StreamInv' /\ BodyInv' /\ ErrorHasCause'
    BY <1>1, <2>1, <2>2 DEF StreamInv, BodyInv, ErrorHasCause, Over
  <2>4. WholeInv' /\ EndInv'
    BY <1>1, <1>5, <2>1 DEF IInv, WholeInv, EndInv, Over
  <2>5. QED
    BY <2>3, <2>4
<1>6. QED
  BY <1>4, <1>5 DEF DecodeBody

-----------------------------------------------------------------------------
(* Theorems.                                                               *)

(* Every step keeps the invariant. *)
LEMMA NextInv == IInv /\ [Next]_vars => IInv'
<1> SUFFICES ASSUME IInv, [Next]_vars
             PROVE  StreamInv' /\ BodyInv' /\ WholeInv' /\ EndInv' /\ ErrorHasCause'
  BY NextTypes DEF IInv
<1>1. CASE UNCHANGED vars
  BY <1>1 DEF vars, IInv, StreamInv, BodyInv, WholeInv, EndInv, ErrorHasCause, Reading,
              HasRead, InLine, AfterLine, InBody, Between, WriterOrder, Over, Swallows
<1>2. CASE WriteJsons
  BY <1>2, WriteJsonKeeps DEF WriteJsons
<1>3. CASE Writes
  BY <1>3, WriteKeeps DEF Writes
<1>4. CASE WriteFails
  BY <1>4, WriteFailsKeeps
<1>5. CASE CloseWriter \/ WriterDies
  BY <1>5, WriterGoneKeeps
<1>6. CASE Reset \/ CloseReader
  BY <1>6, LostKeeps
<1>7. CASE Read
  BY <1>7, ReadHeaderKeeps, ReadEndKeeps, DecodeBodyKeeps, ReadBodyKeeps DEF Read
<1>8. QED
  BY <1>1, <1>2, <1>3, <1>4, <1>5, <1>6, <1>7 DEF Next

(* The invariant that carries the two properties. *)
THEOREM InvariantHolds == Spec => []IInv
BY InitInv, NextInv, PTL DEF Spec

(* However the connection cuts the messages, and whatever failed before,   *)
(* read_json returns messages that were written to their end, in order and *)
(* without a gap; and reports the end only after all of them, unless the   *)
(* connection was lost or a torn message swallowed them                    *)
(* (messaging.py:188-336).                                                 *)
THEOREM ReadsAsWritten == Spec => []ReadAsWritten
<1>1. IInv => ReadAsWritten
  <2> SUFFICES ASSUME IInv PROVE ReadAsWritten
    OBVIOUS
  <2>1. /\ whole \in Seq(Messages) /\ got \in Seq(Messages)
        /\ Len(whole) \in Nat /\ Len(got) \in Nat /\ Len(got) <= Len(whole)
        /\ \A i \in 1..Len(got) : got[i] = whole[i]
    BY LenProperties DEF IInv, TypeInv, TypeOK, WholeInv
  <2>2. IsPrefix(got, whole)
    BY <2>1 DEF IsPrefix
  <2>3. QED
    BY <2>2 DEF IInv, EndInv, ReadAsWritten
<1>2. QED
  BY <1>1, InvariantHolds, PTL

(* read_json takes a message for malformed only if a write was torn before *)
(* it, or its body is longer than the reader accepts                       *)
(* (messaging.py:244-252, 310-330).                                        *)
THEOREM ErrorsHaveCause == Spec => []ErrorHasCause
<1>1. IInv => ErrorHasCause
  BY DEF IInv
<1>2. QED
  BY <1>1, InvariantHolds, PTL
=============================================================================
