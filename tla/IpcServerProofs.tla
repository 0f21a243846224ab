--------------------------- MODULE IpcServerProofs ---------------------------
(***************************************************************************)
(* Proofs about IpcServer, for any number of viewers, slots and            *)
(* subscriptions and every size of the buffers: what is on its way to a    *)
(* viewer is whole lines meant for it, and the tables of clients and       *)
(* listeners agree with the connections.                                   *)
(***************************************************************************)
EXTENDS IpcServer, FiniteSetTheorems, SequenceTheorems, WellFoundedInduction, TLAPS

USE IpcAssumption

-----------------------------------------------------------------------------
(* Least, and the slot or subscription it stands for.                      *)

\* The first of a set of slots, subscriptions or events is one of them.
LEMMA LeastIn ==
    ASSUME NEW S, S \subseteq Nat, S # {}
    PROVE  Least(S) \in S
<1> DEFINE Below == {p \in Nat \X Nat : p[1] < p[2]}
<1>1. IsWellFoundedOn(Below, Nat)
  BY NatLessThanWellFounded, Zenon DEF OpToRel
<1> HIDE DEF Below
<1>2. PICK x \in S : \A y \in S : <<y, x>> \notin Below
  BY <1>1, WFMin, Zenon
<1>3. \A y \in S : x <= y
  <2> TAKE y \in S
  <2>1. x \in Nat /\ y \in Nat
    OBVIOUS
  <2>2. ~(y < x)
    BY <1>2, <2>1, Zenon DEF Below
  <2> QED
    BY <2>1, <2>2
<1> QED
  BY <1>3 DEF Least

-----------------------------------------------------------------------------
(* Sequences of half lines: joining them, and cutting the first n off.     *)

Stream == Seq(HalfLines)
Cat(f, g) == f \o g
Upto(f, n) == SubSeq(f, 1, n)
After(f, n) == SubSeq(f, n + 1, Len(f))

LEMMA StreamLen ==
    ASSUME NEW f \in Stream
    PROVE  Len(f) \in Nat
BY DEF Stream

LEMMA CatType ==
    ASSUME NEW f \in Stream, NEW g \in Stream
    PROVE  Cat(f, g) \in Stream /\ Len(Cat(f, g)) = Len(f) + Len(g)
BY DEF Stream, Cat

LEMMA CatFirst ==
    ASSUME NEW f \in Stream, NEW g \in Stream, NEW i \in 1 .. Len(f)
    PROVE  Cat(f, g)[i] = f[i]
BY DEF Stream, Cat

LEMMA CatSecond ==
    ASSUME NEW f \in Stream, NEW g \in Stream, NEW i \in 1 .. Len(g)
    PROVE  Cat(f, g)[Len(f) + i] = g[i]
BY DEF Stream, Cat

LEMMA CatEmpty ==
    ASSUME NEW f \in Stream, NEW g \in Stream, Len(g) = 0
    PROVE  Cat(f, g) = f
BY DEF Stream, Cat

LEMMA CatAssociative ==
    ASSUME NEW f \in Stream, NEW g \in Stream, NEW h \in Stream
    PROVE  Cat(Cat(f, g), h) = Cat(f, Cat(g, h))
<1>1. f \in Seq(HalfLines) /\ g \in Seq(HalfLines) /\ h \in Seq(HalfLines)
  BY DEF Stream
<1>2. (f \o g) \o h = f \o (g \o h)
  BY ONLY <1>1, ConcatAssociative, SMTT(40)
<1> QED
  BY ONLY <1>2 DEF Cat

LEMMA UptoType ==
    ASSUME NEW f \in Stream, NEW n \in 0 .. Len(f)
    PROVE  Upto(f, n) \in Stream /\ Len(Upto(f, n)) = n
BY DEF Stream, Upto

LEMMA AfterType ==
    ASSUME NEW f \in Stream, NEW n \in 0 .. Len(f)
    PROVE  After(f, n) \in Stream /\ Len(After(f, n)) = Len(f) - n
BY DEF Stream, After

LEMMA AfterItem ==
    ASSUME NEW f \in Stream, NEW n \in 0 .. Len(f), NEW i \in 1 .. Len(f) - n
    PROVE  After(f, n)[i] = f[n + i]
BY DEF Stream, After

LEMMA UptoAfter ==
    ASSUME NEW f \in Stream, NEW n \in 0 .. Len(f)
    PROVE  Cat(Upto(f, n), After(f, n)) = f
<1>1. /\ 1 \in 1 .. Len(f) + 1 /\ n \in (1 - 1) .. Len(f)
      /\ Len(f) \in n .. Len(f)
  BY StreamLen
<1>2. SubSeq(f, 1, n) \o SubSeq(f, n + 1, Len(f)) = SubSeq(f, 1, Len(f))
  BY <1>1, ConcatAdjacentSubSeq DEF Stream
<1>3. SubSeq(f, 1, Len(f)) = f
  BY SubSeqFull DEF Stream
<1> QED
  BY ONLY <1>2, <1>3 DEF Cat, Upto, After

-----------------------------------------------------------------------------
(* Lines.                                                                  *)

\* Whole lines that viewer v may get, and nothing else.
Whole(f, v) == Len(f) % 2 = 0 /\ Paired(f, v)

\* Line number j of f.
LineAt(f, v, j) ==
    /\ f[2 * j - 1] = <<f[2 * j][1], 1>> /\ f[2 * j][2] = 2
    /\ f[2 * j][1] \in {NoAudio, v}

\* Paired without the division.
LEMMA PairedIs ==
    ASSUME NEW f \in Stream, NEW v
    PROVE  Paired(f, v) <=> \A j \in Nat \ {0} : 2 * j <= Len(f) => LineAt(f, v, j)
<1>1. Len(f) \in Nat
  BY StreamLen
<1>2. \A j \in Nat \ {0} : j \in 1 .. Len(f) \div 2 <=> 2 * j <= Len(f)
  BY <1>1
<1>3. Paired(f, v) <=> \A j \in 1 .. Len(f) \div 2 : LineAt(f, v, j)
  BY DEF Paired, LineAt
<1>4. \A j \in 1 .. Len(f) \div 2 : j \in Nat \ {0}
  BY <1>1
<1> QED
  BY <1>2, <1>3, <1>4

\* A line is two halves.
LEMMA HalvesType ==
    ASSUME NEW v \in Viewers, NEW a \in {NoAudio, v}
    PROVE  /\ Halves(a) \in Stream /\ Len(Halves(a)) = 2
           /\ Halves(a)[1] = <<a, 1>> /\ Halves(a)[2] = <<a, 2>>
BY DEF Stream, Halves, HalfLines, Lines

\* A line is added behind whole ones (slot_queue).
LEMMA WholeAppend ==
    ASSUME NEW v \in Viewers, NEW a \in {NoAudio, v},
           NEW f \in Stream, Whole(f, v)
    PROVE  Whole(Cat(f, Halves(a)), v)
<1>1. PICK n \in Nat : Len(f) = 2 * n
  BY StreamLen DEF Whole
<1>2. PICK line : line = Halves(a)
  OBVIOUS
<1>3. PICK g : g = Cat(f, line)
  OBVIOUS
<1>4. /\ line \in Stream /\ Len(line) = 2
      /\ line[1] = <<a, 1>> /\ line[2] = <<a, 2>>
  BY <1>2, HalvesType
<1>5. g \in Stream /\ Len(g) = 2 * n + 2
  BY <1>1, <1>3, <1>4, CatType
<1>6. \A i \in 1 .. 2 * n : g[i] = f[i]
  BY <1>1, <1>3, <1>4, CatFirst
<1>7. g[2 * n + 1] = <<a, 1>> /\ g[2 * n + 2] = <<a, 2>>
  <2>1. 1 \in 1 .. Len(line) /\ 2 \in 1 .. Len(line)
    BY <1>4
  <2>2. Cat(f, line)[Len(f) + 1] = line[1] /\ Cat(f, line)[Len(f) + 2] = line[2]
    BY <1>4, <2>1, CatSecond
  <2> QED
    BY <1>1, <1>3, <1>4, <2>2
<1>8. \A j \in Nat \ {0} : 2 * j <= Len(f) => LineAt(f, v, j)
  BY PairedIs DEF Whole
<1>9. ASSUME NEW j \in Nat \ {0}, 2 * j <= Len(g) PROVE LineAt(g, v, j)
  <2>1. CASE j <= n
    <3>1. g[2 * j] = f[2 * j] /\ g[2 * j - 1] = f[2 * j - 1]
      BY <1>6, <2>1
    <3>2. LineAt(f, v, j)
      BY <1>1, <1>8, <2>1
    <3> QED
      BY <3>1, <3>2 DEF LineAt
  <2>2. CASE j = n + 1
    <3>1. 2 * j = 2 * n + 2 /\ 2 * j - 1 = 2 * n + 1
      BY <2>2
    <3> QED
      BY <3>1, <1>7 DEF LineAt
  <2> QED
    BY <1>5, <1>9, <2>1, <2>2
<1>10. Paired(g, v)
  BY <1>5, <1>9, PairedIs
<1>11. Len(g) % 2 = 0
  BY <1>5
<1> QED
  BY <1>2, <1>3, <1>10, <1>11 DEF Whole

\* Whole lines are taken from the front (client_drain_read).
LEMMA PairedAfter ==
    ASSUME NEW v, NEW f \in Stream, NEW g \in Stream,
           NEW n \in Nat, 2 * n <= Len(f), Paired(Cat(f, g), v)
    PROVE  Paired(Cat(After(f, 2 * n), g), v)
<1>1. PICK m \in 0 .. Len(f) : m = 2 * n
  BY StreamLen
<1>2. PICK r : r = After(f, m)
  OBVIOUS
<1>3. PICK c : c = Cat(f, g)
  OBVIOUS
<1>4. PICK d : d = Cat(r, g)
  OBVIOUS
<1>5. r \in Stream /\ Len(r) = Len(f) - m /\ \A i \in 1 .. Len(r) : r[i] = f[m + i]
  <2>1. r \in Stream /\ Len(r) = Len(f) - m
    BY <1>2, AfterType
  <2>2. \A i \in 1 .. Len(f) - m : After(f, m)[i] = f[m + i]
    BY AfterItem
  <2> QED
    BY <1>2, <2>1, <2>2
<1>6. /\ c \in Stream /\ Len(c) = Len(f) + Len(g)
      /\ \A i \in 1 .. Len(f) : c[i] = f[i]
      /\ \A i \in 1 .. Len(g) : c[Len(f) + i] = g[i]
  BY <1>3, CatType, CatFirst, CatSecond
<1>7. /\ d \in Stream /\ Len(d) = Len(r) + Len(g)
      /\ \A i \in 1 .. Len(r) : d[i] = r[i]
      /\ \A i \in 1 .. Len(g) : d[Len(r) + i] = g[i]
  <2>1. d \in Stream /\ Len(d) = Len(r) + Len(g)
    BY <1>4, <1>5, CatType
  <2>2. \A i \in 1 .. Len(r) : d[i] = r[i]
    BY ONLY <1>4, <1>5, g \in Stream, CatFirst
  <2>3. \A i \in 1 .. Len(g) : d[Len(r) + i] = g[i]
    BY ONLY <1>4, <1>5, g \in Stream, CatSecond
  <2> QED
    BY <2>1, <2>2, <2>3
<1>8. Len(f) \in Nat /\ Len(g) \in Nat /\ Len(r) \in Nat
  BY <1>5, StreamLen
<1>9. ASSUME NEW i \in 1 .. Len(d) PROVE d[i] = c[m + i]
  <2>1. CASE i <= Len(r)
    BY <1>5, <1>6, <1>7, <1>8, <2>1
  <2>2. CASE i > Len(r)
    <3>1. PICK k \in 1 .. Len(g) : i = Len(r) + k
      <4>1. i - Len(r) \in 1 .. Len(g) /\ i = Len(r) + (i - Len(r))
        BY <1>7, <1>8, <2>2
      <4> QED
        BY <4>1
    <3>2. m + i = Len(f) + k
      BY <1>5, <1>8, <3>1
    <3> QED
      BY <1>6, <1>7, <3>1, <3>2
  <2> QED
    BY <1>8, <2>1, <2>2
<1>10. \A j \in Nat \ {0} : 2 * j <= Len(c) => LineAt(c, v, j)
  BY <1>3, <1>6, PairedIs
<1>11. ASSUME NEW j \in Nat \ {0}, 2 * j <= Len(d) PROVE LineAt(d, v, j)
  <2>1. 2 * j \in 1 .. Len(d) /\ 2 * j - 1 \in 1 .. Len(d)
    BY <1>7, <1>8, <1>11
  <2>2. d[2 * j] = c[m + 2 * j] /\ d[2 * j - 1] = c[m + (2 * j - 1)]
    BY <1>9, <2>1
  <2>3. PICK k \in Nat \ {0} : k = j + n
    OBVIOUS
  <2>4. m + 2 * j = 2 * k /\ m + (2 * j - 1) = 2 * k - 1
    BY <1>1, <2>3
  <2>5. LineAt(c, v, k)
    <3>1. 2 * k <= Len(c)
      BY <1>1, <1>5, <1>6, <1>7, <1>8, <1>11, <2>3
    <3> QED
      BY <1>10, <3>1
  <2> QED
    BY <2>2, <2>4, <2>5 DEF LineAt
<1>12. Paired(d, v)
  BY <1>7, <1>11, PairedIs
<1> QED
  BY <1>1, <1>2, <1>4, <1>12

\* What comes first is whole, too.
LEMMA PairedPrefix ==
    ASSUME NEW v, NEW f \in Stream, NEW g \in Stream, Paired(Cat(f, g), v)
    PROVE  Paired(f, v)
<1>1. PICK c : c = Cat(f, g)
  OBVIOUS
<1>2. /\ c \in Stream /\ Len(c) = Len(f) + Len(g)
      /\ \A i \in 1 .. Len(f) : c[i] = f[i]
  BY <1>1, CatType, CatFirst
<1>3. Len(f) \in Nat /\ Len(g) \in Nat
  BY StreamLen
<1>4. \A j \in Nat \ {0} : 2 * j <= Len(c) => LineAt(c, v, j)
  BY <1>1, <1>2, PairedIs
<1>5. ASSUME NEW j \in Nat \ {0}, 2 * j <= Len(f) PROVE LineAt(f, v, j)
  <2>1. 2 * j \in 1 .. Len(f) /\ 2 * j - 1 \in 1 .. Len(f) /\ 2 * j <= Len(c)
    BY <1>2, <1>3, <1>5
  <2>2. c[2 * j] = f[2 * j] /\ c[2 * j - 1] = f[2 * j - 1]
    BY <1>2, <2>1
  <2>3. LineAt(c, v, j)
    BY <1>4, <2>1
  <2> QED
    BY <2>2, <2>3 DEF LineAt
<1> QED
  BY <1>5, PairedIs

\* Writing moves half lines from the buffer to the socket and changes nothing
\* of what is on its way (slot_drain_write).
LEMMA MovedOut ==
    ASSUME NEW h \in Stream, NEW w \in Stream, NEW out \in Stream,
           NEW n \in 0 .. Len(out)
    PROVE  Cat(Cat(h, Cat(w, Upto(out, n))), After(out, n)) = Cat(Cat(h, w), out)
<1>1. PICK a : a = Upto(out, n)
  OBVIOUS
<1>2. PICK b : b = After(out, n)
  OBVIOUS
<1>3. a \in Stream /\ b \in Stream /\ Cat(a, b) = out
  BY <1>1, <1>2, UptoType, AfterType, UptoAfter
<1>4. Cat(h, w) \in Stream
  BY CatType
<1>5. Cat(Cat(h, w), a) = Cat(h, Cat(w, a))
  BY <1>3, CatAssociative
<1>6. Cat(Cat(Cat(h, w), a), b) = Cat(Cat(h, w), Cat(a, b))
  BY <1>3, <1>4, CatAssociative
<1> QED
  BY <1>1, <1>2, <1>3, <1>5, <1>6

-----------------------------------------------------------------------------
(* What may become of an outbox.                                           *)

SlotRec == [v : Viewers \cup {None}, id : Nat, out : Stream, dead : BOOLEAN]

\* The outbox of a client: its buffers are within their bounds.
Box(o) ==
    /\ o \in [s : SlotRec, w : Stream, gap : BOOLEAN]
    /\ o.s.v \in Viewers
    /\ Len(o.s.out) <= WriteCap /\ Len(o.w) <= SockCap

\* With what its viewer has read already, it is whole lines.
Sound(h, o) == Whole(Cat(Cat(h, o.w), o.s.out), o.s.v)

\* p is a later state of outbox o: the same client, which stays dead once it is
\* and is dead if a line is missing; nothing is written to a closed
\* connection; whole lines stay whole.
Goes(o, p) ==
    /\ Box(p)
    /\ p.s.v = o.s.v /\ p.s.id = o.s.id
    /\ o.s.dead => p.s.dead
    /\ o.gap => p.gap
    /\ p.gap => o.gap \/ p.s.dead
    /\ conn[o.s.v] = "closed" => p.w = o.w
    /\ \A h \in Stream : Sound(h, o) => Sound(h, p)

LEMMA GoesSelf ==
    ASSUME NEW o, Box(o)
    PROVE  Goes(o, o)
BY DEF Goes

LEMMA GoesOn ==
    ASSUME NEW o, NEW p, NEW q, Goes(o, p), Goes(p, q)
    PROVE  Goes(o, q)
BY DEF Goes

\* An outbox whose buffers are the same, with a client given up.
LEMMA GivenUp ==
    ASSUME NEW o, Box(o), NEW g \in BOOLEAN, o.gap => g
    PROVE  Goes(o, [o EXCEPT !.s.dead = TRUE, !.gap = g])
<1> DEFINE p == [o EXCEPT !.s.dead = TRUE, !.gap = g]
<1>1. /\ p \in [s : SlotRec, w : Stream, gap : BOOLEAN]
      /\ p.s.v = o.s.v /\ p.s.id = o.s.id /\ p.s.out = o.s.out /\ p.s.dead = TRUE
      /\ p.w = o.w /\ p.gap = g
  BY DEF Box, SlotRec
<1> HIDE DEF p
<1>2. \A h : Sound(h, p) = Sound(h, o)
  BY <1>1 DEF Sound
<1>3. Goes(o, p)
  BY <1>1, <1>2 DEF Goes, Box
<1> QED
  BY <1>3 DEF p

LEMMA MarkedDead ==
    ASSUME NEW o, Box(o)
    PROVE  Goes(o, [o EXCEPT !.s.dead = TRUE])
<1> DEFINE p == [o EXCEPT !.s.dead = TRUE]
<1>1. /\ p \in [s : SlotRec, w : Stream, gap : BOOLEAN]
      /\ p.s.v = o.s.v /\ p.s.id = o.s.id /\ p.s.out = o.s.out /\ p.s.dead = TRUE
      /\ p.w = o.w /\ p.gap = o.gap
  BY DEF Box, SlotRec
<1> HIDE DEF p
<1>2. \A h : Sound(h, p) = Sound(h, o)
  BY <1>1 DEF Sound
<1>3. Goes(o, p)
  BY <1>1, <1>2 DEF Goes, Box
<1> QED
  BY <1>3 DEF p

\* slot_drain_write.
LEMMA Drained ==
    ASSUME NEW o, Box(o)
    PROVE  Goes(o, DrainWrite(o))
<1>1. CASE conn[o.s.v] = "closed" /\ o.s.out # <<>>
  BY <1>1, MarkedDead DEF DrainWrite
<1>2. CASE ~(conn[o.s.v] = "closed" /\ o.s.out # <<>>)
  <2>1. PICK out \in Stream, ow \in Stream : out = o.s.out /\ ow = o.w
    BY DEF Box, SlotRec
  <2>2. PICK room \in Nat : room = SockCap - Len(ow)
    BY <2>1, StreamLen DEF Box
  <2>3. Len(out) \in Nat /\ Len(ow) \in Nat
    BY StreamLen
  <2>4. PICK n \in 0 .. Len(out) : n = IF room < Len(out) THEN room ELSE Len(out)
    BY <2>3
  <2>5. PICK moved, rest : moved = Upto(out, n) /\ rest = After(out, n)
    OBVIOUS
  <2>6. PICK w : w = Cat(ow, moved)
    OBVIOUS
  <2> DEFINE p == [o EXCEPT !.s.out = rest, !.w = w]
  <2>7. DrainWrite(o) = p
    <3>1. DrainWrite(o) = [o EXCEPT !.s.out = SubSeq(@, n + 1, Len(@)),
                                    !.w = @ \o SubSeq(o.s.out, 1, n)]
      BY <1>2, <2>1, <2>2, <2>4 DEF DrainWrite
    <3>2. rest = SubSeq(o.s.out, n + 1, Len(o.s.out)) /\ w = o.w \o SubSeq(o.s.out, 1, n)
      BY <2>1, <2>5, <2>6 DEF Upto, After, Cat
    <3> QED
      BY ONLY <3>1, <3>2, Zenon
  <2>8. /\ moved \in Stream /\ Len(moved) = n
        /\ rest \in Stream /\ Len(rest) = Len(out) - n
    BY <2>5, UptoType, AfterType
  <2>9. w \in Stream /\ Len(w) = Len(ow) + n
    BY <2>6, <2>8, CatType
  <2>10. /\ p \in [s : SlotRec, w : Stream, gap : BOOLEAN]
         /\ p.s.v = o.s.v /\ p.s.id = o.s.id /\ p.s.out = rest
         /\ p.s.dead = o.s.dead /\ p.w = w /\ p.gap = o.gap
    BY <2>8, <2>9 DEF Box, SlotRec
  <2> HIDE DEF p
  <2>11. Len(p.w) <= SockCap /\ Len(p.s.out) <= WriteCap
    <3>1. n <= room /\ Len(out) <= WriteCap
      BY <2>1, <2>3, <2>4 DEF Box
    <3> QED
      BY <2>2, <2>3, <2>8, <2>9, <2>10, <3>1
  <2>12. conn[o.s.v] = "closed" => p.w = o.w
    <3> SUFFICES ASSUME conn[o.s.v] = "closed" PROVE p.w = o.w
      OBVIOUS
    <3>1. Len(out) = 0
      BY <1>2, <2>1
    <3>2. Len(moved) = 0
      BY <2>3, <2>4, <2>8, <3>1
    <3> QED
      BY <2>1, <2>6, <2>8, <2>10, <3>2, CatEmpty
  <2>13. ASSUME NEW h \in Stream PROVE Sound(h, o) => Sound(h, p)
    <3>1. Cat(Cat(h, w), rest) = Cat(Cat(h, ow), out)
      BY <2>5, <2>6, MovedOut
    <3> QED
      BY <2>1, <2>10, <3>1 DEF Sound
  <2> QED
    <3>1. Box(p)
      BY <2>10, <2>11 DEF Box
    <3>2. Goes(o, p)
      BY <2>10, <2>12, <2>13, <3>1 DEF Goes
    <3> QED
      BY <2>7, <3>2
<1> QED
  BY <1>1, <1>2

\* A line the client may get is queued.
LEMMA Queued ==
    ASSUME NEW o, Box(o), Fits(o), NEW a \in {NoAudio, o.s.v}
    PROVE  Goes(o, [o EXCEPT !.s.out = @ \o Halves(a)])
<1>1. /\ o.s.v \in Viewers /\ o.s.out \in Stream /\ o.w \in Stream
      /\ Len(o.w) <= SockCap
  BY DEF Box, SlotRec
<1>2. PICK line : line = Halves(a)
  OBVIOUS
<1>3. line \in Stream /\ Len(line) = 2
  BY <1>1, <1>2, HalvesType
<1>4. PICK old \in Stream : old = o.s.out
  BY <1>1
<1>5. PICK out \in Stream : out = Cat(old, line) /\ Len(out) = Len(old) + 2
  <2>1. Cat(old, line) \in Stream /\ Len(Cat(old, line)) = Len(old) + Len(line)
    BY <1>3, CatType
  <2> QED
    BY <1>3, <2>1
<1> DEFINE p == [o EXCEPT !.s.out = out]
<1>6. [o EXCEPT !.s.out = @ \o Halves(a)] = p
  BY <1>2, <1>4, <1>5, Zenon DEF Cat
<1>7. /\ p \in [s : SlotRec, w : Stream, gap : BOOLEAN]
      /\ p.s.v = o.s.v /\ p.s.id = o.s.id /\ p.s.out = out
      /\ p.s.dead = o.s.dead /\ p.w = o.w /\ p.gap = o.gap
  BY <1>5 DEF Box, SlotRec
<1> HIDE DEF p
<1>8. Len(p.s.out) <= WriteCap
  BY <1>4, <1>5, <1>7 DEF Fits
<1>9. ASSUME NEW h \in Stream, Sound(h, o) PROVE Sound(h, p)
  <2>1. PICK hw : hw = Cat(h, o.w)
    OBVIOUS
  <2>2. hw \in Stream
    BY <1>1, <2>1, CatType
  <2>3. PICK f : f = Cat(hw, old)
    OBVIOUS
  <2>4. f \in Stream
    BY <2>2, <2>3, CatType
  <2>5. Whole(f, o.s.v)
    BY <1>4, <1>9, <2>1, <2>3 DEF Sound
  <2>6. Whole(Cat(f, line), o.s.v)
    BY <1>1, <1>2, <2>4, <2>5, WholeAppend
  <2>7. Cat(f, line) = Cat(hw, out)
    BY <1>3, <1>5, <2>2, <2>3, CatAssociative
  <2> QED
    BY <1>7, <2>1, <2>6, <2>7 DEF Sound
<1> QED
  <2>1. Box(p)
    BY <1>1, <1>7, <1>8 DEF Box
  <2>2. Goes(o, p)
    BY <1>7, <1>9, <2>1 DEF Goes
  <2> QED
    BY <1>6, <2>2

\* sso_ipc_server_send.
LEMMA SentReliably ==
    ASSUME NEW o, Box(o), NEW a \in {NoAudio, o.s.v}
    PROVE  Goes(o, Send(o, a))
<1> DEFINE p == IF Fits(o) THEN [o EXCEPT !.s.out = @ \o Halves(a)]
                           ELSE [o EXCEPT !.s.dead = TRUE, !.gap = TRUE]
<1>1. Goes(o, p)
  BY Queued, GivenUp
<1>2. Send(o, a) = DrainWrite(p)
  BY DEF Send
<1> HIDE DEF p
<1>3. Goes(p, DrainWrite(p))
  BY <1>1, Drained DEF Goes
<1> QED
  BY <1>1, <1>2, <1>3, GoesOn

\* sso_ipc_server_send_lossy.
LEMMA SentLossily ==
    ASSUME NEW o, Box(o), NEW a \in {NoAudio, o.s.v}
    PROVE  Goes(o, SendLossy(o, a))
<1> DEFINE d == DrainWrite(o)
           p == IF Fits(d) THEN [d EXCEPT !.s.out = @ \o Halves(a)] ELSE d
<1>1. SendLossy(o, a) = DrainWrite(p)
  BY DEF SendLossy
<1>2. Goes(o, d)
  BY Drained
<1> HIDE DEF d
<1>3. Box(d) /\ a \in {NoAudio, d.s.v}
  BY <1>2 DEF Goes
<1>4. Goes(d, p)
  BY <1>3, Queued, GoesSelf
<1> HIDE DEF p
<1>5. Goes(p, DrainWrite(p))
  BY <1>4, Drained DEF Goes
<1> QED
  BY <1>1, <1>2, <1>4, <1>5, GoesOn

\* audio_sub_sink, for a stream the client asked for.
LEMMA Sunk ==
    ASSUME NEW o, Box(o), NEW sub, sub.for = o.s.v
    PROVE  Goes(o, Sink(o, sub))
BY SentReliably, SentLossily DEF Sink

-----------------------------------------------------------------------------
(* The inductive invariant.                                                *)

\* srv->clients: ids and viewers are not used twice.
Tables ==
    /\ \A i \in Slots : ~Used(i) => slot[i] = FreeSlot
    /\ \A i \in Slots : Used(i) => /\ slot[i].id > 0 /\ slot[i].id < nextId
                                   /\ conn[slot[i].v] \in {"open", "closed"}
    /\ \A i, j \in Slots :
         /\ Used(i) /\ Used(j)
         /\ slot[i].v = slot[j].v \/ slot[i].id = slot[j].id
         => i = j

Seated(v) == \E i \in Slots : slot[i].v = v
Waits(v) == \E m \in 1 .. Len(backlog) : backlog[m] = v

\* A connection is accepted once.
Waiting ==
    /\ \A v \in Viewers : Waits(v) => conn[v] \in {"open", "closed"} /\ ~Seated(v)
    /\ \A m, n \in 1 .. Len(backlog) : backlog[m] = backlog[n] => m = n
    /\ \A v \in Viewers : conn[v] = "open" => Seated(v) \/ Waits(v)

\* What poll() reported is about clients, and used up before the step ends.
Phases ==
    /\ \A e \in revents : Used(e[1])
    /\ at # "serve" => revents = {}

\* The subscriptions: one for a client, made for the viewer that has the
\* client's id as long as somebody has it.
Listening ==
    /\ \A k \in Subs : subs[k].on => subs[k].id > 0 /\ subs[k].id < nextId
    /\ \A k, l \in Subs : subs[k].on /\ subs[l].on /\ subs[k].id = subs[l].id => k = l
    /\ \A k \in Subs, i \in Slots :
         subs[k].on /\ Used(i) /\ subs[k].id = slot[i].id => subs[k].for = slot[i].v
    /\ ListenersCounted

\* What is on its way.  To a viewer that is not connected any more it may end
\* with half a line; whoever has no slot yet or has hung up gets nothing.
Streams ==
    /\ wrong = {}
    /\ \A v \in Viewers : Paired(Cat(half[v], wire[v]), v)
    /\ \A v \in Viewers : conn[v] # "shut" /\ (conn[v] = "open" => ~Seated(v)) =>
         half[v] = <<>> /\ wire[v] = <<>>
    /\ \A i \in Slots : Used(i) /\ conn[slot[i].v] = "open" =>
         Sound(half[slot[i].v], Outbox(i))

\* Who misses a line is given up.
Gaps == \A v \in gap : \E i \in Slots : slot[i].v = v /\ slot[i].dead

IInv == TypeOK /\ Tables /\ Waiting /\ Phases /\ Listening /\ Streams /\ Gaps

-----------------------------------------------------------------------------
(* What sending does to clients and wires, whatever is sent to whom.       *)

Later(i) == [s |-> slot'[i], w |-> wire'[slot'[i].v], gap |-> slot'[i].v \in gap']

Sent ==
    /\ slot' \in [Slots -> SlotRec] /\ wire' \in [Viewers -> Stream]
    /\ gap' \subseteq Viewers
    /\ \A i \in Slots : ~Used(i) => slot'[i] = slot[i]
    /\ \A i \in Slots : Used(i) => Goes(Outbox(i), Later(i))
    /\ \A v \in Viewers : ~Seated(v) => wire'[v] = wire[v] /\ (v \in gap' => v \in gap)

LEMMA Types ==
    ASSUME TypeOK
    PROVE  /\ slot \in [Slots -> SlotRec]
           /\ wire \in [Viewers -> Stream] /\ half \in [Viewers -> Stream]
           /\ \A i \in Slots : Len(slot[i].out) <= WriteCap
           /\ \A v \in Viewers : Len(wire[v]) <= SockCap
           /\ gap \subseteq Viewers
BY DEF TypeOK, SlotRec, Stream

LEMMA SlotFields ==
    ASSUME TypeOK, NEW i \in Slots
    PROVE  /\ slot[i] \in SlotRec
           /\ slot[i].v \in Viewers \cup {None} /\ slot[i].id \in Nat
           /\ slot[i].out \in Stream /\ slot[i].dead \in BOOLEAN
           /\ Used(i) <=> slot[i].v \in Viewers
<1>1. slot[i] \in SlotRec
  BY Types
<1> QED
  BY <1>1 DEF SlotRec, Used

LEMMA OutboxIs ==
    ASSUME TypeOK, NEW i \in Slots, Used(i)
    PROVE  /\ Box(Outbox(i))
           /\ Outbox(i).s = slot[i] /\ Outbox(i).w = wire[slot[i].v]
           /\ Outbox(i).gap = (slot[i].v \in gap)
<1>1. slot[i] \in SlotRec /\ slot[i].v \in Viewers
  BY SlotFields
<1>2. wire[slot[i].v] \in Stream /\ Len(wire[slot[i].v]) <= SockCap
  BY <1>1, Types
<1>3. Len(slot[i].out) <= WriteCap
  BY Types
<1> QED
  BY <1>1, <1>2, <1>3 DEF Box, Outbox

\* Deliver: to one client.
LEMMA DeliverSends ==
    ASSUME TypeOK, Tables, NEW i \in Slots, Used(i),
           NEW o, Goes(Outbox(i), o), Deliver(i, o)
    PROVE  Sent
<1>1. PICK v \in Viewers : v = slot[i].v
  BY SlotFields
<1>2. /\ o \in [s : SlotRec, w : Stream, gap : BOOLEAN] /\ o.s.v = v
      /\ v \in gap => o.gap
  BY <1>1, OutboxIs DEF Goes, Box
<1>3. /\ slot' = [slot EXCEPT ![i] = o.s] /\ wire' = [wire EXCEPT ![v] = o.w]
      /\ gap' = IF o.gap THEN gap \cup {v} ELSE gap
  BY <1>1 DEF Deliver
<1>4. /\ slot \in [Slots -> SlotRec] /\ wire \in [Viewers -> Stream]
      /\ gap \subseteq Viewers
  BY Types
<1>5. /\ slot' \in [Slots -> SlotRec] /\ wire' \in [Viewers -> Stream]
      /\ gap' \subseteq Viewers
      /\ slot'[i] = o.s /\ \A j \in Slots : j # i => slot'[j] = slot[j]
      /\ wire'[v] = o.w /\ \A u \in Viewers : u # v => wire'[u] = wire[u]
      /\ v \in gap' <=> o.gap
      /\ \A u \in Viewers : u # v => (u \in gap' <=> u \in gap)
  BY <1>2, <1>3, <1>4
<1>6. Later(i) = o
  BY <1>2, <1>5 DEF Later
<1>7. ASSUME NEW j \in Slots, Used(j), j # i PROVE Goes(Outbox(j), Later(j))
  <2>1. slot[j].v \in Viewers /\ slot[j].v # v /\ slot'[j] = slot[j]
    BY <1>1, <1>5, <1>7, SlotFields DEF Tables
  <2>2. Later(j) = Outbox(j)
    BY <1>5, <2>1 DEF Later, Outbox
  <2> QED
    BY <1>7, <2>2, OutboxIs, GoesSelf
<1>8. \A u \in Viewers : ~Seated(u) => u # v
  BY <1>1 DEF Seated
<1> QED
  BY <1>5, <1>6, <1>7, <1>8 DEF Sent

\* DeliverAll: to several.
LEMMA DeliverAllSends ==
    ASSUME TypeOK, Tables, NEW o, DOMAIN o \subseteq Slots,
           \A i \in DOMAIN o : Used(i) /\ Goes(Outbox(i), o[i]), DeliverAll(o)
    PROVE  Sent
<1>1. /\ slot \in [Slots -> SlotRec] /\ wire \in [Viewers -> Stream]
      /\ gap \subseteq Viewers
  BY Types
<1>2. ASSUME NEW i \in DOMAIN o
      PROVE  /\ o[i] \in [s : SlotRec, w : Stream, gap : BOOLEAN]
             /\ o[i].s.v = slot[i].v /\ slot[i].v \in Viewers
             /\ slot[i].v \in gap => o[i].gap
  <2>1. i \in Slots /\ Used(i) /\ Goes(Outbox(i), o[i])
    OBVIOUS
  <2> QED
    BY <2>1, OutboxIs, SlotFields DEF Goes, Box
<1>3. ASSUME NEW i \in DOMAIN o
      PROVE  (CHOOSE j \in DOMAIN o : slot[j].v = slot[i].v) = i
  BY DEF Tables
<1>4. slot' \in [Slots -> SlotRec]
  BY <1>1, <1>2 DEF DeliverAll
<1>5. wire' \in [Viewers -> Stream]
  <2> SUFFICES ASSUME NEW v \in Viewers, NEW i \in DOMAIN o, slot[i].v = v
               PROVE  o[CHOOSE j \in DOMAIN o : slot[j].v = v].w \in Stream
    BY <1>1 DEF DeliverAll
  <2> QED
    BY <1>2, <1>3
<1>6. gap' \subseteq Viewers
  BY <1>1, <1>2 DEF DeliverAll
<1>7. ASSUME NEW i \in Slots, i \notin DOMAIN o PROVE slot'[i] = slot[i]
  BY <1>7 DEF DeliverAll
<1>8. ASSUME NEW i \in DOMAIN o PROVE Later(i) = o[i]
  <2>1. slot'[i] = o[i].s
    BY DEF DeliverAll
  <2>2. wire'[slot[i].v] = o[i].w
    BY <1>2, <1>3 DEF DeliverAll
  <2>3. slot[i].v \in gap' <=> o[i].gap
    <3>1. o[i].gap => slot[i].v \in gap'
      BY DEF DeliverAll
    <3>2. ASSUME NEW j \in DOMAIN o, slot[j].v = slot[i].v PROVE j = i
      BY <3>2 DEF Tables
    <3>3. slot[i].v \in gap' => slot[i].v \in gap \/ o[i].gap
      BY <3>2 DEF DeliverAll
    <3> QED
      BY <1>2, <3>1, <3>3
  <2> QED
    BY <1>2, <2>1, <2>2, <2>3 DEF Later
<1>9. ASSUME NEW v \in Viewers, \A i \in DOMAIN o : slot[i].v # v
      PROVE  wire'[v] = wire[v] /\ (v \in gap' <=> v \in gap)
  BY <1>9 DEF DeliverAll
<1>10. ASSUME NEW i \in Slots, Used(i), i \notin DOMAIN o
       PROVE  Goes(Outbox(i), Later(i))
  <2>1. slot[i].v \in Viewers /\ \A j \in DOMAIN o : slot[j].v # slot[i].v
    BY <1>10, SlotFields DEF Tables
  <2>2. Later(i) = Outbox(i)
    BY <1>7, <1>9, <1>10, <2>1 DEF Later, Outbox
  <2> QED
    BY <1>10, <2>2, OutboxIs, GoesSelf
<1>11. ASSUME NEW v \in Viewers, ~Seated(v) PROVE \A i \in DOMAIN o : slot[i].v # v
  BY <1>11 DEF Seated
<1>12. \A i \in DOMAIN o : Goes(Outbox(i), Later(i))
  BY <1>8
<1> QED
  BY <1>4, <1>5, <1>6, <1>7, <1>9, <1>10, <1>11, <1>12 DEF Sent

\* The same clients are there; a dead one stays dead.
LEMMA SentSlots ==
    ASSUME TypeOK, Tables, Sent, NEW i \in Slots
    PROVE  /\ slot'[i].v = slot[i].v /\ slot'[i].id = slot[i].id
           /\ slot[i].dead => slot'[i].dead
           /\ Len(slot'[i].out) <= WriteCap
           /\ slot'[i].v \in Viewers \cup {None} /\ (Used(i)' <=> Used(i))
<1>1. slot[i] \in SlotRec /\ slot'[i] \in SlotRec /\ Len(slot[i].out) <= WriteCap
  BY Types DEF Sent
<1>2. CASE ~Used(i)
  BY <1>1, <1>2 DEF Sent, Used, SlotRec
<1>3. CASE Used(i)
  <2>1. Goes(Outbox(i), Later(i))
    BY <1>3 DEF Sent
  <2>2. Outbox(i).s = slot[i] /\ Later(i).s = slot'[i]
    BY <1>3, OutboxIs DEF Later
  <2> QED
    BY <1>1, <2>1, <2>2 DEF Goes, Box, Used, SlotRec
<1> QED
  BY <1>2, <1>3

\* Clients, queue of connections, streams and gaps after sending.
LEMMA SentKeeps ==
    ASSUME TypeOK, Tables, Waiting, Streams, Gaps, Sent,
           UNCHANGED <<conn, half, wrong, nextId, backlog>>
    PROVE  /\ slot' \in [Slots -> SlotRec] /\ wire' \in [Viewers -> Stream]
           /\ \A i \in Slots : Len(slot'[i].out) <= WriteCap
           /\ \A v \in Viewers : Len(wire'[v]) <= SockCap
           /\ Tables' /\ Waiting' /\ Streams' /\ Gaps'
<1>1. /\ slot' \in [Slots -> SlotRec] /\ wire' \in [Viewers -> Stream]
      /\ gap' \subseteq Viewers /\ half \in [Viewers -> Stream]
      /\ wire \in [Viewers -> Stream]
  BY Types DEF Sent
<1>2. \A i \in Slots :
        /\ slot'[i].v = slot[i].v /\ slot'[i].id = slot[i].id
        /\ slot[i].dead => slot'[i].dead
        /\ Len(slot'[i].out) <= WriteCap
        /\ Used(i)' <=> Used(i)
  BY SentSlots
<1>3. \A v : Seated(v)' <=> Seated(v)
  BY <1>2 DEF Seated
<1>4. ASSUME NEW i \in Slots, Used(i)
      PROVE  /\ Goes(Outbox(i), Later(i)) /\ Outbox(i)' = Later(i)
             /\ Later(i).s = slot'[i] /\ Later(i).w = wire'[slot[i].v]
             /\ Later(i).gap <=> slot[i].v \in gap'
             /\ slot[i].v \in Viewers
  <2>1. slot'[i].v = slot[i].v
    BY <1>2
  <2>2. Goes(Outbox(i), Later(i))
    BY <1>4 DEF Sent
  <2> QED
    BY <1>4, <2>1, <2>2, SlotFields DEF Later, Outbox
<1>5. ASSUME NEW v \in Viewers PROVE Len(wire'[v]) <= SockCap
  <2>1. CASE ~Seated(v)
    BY <2>1, Types DEF Sent
  <2>2. CASE Seated(v)
    <3>1. PICK i \in Slots : slot[i].v = v
      BY <2>2 DEF Seated
    <3>2. Goes(Outbox(i), Later(i)) /\ Later(i).w = wire'[v]
      BY <1>4, <3>1 DEF Used
    <3> QED
      BY <3>2 DEF Goes, Box
  <2> QED
    BY <2>1, <2>2
<1>6. Tables'
  <2>1. \A i \in Slots : ~Used(i)' => slot'[i] = FreeSlot
    BY <1>2 DEF Tables, Sent
  <2>2. \A i \in Slots : Used(i)' => /\ slot'[i].id > 0 /\ slot'[i].id < nextId'
                                     /\ conn'[slot'[i].v] \in {"open", "closed"}
    BY <1>2 DEF Tables
  <2>3. \A i, j \in Slots :
          /\ Used(i)' /\ Used(j)'
          /\ slot'[i].v = slot'[j].v \/ slot'[i].id = slot'[j].id
          => i = j
    BY <1>2 DEF Tables
  <2> QED
    BY <2>1, <2>2, <2>3 DEF Tables
<1>7. Waiting'
  BY <1>3 DEF Waiting, Waits
<1>8. Streams'
  <2>1. ASSUME NEW i \in Slots, Used(i), conn[slot[i].v] = "open"
        PROVE  Sound(half[slot[i].v], Later(i))
    <3>1. Sound(half[slot[i].v], Outbox(i))
      BY <2>1 DEF Streams
    <3>2. half[slot[i].v] \in Stream
      BY <1>1, <1>4, <2>1
    <3> QED
      BY <1>4, <2>1, <3>1, <3>2 DEF Goes
  <2>2. ASSUME NEW v \in Viewers, conn[v] = "open", Seated(v)
        PROVE  Paired(Cat(half[v], wire'[v]), v)
    <3>1. PICK i \in Slots : slot[i].v = v
      BY <2>2 DEF Seated
    <3>2. Sound(half[v], Later(i))
      BY <2>1, <2>2, <3>1 DEF Used
    <3>3. /\ Later(i).w = wire'[v] /\ Later(i).s.v = v /\ Later(i).s.out \in Stream
      BY <1>1, <1>2, <1>4, <3>1 DEF Used, SlotRec
    <3>4. Paired(Cat(Cat(half[v], wire'[v]), Later(i).s.out), v)
      BY <3>2, <3>3 DEF Sound, Whole
    <3>5. Cat(half[v], wire'[v]) \in Stream
      BY <1>1, CatType
    <3> QED
      BY <3>3, <3>4, <3>5, PairedPrefix
  <2>3. ASSUME NEW v \in Viewers, conn[v] # "open" \/ ~Seated(v)
        PROVE  wire'[v] = wire[v]
    <3>1. CASE ~Seated(v)
      BY <3>1 DEF Sent
    <3>2. CASE Seated(v)
      <4>1. PICK i \in Slots : slot[i].v = v
        BY <3>2 DEF Seated
      <4>2. Used(i) /\ conn[v] = "closed"
        BY <2>3, <3>2, <4>1 DEF Used, Tables
      <4> QED
        BY <1>4, <4>1, <4>2, OutboxIs DEF Goes
    <3> QED
      BY <3>1, <3>2
  <2>4. \A v \in Viewers : Paired(Cat(half[v], wire'[v]), v)
    BY <2>2, <2>3 DEF Streams
  <2>5. \A v \in Viewers : conn[v] # "shut" /\ (conn[v] = "open" => ~Seated(v)) =>
          half[v] = <<>> /\ wire'[v] = <<>>
    BY <2>3 DEF Streams
  <2>6. \A i \in Slots : Used(i)' /\ conn'[slot'[i].v] = "open" =>
          Sound(half'[slot'[i].v], Outbox(i)')
    <3> SUFFICES ASSUME NEW i \in Slots, Used(i)', conn'[slot'[i].v] = "open"
                 PROVE  Sound(half'[slot'[i].v], Outbox(i)')
      OBVIOUS
    <3>1. Used(i) /\ slot'[i].v = slot[i].v /\ conn[slot[i].v] = "open"
      BY <1>2
    <3>2. Sound(half[slot[i].v], Later(i)) /\ Outbox(i)' = Later(i)
      BY <1>4, <2>1, <3>1
    <3> QED
      BY <3>1, <3>2
  <2>7. wrong' = {}
    BY DEF Streams
  <2> QED
    BY <1>3, <2>4, <2>5, <2>6, <2>7 DEF Streams
<1>9. Gaps'
  <2> SUFFICES ASSUME NEW v \in gap' PROVE \E i \in Slots : slot'[i].v = v /\ slot'[i].dead
    BY DEF Gaps
  <2>1. v \in Viewers
    BY <1>1
  <2>2. PICK i \in Slots : slot[i].v = v
    BY <2>1 DEF Gaps, Sent, Seated
  <2>3. Used(i) /\ slot[i].v \in Viewers
    BY <2>1, <2>2 DEF Used
  <2>4. Outbox(i).gap \/ slot'[i].dead
    BY <1>4, <2>2, <2>3 DEF Goes
  <2>5. Outbox(i).gap => slot[i].dead
    <3> SUFFICES ASSUME Outbox(i).gap PROVE slot[i].dead
      OBVIOUS
    <3>1. v \in gap
      BY <2>2, <2>3, OutboxIs
    <3>2. PICK j \in Slots : slot[j].v = v /\ slot[j].dead
      BY <3>1 DEF Gaps
    <3>3. j = i
      BY <2>2, <2>3, <3>2 DEF Tables, Used
    <3> QED
      BY <3>2, <3>3
  <2> QED
    BY <1>2, <2>2, <2>4, <2>5
<1> QED
  BY <1>1, <1>2, <1>5, <1>6, <1>7, <1>8, <1>9

-----------------------------------------------------------------------------
(* The subscriptions.                                                      *)

SubTable == [Subs -> [on : BOOLEAN, id : Nat, for : Viewers \cup {None},
                      started : BOOLEAN]]
OnSubs == {k \in Subs : subs[k].on}

\* The subscriptions belong to the clients they were made for.
SubsRight ==
    /\ \A k \in Subs : subs[k].on => subs[k].id > 0 /\ subs[k].id < nextId
    /\ \A k, l \in Subs : subs[k].on /\ subs[l].on /\ subs[k].id = subs[l].id => k = l
    /\ \A k \in Subs, i \in Slots :
         subs[k].on /\ Used(i) /\ subs[k].id = slot[i].id => subs[k].for = slot[i].v

\* Listening and the types, but for the sweep.
AudioOK ==
    /\ subs \in SubTable /\ SubsRight
    /\ gn \in Nat /\ gn = Cardinality(OnSubs)
    /\ tap \in BOOLEAN /\ (tap <=> gn > 0)
    /\ ring \in 0 .. RingCap

Swept == at = "broadcast" => \A k \in Subs : subs[k].on => subs[k].id \in LiveIds

LEMMA AudioIs ==
    ASSUME IInv
    PROVE  AudioOK /\ Swept
BY DEF IInv, TypeOK, Listening, ListenersCounted, AudioOK, Swept, SubTable, OnSubs, SubsRight

LEMMA SubsFinite ==
    /\ IsFiniteSet(Subs) /\ Subs \subseteq Nat
    /\ \A S : S \subseteq Subs => IsFiniteSet(S) /\ Cardinality(S) \in Nat
<1>1. IsFiniteSet(Subs)
  BY FS_Interval DEF Subs
<1>2. \A S : S \subseteq Subs => IsFiniteSet(S)
  BY <1>1, FS_Subset
<1> QED
  BY <1>1, <1>2, FS_CardinalityType DEF Subs

\* Every step that sends and leaves connections alone.
LEMMA SendingStep ==
    ASSUME IInv, Sent, AudioOK', Swept',
           UNCHANGED <<conn, half, wrong, nextId, backlog, receiver>>,
           at' \in {"poll", "serve", "pump", "broadcast", "over"},
           \A e \in revents' : e \in Slots \X {"hup", "in", "out"} /\ Used(e[1]),
           at' # "serve" => revents' = {},
           req' \in [Viewers -> Seq(Kinds \cup {"hello"})]
    PROVE  IInv'
<1>1. TypeOK /\ Tables /\ Waiting /\ Phases /\ Streams /\ Gaps
  BY DEF IInv
<1>2. /\ slot' \in [Slots -> SlotRec] /\ wire' \in [Viewers -> Stream]
      /\ \A i \in Slots : Len(slot'[i].out) <= WriteCap
      /\ \A v \in Viewers : Len(wire'[v]) <= SockCap
      /\ Tables' /\ Waiting' /\ Streams' /\ Gaps'
  BY <1>1, SentKeeps
<1>3. TypeOK'
  <2>1. /\ slot' \in [Slots -> [v : Viewers \cup {None}, id : Nat,
                                out : Seq(HalfLines), dead : BOOLEAN]]
        /\ wire' \in [Viewers -> Seq(HalfLines)] /\ gap' \subseteq Viewers
    BY <1>2 DEF Stream, SlotRec, Sent
  <2>2. /\ subs' \in [Subs -> [on : BOOLEAN, id : Nat, for : Viewers \cup {None},
                               started : BOOLEAN]]
        /\ gn' \in Nat /\ tap' \in BOOLEAN /\ ring' \in 0 .. RingCap
    BY DEF AudioOK, SubTable
  <2>3. /\ \A v \in Viewers : Len(half'[v]) <= 1
        /\ half' \in [Viewers -> Seq(HalfLines)]
        /\ revents' \subseteq Slots \X {"hup", "in", "out"}
        /\ nextId' \in Nat \ {0} /\ receiver' \in BOOLEAN /\ backlog' \in Seq(Viewers)
        /\ conn' \in [Viewers -> {"new", "open", "closed", "shut"}]
        /\ wrong' \subseteq Viewers
    BY <1>1 DEF TypeOK
  <2> QED
    BY <1>2, <2>1, <2>2, <2>3 DEF TypeOK
<1>4. Phases'
  <2>1. \A e \in revents' : Used(e[1])'
    <3> SUFFICES ASSUME NEW e \in revents' PROVE Used(e[1])'
      OBVIOUS
    <3>1. e[1] \in Slots /\ Used(e[1])
      OBVIOUS
    <3> QED
      BY <1>1, <3>1, SentSlots
  <2> QED
    BY <2>1 DEF Phases
<1>5. Listening'
  BY DEF AudioOK, Swept, SubsRight, OnSubs, Listening, ListenersCounted
<1> QED
  BY <1>2, <1>3, <1>4, <1>5 DEF IInv

\* The audio side is as it was.
LEMMA AudioKept ==
    ASSUME IInv, Sent, UNCHANGED <<subs, gn, tap, nextId>>, ring' \in 0 .. RingCap
    PROVE  AudioOK'
<1>1. AudioOK /\ TypeOK /\ Tables
  BY AudioIs DEF IInv
<1>2. \A i \in Slots : /\ slot'[i].v = slot[i].v /\ slot'[i].id = slot[i].id
                       /\ Used(i)' <=> Used(i)
  BY <1>1, SentSlots
<1>3. SubsRight'
  BY <1>1, <1>2 DEF AudioOK, SubsRight
<1> QED
  BY <1>1, <1>3 DEF AudioOK, OnSubs

\* The slot whose turn it is.
LEMMA TurnIs ==
    ASSUME TypeOK, Phases, revents # {}
    PROVE  Turn \in Slots /\ Used(Turn) /\ \E e \in revents : e[1] = Turn
<1> DEFINE S == {e[1] : e \in revents}
<1>1. S \subseteq Slots /\ S # {}
  <2>1. \A e \in revents : e \in Slots \X {"hup", "in", "out"}
    BY DEF TypeOK
  <2>2. \A e \in revents : e[1] \in Slots
    BY <2>1
  <2>3. PICK e : e \in revents
    OBVIOUS
  <2> QED
    BY <2>2, <2>3
<1>2. S \subseteq Nat
  BY <1>1 DEF Slots
<1>3. Turn = Least(S)
  BY DEF Turn
<1> HIDE DEF S
<1>4. Turn \in S
  BY <1>1, <1>2, <1>3, LeastIn
<1> QED
  BY <1>1, <1>4 DEF Phases, S

\* A line was read and answered.
LEMMA ReadStep ==
    ASSUME IInv, NEW kind, NextLine(kind), Sent, AudioOK', UNCHANGED receiver
    PROVE  IInv'
<1>1. TypeOK /\ Phases
  BY DEF IInv
<1>2. req' \in [Viewers -> Seq(Kinds \cup {"hello"})]
  <2>1. Turn \in Slots /\ slot[Turn].v \in Viewers
    BY <1>1, TurnIs, SlotFields DEF NextLine
  <2>2. PICK v \in Viewers : v = slot[Turn].v
    BY <2>1
  <2>3. /\ req[v] # <<>> /\ req' = [req EXCEPT ![v] = Tail(@)]
        /\ req \in [Viewers -> Seq(Kinds \cup {"hello"})]
    BY <1>1, <2>2 DEF NextLine, TypeOK
  <2>4. Tail(req[v]) \in Seq(Kinds \cup {"hello"})
    BY <2>3
  <2> QED
    BY <2>3, <2>4
<1>3. /\ UNCHANGED <<at, revents, conn, half, wrong, nextId, backlog>> /\ at = "serve"
  BY DEF NextLine, loopVars, seenVars, Serving
<1>4. Swept'
  BY <1>3 DEF Swept
<1> QED
  BY <1>1, <1>2, <1>3, <1>4, SendingStep DEF TypeOK, Phases

-----------------------------------------------------------------------------
(* Lines of the viewers.                                                   *)

\* hello.
LEMMA HelloStep ==
    ASSUME IInv, ReadHello
    PROVE  IInv'
<1>1. NextLine("hello") /\ UNCHANGED <<subs, gn, tap, ring, receiver, nextId>>
  BY DEF ReadHello, audioVars, NextLine
<1>2. TypeOK /\ Tables /\ Phases /\ Turn \in Slots /\ Used(Turn)
  BY <1>1, TurnIs DEF IInv, NextLine
<1>3. Goes(Outbox(Turn), Send(Outbox(Turn), NoAudio))
  BY <1>2, OutboxIs, SentReliably
<1>4. Sent
  BY <1>2, <1>3, DeliverSends DEF ReadHello
<1>5. AudioOK'
  BY <1>1, <1>2, <1>4, AudioKept DEF TypeOK
<1> QED
  BY <1>1, <1>4, <1>5, ReadStep

\* audio-ctl on without a receiver or a free subscription.
LEMMA RefusedStep ==
    ASSUME IInv, ReadOnRefused
    PROVE  IInv'
<1>1. NextLine("on") /\ UNCHANGED <<subs, gn, tap, ring, receiver, nextId>>
  BY DEF ReadOnRefused, audioVars, NextLine
<1>2. TypeOK /\ Tables /\ Phases /\ Turn \in Slots /\ Used(Turn)
  BY <1>1, TurnIs DEF IInv, NextLine
<1>3. Goes(Outbox(Turn), Send(Outbox(Turn), NoAudio))
  BY <1>2, OutboxIs, SentReliably
<1>4. Sent
  BY <1>2, <1>3, DeliverSends DEF ReadOnRefused
<1>5. AudioOK'
  BY <1>1, <1>2, <1>4, AudioKept DEF TypeOK
<1> QED
  BY <1>1, <1>4, <1>5, ReadStep

\* The subscription of a client is for its viewer, and its pages may be sent.
LEMMA SubOfClient ==
    ASSUME IInv, NEW i \in Slots, Used(i), SubOf(slot[i].id) # {}
    PROVE  LET k == Least(SubOf(slot[i].id))
           IN /\ k \in SubOf(slot[i].id) /\ k \in Subs
              /\ subs[k].on /\ subs[k].id = slot[i].id
              /\ subs[k].for = slot[i].v
<1>1. SubOf(slot[i].id) \subseteq Subs
  BY DEF SubOf
<1>2. PICK k : k = Least(SubOf(slot[i].id))
  OBVIOUS
<1>3. k \in SubOf(slot[i].id)
  BY <1>1, <1>2, SubsFinite, LeastIn
<1>4. k \in Subs /\ subs[k].on /\ subs[k].id = slot[i].id
  BY <1>3 DEF SubOf
<1>5. subs[k].for = slot[i].v
  BY <1>4, AudioIs DEF AudioOK, SubsRight
<1> QED
  BY <1>2, <1>3, <1>4, <1>5

\* A page for a client of whom a subscription is k.
LEMMA PageGoes ==
    ASSUME IInv, NEW i \in Slots, Used(i), NEW k \in Subs,
           subs[k].on, subs[k].id = slot[i].id
    PROVE  Goes(Outbox(i), Sink(Outbox(i), subs[k]))
<1>1. subs[k].for = slot[i].v
  BY AudioIs DEF AudioOK, SubsRight
<1>2. Box(Outbox(i)) /\ Outbox(i).s = slot[i]
  BY OutboxIs DEF IInv
<1> QED
  BY <1>1, <1>2, Sunk

\* A reply after whatever was sent first.
LEMMA ThenReply ==
    ASSUME NEW o, NEW p, Goes(o, p)
    PROVE  Goes(o, Send(p, NoAudio))
<1>1. Goes(p, Send(p, NoAudio))
  BY SentReliably DEF Goes
<1> QED
  BY <1>1, GoesOn

\* What one more subscription or one less does to the number of them.
LEMMA OneMore ==
    ASSUME IInv, NEW k \in Subs, OnSubs' = OnSubs \cup {k},
           gn' = IF subs[k].on THEN gn ELSE gn + 1
    PROVE  gn' \in Nat /\ gn' = Cardinality(OnSubs')
<1>1. gn \in Nat /\ gn = Cardinality(OnSubs)
  BY AudioIs DEF AudioOK
<1>2. IsFiniteSet(OnSubs)
  BY SubsFinite DEF OnSubs
<1>3. Cardinality(OnSubs \cup {k}) = IF k \in OnSubs THEN Cardinality(OnSubs)
                                     ELSE Cardinality(OnSubs) + 1
  BY <1>2, FS_AddElement
<1>4. k \in OnSubs <=> subs[k].on
  BY DEF OnSubs
<1> QED
  BY <1>1, <1>3, <1>4

LEMMA OneLess ==
    ASSUME IInv, NEW k \in Subs, OnSubs' = OnSubs \ {k},
           gn' = IF subs[k].on THEN gn - 1 ELSE gn
    PROVE  gn' \in Nat /\ gn' = Cardinality(OnSubs')
<1>1. gn \in Nat /\ gn = Cardinality(OnSubs)
  BY AudioIs DEF AudioOK
<1>2. IsFiniteSet(OnSubs)
  BY SubsFinite DEF OnSubs
<1>3. Cardinality(OnSubs \ {k}) = IF k \in OnSubs THEN Cardinality(OnSubs) - 1
                                  ELSE Cardinality(OnSubs)
  BY <1>2, FS_RemoveElement
<1>4. k \in OnSubs <=> subs[k].on
  BY DEF OnSubs
<1>5. Cardinality(OnSubs \ {k}) \in Nat
  BY SubsFinite DEF OnSubs
<1> QED
  BY <1>1, <1>3, <1>4, <1>5

\* update_tap.
LEMMA TapSet ==
    ASSUME IInv, gn' \in Nat, SetTap(gn' > 0)
    PROVE  tap' \in BOOLEAN /\ (tap' <=> gn' > 0) /\ ring' \in 0 .. RingCap
<1>1. (tap' = (gn' > 0)) /\ (ring' = 0 \/ ring' = ring)
  BY Zenon DEF SetTap
<1>2. ring \in 0 .. RingCap /\ RingCap \in Nat
  BY DEF IInv, TypeOK
<1>3. ring' \in 0 .. RingCap
  BY <1>1, <1>2
<1>4. tap' \in BOOLEAN /\ (tap' <=> gn' > 0)
  <2>1. CASE gn' > 0
    <3>1. (gn' > 0) = TRUE
      BY <2>1
    <3>2. tap' = TRUE
      BY ONLY <1>1, <3>1, Zenon
    <3> QED
      BY <2>1, <3>2
  <2>2. CASE ~(gn' > 0)
    <3>1. (gn' > 0) = FALSE
      BY <2>2
    <3>2. tap' = FALSE
      BY ONLY <1>1, <3>1, Zenon
    <3> QED
      BY <2>2, <3>2
  <2> QED
    BY <2>1, <2>2
<1> QED
  BY <1>3, <1>4

\* Subscriptions are only taken away.
LEMMA FewerSubs ==
    ASSUME IInv, Sent, UNCHANGED nextId,
           \A k \in Subs : subs'[k].on => subs'[k] = subs[k]
    PROVE  SubsRight'
<1>1. AudioOK /\ TypeOK /\ Tables
  BY AudioIs DEF IInv
<1>2. \A i \in Slots : /\ slot'[i].v = slot[i].v /\ slot'[i].id = slot[i].id
                       /\ Used(i)' <=> Used(i)
  BY <1>1, SentSlots
<1> QED
  BY <1>1, <1>2 DEF AudioOK, SubsRight

\* audio-ctl off.
LEMMA OffStep ==
    ASSUME IInv, ReadOff
    PROVE  IInv'
<1>1. NextLine("off") /\ UNCHANGED <<receiver, nextId>>
  BY DEF ReadOff, NextLine
<1>2. TypeOK /\ Tables /\ Phases /\ Turn \in Slots /\ Used(Turn)
  BY <1>1, TurnIs DEF IInv, NextLine
<1>3. PICK mine : mine = SubOf(slot[Turn].id)
  OBVIOUS
<1>4. CASE mine = {}
  <2>1. /\ subs' = subs /\ gn' = gn /\ SetTap(gn' > 0)
        /\ Deliver(Turn, Send(Outbox(Turn), NoAudio))
    BY <1>3, <1>4 DEF ReadOff
  <2>2. Goes(Outbox(Turn), Send(Outbox(Turn), NoAudio))
    BY <1>2, OutboxIs, SentReliably
  <2>3. Sent
    BY <1>2, <2>1, <2>2, DeliverSends
  <2>4. AudioOK /\ gn \in Nat /\ tap' \in BOOLEAN /\ (tap' <=> gn' > 0) /\ ring' \in 0 .. RingCap
    BY <2>1, AudioIs, TapSet DEF AudioOK
  <2>5. SubsRight'
    BY <1>1, <2>1, <2>3, FewerSubs
  <2>6. AudioOK'
    BY <2>1, <2>4, <2>5 DEF AudioOK, OnSubs
  <2> QED
    BY <1>1, <2>3, <2>6, ReadStep
<1>5. CASE mine # {}
  <2>1. PICK k : k = Least(mine)
    OBVIOUS
  <2>2. k \in Subs /\ subs[k].on /\ subs[k].id = slot[Turn].id
    BY <1>2, <1>3, <1>5, <2>1, SubOfClient
  <2>3. /\ subs' = [subs EXCEPT ![k] = FreeSub] /\ gn' = gn - 1 /\ SetTap(gn' > 0)
        /\ Deliver(Turn, Send(Sink(Outbox(Turn), subs[k]), NoAudio))
    BY <1>3, <1>5, <2>1 DEF ReadOff
  <2>4. Goes(Outbox(Turn), Send(Sink(Outbox(Turn), subs[k]), NoAudio))
    BY <1>2, <2>2, PageGoes, ThenReply
  <2>5. Sent
    BY <1>2, <2>3, <2>4, DeliverSends
  <2>6. subs \in SubTable
    BY AudioIs DEF AudioOK
  <2>7. subs' \in SubTable /\ ~subs'[k].on /\ \A l \in Subs : l # k => subs'[l] = subs[l]
    BY <2>2, <2>3, <2>6 DEF SubTable, FreeSub
  <2>8. SubsRight'
    BY <1>1, <2>5, <2>7, FewerSubs
  <2>9. OnSubs' = OnSubs \ {k}
    BY <2>7 DEF OnSubs
  <2>10. gn' \in Nat /\ gn' = Cardinality(OnSubs')
    BY <2>2, <2>3, <2>9, OneLess
  <2>11. tap' \in BOOLEAN /\ (tap' <=> gn' > 0) /\ ring' \in 0 .. RingCap
    BY <2>3, <2>10, TapSet
  <2>12. AudioOK'
    BY <2>7, <2>8, <2>10, <2>11 DEF AudioOK
  <2> QED
    BY <1>1, <2>5, <2>12, ReadStep
<1> QED
  BY <1>4, <1>5

\* The subscription an "on" takes: the client's own, or one that is free; a
\* stream that runs is closed first.
LEMMA ChosenIs ==
    ASSUME IInv, Turn \in Slots, Used(Turn), SubOf(slot[Turn].id) \cup FreeSubs # {}
    PROVE  /\ ChosenSub \in Subs
           /\ subs[ChosenSub].on => subs[ChosenSub].id = slot[Turn].id
           /\ \A l \in Subs : subs[l].on /\ subs[l].id = slot[Turn].id => l = ChosenSub
           /\ Goes(Outbox(Turn), Restarted)
<1>1. PICK mine : mine = SubOf(slot[Turn].id)
  OBVIOUS
<1>2. PICK S : S = IF mine # {} THEN mine ELSE FreeSubs
  OBVIOUS
<1>3. mine \subseteq Subs /\ FreeSubs \subseteq Subs
  BY <1>1 DEF SubOf, FreeSubs
<1>4. S # {} /\ S \subseteq Nat
  BY <1>1, <1>2, <1>3, SubsFinite
<1>5. ChosenSub = Least(S)
  BY <1>1, <1>2, Zenon DEF ChosenSub
<1>6. PICK k \in S : k = ChosenSub
  BY <1>4, <1>5, LeastIn
<1>7. k \in Subs
  BY <1>2, <1>3, <1>6
<1>8. subs[k].on => subs[k].id = slot[Turn].id
  BY <1>1, <1>2, <1>6 DEF SubOf, FreeSubs
<1>9. ASSUME NEW l \in Subs, subs[l].on, subs[l].id = slot[Turn].id PROVE l = k
  <2>1. l \in mine
    BY <1>1, <1>9 DEF SubOf
  <2>2. k \in mine
    BY <1>2, <1>6, <2>1
  <2>3. subs[k].on /\ subs[k].id = slot[Turn].id
    BY <1>1, <2>2 DEF SubOf
  <2> QED
    BY <1>7, <1>9, <2>3, AudioIs DEF AudioOK, SubsRight
<1>10. Goes(Outbox(Turn), Restarted)
  <2>1. CASE subs[k].on
    BY <1>6, <1>7, <1>8, <2>1, PageGoes DEF Restarted
  <2>2. CASE ~subs[k].on
    <3>1. Restarted = Outbox(Turn)
      BY <1>6, <2>2 DEF Restarted
    <3> QED
      BY <3>1, OutboxIs, GoesSelf DEF IInv
  <2> QED
    BY <2>1, <2>2
<1> QED
  BY <1>6, <1>7, <1>8, <1>9, <1>10

\* audio-ctl on.
LEMMA OnStep ==
    ASSUME IInv, ReadOn
    PROVE  IInv'
<1>1. NextLine("on") /\ UNCHANGED <<receiver, nextId>> /\ SetTap(gn' > 0)
  BY DEF ReadOn, NextLine
<1>2. TypeOK /\ Tables /\ Phases /\ Turn \in Slots /\ Used(Turn)
  BY <1>1, TurnIs DEF IInv, NextLine
<1>3. /\ ChosenSub \in Subs
      /\ subs[ChosenSub].on => subs[ChosenSub].id = slot[Turn].id
      /\ \A l \in Subs : subs[l].on /\ subs[l].id = slot[Turn].id => l = ChosenSub
      /\ Goes(Outbox(Turn), Restarted)
  BY <1>2, ChosenIs DEF ReadOn
<1>4. PICK k \in Subs : k = ChosenSub
  BY <1>3
<1>5. PICK new : new = [on |-> TRUE, id |-> slot[Turn].id, for |-> slot[Turn].v,
                        started |-> FALSE]
  OBVIOUS
<1>6. PICK p : p = Sink(Restarted, new)
  OBVIOUS
<1>7. /\ subs' = [subs EXCEPT ![k] = [new EXCEPT !.started = TRUE]]
      /\ gn' = IF subs[k].on THEN gn ELSE gn + 1
      /\ Deliver(Turn, Send(p, NoAudio))
  BY <1>4, <1>5, <1>6 DEF ReadOn
<1>8. Outbox(Turn).s.v = slot[Turn].v /\ new.for = slot[Turn].v
  BY <1>2, <1>5, OutboxIs
<1>9. Goes(Outbox(Turn), p)
  <2>1. Box(Restarted) /\ new.for = Restarted.s.v
    BY <1>3, <1>8 DEF Goes
  <2>2. Goes(Restarted, p)
    BY <1>6, <2>1, Sunk
  <2> QED
    BY <1>3, <2>2, GoesOn
<1>10. Sent
  BY <1>2, <1>7, <1>9, ThenReply, DeliverSends
<1>11. /\ slot[Turn].id \in Nat /\ slot[Turn].id > 0 /\ slot[Turn].id < nextId
       /\ slot[Turn].v \in Viewers
  BY <1>2, SlotFields DEF Tables
<1>12. AudioOK /\ subs \in SubTable
  BY AudioIs DEF AudioOK
<1>13. /\ subs' \in SubTable
       /\ subs'[k].on /\ subs'[k].id = slot[Turn].id /\ subs'[k].for = slot[Turn].v
       /\ \A l \in Subs : l # k => subs'[l] = subs[l]
  BY <1>5, <1>7, <1>11, <1>12 DEF SubTable
<1>14. SubsRight'
  <2>1. \A i \in Slots : /\ slot'[i].v = slot[i].v /\ slot'[i].id = slot[i].id
                         /\ Used(i)' <=> Used(i)
    BY <1>2, <1>10, SentSlots
  <2>2. \A l \in Subs : subs'[l].on => subs'[l].id > 0 /\ subs'[l].id < nextId'
    BY <1>1, <1>11, <1>12, <1>13 DEF AudioOK, SubsRight
  <2>3. \A l \in Subs : subs[l].on /\ subs[l].id = slot[Turn].id => l = k
    BY <1>3, <1>4
  <2>4. \A l, m \in Subs : subs'[l].on /\ subs'[m].on /\ subs'[l].id = subs'[m].id => l = m
    BY <1>12, <1>13, <2>3 DEF AudioOK, SubsRight
  <2>5. \A l \in Subs, i \in Slots :
          subs'[l].on /\ Used(i)' /\ subs'[l].id = slot'[i].id => subs'[l].for = slot'[i].v
    BY <1>2, <1>12, <1>13, <2>1 DEF AudioOK, SubsRight, Tables
  <2> QED
    BY <2>2, <2>4, <2>5 DEF SubsRight
<1>15. OnSubs' = OnSubs \cup {k}
  BY <1>13 DEF OnSubs
<1>16. gn' \in Nat /\ gn' = Cardinality(OnSubs')
  BY <1>7, <1>15, OneMore
<1>17. tap' \in BOOLEAN /\ (tap' <=> gn' > 0) /\ ring' \in 0 .. RingCap
  BY <1>1, <1>16, TapSet
<1>18. AudioOK'
  BY <1>13, <1>14, <1>16, <1>17 DEF AudioOK
<1> QED
  BY <1>1, <1>10, <1>18, ReadStep

\* audio-ctl on whose encoder cannot be opened.
LEMMA OnFailsStep ==
    ASSUME IInv, ReadOnFails
    PROVE  IInv'
<1>1. NextLine("on") /\ UNCHANGED <<receiver, nextId>> /\ SetTap(gn' > 0)
  BY DEF ReadOnFails, NextLine
<1>2. TypeOK /\ Tables /\ Phases /\ Turn \in Slots /\ Used(Turn)
  BY <1>1, TurnIs DEF IInv, NextLine
<1>3. ChosenSub \in Subs /\ Goes(Outbox(Turn), Restarted)
  BY <1>2, ChosenIs DEF ReadOnFails
<1>4. PICK k \in Subs : k = ChosenSub
  BY <1>3
<1>5. /\ subs' = [subs EXCEPT ![k].on = FALSE]
      /\ gn' = IF subs[k].on THEN gn - 1 ELSE gn
      /\ Deliver(Turn, Send(Restarted, NoAudio))
  BY <1>4 DEF ReadOnFails
<1>6. Sent
  BY <1>2, <1>3, <1>5, ThenReply, DeliverSends
<1>7. subs \in SubTable
  BY AudioIs DEF AudioOK
<1>8. subs' \in SubTable /\ ~subs'[k].on /\ \A l \in Subs : l # k => subs'[l] = subs[l]
  BY <1>5, <1>7 DEF SubTable
<1>9. SubsRight'
  BY <1>1, <1>6, <1>8, FewerSubs
<1>10. OnSubs' = OnSubs \ {k}
  BY <1>8 DEF OnSubs
<1>11. gn' \in Nat /\ gn' = Cardinality(OnSubs')
  BY <1>5, <1>10, OneLess
<1>12. tap' \in BOOLEAN /\ (tap' <=> gn' > 0) /\ ring' \in 0 .. RingCap
  BY <1>1, <1>11, TapSet
<1>13. AudioOK'
  BY <1>8, <1>9, <1>11, <1>12 DEF AudioOK
<1> QED
  BY <1>1, <1>6, <1>13, ReadStep

\* The rest of a slot's turn.
LEMMA ServeNextStep ==
    ASSUME IInv, ServeNext
    PROVE  IInv'
<1>1. /\ UNCHANGED <<at, subs, gn, tap, ring, receiver, nextId>>
      /\ UNCHANGED <<conn, req, half, wrong, backlog>>
      /\ at = "serve" /\ revents # {} /\ revents' \subseteq revents
  BY DEF ServeNext, audioVars, viewerVars, seenVars, Serving
<1>2. TypeOK /\ Tables /\ Phases /\ Turn \in Slots /\ Used(Turn)
  BY <1>1, TurnIs DEF IInv
<1>3. Box(Outbox(Turn))
  BY <1>2, OutboxIs
<1>4. PICK p : Goes(Outbox(Turn), p) /\ Deliver(Turn, p)
  <2>1. /\ Goes(Outbox(Turn), Outbox(Turn)) /\ Goes(Outbox(Turn), DrainWrite(Outbox(Turn)))
        /\ Goes(Outbox(Turn), [Outbox(Turn) EXCEPT !.s.dead = TRUE])
    BY <1>3, GoesSelf, Drained, MarkedDead
  <2>2. \/ Deliver(Turn, Outbox(Turn)) \/ Deliver(Turn, DrainWrite(Outbox(Turn)))
        \/ Deliver(Turn, [Outbox(Turn) EXCEPT !.s.dead = TRUE])
    BY Zenon DEF ServeNext
  <2> QED
    BY <2>1, <2>2, Zenon
<1>5. Sent
  BY <1>2, <1>4, DeliverSends
<1>6. AudioOK'
  BY <1>1, <1>2, <1>5, AudioKept DEF TypeOK
<1>7. Swept'
  BY <1>1 DEF Swept
<1> QED
  BY <1>1, <1>2, <1>5, <1>6, <1>7, SendingStep DEF TypeOK, Phases

-----------------------------------------------------------------------------
(* The rest of the tick.                                                   *)

LEMMA PagesGo ==
    ASSUME IInv, NEW S, S \subseteq Slots,
           \A i \in S : Used(i) /\ SubOf(slot[i].id) # {}
    PROVE  /\ DOMAIN Pages(S) = S
           /\ \A i \in S : Goes(Outbox(i), Pages(S)[i])
<1>1. DOMAIN Pages(S) = S
  BY DEF Pages
<1>2. ASSUME NEW i \in S PROVE Goes(Outbox(i), Pages(S)[i])
  <2>1. PICK k : k = Least(SubOf(slot[i].id))
    OBVIOUS
  <2>2. Pages(S)[i] = Sink(Outbox(i), subs[k])
    BY <2>1 DEF Pages
  <2>3. k \in Subs /\ subs[k].on /\ subs[k].id = slot[i].id
    BY <2>1, SubOfClient
  <2> QED
    BY <2>2, <2>3, PageGoes
<1> QED
  BY <1>1, <1>2

\* operator_audio_pump.
LEMMA PumpStep ==
    ASSUME IInv, Pump
    PROVE  IInv'
<1>1. /\ UNCHANGED <<at, revents, subs, gn, tap, receiver, nextId>>
      /\ UNCHANGED <<conn, req, half, wrong, backlog>>
      /\ at = "pump" /\ ring > 0 /\ ring' = ring - 1
  BY DEF Pump, loopVars, viewerVars, seenVars
<1>2. TypeOK /\ Tables /\ Phases
  BY DEF IInv
<1>3. PICK S : S = {i \in Slots : Used(i) /\ SubOf(slot[i].id) # {}}
  OBVIOUS
<1>4. S \subseteq Slots /\ \A i \in S : Used(i) /\ SubOf(slot[i].id) # {}
  BY <1>3
<1>5. DeliverAll(Pages(S))
  BY <1>3 DEF Pump
<1>6. Sent
  BY <1>2, <1>4, <1>5, PagesGo, DeliverAllSends
<1>7. ring' \in 0 .. RingCap
  BY <1>1, <1>2 DEF TypeOK
<1>8. AudioOK'
  BY <1>1, <1>6, <1>7, AudioKept
<1>9. Swept'
  BY <1>1 DEF Swept
<1> QED
  BY <1>1, <1>2, <1>6, <1>8, <1>9, SendingStep DEF TypeOK, Phases

\* operator_audio_prune: the clients of the subscriptions that go are dead
\* already, so every listener that is left is still connected.
LEMMA PruneStep ==
    ASSUME IInv, Prune
    PROVE  IInv'
<1>1. /\ UNCHANGED <<revents, receiver, nextId>>
      /\ UNCHANGED <<conn, req, half, wrong, backlog>>
      /\ at = "pump" /\ at' = "broadcast"
  BY DEF Prune, viewerVars, seenVars
<1>2. TypeOK /\ Tables /\ Phases
  BY DEF IInv
<1>3. PICK stale : stale = {k \in Subs : subs[k].on /\ subs[k].id \notin LiveIds}
  OBVIOUS
<1>4. PICK S : S = {i \in Slots : Used(i) /\ SubOf(slot[i].id) \cap stale # {}}
  OBVIOUS
<1>5. /\ DeliverAll(Pages(S))
      /\ subs' = [k \in Subs |-> IF k \in stale THEN FreeSub ELSE subs[k]]
      /\ gn' = gn - Cardinality(stale)
      /\ IF stale # {} THEN SetTap(gn' > 0) ELSE UNCHANGED <<tap, ring>>
  BY <1>3, <1>4 DEF Prune
<1>6. S \subseteq Slots /\ \A i \in S : Used(i) /\ SubOf(slot[i].id) # {}
  BY <1>4
<1>7. DOMAIN Pages(S) = S /\ \A i \in S : Goes(Outbox(i), Pages(S)[i])
  BY <1>6, PagesGo
<1>8. Sent
  BY <1>2, <1>5, <1>6, <1>7, DeliverAllSends
<1>9. AudioOK /\ subs \in SubTable
  BY AudioIs DEF AudioOK
<1>10. /\ subs' \in SubTable
       /\ \A k \in Subs : IF k \in stale THEN ~subs'[k].on ELSE subs'[k] = subs[k]
  BY <1>5, <1>9 DEF SubTable, FreeSub
<1>11. SubsRight'
  BY <1>1, <1>8, <1>10, FewerSubs
<1>12. OnSubs' = OnSubs \ stale /\ OnSubs \cap stale = stale /\ stale \subseteq OnSubs
  BY <1>3, <1>10 DEF OnSubs
<1>13. gn' \in Nat /\ gn' = Cardinality(OnSubs')
  <2>1. /\ IsFiniteSet(OnSubs) /\ Cardinality(OnSubs) \in Nat
        /\ Cardinality(OnSubs \ stale) \in Nat /\ Cardinality(stale) \in Nat
    BY <1>12, SubsFinite DEF OnSubs
  <2>2. Cardinality(OnSubs \ stale) = Cardinality(OnSubs) - Cardinality(OnSubs \cap stale)
    BY <2>1, FS_Difference
  <2> QED
    BY <1>5, <1>9, <1>12, <2>1, <2>2 DEF AudioOK
<1>14. tap' \in BOOLEAN /\ (tap' <=> gn' > 0) /\ ring' \in 0 .. RingCap
  <2>1. CASE stale # {}
    BY <1>5, <1>13, <2>1, TapSet
  <2>2. CASE stale = {}
    <3>1. gn' = gn
      BY <1>5, <1>9, <2>2, FS_EmptySet DEF AudioOK
    <3> QED
      BY <1>5, <1>9, <2>2, <3>1 DEF AudioOK
  <2> QED
    BY <2>1, <2>2
<1>15. AudioOK'
  BY <1>10, <1>11, <1>13, <1>14 DEF AudioOK
<1>16. Swept'
  <2> SUFFICES ASSUME NEW k \in Subs, subs'[k].on PROVE subs'[k].id \in LiveIds'
    BY DEF Swept
  <2>1. subs'[k] = subs[k] /\ subs[k].on /\ subs[k].id \in LiveIds
    BY <1>3, <1>10
  <2>2. PICK i \in Slots : Used(i) /\ ~slot[i].dead /\ slot[i].id = subs[k].id
    BY <2>1 DEF LiveIds
  <2>3. i \notin S
    BY <1>3, <1>4, <2>1, <2>2 DEF SubOf
  <2>4. slot'[i] = slot[i]
    BY <1>5, <1>7, <2>3 DEF DeliverAll
  <2> QED
    BY <2>1, <2>2, <2>4 DEF LiveIds, Used
<1> QED
  BY <1>1, <1>2, <1>8, <1>15, <1>16, SendingStep DEF TypeOK, Phases

\* ipc_broadcast_state.
LEMMA BroadcastStep ==
    ASSUME IInv, Broadcast
    PROVE  IInv'
<1>1. /\ UNCHANGED <<revents, subs, gn, tap, ring, receiver, nextId>>
      /\ UNCHANGED <<conn, req, half, wrong, backlog>>
      /\ at = "broadcast" /\ at' = "poll"
  BY DEF Broadcast, audioVars, viewerVars, seenVars
<1>2. TypeOK /\ Tables /\ Phases
  BY DEF IInv
<1>3. PICK S : S = {j \in Slots : Used(j) /\ ~slot[j].dead}
  OBVIOUS
<1>4. PICK o : o = [i \in S |-> Send(Outbox(i), NoAudio)]
  OBVIOUS
<1>5. DeliverAll(o)
  BY <1>3, <1>4, Zenon DEF Broadcast
<1>6. DOMAIN o = S /\ S \subseteq Slots /\ \A i \in S : Used(i)
  BY <1>3, <1>4
<1>7. ASSUME NEW i \in S PROVE Goes(Outbox(i), o[i])
  <2>1. o[i] = Send(Outbox(i), NoAudio)
    BY <1>4
  <2> QED
    BY <1>2, <1>6, <2>1, OutboxIs, SentReliably
<1>8. Sent
  BY <1>2, <1>5, <1>6, <1>7, DeliverAllSends
<1>9. AudioOK'
  BY <1>1, <1>2, <1>8, AudioKept DEF TypeOK
<1>10. Swept'
  BY <1>1 DEF Swept
<1> QED
  BY <1>1, <1>2, <1>8, <1>9, <1>10, SendingStep DEF TypeOK, Phases

-----------------------------------------------------------------------------
(* Steps that send nothing.                                                *)

LEMMA NothingSent ==
    ASSUME TypeOK, UNCHANGED <<slot, wire, gap>>
    PROVE  Sent
<1>1. \A i \in Slots : Later(i) = Outbox(i)
  BY DEF Later, Outbox
<1>2. \A i \in Slots : Used(i) => Goes(Outbox(i), Later(i))
  BY <1>1, OutboxIs, GoesSelf
<1> QED
  BY <1>2, Types DEF Sent

\* poll().
LEMMA PollStep ==
    ASSUME IInv, Poll
    PROVE  IInv'
<1>1. /\ UNCHANGED <<slot, wire, gap, subs, gn, tap, ring, receiver, nextId>>
      /\ UNCHANGED <<conn, req, half, wrong, backlog>>
      /\ at' \in {"pump", "serve"}
  BY DEF Poll, audioVars, viewerVars, seenVars, serverVars
<1>2. TypeOK /\ Sent
  BY <1>1, NothingSent DEF IInv
<1>3. ASSUME NEW e \in revents'
      PROVE  e \in Slots \X {"hup", "in", "out"} /\ Used(e[1])
  <2>1. e \in Slots \X {"hup", "in", "out"} /\ e[2] \in Ready(e[1])
    BY DEF Poll
  <2> QED
    BY <2>1 DEF Ready
<1>4. at' # "serve" => revents' = {}
  BY DEF Poll
<1>5. AudioOK'
  BY <1>1, <1>2, AudioKept DEF TypeOK
<1>6. Swept'
  BY <1>1 DEF Swept
<1> QED
  BY <1>1, <1>2, <1>3, <1>4, <1>5, <1>6, SendingStep DEF TypeOK

\* audio_ring_push.
LEMMA PushStep ==
    ASSUME IInv, PushAudio
    PROVE  IInv'
<1>1. /\ UNCHANGED <<slot, wire, gap, subs, gn, tap, receiver, nextId>>
      /\ UNCHANGED <<conn, req, half, wrong, backlog, at, revents>>
      /\ at = "poll" /\ ring' = IF ring = RingCap THEN ring ELSE ring + 1
  BY DEF PushAudio, loopVars, viewerVars, seenVars, serverVars
<1>2. TypeOK /\ Phases /\ Sent
  BY <1>1, NothingSent DEF IInv
<1>3. ring' \in 0 .. RingCap
  BY <1>1, <1>2 DEF TypeOK
<1>4. AudioOK'
  BY <1>1, <1>2, <1>3, AudioKept
<1>5. Swept'
  BY <1>1 DEF Swept
<1> QED
  BY <1>1, <1>2, <1>4, <1>5, SendingStep DEF TypeOK, Phases

\* A viewer sends a line.
LEMMA RequestStep ==
    ASSUME IInv, NEW v \in Viewers, Request(v)
    PROVE  IInv'
<1>1. /\ UNCHANGED <<slot, wire, gap, subs, gn, tap, ring, receiver, nextId>>
      /\ UNCHANGED <<conn, half, wrong, backlog, at, revents>>
      /\ at = "poll"
  BY DEF Request, loopVars, audioVars, seenVars, serverVars
<1>2. TypeOK /\ Phases /\ Sent
  BY <1>1, NothingSent DEF IInv
<1>3. req' \in [Viewers -> Seq(Kinds \cup {"hello"})]
  <2>1. PICK k \in Kinds : req' = [req EXCEPT ![v] = Append(@, k)]
    BY DEF Request
  <2>2. req \in [Viewers -> Seq(Kinds \cup {"hello"})]
    BY <1>2 DEF TypeOK
  <2>3. Append(req[v], k) \in Seq(Kinds \cup {"hello"})
    BY <2>2
  <2> QED
    BY <2>1, <2>2, <2>3
<1>4. AudioOK'
  BY <1>1, <1>2, AudioKept DEF TypeOK
<1>5. Swept'
  BY <1>1 DEF Swept
<1> QED
  BY <1>1, <1>2, <1>3, <1>4, <1>5, SendingStep DEF TypeOK, Phases

\* The period of the broadcast is not over.
LEMMA NotYetStep ==
    ASSUME IInv, NotYet
    PROVE  IInv'
<1>1. /\ UNCHANGED <<slot, wire, gap, subs, gn, tap, ring, receiver, nextId>>
      /\ UNCHANGED <<conn, req, half, wrong, backlog, revents>>
      /\ at = "broadcast" /\ at' = "poll"
  BY DEF NotYet, audioVars, viewerVars, seenVars, serverVars
<1>2. TypeOK /\ Phases /\ Sent
  BY <1>1, NothingSent DEF IInv
<1>3. AudioOK'
  BY <1>1, <1>2, AudioKept DEF TypeOK
<1>4. Swept'
  BY <1>1 DEF Swept
<1> QED
  BY <1>1, <1>2, <1>3, <1>4, SendingStep DEF TypeOK, Phases

-----------------------------------------------------------------------------
(* Connections.                                                            *)

\* Nothing on its way is whole.
LEMMA NothingWhole ==
    /\ <<>> \in Stream /\ Len(<<>>) = 0 /\ Cat(<<>>, <<>>) = <<>>
    /\ \A v : Whole(<<>>, v)
<1>1. <<>> \in Stream /\ Len(<<>>) = 0 /\ Cat(<<>>, <<>>) = <<>>
  BY DEF Stream, Cat
<1>2. \A v : Paired(<<>>, v)
  BY <1>1, PairedIs
<1> QED
  BY <1>1, <1>2 DEF Whole

\* Audio of a step that leaves slots and subscriptions alone.
LEMMA AudioSame ==
    ASSUME IInv, UNCHANGED <<at, slot, subs, gn, tap, ring, nextId>>
    PROVE  Listening'
BY DEF IInv, Listening, ListenersCounted, LiveIds, Used

\* A viewer connects.
LEMMA ConnectStep ==
    ASSUME IInv, NEW v \in Viewers, Connect(v)
    PROVE  IInv'
<1>1. /\ UNCHANGED <<slot, wire, gap, subs, gn, tap, ring, receiver, nextId>>
      /\ UNCHANGED <<half, wrong, at, revents>>
      /\ conn[v] = "new" /\ conn' = [conn EXCEPT ![v] = "open"]
      /\ backlog' = Append(backlog, v) /\ req' = [req EXCEPT ![v] = <<"hello">>]
  BY DEF Connect, loopVars, audioVars, serverVars, seenVars
<1>2. TypeOK /\ Tables /\ Waiting /\ Phases /\ Streams /\ Gaps
  BY DEF IInv
<1>3. ~Seated(v) /\ ~Waits(v)
  <2>1. ~Seated(v)
    BY <1>1, <1>2 DEF Seated, Tables, Used
  <2>2. ~Waits(v)
    BY <1>1, <1>2 DEF Waiting
  <2> QED
    BY <2>1, <2>2
<1>4. /\ conn' \in [Viewers -> {"new", "open", "closed", "shut"}]
      /\ conn'[v] = "open" /\ \A u \in Viewers : u # v => conn'[u] = conn[u]
  BY <1>1, <1>2 DEF TypeOK
<1>5. /\ backlog' \in Seq(Viewers) /\ Len(backlog) \in Nat
      /\ Len(backlog') = Len(backlog) + 1 /\ backlog'[Len(backlog')] = v
      /\ \A m \in 1 .. Len(backlog) : backlog'[m] = backlog[m]
  <2>1. backlog \in Seq(Viewers)
    BY <1>2 DEF TypeOK
  <2> QED
    BY <1>1, <2>1
<1>6. TypeOK'
  <2>1. <<"hello">> \in Seq(Kinds \cup {"hello"})
    OBVIOUS
  <2>2. req' \in [Viewers -> Seq(Kinds \cup {"hello"})]
    BY <1>1, <1>2, <2>1 DEF TypeOK
  <2> QED
    BY <1>1, <1>2, <1>4, <1>5, <2>2 DEF TypeOK
<1>7. Tables'
  <2>1. \A i \in Slots : Used(i) => slot[i].v \in Viewers /\ slot[i].v # v
    BY <1>2, <1>3, SlotFields DEF Seated
  <2> QED
    BY <1>1, <1>2, <1>4, <2>1 DEF Tables, Used
<1>8. Waiting'
  <2>1. \A u : Seated(u)' <=> Seated(u)
    BY <1>1 DEF Seated
  <2>2. ASSUME NEW u \in Viewers PROVE Waits(u)' <=> Waits(u) \/ u = v
    <3>1. Waits(u)' <=> \E m \in 1 .. Len(backlog) + 1 : backlog'[m] = u
      BY <1>5 DEF Waits
    <3> QED
      BY <1>5, <3>1 DEF Waits
  <2>3. \A m, n \in 1 .. Len(backlog') : backlog'[m] = backlog'[n] => m = n
    <3>1. \A m \in 1 .. Len(backlog) : backlog'[m] # v
      BY <1>3, <1>5 DEF Waits
    <3> QED
      BY <1>2, <1>5, <3>1 DEF Waiting
  <2> QED
    BY <1>2, <1>3, <1>4, <2>1, <2>2, <2>3 DEF Waiting
<1>9. Streams'
  <2>1. \A i \in Slots : Outbox(i)' = Outbox(i)
    BY <1>1 DEF Outbox
  <2>2. \A i \in Slots : Used(i)' /\ conn'[slot'[i].v] = "open" =>
          Sound(half'[slot'[i].v], Outbox(i)')
    <3> SUFFICES ASSUME NEW i \in Slots, Used(i), conn'[slot[i].v] = "open"
                 PROVE  Sound(half[slot[i].v], Outbox(i))
      BY <1>1, <2>1 DEF Used
    <3>1. slot[i].v \in Viewers /\ slot[i].v # v
      BY <1>2, <1>3, SlotFields DEF Seated
    <3> QED
      BY <1>2, <1>4, <3>1 DEF Streams
  <2>3. \A u \in Viewers : conn'[u] # "shut" /\ (conn'[u] = "open" => ~Seated(u)) =>
          half[u] = <<>> /\ wire[u] = <<>>
    BY <1>1, <1>2, <1>4 DEF Streams
  <2> QED
    BY <1>1, <1>2, <2>2, <2>3 DEF Streams, Seated
<1>10. Phases' /\ Gaps'
  BY <1>1, <1>2 DEF Phases, Gaps, Used
<1> QED
  BY <1>1, <1>6, <1>7, <1>8, <1>9, <1>10, AudioSame DEF IInv

\* A viewer closes its connection.
LEMMA ClientCloseStep ==
    ASSUME IInv, NEW v \in Viewers, ClientClose(v)
    PROVE  IInv'
<1>1. /\ UNCHANGED <<slot, gap, subs, gn, tap, ring, receiver, nextId>>
      /\ UNCHANGED <<wrong, backlog, at, revents>>
      /\ conn[v] = "open" /\ conn' = [conn EXCEPT ![v] = "closed"]
      /\ wire' = [wire EXCEPT ![v] = <<>>] /\ req' = [req EXCEPT ![v] = <<>>]
      /\ half' = [half EXCEPT ![v] = <<>>]
  BY DEF ClientClose, loopVars, audioVars
<1>2. TypeOK /\ Tables /\ Waiting /\ Phases /\ Streams /\ Gaps
  BY DEF IInv
<1>3. /\ conn' \in [Viewers -> {"new", "open", "closed", "shut"}]
      /\ conn'[v] = "closed" /\ \A u \in Viewers : u # v => conn'[u] = conn[u]
      /\ wire'[v] = <<>> /\ \A u \in Viewers : u # v => wire'[u] = wire[u]
      /\ half'[v] = <<>> /\ \A u \in Viewers : u # v => half'[u] = half[u]
  BY <1>1, <1>2 DEF TypeOK
<1>4. TypeOK'
  <2>1. /\ wire' \in [Viewers -> Seq(HalfLines)] /\ half' \in [Viewers -> Seq(HalfLines)]
        /\ req' \in [Viewers -> Seq(Kinds \cup {"hello"})]
    <3>1. /\ wire \in [Viewers -> Seq(HalfLines)] /\ half \in [Viewers -> Seq(HalfLines)]
          /\ req \in [Viewers -> Seq(Kinds \cup {"hello"})]
      BY <1>2 DEF TypeOK
    <3>2. <<>> \in Seq(HalfLines) /\ <<>> \in Seq(Kinds \cup {"hello"})
      OBVIOUS
    <3> QED
      BY ONLY <1>1, <3>1, <3>2
  <2>2. ASSUME NEW u \in Viewers PROVE Len(wire'[u]) <= SockCap /\ Len(half'[u]) <= 1
    <3>1. CASE u = v
      BY <1>3, <3>1, NothingWhole
    <3>2. CASE u # v
      BY <1>2, <1>3, <3>2 DEF TypeOK
    <3> QED
      BY <3>1, <3>2
  <2> QED
    BY <1>1, <1>2, <1>3, <2>1, <2>2 DEF TypeOK
<1>5. Tables'
  <2>1. \A i \in Slots : Used(i) => slot[i].v \in Viewers
    BY <1>2, SlotFields
  <2> QED
    BY <1>1, <1>2, <1>3, <2>1 DEF Tables, Used
<1>6. Waiting'
  <2>1. \A u : (Seated(u)' <=> Seated(u)) /\ (Waits(u)' <=> Waits(u))
    BY <1>1 DEF Seated, Waits
  <2> QED
    BY <1>1, <1>2, <1>3, <2>1 DEF Waiting
<1>7. Streams'
  <2>1. \A u \in Viewers : Paired(Cat(half'[u], wire'[u]), u)
    BY <1>2, <1>3, NothingWhole DEF Streams, Whole
  <2>2. \A u \in Viewers : conn'[u] # "shut" /\ (conn'[u] = "open" => ~Seated(u)) =>
          half'[u] = <<>> /\ wire'[u] = <<>>
    BY <1>2, <1>3 DEF Streams
  <2>3. ASSUME NEW i \in Slots, Used(i), conn'[slot[i].v] = "open"
        PROVE  Sound(half'[slot[i].v], Outbox(i)')
    <3>1. slot[i].v \in Viewers /\ slot[i].v # v
      BY <1>2, <1>3, <2>3, SlotFields
    <3>2. Outbox(i)' = Outbox(i)
      BY <1>1, <1>3, <3>1 DEF Outbox
    <3> QED
      BY <1>2, <1>3, <2>3, <3>1, <3>2 DEF Streams
  <2> QED
    BY <1>1, <1>2, <2>1, <2>2, <2>3 DEF Streams, Seated, Used
<1>8. Phases' /\ Gaps'
  BY <1>1, <1>2 DEF Phases, Gaps, Used
<1> QED
  BY <1>1, <1>4, <1>5, <1>6, <1>7, <1>8, AudioSame DEF IInv

\* A viewer reads: whole lines go, and at most a half stays.
LEMMA ClientReadStep ==
    ASSUME IInv, NEW v \in Viewers, ClientRead(v)
    PROVE  IInv'
<1>1. /\ UNCHANGED <<slot, gap, subs, gn, tap, ring, receiver, nextId>>
      /\ UNCHANGED <<conn, req, backlog, at, revents>>
      /\ conn[v] \in {"open", "shut"} /\ wire[v] # <<>>
      /\ wire' = [wire EXCEPT ![v] = <<>>]
  BY DEF ClientRead, loopVars, audioVars
<1>2. TypeOK /\ Tables /\ Waiting /\ Phases /\ Streams /\ Gaps
  BY DEF IInv
<1>3. wire \in [Viewers -> Stream] /\ half \in [Viewers -> Stream]
  BY <1>2, Types
<1>4. PICK f : f = Cat(half[v], wire[v])
  OBVIOUS
<1>5. f \in Stream /\ Len(f) \in Nat /\ Paired(f, v)
  BY <1>2, <1>3, <1>4, CatType, StreamLen DEF Streams
<1>6. PICK n \in Nat : n = Len(f) \div 2 /\ 2 * n <= Len(f) /\ Len(f) <= 2 * n + 1
  BY <1>5
<1>7. PICK r : r = After(f, 2 * n)
  OBVIOUS
<1>8. r \in Stream /\ Len(r) = Len(f) - 2 * n
  <2>1. 2 * n \in 0 .. Len(f)
    BY <1>5, <1>6
  <2> QED
    BY <1>5, <1>7, <2>1, AfterType
<1>9. wrong' = {} /\ half' = [half EXCEPT ![v] = r]
  <2>1. f = half[v] \o wire[v] /\ r = SubSeq(f, 2 * n + 1, Len(f))
    BY <1>4, <1>7 DEF Cat, After
  <2>2. /\ wrong' = IF \E j \in 1 .. n : \/ f[2 * j - 1] # <<f[2 * j][1], 1>>
                                         \/ f[2 * j][1] \notin {NoAudio, v}
                      THEN wrong \cup {v} ELSE wrong
        /\ half' = [half EXCEPT ![v] = SubSeq(f, 2 * n + 1, Len(f))]
    BY ONLY <1>6, <2>1, ClientRead(v), Zenon DEF ClientRead
  <2>3. \A j \in 1 .. n : /\ f[2 * j - 1] = <<f[2 * j][1], 1>>
                          /\ f[2 * j][1] \in {NoAudio, v}
    BY <1>5, <1>6 DEF Paired
  <2>4. wrong' = wrong /\ half' = [half EXCEPT ![v] = r]
    BY ONLY <2>1, <2>2, <2>3, Zenon
  <2> QED
    BY <1>2, <2>4 DEF Streams
<1>10. /\ wire' \in [Viewers -> Stream] /\ half' \in [Viewers -> Stream]
       /\ wire'[v] = <<>> /\ \A u \in Viewers : u # v => wire'[u] = wire[u]
       /\ half'[v] = r /\ \A u \in Viewers : u # v => half'[u] = half[u]
  BY <1>1, <1>3, <1>8, <1>9, NothingWhole
<1>11. TypeOK'
  <2>1. ASSUME NEW u \in Viewers PROVE Len(wire'[u]) <= SockCap /\ Len(half'[u]) <= 1
    <3>1. CASE u = v
      BY <1>5, <1>6, <1>8, <1>10, <3>1, NothingWhole
    <3>2. CASE u # v
      BY <1>2, <1>10, <3>2 DEF TypeOK
    <3> QED
      BY <3>1, <3>2
  <2>2. wire' \in [Viewers -> Seq(HalfLines)] /\ half' \in [Viewers -> Seq(HalfLines)]
    BY <1>10 DEF Stream
  <2> QED
    BY <1>1, <1>2, <1>9, <2>1, <2>2 DEF TypeOK
<1>12. Cat(r, <<>>) = r
  BY <1>8, NothingWhole, CatEmpty
<1>13. ASSUME NEW g \in Stream, Paired(Cat(f, g), v) PROVE Paired(Cat(r, g), v)
  BY <1>5, <1>6, <1>7, <1>13, PairedAfter
<1>14. Paired(r, v)
  <2>1. Cat(f, <<>>) = f
    BY <1>5, NothingWhole, CatEmpty
  <2> QED
    BY <1>5, <1>12, <1>13, <2>1, NothingWhole
<1>15. Streams'
  <2>1. \A u \in Viewers : Paired(Cat(half'[u], wire'[u]), u)
    BY <1>2, <1>10, <1>12, <1>14 DEF Streams
  <2>2. \A u \in Viewers : conn[u] # "shut" /\ (conn[u] = "open" => ~Seated(u)) =>
          half'[u] = <<>> /\ wire'[u] = <<>>
    BY <1>1, <1>2, <1>10 DEF Streams
  <2>3. ASSUME NEW i \in Slots, Used(i), conn[slot[i].v] = "open"
        PROVE  Sound(half'[slot[i].v], Outbox(i)')
    <3>1. slot[i].v \in Viewers /\ slot[i].out \in Stream
      BY <1>2, <2>3, SlotFields
    <3>2. Sound(half[slot[i].v], Outbox(i))
      BY <1>2, <2>3 DEF Streams
    <3>3. CASE slot[i].v # v
      <4>1. Outbox(i)' = Outbox(i)
        BY <1>1, <1>10, <3>1, <3>3 DEF Outbox
      <4> QED
        BY <1>10, <3>1, <3>2, <3>3, <4>1
    <3>4. CASE slot[i].v = v
      <4>1. PICK out \in Stream : out = slot[i].out
        BY <3>1
      <4>2. Whole(Cat(f, out), v)
        BY <1>2, <1>4, <2>3, <3>2, <3>4, <4>1, OutboxIs DEF Sound
      <4>3. Paired(Cat(r, out), v)
        BY <1>13, <4>2 DEF Whole
      <4>4. Len(Cat(r, out)) % 2 = 0
        <5>1. /\ Len(Cat(r, out)) = Len(r) + Len(out) /\ Len(Cat(f, out)) = Len(f) + Len(out)
              /\ Len(out) \in Nat
          BY <1>5, <1>8, CatType, StreamLen
        <5>2. PICK m \in Nat : Len(f) + Len(out) = 2 * m
          <6>1. PICK k \in Nat : k = Len(f) + Len(out) /\ k % 2 = 0
            BY <1>5, <4>2, <5>1 DEF Whole
          <6>2. k = 2 * (k \div 2) /\ k \div 2 \in Nat
            BY <6>1
          <6> QED
            BY <6>1, <6>2
        <5>3. Len(r) + Len(out) = 2 * (m - n) /\ m - n \in Nat
          BY <1>5, <1>6, <1>8, <5>1, <5>2
        <5> QED
          BY <5>1, <5>3
      <4>5. /\ Outbox(i)'.s = slot[i] /\ Outbox(i)'.w = <<>>
        BY <1>1, <1>10, <3>4 DEF Outbox
      <4>6. Whole(Cat(Cat(r, <<>>), out), v)
        BY <1>12, <4>3, <4>4 DEF Whole
      <4> QED
        BY <1>10, <3>4, <4>1, <4>5, <4>6 DEF Sound
    <3> QED
      BY <3>3, <3>4
  <2> QED
    BY <1>1, <1>9, <2>1, <2>2, <2>3 DEF Streams, Seated, Used
<1>16. Tables' /\ Waiting' /\ Phases' /\ Gaps'
  BY <1>1, <1>2 DEF Tables, Waiting, Phases, Gaps, Used, Seated, Waits
<1> QED
  BY <1>1, <1>11, <1>15, <1>16, AudioSame DEF IInv

\* server_accept: the backlog loses its first, which is nowhere else in it.
LEMMA BacklogTail ==
    ASSUME TypeOK, Waiting, backlog # <<>>, backlog' = Tail(backlog)
    PROVE  /\ Head(backlog) \in Viewers /\ Waits(Head(backlog))
           /\ backlog' \in Seq(Viewers)
           /\ \A u : Waits(u)' <=> Waits(u) /\ u # Head(backlog)
           /\ \A m, n \in 1 .. Len(backlog') : backlog'[m] = backlog'[n] => m = n
<1>1. /\ backlog \in Seq(Viewers) /\ Len(backlog) \in Nat /\ Len(backlog) > 0
      /\ Head(backlog) = backlog[1] /\ Head(backlog) \in Viewers
      /\ backlog' \in Seq(Viewers)
      /\ Len(backlog') = Len(backlog) - 1
      /\ \A m \in 1 .. Len(backlog) - 1 : backlog'[m] = backlog[m + 1]
  <2>1. backlog \in Seq(Viewers)
    BY DEF TypeOK
  <2> QED
    BY <2>1
<1>2. \A m, n \in 1 .. Len(backlog) : backlog[m] = backlog[n] => m = n
  BY DEF Waiting
<1>3. Waits(Head(backlog))
  BY <1>1 DEF Waits
<1>4. ASSUME NEW u PROVE Waits(u)' <=> Waits(u) /\ u # Head(backlog)
  <2>1. ASSUME Waits(u)' PROVE Waits(u) /\ u # Head(backlog)
    <3>1. PICK m \in 1 .. Len(backlog) - 1 : backlog'[m] = u
      BY <1>1, <2>1 DEF Waits
    <3>2. m + 1 \in 1 .. Len(backlog) /\ 1 \in 1 .. Len(backlog) /\ m + 1 # 1
      BY <1>1
    <3>3. backlog[m + 1] = u
      BY <1>1, <3>1
    <3> QED
      BY <1>1, <1>2, <3>2, <3>3 DEF Waits
  <2>2. ASSUME Waits(u), u # Head(backlog) PROVE Waits(u)'
    <3>1. PICK m \in 1 .. Len(backlog) : backlog[m] = u
      BY <2>2 DEF Waits
    <3>2. m # 1
      BY <1>1, <2>2, <3>1
    <3>3. PICK l \in 1 .. Len(backlog) - 1 : m = l + 1
      <4>1. m - 1 \in 1 .. Len(backlog) - 1 /\ m = (m - 1) + 1
        BY <1>1, <3>2
      <4> QED
        BY <4>1
    <3> QED
      BY <1>1, <3>1, <3>3 DEF Waits
  <2> QED
    BY <2>1, <2>2
<1>5. ASSUME NEW m \in 1 .. Len(backlog'), NEW n \in 1 .. Len(backlog'),
             backlog'[m] = backlog'[n]
      PROVE  m = n
  <2>1. m + 1 \in 1 .. Len(backlog) /\ n + 1 \in 1 .. Len(backlog)
    BY <1>1
  <2>2. backlog[m + 1] = backlog[n + 1]
    BY <1>1, <1>5
  <2>3. m + 1 = n + 1
    BY <1>2, <2>1, <2>2
  <2> QED
    BY <1>1, <2>3
<1> QED
  BY <1>1, <1>3, <1>4, <1>5

\* Accept: a free slot is given to the first that waits, or its connection is
\* closed again.
LEMMA AcceptStep ==
    ASSUME IInv, Accept
    PROVE  IInv'
<1>1. /\ UNCHANGED <<wire, gap, subs, gn, tap, ring, receiver>>
      /\ UNCHANGED <<req, half, wrong, at, revents>>
      /\ at = "serve" /\ backlog # <<>> /\ backlog' = Tail(backlog)
  BY DEF Accept, loopVars, audioVars, seenVars
<1>2. TypeOK /\ Tables /\ Waiting /\ Phases /\ Listening /\ Streams /\ Gaps
  BY DEF IInv
<1>3. PICK v : v = Head(backlog)
  OBVIOUS
<1>4. /\ v \in Viewers /\ Waits(v) /\ backlog' \in Seq(Viewers)
      /\ \A u : Waits(u)' <=> Waits(u) /\ u # v
      /\ \A m, n \in 1 .. Len(backlog') : backlog'[m] = backlog'[n] => m = n
  BY <1>1, <1>2, <1>3, BacklogTail
<1>5. ~Seated(v) /\ conn[v] \in {"open", "closed"}
  BY <1>2, <1>4 DEF Waiting
<1>6. \A i \in Slots : Used(i) => slot[i].v \in Viewers /\ slot[i].v # v
  BY <1>2, <1>5, SlotFields DEF Seated
<1>7. PICK free : free = {i \in Slots : ~Used(i)}
  OBVIOUS
<1>8. CASE free = {}
  <2>1. conn' = [conn EXCEPT ![v] = "shut"] /\ UNCHANGED <<slot, nextId>>
    BY <1>3, <1>7, <1>8 DEF Accept
  <2>2. /\ conn' \in [Viewers -> {"new", "open", "closed", "shut"}]
        /\ conn'[v] = "shut" /\ \A u \in Viewers : u # v => conn'[u] = conn[u]
    BY <1>2, <1>4, <2>1 DEF TypeOK
  <2>3. TypeOK'
    BY <1>1, <1>2, <1>4, <2>1, <2>2 DEF TypeOK
  <2>4. Tables'
    BY <1>2, <1>6, <2>1, <2>2 DEF Tables, Used
  <2>5. Waiting'
    <3>1. \A u : Seated(u)' <=> Seated(u)
      BY <2>1 DEF Seated
    <3> QED
      BY <1>2, <1>4, <2>2, <3>1 DEF Waiting
  <2>6. Streams'
    <3>1. \A i \in Slots : Outbox(i)' = Outbox(i)
      BY <1>1, <2>1 DEF Outbox
    <3>2. \A i \in Slots : Used(i) /\ conn'[slot[i].v] = "open" =>
            Sound(half[slot[i].v], Outbox(i))
      BY <1>2, <1>6, <2>2 DEF Streams
    <3>3. \A u \in Viewers : conn'[u] # "shut" /\ (conn'[u] = "open" => ~Seated(u)) =>
            half[u] = <<>> /\ wire[u] = <<>>
      BY <1>2, <2>2 DEF Streams
    <3> QED
      BY <1>1, <1>2, <2>1, <3>1, <3>2, <3>3 DEF Streams, Used, Seated
  <2>7. Phases' /\ Gaps'
    BY <1>1, <1>2, <2>1 DEF Phases, Gaps, Used
  <2> QED
    BY <1>1, <2>1, <2>3, <2>4, <2>5, <2>6, <2>7, AudioSame DEF IInv
<1>9. CASE free # {}
  <2>1. PICK k \in Slots : k = Least(free) /\ ~Used(k)
    <3>1. free \subseteq Slots /\ free \subseteq Nat
      BY <1>7 DEF Slots
    <3>2. Least(free) \in free
      BY <1>9, <3>1, LeastIn
    <3> QED
      BY <1>7, <3>2
  <2>2. PICK new : new = [FreeSlot EXCEPT !.v = v, !.id = nextId]
    OBVIOUS
  <2>3. /\ slot' = [slot EXCEPT ![k] = new] /\ nextId' = nextId + 1 /\ UNCHANGED conn
    BY <1>3, <1>7, <1>9, <2>1, <2>2, Zenon DEF Accept
  <2>4. nextId \in Nat \ {0} /\ slot \in [Slots -> SlotRec]
    BY <1>2, Types DEF TypeOK
  <2>5. new \in SlotRec /\ new.v = v /\ new.id = nextId /\ new.out = <<>> /\ new.dead = FALSE
    BY <1>4, <2>2, <2>4, NothingWhole DEF FreeSlot, SlotRec
  <2>6. /\ slot' \in [Slots -> SlotRec] /\ slot'[k] = new
        /\ \A i \in Slots : i # k => slot'[i] = slot[i]
    BY <2>3, <2>4, <2>5
  <2>7. /\ Used(k)' /\ ~Used(k) /\ \A i \in Slots : i # k => (Used(i)' <=> Used(i))
    BY <1>4, <2>1, <2>5, <2>6 DEF Used
  <2>8. TypeOK'
    <3>1. slot' \in [Slots -> [v : Viewers \cup {None}, id : Nat,
                               out : Seq(HalfLines), dead : BOOLEAN]]
      BY <2>6 DEF SlotRec, Stream
    <3>2. ASSUME NEW i \in Slots PROVE Len(slot'[i].out) <= WriteCap
      <4>1. CASE i = k
        BY <2>5, <2>6, <4>1, NothingWhole
      <4>2. CASE i # k
        BY <1>2, <2>6, <4>2 DEF TypeOK
      <4> QED
        BY <4>1, <4>2
    <3>3. nextId' \in Nat \ {0}
      BY <2>3, <2>4
    <3> QED
      BY <1>1, <1>2, <1>4, <2>3, <3>1, <3>2, <3>3 DEF TypeOK
  <2>9. Tables'
    <3>1. \A i \in Slots : Used(i) => slot[i].id \in Nat /\ slot[i].id < nextId
                                      /\ slot[i].v # v /\ slot[i].v \in Viewers
      BY <1>2, <1>6, SlotFields DEF Tables
    <3>2. \A i \in Slots : ~Used(i)' => slot'[i] = FreeSlot
      BY <1>2, <2>6, <2>7 DEF Tables
    <3>3. \A i \in Slots : Used(i)' => /\ slot'[i].id > 0 /\ slot'[i].id < nextId'
                                       /\ conn'[slot'[i].v] \in {"open", "closed"}
      BY <1>2, <1>5, <2>3, <2>4, <2>5, <2>6, <2>7, <3>1 DEF Tables
    <3>4. ASSUME NEW i \in Slots, NEW j \in Slots, Used(i)', Used(j)',
                 slot'[i].v = slot'[j].v \/ slot'[i].id = slot'[j].id
          PROVE  i = j
      <4>1. CASE i # k /\ j # k
        BY <1>2, <2>6, <2>7, <3>4, <4>1 DEF Tables
      <4>2. CASE i = k \/ j = k
        BY <2>4, <2>5, <2>6, <2>7, <3>1, <3>4, <4>2
      <4> QED
        BY <4>1, <4>2
    <3> QED
      BY <3>2, <3>3, <3>4 DEF Tables
  <2>10. \A u \in Viewers : Seated(u)' <=> Seated(u) \/ u = v
    <3>1. \A i \in Slots : slot[i].v \in Viewers => i # k
      BY <2>1 DEF Used
    <3> QED
      BY <2>5, <2>6, <3>1 DEF Seated
  <2>11. Waiting'
    BY <1>2, <1>4, <2>3, <2>10 DEF Waiting
  <2>12. Phases'
    <3>1. \A e \in revents : e[1] \in Slots /\ Used(e[1])
      BY <1>2 DEF TypeOK, Phases
    <3> QED
      BY <1>1, <1>2, <2>7, <3>1 DEF Phases
  <2>13. Listening'
    <3>1. \A l \in Subs : subs[l].on => subs[l].id \in Nat /\ subs[l].id > 0 /\ subs[l].id < nextId
      BY <1>2 DEF Listening, TypeOK
    <3>2. \A l \in Subs, i \in Slots :
            subs[l].on /\ Used(i)' /\ subs[l].id = slot'[i].id => subs[l].for = slot'[i].v
      BY <1>2, <2>4, <2>5, <2>6, <2>7, <3>1 DEF Listening
    <3>3. \A l \in Subs : subs[l].on => subs[l].id > 0 /\ subs[l].id < nextId'
      BY <2>3, <2>4, <3>1
    <3>4. ListenersCounted'
      BY <1>1, <1>2 DEF Listening, ListenersCounted
    <3> QED
      BY <1>1, <1>2, <3>2, <3>3, <3>4 DEF Listening
  <2>14. Streams'
    <3>1. \A u \in Viewers : conn[u] # "shut" /\ (conn[u] = "open" => ~Seated(u)') =>
            half[u] = <<>> /\ wire[u] = <<>>
      BY <1>2, <2>10 DEF Streams
    <3>2. conn[v] \in {"open", "closed"} /\ half[v] = <<>> /\ wire[v] = <<>>
      BY <1>2, <1>4, <1>5 DEF Streams
    <3>3. ASSUME NEW i \in Slots, Used(i)', conn[slot'[i].v] = "open"
          PROVE  Sound(half[slot'[i].v], Outbox(i)')
      <4>1. CASE i = k
        <5>1. Outbox(i)'.s = new /\ Outbox(i)'.w = <<>>
          BY <1>1, <2>5, <2>6, <3>2, <4>1 DEF Outbox
        <5>2. Whole(Cat(Cat(<<>>, <<>>), <<>>), v)
          BY NothingWhole
        <5> QED
          BY <2>5, <2>6, <3>2, <4>1, <5>1, <5>2 DEF Sound
      <4>2. CASE i # k
        <5>1. Outbox(i)' = Outbox(i) /\ Used(i) /\ slot'[i] = slot[i]
          BY <1>1, <2>6, <2>7, <3>3, <4>2 DEF Outbox
        <5> QED
          BY <1>2, <3>3, <5>1 DEF Streams
      <4> QED
        BY <4>1, <4>2
    <3> QED
      BY <1>1, <1>2, <2>3, <3>1, <3>3 DEF Streams
  <2>15. Gaps'
    <3> SUFFICES ASSUME NEW u \in gap PROVE \E i \in Slots : slot'[i].v = u /\ slot'[i].dead
      BY <1>1 DEF Gaps
    <3>1. PICK i \in Slots : slot[i].v = u /\ slot[i].dead
      BY <1>2 DEF Gaps
    <3>2. i # k
      BY <1>2, <2>1, <3>1 DEF TypeOK, Used
    <3> QED
      BY <2>6, <3>1, <3>2
  <2> QED
    BY <2>8, <2>9, <2>11, <2>12, <2>13, <2>14, <2>15 DEF IInv
<1> QED
  BY <1>8, <1>9

\* slot_close for the dead slots.
LEMMA CloseDeadStep ==
    ASSUME IInv, CloseDead
    PROVE  IInv'
<1>1. /\ UNCHANGED <<revents, wire, subs, gn, tap, ring, receiver, nextId>>
      /\ UNCHANGED <<half, wrong, backlog>>
      /\ revents = {} /\ at' = "pump"
      /\ slot' = [i \in Slots |-> IF slot[i].dead THEN FreeSlot ELSE slot[i]]
      /\ conn' = [v \in Viewers |-> IF v \in DeadViewers THEN "shut" ELSE conn[v]]
      /\ req' = [v \in Viewers |-> IF v \in DeadViewers THEN <<>> ELSE req[v]]
      /\ gap' = gap \ DeadViewers
  BY DEF CloseDead, Lost, audioVars, seenVars
<1>2. TypeOK /\ Tables /\ Waiting /\ Listening /\ Streams /\ Gaps
  BY DEF IInv
<1>3. slot \in [Slots -> SlotRec] /\ FreeSlot \in SlotRec /\ FreeSlot.v = None
      /\ FreeSlot.out = <<>> /\ FreeSlot.dead = FALSE
  BY <1>2, Types, NothingWhole DEF FreeSlot, SlotRec
<1>4. /\ slot' \in [Slots -> SlotRec]
      /\ \A i \in Slots : slot'[i] = IF slot[i].dead THEN FreeSlot ELSE slot[i]
  BY <1>1, <1>3
<1>5. /\ conn' \in [Viewers -> {"new", "open", "closed", "shut"}]
      /\ \A v \in Viewers : conn'[v] = IF v \in DeadViewers THEN "shut" ELSE conn[v]
  BY <1>1, <1>2 DEF TypeOK
<1>6. ASSUME NEW i \in Slots, Used(i)'
      PROVE  /\ Used(i) /\ slot'[i] = slot[i] /\ ~slot[i].dead
             /\ slot[i].v \in Viewers /\ slot[i].v \notin DeadViewers
  <2>1. Used(i) /\ slot'[i] = slot[i] /\ ~slot[i].dead /\ slot[i].v \in Viewers
    BY <1>2, <1>3, <1>4, <1>6, SlotFields DEF Used
  <2>2. slot[i].v \notin DeadViewers
    BY <1>2, <2>1 DEF DeadViewers, Tables, Used
  <2> QED
    BY <2>1, <2>2
<1>7. TypeOK'
  <2>1. slot' \in [Slots -> [v : Viewers \cup {None}, id : Nat,
                             out : Seq(HalfLines), dead : BOOLEAN]]
    BY <1>4 DEF SlotRec, Stream
  <2>2. ASSUME NEW i \in Slots PROVE Len(slot'[i].out) <= WriteCap
    <3>1. CASE slot[i].dead
      BY <1>3, <1>4, <3>1, NothingWhole
    <3>2. CASE ~slot[i].dead
      BY <1>2, <1>4, <3>2 DEF TypeOK
    <3> QED
      BY <3>1, <3>2
  <2>3. req' \in [Viewers -> Seq(Kinds \cup {"hello"})]
    <3>1. req \in [Viewers -> Seq(Kinds \cup {"hello"})] /\ <<>> \in Seq(Kinds \cup {"hello"})
      BY <1>2 DEF TypeOK
    <3> QED
      BY ONLY <1>1, <3>1
  <2> QED
    BY <1>1, <1>2, <1>5, <2>1, <2>2, <2>3 DEF TypeOK
<1>8. Tables'
  <2>1. \A i \in Slots : ~Used(i)' => slot'[i] = FreeSlot
    BY <1>2, <1>4 DEF Tables, Used
  <2>2. \A i \in Slots : Used(i)' => /\ slot'[i].id > 0 /\ slot'[i].id < nextId'
                                     /\ conn'[slot'[i].v] \in {"open", "closed"}
    BY <1>1, <1>2, <1>5, <1>6 DEF Tables
  <2>3. \A i, j \in Slots :
          /\ Used(i)' /\ Used(j)'
          /\ slot'[i].v = slot'[j].v \/ slot'[i].id = slot'[j].id
          => i = j
    BY <1>2, <1>6 DEF Tables
  <2> QED
    BY <2>1, <2>2, <2>3 DEF Tables
<1>9. ASSUME NEW v \in Viewers
      PROVE  /\ Seated(v)' => Seated(v)
             /\ Seated(v) => Seated(v)' \/ v \in DeadViewers
             /\ v \in DeadViewers => Seated(v)
  <2>1. Seated(v)' => Seated(v)
    BY <1>6 DEF Seated, Used
  <2>2. Seated(v) => Seated(v)' \/ v \in DeadViewers
    BY <1>4 DEF Seated, DeadViewers
  <2>3. v \in DeadViewers => Seated(v)
    BY DEF Seated, DeadViewers
  <2> QED
    BY <2>1, <2>2, <2>3
<1>10. Waiting'
  <2>1. \A v : Waits(v)' <=> Waits(v)
    BY <1>1 DEF Waits
  <2> QED
    BY <1>1, <1>2, <1>5, <1>9, <2>1 DEF Waiting
<1>11. Phases'
  BY <1>1 DEF Phases
<1>12. Listening'
  <2>1. \A k \in Subs, i \in Slots :
          subs[k].on /\ Used(i)' /\ subs[k].id = slot'[i].id => subs[k].for = slot'[i].v
    BY <1>2, <1>6 DEF Listening
  <2>2. ListenersCounted'
    BY <1>1, <1>2 DEF Listening, ListenersCounted
  <2> QED
    BY <1>1, <1>2, <2>1, <2>2 DEF Listening
<1>13. Streams'
  <2>1. \A v \in Viewers : conn'[v] # "shut" /\ (conn'[v] = "open" => ~Seated(v)') =>
          half[v] = <<>> /\ wire[v] = <<>>
    BY <1>2, <1>5, <1>9 DEF Streams
  <2>2. ASSUME NEW i \in Slots, Used(i)', conn'[slot'[i].v] = "open"
        PROVE  Sound(half[slot'[i].v], Outbox(i)')
    <3>1. /\ Used(i) /\ slot'[i] = slot[i] /\ slot[i].v \in Viewers
          /\ slot[i].v \notin DeadViewers
      BY <1>6, <2>2
    <3>2. Sound(half[slot[i].v], Outbox(i))
      BY <1>2, <1>5, <2>2, <3>1 DEF Streams
    <3>3. Outbox(i)'.s = Outbox(i).s /\ Outbox(i)'.w = Outbox(i).w
      BY <1>1, <3>1 DEF Outbox
    <3> QED
      BY <3>1, <3>2, <3>3 DEF Sound
  <2> QED
    BY <1>1, <1>2, <2>1, <2>2 DEF Streams
<1>14. Gaps'
  BY <1>1, <1>2 DEF Gaps, DeadViewers
<1> QED
  BY <1>7, <1>8, <1>10, <1>11, <1>12, <1>13, <1>14 DEF IInv

\* The end of main().
LEMMA ShutdownStep ==
    ASSUME IInv, Shutdown
    PROVE  IInv'
<1>1. /\ UNCHANGED <<revents, wire, nextId, receiver, half, wrong>>
      /\ at = "poll" /\ at' = "over"
      /\ subs' = [k \in Subs |-> FreeSub] /\ gn' = 0 /\ SetTap(FALSE)
      /\ slot' = [i \in Slots |-> FreeSlot]
      /\ conn' = [v \in Viewers |-> IF conn[v] = "open" THEN "shut" ELSE conn[v]]
      /\ backlog' = <<>>
      /\ req' = [v \in Viewers |-> IF v \in Viewers THEN <<>> ELSE req[v]]
      /\ gap' = gap \ Viewers
  BY DEF Shutdown, Lost, seenVars
<1>2. TypeOK /\ Phases /\ Streams
  BY DEF IInv
<1>3. tap' = FALSE /\ ring' = ring
  BY <1>1 DEF SetTap
<1>4. \A i \in Slots : slot'[i] = FreeSlot /\ ~Used(i)'
  BY <1>1 DEF Used, FreeSlot
<1>5. \A k \in Subs : ~subs'[k].on
  BY <1>1 DEF FreeSub
<1>6. /\ conn' \in [Viewers -> {"new", "open", "closed", "shut"}]
      /\ \A v \in Viewers : conn'[v] # "open" /\ (conn'[v] # "shut" => conn[v] = conn'[v])
  BY <1>1, <1>2 DEF TypeOK
<1>7. gap' = {} /\ revents' = {}
  BY <1>1, <1>2 DEF TypeOK, Phases
<1>8. TypeOK'
  <2>1. slot' \in [Slots -> [v : Viewers \cup {None}, id : Nat,
                             out : Seq(HalfLines), dead : BOOLEAN]]
    BY <1>1 DEF FreeSlot
  <2>2. \A i \in Slots : Len(slot'[i].out) <= WriteCap
    BY <1>4, NothingWhole DEF FreeSlot
  <2>3. subs' \in [Subs -> [on : BOOLEAN, id : Nat, for : Viewers \cup {None},
                            started : BOOLEAN]]
    BY <1>1 DEF FreeSub
  <2>4. req' \in [Viewers -> Seq(Kinds \cup {"hello"})] /\ backlog' \in Seq(Viewers)
    BY <1>1
  <2> QED
    BY <1>1, <1>2, <1>3, <1>6, <1>7, <2>1, <2>2, <2>3, <2>4 DEF TypeOK
<1>9. Tables' /\ Phases' /\ Gaps'
  BY <1>4, <1>7 DEF Tables, Phases, Gaps
<1>10. Waiting'
  BY <1>1, <1>6 DEF Waiting, Waits
<1>11. Listening'
  <2>1. {k \in Subs : subs'[k].on} = {}
    BY <1>5
  <2>2. ListenersCounted'
    <3>1. gn' = 0 /\ tap' = FALSE /\ at' = "over"
      BY <1>1, <1>3
    <3>2. gn' = Cardinality({k \in Subs : subs'[k].on})
      BY <2>1, <3>1, FS_EmptySet
    <3> QED
      BY <3>1, <3>2 DEF ListenersCounted
  <2> QED
    BY <1>5, <2>2 DEF Listening
<1>12. Streams'
  <2>1. \A v \in Viewers : conn'[v] # "shut" /\ (conn'[v] = "open" => ~Seated(v)') =>
          half[v] = <<>> /\ wire[v] = <<>>
    BY <1>2, <1>6 DEF Streams
  <2> QED
    BY <1>1, <1>2, <1>4, <2>1 DEF Streams
<1> QED
  BY <1>8, <1>9, <1>10, <1>11, <1>12 DEF IInv

-----------------------------------------------------------------------------
(* The theorems.                                                           *)

LEMMA Initial ==
    ASSUME Init
    PROVE  IInv
<1>1. \A i \in Slots : slot[i] = FreeSlot /\ ~Used(i)
  BY DEF Init, Used, FreeSlot
<1>2. \A k \in Subs : ~subs[k].on
  BY DEF Init, FreeSub
<1>3. TypeOK
  <2>1. slot \in [Slots -> [v : Viewers \cup {None}, id : Nat,
                            out : Seq(HalfLines), dead : BOOLEAN]]
    BY DEF Init, FreeSlot
  <2>2. \A i \in Slots : Len(slot[i].out) <= WriteCap
    BY <1>1, NothingWhole DEF FreeSlot
  <2>3. subs \in [Subs -> [on : BOOLEAN, id : Nat, for : Viewers \cup {None},
                           started : BOOLEAN]]
    BY DEF Init, FreeSub
  <2>4. /\ req \in [Viewers -> Seq(Kinds \cup {"hello"})] /\ backlog \in Seq(Viewers)
        /\ wire \in [Viewers -> Seq(HalfLines)] /\ half \in [Viewers -> Seq(HalfLines)]
    BY DEF Init
  <2>5. \A v \in Viewers : Len(wire[v]) <= SockCap /\ Len(half[v]) <= 1
    BY NothingWhole DEF Init
  <2>6. conn \in [Viewers -> {"new", "open", "closed", "shut"}]
    BY DEF Init
  <2>7. /\ at = "poll" /\ revents = {} /\ nextId = 1 /\ gn = 0 /\ tap = FALSE
        /\ ring = 0 /\ receiver \in BOOLEAN /\ gap = {} /\ wrong = {}
    BY DEF Init
  <2>8. /\ at \in {"poll", "serve", "pump", "broadcast", "over"}
        /\ revents \subseteq Slots \X {"hup", "in", "out"} /\ nextId \in Nat \ {0}
        /\ gn \in Nat /\ tap \in BOOLEAN
        /\ receiver \in BOOLEAN /\ gap \subseteq Viewers /\ wrong \subseteq Viewers
    <3>1. at \in {"poll", "serve", "pump", "broadcast", "over"}
      BY ONLY <2>7
    <3>2. revents \subseteq Slots \X {"hup", "in", "out"}
      BY ONLY <2>7
    <3>3. nextId \in Nat \ {0} /\ gn \in Nat
      BY ONLY <2>7
    <3>4. tap \in BOOLEAN /\ receiver \in BOOLEAN
      BY ONLY <2>7
    <3>5. gap \subseteq Viewers /\ wrong \subseteq Viewers
      BY ONLY <2>7
    <3> QED
      BY <3>1, <3>2, <3>3, <3>4, <3>5
  <2>9. ring \in 0 .. RingCap
    <3>1. RingCap \in Nat
      OBVIOUS
    <3> QED
      BY <2>7, <3>1
  <2> QED
    BY <2>1, <2>2, <2>3, <2>4, <2>5, <2>6, <2>8, <2>9 DEF TypeOK
<1>4. Tables /\ Phases /\ Gaps
  BY <1>1 DEF Init, Tables, Phases, Gaps
<1>5. Waiting
  BY DEF Init, Waiting, Waits
<1>6. Listening
  <2>1. {k \in Subs : subs[k].on} = {}
    BY <1>2
  <2>2. ListenersCounted
    <3>1. gn = 0 /\ tap = FALSE /\ at = "poll"
      BY DEF Init
    <3>2. gn = Cardinality({k \in Subs : subs[k].on})
      BY <2>1, <3>1, FS_EmptySet
    <3> QED
      BY <3>1, <3>2 DEF ListenersCounted
  <2> QED
    BY <1>2, <2>2 DEF Listening
<1>7. Streams
  BY <1>1, NothingWhole DEF Init, Streams, Whole
<1> QED
  BY <1>3, <1>4, <1>5, <1>6, <1>7 DEF IInv

\* Every step of the server, its viewers and the RX worker keeps the invariant:
\* tables, phases of the loop, subscriptions, streams and gaps together.
THEOREM Inductive == Spec => []IInv
<1>1. Init => IInv
  BY Initial
<1>2. IInv /\ [Next]_vars => IInv'
  <2> SUFFICES ASSUME IInv, [Next]_vars PROVE IInv'
    OBVIOUS
  <2>1. CASE Poll
    BY <2>1, PollStep
  <2>2. CASE Accept
    BY <2>2, AcceptStep
  <2>3. CASE ReadHello
    BY <2>3, HelloStep
  <2>4. CASE ReadOff
    BY <2>4, OffStep
  <2>5. CASE ReadOnRefused
    BY <2>5, RefusedStep
  <2>6. CASE ReadOn
    BY <2>6, OnStep
  <2>7. CASE ReadOnFails
    BY <2>7, OnFailsStep
  <2>8. CASE ServeNext
    BY <2>8, ServeNextStep
  <2>9. CASE CloseDead
    BY <2>9, CloseDeadStep
  <2>10. CASE Pump
    BY <2>10, PumpStep
  <2>11. CASE Prune
    BY <2>11, PruneStep
  <2>12. CASE Broadcast
    BY <2>12, BroadcastStep
  <2>13. CASE NotYet
    BY <2>13, NotYetStep
  <2>14. CASE PushAudio
    BY <2>14, PushStep
  <2>15. CASE Shutdown
    BY <2>15, ShutdownStep
  <2>16. ASSUME NEW v \in Viewers, Connect(v) PROVE IInv'
    BY <2>16, ConnectStep
  <2>17. ASSUME NEW v \in Viewers, Request(v) PROVE IInv'
    BY <2>17, RequestStep
  <2>18. ASSUME NEW v \in Viewers, ClientRead(v) PROVE IInv'
    BY <2>18, ClientReadStep
  <2>19. ASSUME NEW v \in Viewers, ClientClose(v) PROVE IInv'
    BY <2>19, ClientCloseStep
  <2>20. CASE Over \/ UNCHANGED vars
    <3>1. /\ UNCHANGED <<at, revents, slot, nextId, wire, gap, subs, gn, tap, ring>>
          /\ UNCHANGED <<receiver, conn, req, half, wrong, backlog>>
      BY <2>20 DEF Over, vars, loopVars, audioVars, viewerVars, seenVars, serverVars
    <3>2. TypeOK' /\ Listening'
      BY <3>1, AudioSame DEF IInv, TypeOK
    <3>3. Tables' /\ Waiting' /\ Phases' /\ Gaps'
      BY <3>1 DEF IInv, Tables, Waiting, Phases, Gaps, Used, Seated, Waits
    <3>4. Streams'
      BY <3>1 DEF IInv, Streams, Outbox, Used, Seated
    <3> QED
      BY <3>2, <3>3, <3>4 DEF IInv
  <2> QED
    BY <2>1, <2>2, <2>3, <2>4, <2>5, <2>6, <2>7, <2>8, <2>9, <2>10, <2>11, <2>12,
       <2>13, <2>14, <2>15, <2>16, <2>17, <2>18, <2>19, <2>20
       DEF Next, Serve, Tick, Viewer
<1> QED
  BY <1>1, <1>2, PTL DEF Spec

\* The variables have their types, and no buffer of the server, the kernel or
\* a viewer ever holds more than it takes.
THEOREM TypeSafe == Spec => []TypeOK
<1>1. IInv => TypeOK
  BY DEF IInv
<1> QED
  BY <1>1, Inductive, PTL

\* What is on its way to a connected viewer is whole lines that it may get, who
\* misses one is given up, and nobody ever decoded anything else (slot_queue,
\* slot_drain_write, client_drain_read, audio_sub_sink).
THEOREM StreamSafe == Spec => []StreamIntact
<1>1. ASSUME IInv PROVE StreamIntact
  <2>1. TypeOK /\ Tables /\ Streams /\ Gaps
    BY <1>1 DEF IInv
  <2>2. ASSUME NEW i \in Slots, Used(i), conn[slot[i].v] = "open"
        PROVE  LET f == InFlight(slot[i].v)
               IN /\ Len(f) % 2 = 0 /\ Paired(f, slot[i].v)
                  /\ slot[i].v \in gap => slot[i].dead
    <3>1. PICK v \in Viewers : v = slot[i].v
      BY <2>1, <2>2, SlotFields
    <3>2. \A j \in Slots : slot[j].v = v => j = i
      BY <2>1, <2>2, <3>1 DEF Tables, Used
    <3>3. {j \in Slots : slot[j].v = v} = {i}
      BY <3>1, <3>2
    <3>4. InFlight(v) = Cat(Cat(half[v], wire[v]), slot[i].out)
      <4>1. PICK mine : mine = {j \in Slots : slot[j].v = v}
        OBVIOUS
      <4>2. mine # {} /\ (CHOOSE j \in mine : TRUE) = i
        BY <3>3, <4>1
      <4>3. InFlight(v) = half[v] \o wire[v]
                          \o (IF mine = {} THEN <<>> ELSE slot[CHOOSE j \in mine : TRUE].out)
        BY <4>1 DEF InFlight
      <4>4. InFlight(v) = half[v] \o wire[v] \o slot[i].out
        BY ONLY <4>2, <4>3, Zenon
      <4> QED
        BY ONLY <4>4, Zenon DEF Cat
    <3>5. Whole(InFlight(v), v)
      <4>1. Sound(half[v], Outbox(i))
        BY <2>1, <2>2, <3>1 DEF Streams
      <4>2. Outbox(i).s = slot[i] /\ Outbox(i).w = wire[v]
        BY <2>1, <2>2, <3>1, OutboxIs
      <4> QED
        BY <3>1, <3>4, <4>1, <4>2 DEF Sound
    <3>6. v \in gap => slot[i].dead
      BY <2>1, <3>2 DEF Gaps
    <3> QED
      BY <3>1, <3>5, <3>6 DEF Whole
  <2> QED
    BY <2>1, <2>2 DEF StreamIntact, Streams
<1> QED
  BY <1>1, Inductive, PTL

\* g_n counts the subscriptions, the tap is on while somebody listens, every
\* listener is connected after the sweep, and every connection has a slot or
\* waits for one (accept, slot_close, drop_slot, operator_audio_prune).
THEOREM TablesSafe == Spec => []TablesExact
<1>1. ASSUME IInv PROVE TablesExact
  <2>1. TypeOK /\ Tables /\ Waiting /\ ListenersCounted
    BY <1>1 DEF IInv, Listening
  <2>2. ASSUME NEW v \in Viewers, conn[v] = "open"
        PROVE  Cardinality({i \in Slots : slot[i].v = v})
                 + Cardinality({j \in 1 .. Len(backlog) : backlog[j] = v}) = 1
    <3>1. PICK A, B : A = {i \in Slots : slot[i].v = v}
                      /\ B = {j \in 1 .. Len(backlog) : backlog[j] = v}
      OBVIOUS
    <3>2. CASE Seated(v)
      <4>1. PICK i \in Slots : slot[i].v = v
        BY <3>2 DEF Seated
      <4>2. A = {i}
        BY <2>1, <3>1, <4>1 DEF Tables, Used
      <4>3. B = {}
        BY <2>1, <3>1, <3>2 DEF Waiting, Waits
      <4>4. Cardinality(A) = 1 /\ Cardinality(B) = 0
        BY <4>2, <4>3, FS_EmptySet, FS_Singleton
      <4> QED
        BY <3>1, <4>4
    <3>3. CASE ~Seated(v)
      <4>1. PICK m \in 1 .. Len(backlog) : backlog[m] = v
        BY <2>1, <2>2, <3>3 DEF Waiting, Waits
      <4>2. B = {m}
        BY <2>1, <3>1, <4>1 DEF Waiting
      <4>3. A = {}
        BY <3>1, <3>3 DEF Seated
      <4>4. Cardinality(A) = 0 /\ Cardinality(B) = 1
        BY <4>2, <4>3, FS_EmptySet, FS_Singleton
      <4> QED
        BY <3>1, <4>4
    <3> QED
      BY <3>2, <3>3
  <2> QED
    BY <2>1, <2>2 DEF TablesExact, NobodyForgotten
<1> QED
  BY <1>1, Inductive, PTL
=============================================================================
