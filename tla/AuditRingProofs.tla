--------------------------- MODULE AuditRingProofs ---------------------------
(***************************************************************************)
(* Proofs about AuditRing, for every size of the ring and any number of    *)
(* threads and events: the audit trail is in the order of the calls, every *)
(* overwritten event is accounted for, and the exit handler leaves nothing *)
(* behind.                                                                 *)
(***************************************************************************)
EXTENDS AuditRing, FiniteSetTheorems, SequenceTheorems, TLAPS

\* The n entries from slot t on; Contents is what is in the ring.
In(f, t, n) == [i \in 1 .. n |-> f[(t + i - 1) % RingSize]]

\* They are all there, none of them a slot never written.
Held(f, t, n) == \A i \in 1 .. n : f[(t + i - 1) % RingSize] \in Events

\* An entry is put into slot x.
Put(f, x, e) == [f EXCEPT ![x] = e]

\* The indices of the ring, and that only a ring with something in it drops.
RingInv ==
    /\ head = (tail + count) % RingSize
    /\ Held(ring, tail, count)
    /\ count = 0 => dropped = 0

\* Who is where: the worker takes and gives back before it waits, a direct
\* write means that there is none, and it stops only for the exit handler.
PhaseInv ==
    /\ worker # "write" => local = <<>> /\ droppedLocal = 0
    /\ worker = "off" => count = 0
    /\ worker = "ended" => stop /\ count = 0
    /\ started <=> worker # "off" /\ pc[Main] # "gone"
    /\ pc[Main] = "new" => worker = "off" /\ \A t \in Others : pc[t] \in {"idle", "gone"}
    /\ pc[Main] = "gone" => worker \in {"off", "ended"}
    /\ stop => pc[Main] \in {"join", "gone"}
    /\ \A t \in Threads : /\ pc[t] = "enqueue" => started
                          /\ pc[t] = "append" => worker = "off"

\* The main thread is the last one to emit, with its "end".
Over == pc[Main] \in {"close", "join", "gone"}
EndInv ==
    /\ \A t \in Others : /\ pc[t] \in {"idle", "enqueue", "append", "gone"}
                         /\ no[t] <= MaxEvents
                         /\ no[Main] = EndNo => pc[t] = "gone"
    /\ pc[Main] \in {"new", "idle"} => no[Main] <= MaxEvents
    /\ Over => no[Main] = EndNo

\* Events are numbered, so the one a thread is about to put is a new one.
FreshInv ==
    \A k \in 1 .. Len(accepted) : \A t \in Threads, n \in 0 .. EndNo :
        accepted[k] = <<t, n>> =>
            /\ n <= no[t]
            /\ pc[t] \in {"new", "enqueue", "append"} => n < no[t]

\* Nothing is lost that was not accepted, and "end", the last, is not lost.
LostInv ==
    /\ IsFiniteSet(lost)
    /\ \A e \in lost \cup failed : \E k \in 1 .. Len(accepted) : e = accepted[k]
    /\ Over => /\ Len(accepted) > 0
               /\ accepted[Len(accepted)] = <<Main, EndNo>>
               /\ <<Main, EndNo>> \notin lost

IInv == TypeOK /\ RingInv /\ PhaseInv /\ EndInv /\ FreshInv /\ LostInv /\ TrailInOrder

-----------------------------------------------------------------------------
(* Sequences in order.                                                     *)

\* r is s without its m-th element.
Without(s, m, r) ==
    /\ m \in 1 .. Len(s) /\ Len(r) = Len(s) - 1
    /\ \A i \in 1 .. Len(r) : r[i] = IF i < m THEN s[i] ELSE s[i + 1]

\* A new event at the end of both.
LEMMA RestAdd ==
    ASSUME NEW E, NEW s \in Seq(E), NEW acc \in Seq(E), NEW gone, NEW e \in E,
           IsRest(s, acc, gone), \A k \in 1 .. Len(acc) : acc[k] # e, e \notin gone
    PROVE  IsRest(Append(s, e), Append(acc, e), gone)
<1> DEFINE r == Append(s, e)
           new == Append(acc, e)
<1>1. /\ Len(s) \in Nat /\ Len(acc) \in Nat
      /\ Len(r) = Len(s) + 1 /\ Len(new) = Len(acc) + 1
      /\ \A i \in 1 .. Len(s) : r[i] = s[i]
      /\ \A k \in 1 .. Len(acc) : new[k] = acc[k]
      /\ r[Len(s) + 1] = e /\ new[Len(acc) + 1] = e
  OBVIOUS
<1>2. /\ \A k, l \in 1 .. Len(acc) : k < l => acc[k] # acc[l]
      /\ \A i \in 1 .. Len(s) :
           s[i] \notin gone /\ \E k \in 1 .. Len(acc) : s[i] = acc[k]
      /\ \A k \in 1 .. Len(acc) : acc[k] \notin gone => \E i \in 1 .. Len(s) : acc[k] = s[i]
      /\ \A i, j \in 1 .. Len(s) : i < j =>
           \E k, l \in 1 .. Len(acc) : k < l /\ s[i] = acc[k] /\ s[j] = acc[l]
  BY DEF IsRest
<1> HIDE DEF r, new
<1>3. \A k, l \in 1 .. Len(new) : k < l => new[k] # new[l]
  <2> SUFFICES ASSUME NEW k \in 1 .. Len(new), NEW l \in 1 .. Len(new), k < l
               PROVE  new[k] # new[l]
    OBVIOUS
  <2>1. k \in 1 .. Len(acc) /\ l \in (1 .. Len(acc)) \cup {Len(acc) + 1}
    BY <1>1
  <2>2. acc[k] # e /\ new[k] = acc[k]
    BY <1>1, <2>1
  <2>3. CASE l = Len(acc) + 1
    BY <1>1, <2>2, <2>3
  <2>4. CASE l \in 1 .. Len(acc)
    BY <1>1, <1>2, <2>1, <2>4
  <2> QED
    BY <2>1, <2>3, <2>4
<1>4. /\ \A i \in 1 .. Len(r) :
           r[i] \notin gone /\ \E k \in 1 .. Len(new) : r[i] = new[k]
      /\ \A k \in 1 .. Len(new) :
           new[k] \notin gone => \E i \in 1 .. Len(r) : new[k] = r[i]
  <2>1. ASSUME NEW i \in 1 .. Len(r)
        PROVE  r[i] \notin gone /\ \E k \in 1 .. Len(new) : r[i] = new[k]
    <3>1. CASE i = Len(s) + 1
      BY <1>1, <3>1
    <3>2. CASE i \in 1 .. Len(s)
      <4>1. s[i] \notin gone /\ r[i] = s[i]
        BY <1>1, <1>2, <3>2
      <4>2. PICK k \in 1 .. Len(acc) : s[i] = acc[k]
        BY <1>2, <3>2
      <4>3. k \in 1 .. Len(new) /\ new[k] = acc[k]
        BY <1>1, <4>2
      <4> QED
        BY <4>1, <4>2, <4>3
    <3> QED
      BY <1>1, <3>1, <3>2
  <2>2. ASSUME NEW k \in 1 .. Len(new), new[k] \notin gone
        PROVE  \E i \in 1 .. Len(r) : new[k] = r[i]
    <3>1. CASE k = Len(acc) + 1
      BY <1>1, <3>1
    <3>2. CASE k \in 1 .. Len(acc)
      BY <1>1, <1>2, <2>2, <3>2
    <3> QED
      BY <1>1, <3>1, <3>2
  <2> QED
    BY <2>1, <2>2
<1>5. ASSUME NEW i \in 1 .. Len(r), NEW j \in 1 .. Len(r), i < j
      PROVE  \E k, l \in 1 .. Len(new) : k < l /\ r[i] = new[k] /\ r[j] = new[l]
  <2>1. i \in 1 .. Len(s)
    BY <1>1, <1>5
  <2>2. CASE j = Len(s) + 1
    <3>1. PICK k \in 1 .. Len(acc) : s[i] = acc[k]
      BY <1>2, <2>1
    <3> QED
      BY <1>1, <2>1, <2>2, <3>1
  <2>3. CASE j \in 1 .. Len(s)
    <3>1. PICK k \in 1 .. Len(acc), l \in 1 .. Len(acc) :
            k < l /\ s[i] = acc[k] /\ s[j] = acc[l]
      BY <1>2, <1>5, <2>1, <2>3
    <3> QED
      BY <1>1, <2>1, <2>3, <3>1
  <2> QED
    BY <1>1, <2>2, <2>3
<1> QED
  BY <1>3, <1>4, <1>5 DEF IsRest, r, new

\* A new event that the disk refuses.
LEMMA RestRefused ==
    ASSUME NEW E, NEW s \in Seq(E), NEW acc \in Seq(E), NEW gone, NEW e \in E,
           IsRest(s, acc, gone), \A k \in 1 .. Len(acc) : acc[k] # e
    PROVE  IsRest(s, Append(acc, e), gone \cup {e})
<1> DEFINE new == Append(acc, e)
<1>1. /\ Len(s) \in Nat /\ Len(acc) \in Nat /\ Len(new) = Len(acc) + 1
      /\ \A k \in 1 .. Len(acc) : new[k] = acc[k]
      /\ new[Len(acc) + 1] = e
  OBVIOUS
<1>2. /\ \A k, l \in 1 .. Len(acc) : k < l => acc[k] # acc[l]
      /\ \A i \in 1 .. Len(s) :
           s[i] \notin gone /\ \E k \in 1 .. Len(acc) : s[i] = acc[k]
      /\ \A k \in 1 .. Len(acc) : acc[k] \notin gone => \E i \in 1 .. Len(s) : acc[k] = s[i]
      /\ \A i, j \in 1 .. Len(s) : i < j =>
           \E k, l \in 1 .. Len(acc) : k < l /\ s[i] = acc[k] /\ s[j] = acc[l]
  BY DEF IsRest
<1> HIDE DEF new
<1>3. \A k, l \in 1 .. Len(new) : k < l => new[k] # new[l]
  <2> SUFFICES ASSUME NEW k \in 1 .. Len(new), NEW l \in 1 .. Len(new), k < l
               PROVE  new[k] # new[l]
    OBVIOUS
  <2>1. k \in 1 .. Len(acc) /\ l \in (1 .. Len(acc)) \cup {Len(acc) + 1}
    BY <1>1
  <2>2. acc[k] # e /\ new[k] = acc[k]
    BY <1>1, <2>1
  <2>3. CASE l = Len(acc) + 1
    BY <1>1, <2>2, <2>3
  <2>4. CASE l \in 1 .. Len(acc)
    BY <1>1, <1>2, <2>1, <2>4
  <2> QED
    BY <2>1, <2>3, <2>4
<1>4. /\ \A i \in 1 .. Len(s) :
           s[i] \notin (gone \cup {e}) /\ \E k \in 1 .. Len(new) : s[i] = new[k]
      /\ \A k \in 1 .. Len(new) :
           new[k] \notin (gone \cup {e}) => \E i \in 1 .. Len(s) : new[k] = s[i]
  <2>1. ASSUME NEW i \in 1 .. Len(s)
        PROVE  s[i] \notin gone \cup {e} /\ \E k \in 1 .. Len(new) : s[i] = new[k]
    <3>1. s[i] \notin gone
      BY <1>2
    <3>2. PICK k \in 1 .. Len(acc) : s[i] = acc[k]
      BY <1>2
    <3>3. k \in 1 .. Len(new) /\ new[k] = acc[k] /\ acc[k] # e
      BY <1>1, <3>2
    <3> QED
      BY <3>1, <3>2, <3>3
  <2>2. ASSUME NEW k \in 1 .. Len(new), new[k] \notin gone \cup {e}
        PROVE  \E i \in 1 .. Len(s) : new[k] = s[i]
    <3>1. k \in 1 .. Len(acc)
      BY <1>1, <2>2
    <3>2. new[k] = acc[k] /\ acc[k] \notin gone
      BY <1>1, <2>2, <3>1
    <3> QED
      BY <1>2, <3>1, <3>2
  <2> QED
    BY <2>1, <2>2
<1>5. \A i, j \in 1 .. Len(s) : i < j =>
        \E k, l \in 1 .. Len(new) : k < l /\ s[i] = new[k] /\ s[j] = new[l]
  <2> SUFFICES ASSUME NEW i \in 1 .. Len(s), NEW j \in 1 .. Len(s), i < j
               PROVE  \E k, l \in 1 .. Len(new) : k < l /\ s[i] = new[k] /\ s[j] = new[l]
    OBVIOUS
  <2>1. PICK k \in 1 .. Len(acc), l \in 1 .. Len(acc) :
          k < l /\ s[i] = acc[k] /\ s[j] = acc[l]
    BY <1>2
  <2> QED
    BY <1>1, <2>1
<1> QED
  BY <1>3, <1>4, <1>5 DEF IsRest, new

\* One event is taken out of the middle.
LEMMA RestDrop ==
    ASSUME NEW E, NEW s \in Seq(E), NEW acc \in Seq(E), NEW gone, NEW m,
           IsRest(s, acc, gone), NEW r \in Seq(E), Without(s, m, r)
    PROVE  s[m] \notin gone /\ IsRest(r, acc, gone \cup {s[m]})
<1>1. /\ Len(s) \in Nat /\ Len(acc) \in Nat /\ Len(r) \in Nat
      /\ m \in 1 .. Len(s) /\ Len(r) = Len(s) - 1
      /\ \A i \in 1 .. Len(r) : r[i] = IF i < m THEN s[i] ELSE s[i + 1]
  BY DEF Without
<1>2. /\ \A k, l \in 1 .. Len(acc) : k < l => acc[k] # acc[l]
      /\ \A i \in 1 .. Len(s) :
           s[i] \notin gone /\ \E k \in 1 .. Len(acc) : s[i] = acc[k]
      /\ \A k \in 1 .. Len(acc) : acc[k] \notin gone => \E i \in 1 .. Len(s) : acc[k] = s[i]
      /\ \A i, j \in 1 .. Len(s) : i < j =>
           \E k, l \in 1 .. Len(acc) : k < l /\ s[i] = acc[k] /\ s[j] = acc[l]
  BY DEF IsRest
<1>3. \A i, j \in 1 .. Len(s) : i < j => s[i] # s[j]
  <2> SUFFICES ASSUME NEW i \in 1 .. Len(s), NEW j \in 1 .. Len(s), i < j
               PROVE  s[i] # s[j]
    OBVIOUS
  <2>1. PICK k \in 1 .. Len(acc), l \in 1 .. Len(acc) :
          k < l /\ s[i] = acc[k] /\ s[j] = acc[l]
    BY <1>2
  <2>2. acc[k] # acc[l]
    BY <1>2, <2>1
  <2> QED
    BY <2>1, <2>2
<1>4. \A i \in 1 .. Len(s) : i # m => s[i] # s[m]
  BY <1>1, <1>3
<1> DEFINE from(i) == IF i < m THEN i ELSE i + 1
<1>5. \A i \in 1 .. Len(r) : from(i) \in 1 .. Len(s) /\ from(i) # m /\ r[i] = s[from(i)]
  BY <1>1
<1>6. \A i, j \in 1 .. Len(r) : i < j => from(i) < from(j)
  BY <1>1
<1>7. \A i \in 1 .. Len(s) : i # m => \E j \in 1 .. Len(r) : from(j) = i
  <2> SUFFICES ASSUME NEW i \in 1 .. Len(s), i # m
               PROVE  \E j \in 1 .. Len(r) : from(j) = i
    OBVIOUS
  <2>1. CASE i < m
    <3>1. i \in 1 .. Len(r) /\ from(i) = i
      BY <1>1, <2>1
    <3> QED
      BY <3>1
  <2>2. CASE m < i
    <3>1. i - 1 \in 1 .. Len(r) /\ from(i - 1) = i
      BY <1>1, <2>2
    <3> QED
      BY <3>1
  <2> QED
    BY <1>1, <2>1, <2>2
<1> HIDE DEF from
<1>8. /\ \A i \in 1 .. Len(r) :
           r[i] \notin (gone \cup {s[m]}) /\ \E k \in 1 .. Len(acc) : r[i] = acc[k]
      /\ \A k \in 1 .. Len(acc) :
           acc[k] \notin (gone \cup {s[m]}) => \E i \in 1 .. Len(r) : acc[k] = r[i]
  <2>1. ASSUME NEW i \in 1 .. Len(r)
        PROVE  r[i] \notin gone \cup {s[m]} /\ \E k \in 1 .. Len(acc) : r[i] = acc[k]
    <3>1. PICK l \in 1 .. Len(s) : l # m /\ r[i] = s[l]
      BY <1>5
    <3>2. s[l] \notin gone /\ s[l] # s[m] /\ \E k \in 1 .. Len(acc) : s[l] = acc[k]
      BY <1>2, <1>4, <3>1
    <3> QED
      BY <3>1, <3>2
  <2>2. ASSUME NEW k \in 1 .. Len(acc), acc[k] \notin gone \cup {s[m]}
        PROVE  \E i \in 1 .. Len(r) : acc[k] = r[i]
    <3>1. PICK i \in 1 .. Len(s) : acc[k] = s[i]
      BY <1>2, <2>2
    <3>2. PICK j \in 1 .. Len(r) : from(j) = i
      BY <1>7, <2>2, <3>1
    <3> QED
      BY <1>5, <3>1, <3>2
  <2> QED
    BY <2>1, <2>2
<1>9. ASSUME NEW i \in 1 .. Len(r), NEW j \in 1 .. Len(r), i < j
      PROVE  \E k, l \in 1 .. Len(acc) : k < l /\ r[i] = acc[k] /\ r[j] = acc[l]
  <2>1. from(i) < from(j) /\ from(i) \in 1 .. Len(s) /\ from(j) \in 1 .. Len(s)
    BY <1>5, <1>6, <1>9
  <2>2. \E k, l \in 1 .. Len(acc) : k < l /\ s[from(i)] = acc[k] /\ s[from(j)] = acc[l]
    <3>1. \A x, y \in 1 .. Len(s) : x < y =>
            \E k, l \in 1 .. Len(acc) : k < l /\ s[x] = acc[k] /\ s[y] = acc[l]
      BY <1>2
    <3> QED
      BY <2>1, <3>1
  <2> QED
    BY <1>5, <2>2
<1> QED
  BY <1>1, <1>2, <1>8, <1>9 DEF IsRest

\* The first of the second part is taken away.
LEMMA WithoutFirst ==
    ASSUME NEW E, NEW a \in Seq(E), NEW c \in Seq(E), Len(c) > 0,
           NEW t \in Seq(E), t = Tail(c)
    PROVE  /\ a \o t \in Seq(E) /\ (a \o c)[Len(a) + 1] = c[1]
           /\ Without(a \o c, Len(a) + 1, a \o t)
<1>1. /\ Len(t) = Len(c) - 1 /\ \A i \in 1 .. Len(t) : t[i] = c[i + 1]
      /\ Len(a) \in Nat /\ Len(c) \in Nat /\ Len(t) \in Nat
  OBVIOUS
<1>2. /\ Len(a \o c) = Len(a) + Len(c)
      /\ \A i \in 1 .. Len(a) + Len(c) :
           (a \o c)[i] = IF i <= Len(a) THEN a[i] ELSE c[i - Len(a)]
  BY ConcatProperties
<1>3. /\ a \o t \in Seq(E) /\ Len(a \o t) = Len(a) + Len(t)
      /\ \A i \in 1 .. Len(a) + Len(t) :
           (a \o t)[i] = IF i <= Len(a) THEN a[i] ELSE t[i - Len(a)]
  BY ConcatProperties
<1> DEFINE s == a \o c
           r == a \o t
<1> HIDE DEF s, r
<1>4. ASSUME NEW i \in 1 .. Len(r)
      PROVE  r[i] = IF i < Len(a) + 1 THEN s[i] ELSE s[i + 1]
  <2>1. CASE i < Len(a) + 1
    BY <1>1, <1>2, <1>3, <2>1 DEF s, r
  <2>2. CASE ~(i < Len(a) + 1)
    <3>1. r[i] = t[i - Len(a)] /\ i - Len(a) \in 1 .. Len(t)
      BY <1>1, <1>3, <2>2 DEF r
    <3>2. s[i + 1] = c[(i - Len(a)) + 1]
      BY <1>1, <1>2, <1>3, <2>2 DEF s, r
    <3> QED
      BY <1>1, <2>2, <3>1, <3>2
  <2> QED
    BY <2>1, <2>2
<1>5. Len(a) + 1 \in 1 .. Len(s) /\ s[Len(a) + 1] = c[1]
  BY <1>1, <1>2 DEF s
<1>6. r \in Seq(E) /\ Len(r) = Len(s) - 1
  BY <1>1, <1>2, <1>3 DEF s, r
<1>7. Without(s, Len(a) + 1, r)
  BY <1>4, <1>5, <1>6 DEF Without
<1> QED
  BY <1>5, <1>6, <1>7 DEF s, r

\* What is missing in the first part is missing in the whole.
LEMMA WithoutBefore ==
    ASSUME NEW E, NEW x \in Seq(E), NEW y \in Seq(E), NEW c \in Seq(E),
           NEW m, Without(x, m, y)
    PROVE  /\ x \o c \in Seq(E) /\ y \o c \in Seq(E) /\ (x \o c)[m] = x[m]
           /\ Without(x \o c, m, y \o c)
<1>1. /\ Len(x) \in Nat /\ Len(y) \in Nat /\ Len(c) \in Nat
      /\ m \in 1 .. Len(x) /\ Len(y) = Len(x) - 1
      /\ \A i \in 1 .. Len(y) : y[i] = IF i < m THEN x[i] ELSE x[i + 1]
  BY DEF Without
<1>2. /\ x \o c \in Seq(E) /\ Len(x \o c) = Len(x) + Len(c)
      /\ \A i \in 1 .. Len(x) + Len(c) :
           (x \o c)[i] = IF i <= Len(x) THEN x[i] ELSE c[i - Len(x)]
  BY ConcatProperties
<1>3. /\ y \o c \in Seq(E) /\ Len(y \o c) = Len(y) + Len(c)
      /\ \A i \in 1 .. Len(y) + Len(c) :
           (y \o c)[i] = IF i <= Len(y) THEN y[i] ELSE c[i - Len(y)]
  BY ConcatProperties
<1> DEFINE s == x \o c
           r == y \o c
<1> HIDE DEF s, r
<1>4. ASSUME NEW i \in 1 .. Len(r)
      PROVE  r[i] = IF i < m THEN s[i] ELSE s[i + 1]
  <2>1. CASE i <= Len(y)
    BY <1>1, <1>2, <1>3, <2>1 DEF s, r
  <2>2. CASE ~(i <= Len(y))
    <3>1. r[i] = c[i - Len(y)] /\ ~(i < m)
      BY <1>1, <1>3, <2>2 DEF r
    <3>2. s[i + 1] = c[(i + 1) - Len(x)] /\ (i + 1) - Len(x) = i - Len(y)
      BY <1>1, <1>2, <1>3, <2>2 DEF s, r
    <3> QED
      BY <3>1, <3>2
  <2> QED
    BY <2>1, <2>2
<1>5. m \in 1 .. Len(s) /\ s[m] = x[m]
  BY <1>1, <1>2 DEF s
<1>6. s \in Seq(E) /\ r \in Seq(E) /\ Len(r) = Len(s) - 1
  BY <1>1, <1>2, <1>3 DEF s, r
<1>7. Without(s, m, r)
  BY <1>4, <1>5, <1>6 DEF Without
<1> QED
  BY <1>5, <1>6, <1>7 DEF s, r

\* A sequence that is not empty begins with its head.
LEMMA HeadFirst ==
    ASSUME NEW E, NEW b \in Seq(E), b # <<>>
    PROVE  /\ Head(b) \in E /\ Tail(b) \in Seq(E) /\ Len(b) > 0 /\ Head(b) = b[1]
           /\ Len(Tail(b)) = Len(b) - 1 /\ \A i \in 1 .. Len(Tail(b)) : Tail(b)[i] = b[i + 1]
  OBVIOUS

\* The head of the second part moves to the end of the first.
LEMMA MoveHead ==
    ASSUME NEW E, NEW a \in Seq(E), NEW b \in Seq(E), b # <<>>
    PROVE  Append(a, Head(b)) \o Tail(b) = a \o b
<1> DEFINE p == Append(a, Head(b))
           q == Tail(b)
<1>1. /\ Head(b) = b[1] /\ Len(b) \in Nat /\ Len(b) > 0 /\ Len(a) \in Nat
      /\ q \in Seq(E) /\ Len(q) = Len(b) - 1 /\ \A i \in 1 .. Len(q) : q[i] = b[i + 1]
  BY HeadFirst
<1>2. /\ p \in Seq(E) /\ Len(p) = Len(a) + 1 /\ p[Len(a) + 1] = b[1]
      /\ \A i \in 1 .. Len(a) : p[i] = a[i]
  BY HeadFirst, AppendProperties
<1> HIDE DEF p, q
<1> DEFINE s == a \o b
           r == p \o q
<1>3. /\ s \in Seq(E) /\ Len(s) = Len(a) + Len(b)
      /\ \A i \in 1 .. Len(a) + Len(b) : s[i] = IF i <= Len(a) THEN a[i] ELSE b[i - Len(a)]
  BY ConcatProperties
<1>4. /\ r \in Seq(E) /\ Len(r) = Len(p) + Len(q)
      /\ \A i \in 1 .. Len(p) + Len(q) : r[i] = IF i <= Len(p) THEN p[i] ELSE q[i - Len(p)]
  BY <1>1, <1>2, ConcatProperties
<1> HIDE DEF s, r
<1>5. Len(r) = Len(s)
  BY <1>1, <1>2, <1>3, <1>4
<1>6. ASSUME NEW i \in 1 .. Len(r)
      PROVE  r[i] = s[i]
  <2>1. CASE i <= Len(a)
    <3>1. i <= Len(p) /\ i \in 1 .. Len(p) + Len(q) /\ r[i] = p[i]
      BY <1>1, <1>2, <1>4, <2>1
    <3>2. i \in 1 .. Len(a) /\ i \in 1 .. Len(a) + Len(b) /\ s[i] = a[i]
      BY <1>1, <1>3, <1>5, <2>1
    <3> QED
      BY <1>2, <3>1, <3>2
  <2>2. CASE i = Len(a) + 1
    <3>1. i <= Len(p) /\ i \in 1 .. Len(p) + Len(q) /\ r[i] = p[i]
      BY <1>1, <1>2, <1>4, <2>2
    <3>2. i - Len(a) = 1 /\ i \in 1 .. Len(a) + Len(b) /\ s[i] = b[i - Len(a)]
      BY <1>1, <1>3, <2>2
    <3> QED
      BY <1>2, <2>2, <3>1, <3>2
  <2>3. CASE i > Len(a) + 1
    <3>1. r[i] = q[i - Len(p)] /\ i - Len(p) \in 1 .. Len(q)
      BY <1>1, <1>2, <1>4, <2>3
    <3>2. s[i] = b[(i - Len(p)) + 1]
      BY <1>1, <1>2, <1>3, <1>5, <2>3
    <3> QED
      BY <1>1, <3>1, <3>2
  <2> QED
    BY <1>1, <1>3, <1>5, <2>1, <2>2, <2>3
<1>7. r = s
  BY <1>3, <1>4, <1>5, <1>6, SeqEqual
<1> QED
  BY <1>7 DEF r, s, p, q

\* An event at the end of the second part is at the end of the whole.
LEMMA AppendLast ==
    ASSUME NEW E, NEW a \in Seq(E), NEW c \in Seq(E), NEW e \in E
    PROVE  a \o Append(c, e) = Append(a \o c, e)
  OBVIOUS

-----------------------------------------------------------------------------
(* The ring.                                                               *)

\* The index of x, which is at most one round ahead.
Wrapped(x) == IF x < RingSize THEN x ELSE x - RingSize
\* An index wraps around at most once.
LEMMA Wrap ==
    ASSUME NEW x \in Nat, x < 2 * RingSize
    PROVE  x % RingSize = Wrapped(x) /\ x % RingSize \in Slots
<1>1. RingSize \in Nat \ {0}
  BY RingAssumption
<1>2. CASE x < RingSize
  BY <1>1, <1>2 DEF Slots, Wrapped
<1>3. CASE ~(x < RingSize)
  BY <1>1, <1>3 DEF Slots, Wrapped
<1> QED
  BY <1>2, <1>3

\* An entry put behind the last one of a ring that is not full.
LEMMA PutFree ==
    ASSUME NEW f \in [Slots -> Events \cup {NoEvent}], NEW t \in Slots,
           NEW n \in 0 .. RingSize - 1, Held(f, t, n),
           NEW e \in Events, NEW g, g = Put(f, (t + n) % RingSize, e)
    PROVE  /\ In(g, t, n + 1) = Append(In(f, t, n), e)
           /\ Held(g, t, n + 1)
           /\ (((t + n) % RingSize) + 1) % RingSize = (t + (n + 1)) % RingSize
<1>1. /\ RingSize \in Nat \ {0} /\ t \in 0 .. RingSize - 1 /\ n \in Nat
      /\ g = [f EXCEPT ![(t + n) % RingSize] = e]
      /\ \A i \in 1 .. n : f[(t + i - 1) % RingSize] \in Events
  BY RingAssumption DEF Slots, Held, Put
<1>2. ASSUME NEW i \in 1 .. n
      PROVE  /\ (t + i - 1) % RingSize \in Slots
             /\ (t + i - 1) % RingSize # (t + n) % RingSize
  <2>1. t + i - 1 \in Nat /\ t + i - 1 < 2 * RingSize /\ t + n \in Nat /\ t + n < 2 * RingSize
    BY <1>1
  <2>2. (t + i - 1) % RingSize = Wrapped(t + i - 1)
    BY <2>1, Wrap, Zenon
  <2>3. (t + n) % RingSize = Wrapped(t + n)
    BY <2>1, Wrap, Zenon
  <2> QED
    BY <1>1, <2>1, <2>2, <2>3 DEF Slots, Wrapped
<1>3. (t + n) % RingSize \in Slots
  <2>1. t + n \in Nat /\ t + n < 2 * RingSize
    BY <1>1
  <2> QED
    BY <2>1, Wrap, Zenon
<1>4. /\ \A i \in 1 .. n : g[(t + i - 1) % RingSize] = f[(t + i - 1) % RingSize]
      /\ g[(t + n) % RingSize] = e
  BY <1>1, <1>2, <1>3
<1>5. t + (n + 1) - 1 = t + n
  BY <1>1
<1>6. \A i \in 1 .. n + 1 : i \in 1 .. n \/ i = n + 1
  BY <1>1
<1>7. ASSUME NEW i \in 1 .. n + 1
      PROVE  g[(t + i - 1) % RingSize] = IF i = n + 1 THEN e ELSE f[(t + i - 1) % RingSize]
  BY <1>1, <1>4, <1>5, <1>6
<1>8. \A i \in 1 .. n + 1 : g[(t + i - 1) % RingSize] \in Events
  BY <1>1, <1>6, <1>7
<1> DEFINE c == In(f, t, n)
           d == In(g, t, n + 1)
<1>9. /\ c \in Seq(Events) /\ Len(c) = n
      /\ \A i \in 1 .. n : c[i] = f[(t + i - 1) % RingSize]
  BY <1>1 DEF In
<1>10. /\ d \in Seq(Events) /\ Len(d) = n + 1
      /\ \A i \in 1 .. n + 1 : d[i] = g[(t + i - 1) % RingSize]
  BY <1>1, <1>8 DEF In
<1> HIDE DEF c, d
<1>11. /\ Append(c, e) \in Seq(Events) /\ Len(Append(c, e)) = n + 1
       /\ \A i \in 1 .. n : Append(c, e)[i] = c[i]
       /\ Append(c, e)[n + 1] = e
  BY <1>9, AppendProperties
<1>12. ASSUME NEW i \in 1 .. n + 1
       PROVE  d[i] = Append(c, e)[i]
  <2>1. CASE i = n + 1
    <3>1. d[i] = e
      BY <1>7, <1>10, <2>1
    <3> QED
      BY <1>11, <2>1, <3>1
  <2>2. CASE i # n + 1
    <3>1. i \in 1 .. n
      BY <1>6, <2>2
    <3>2. Append(c, e)[i] = f[(t + i - 1) % RingSize]
      BY <1>9, <1>11, <3>1
    <3>3. d[i] = f[(t + i - 1) % RingSize]
      BY <1>7, <1>10, <2>2
    <3> QED
      BY <3>2, <3>3
  <2> QED
    BY <2>1, <2>2
<1>13. d = Append(c, e)
  BY <1>10, <1>11, <1>12, SeqEqual
<1>14. (((t + n) % RingSize) + 1) % RingSize = (t + (n + 1)) % RingSize
  <2>1. /\ t + n \in Nat /\ t + n < 2 * RingSize
        /\ t + (n + 1) \in Nat /\ t + (n + 1) < 2 * RingSize
    BY <1>1
  <2>2. (t + n) % RingSize = Wrapped(t + n)
    BY <2>1, Wrap, Zenon
  <2>3. (t + (n + 1)) % RingSize = Wrapped(t + (n + 1))
    BY <2>1, Wrap, Zenon
  <2>4. CASE t + n < RingSize
    BY <1>1, <2>2, <2>4 DEF Wrapped
  <2>5. CASE ~(t + n < RingSize)
    <3>1. ((t + n) % RingSize) + 1 = t + n - RingSize + 1 /\ t + n - RingSize + 1 < RingSize
          /\ t + n - RingSize + 1 \in Nat
      BY <1>1, <2>2, <2>5 DEF Wrapped
    <3>2. (t + n - RingSize + 1) % RingSize = t + n - RingSize + 1
      BY <1>1, <3>1
    <3> QED
      BY <1>1, <2>3, <2>5, <3>1, <3>2 DEF Wrapped
  <2> QED
    BY <2>4, <2>5
<1> QED
  BY <1>8, <1>13, <1>14 DEF c, d, Held

\* An entry put into a full ring, over the oldest one.
LEMMA PutFull ==
    ASSUME NEW f \in [Slots -> Events \cup {NoEvent}], NEW t \in Slots,
           Held(f, t, RingSize),
           NEW e \in Events, NEW g, g = Put(f, (t + RingSize) % RingSize, e),
           NEW u, u = (t + 1) % RingSize
    PROVE  /\ In(g, u, RingSize) = Append(Tail(In(f, t, RingSize)), e)
           /\ In(f, t, RingSize)[1] = f[t]
           /\ Held(g, u, RingSize)
           /\ (((t + RingSize) % RingSize) + 1) % RingSize = (u + RingSize) % RingSize
           /\ u \in Slots
<1>1. /\ RingSize \in Nat \ {0} /\ t \in 0 .. RingSize - 1
      /\ g = [f EXCEPT ![(t + RingSize) % RingSize] = e]
      /\ \A i \in 1 .. RingSize : f[(t + i - 1) % RingSize] \in Events
  BY RingAssumption DEF Slots, Held, Put
<1>2. (t + RingSize) % RingSize = t /\ t % RingSize = t
  <2>1. t + RingSize \in Nat /\ t + RingSize < 2 * RingSize /\ t \in Nat /\ t < 2 * RingSize
    BY <1>1
  <2>2. (t + RingSize) % RingSize = Wrapped(t + RingSize) /\ t % RingSize = Wrapped(t)
    BY <2>1, Wrap, Zenon
  <2> QED
    BY <1>1, <2>2 DEF Wrapped
<1>3. u \in Slots /\ u = Wrapped(t + 1)
  <2>1. t + 1 \in Nat /\ t + 1 < 2 * RingSize
    BY <1>1
  <2> QED
    BY <2>1, Wrap, Zenon
<1>4. (u + RingSize) % RingSize = u
  <2>1. u + RingSize \in Nat /\ u + RingSize < 2 * RingSize
    BY <1>1, <1>3 DEF Slots
  <2>2. (u + RingSize) % RingSize = Wrapped(u + RingSize)
    BY <2>1, Wrap, Zenon
  <2> QED
    BY <1>1, <1>3, <2>2 DEF Wrapped, Slots
<1>5. ASSUME NEW i \in 1 .. RingSize - 1
      PROVE  /\ (u + i - 1) % RingSize = (t + (i + 1) - 1) % RingSize
             /\ (u + i - 1) % RingSize \in Slots
             /\ (u + i - 1) % RingSize # t
  <2>1. /\ u + i - 1 \in Nat /\ u + i - 1 < 2 * RingSize
        /\ t + (i + 1) - 1 \in Nat /\ t + (i + 1) - 1 < 2 * RingSize
    BY <1>1, <1>3 DEF Slots
  <2>2. (u + i - 1) % RingSize = Wrapped(u + i - 1) /\ (u + i - 1) % RingSize \in Slots
    BY <2>1, Wrap, Zenon
  <2>3. (t + (i + 1) - 1) % RingSize = Wrapped(t + (i + 1) - 1)
    BY <2>1, Wrap, Zenon
  <2>4. Wrapped(u + i - 1) = Wrapped(t + (i + 1) - 1) /\ Wrapped(u + i - 1) # t
    BY <1>1, <1>3 DEF Wrapped
  <2> QED
    BY <2>2, <2>3, <2>4
<1>6. (u + RingSize - 1) % RingSize = t
  <2>1. u + RingSize - 1 \in Nat /\ u + RingSize - 1 < 2 * RingSize
    BY <1>1, <1>3 DEF Slots
  <2>2. (u + RingSize - 1) % RingSize = Wrapped(u + RingSize - 1)
    BY <2>1, Wrap, Zenon
  <2>3. Wrapped(u + RingSize - 1) = t
    BY <1>1, <1>3 DEF Wrapped
  <2> QED
    BY <2>2, <2>3
<1>7. /\ \A i \in 1 .. RingSize - 1 : g[(u + i - 1) % RingSize] = f[(t + (i + 1) - 1) % RingSize]
      /\ g[(u + RingSize - 1) % RingSize] = e
  BY <1>1, <1>2, <1>5, <1>6
<1>8. \A i \in 1 .. RingSize :
        (i \in 1 .. RingSize - 1 /\ i + 1 \in 1 .. RingSize) \/ i = RingSize
  BY <1>1
<1>9. ASSUME NEW i \in 1 .. RingSize
      PROVE  g[(u + i - 1) % RingSize] \in Events
  <2>1. CASE i = RingSize
    BY <1>7, <2>1
  <2>2. CASE i # RingSize
    BY <1>1, <1>7, <1>8, <2>2
  <2> QED
    BY <2>1, <2>2
<1> DEFINE c == In(f, t, RingSize)
           d == In(g, u, RingSize)
           w == Tail(c)
<1>10. /\ c \in Seq(Events) /\ Len(c) = RingSize
      /\ \A i \in 1 .. RingSize : c[i] = f[(t + i - 1) % RingSize]
  BY <1>1 DEF In
<1>11. /\ d \in Seq(Events) /\ Len(d) = RingSize
       /\ \A i \in 1 .. RingSize : d[i] = g[(u + i - 1) % RingSize]
  BY <1>1, <1>9 DEF In
<1> HIDE DEF c, d
<1>12. /\ w \in Seq(Events) /\ Len(w) = RingSize - 1
       /\ \A i \in 1 .. RingSize - 1 : w[i] = c[i + 1]
  BY <1>10, RingAssumption
<1> HIDE DEF w
<1>13. /\ Append(w, e) \in Seq(Events) /\ Len(Append(w, e)) = RingSize
       /\ \A i \in 1 .. RingSize - 1 : Append(w, e)[i] = w[i]
       /\ Append(w, e)[RingSize] = e
  <2>1. /\ Append(w, e) \in Seq(Events) /\ Len(Append(w, e)) = Len(w) + 1
        /\ \A i \in 1 .. Len(w) : Append(w, e)[i] = w[i]
        /\ Append(w, e)[Len(w) + 1] = e
    BY <1>12, AppendProperties
  <2> QED
    BY <1>1, <1>12, <2>1
<1>14. ASSUME NEW i \in 1 .. RingSize
       PROVE  d[i] = Append(w, e)[i]
  <2>1. CASE i = RingSize
    <3>1. d[i] = e
      BY <1>7, <1>11, <2>1
    <3> QED
      BY <1>13, <2>1, <3>1
  <2>2. CASE i # RingSize
    <3>1. i \in 1 .. RingSize - 1 /\ i + 1 \in 1 .. RingSize
      BY <1>8, <2>2
    <3>2. Append(w, e)[i] = f[(t + (i + 1) - 1) % RingSize]
      BY <1>10, <1>12, <1>13, <3>1
    <3>3. d[i] = f[(t + (i + 1) - 1) % RingSize]
      BY <1>7, <1>11, <3>1
    <3> QED
      BY <3>2, <3>3
  <2> QED
    BY <2>1, <2>2
<1>15. d = Append(w, e)
  BY <1>11, <1>13, <1>14, SeqEqual
<1>16. c[1] = f[t]
  <2>1. t + 1 - 1 = t /\ 1 \in 1 .. RingSize
    BY <1>1
  <2> QED
    BY <1>2, <1>10, <2>1
<1> QED
  BY <1>2, <1>3, <1>4, <1>9, <1>15, <1>16 DEF c, d, w, Held

-----------------------------------------------------------------------------
(* What holds in a state.                                                  *)

\* The contents of the ring are a sequence of events, Trail one as well.
LEMMA ContentsIs ==
    ASSUME TypeOK, RingInv
    PROVE  /\ Contents \in Seq(Events) /\ Len(Contents) = count /\ count \in Nat
           /\ Contents = In(ring, tail, count)
           /\ log \o local \in Seq(Events) /\ Trail \in Seq(Events)
<1>1. count \in Nat /\ log \in Seq(Events) /\ local \in Seq(Events)
  BY RingAssumption DEF TypeOK
<1>2. Contents \in Seq(Events) /\ Len(Contents) = count
  BY <1>1 DEF Contents, RingInv, Held
<1>3. log \o local \in Seq(Events)
  BY <1>1, ConcatProperties
<1>4. Trail \in Seq(Events)
  BY <1>2, <1>3, ConcatProperties DEF Trail
<1> QED
  BY <1>1, <1>2, <1>3, <1>4 DEF Contents, In

\* The oldest entry of the ring is the one at its tail.
LEMMA OldestIs ==
    ASSUME TypeOK, RingInv, count > 0
    PROVE  Contents[1] = ring[tail] /\ ring[tail] \in Events
<1>1. /\ tail \in Nat /\ tail < RingSize /\ tail < 2 * RingSize /\ tail + 1 - 1 = tail
      /\ 1 \in 1 .. count
  BY RingAssumption DEF TypeOK, Slots
<1>2. tail % RingSize = Wrapped(tail)
  BY <1>1, Wrap, Zenon
<1>3. tail % RingSize = tail
  BY <1>1, <1>2 DEF Wrapped
<1>4. Contents[1] = ring[(tail + 1 - 1) % RingSize] /\ ring[(tail + 1 - 1) % RingSize] \in Events
  BY <1>1 DEF Contents, RingInv, Held
<1> QED
  BY <1>1, <1>3, <1>4

\* A write adds the event to the file or to those the disk refused.
LEMMA WriteType ==
    ASSUME TypeOK, NEW e \in Events, WriteLine(e)
    PROVE  log' \in Seq(Events) /\ failed' \subseteq Events
<1>1. log \in Seq(Events) /\ failed \subseteq Events /\ Append(log, e) \in Seq(Events)
  BY DEF TypeOK
<1> QED
  BY <1>1 DEF WriteLine

\* The event of a call that is under way has never been accepted before.
LEMMA NewEvent ==
    ASSUME IInv, NEW t \in Threads, pc[t] \in {"enqueue", "append"}
    PROVE  /\ <<t, no[t]>> \in Events
           /\ \A k \in 1 .. Len(accepted) : accepted[k] # <<t, no[t]>>
           /\ <<t, no[t]>> \notin lost \cup failed
           /\ ~Over
<1>1. no[t] \in 0 .. EndNo
  BY DEF IInv, TypeOK
<1>2. \A k \in 1 .. Len(accepted) : accepted[k] # <<t, no[t]>>
  <2> SUFFICES ASSUME NEW k \in 1 .. Len(accepted), accepted[k] = <<t, no[t]>>
               PROVE  FALSE
    OBVIOUS
  <2>1. no[t] < no[t]
    BY <1>1 DEF IInv, FreshInv
  <2> QED
    BY <1>1, <2>1, RingAssumption DEF EndNo
<1>3. <<t, no[t]>> \notin lost \cup failed
  BY <1>2 DEF IInv, LostInv
<1>4. ~Over
  BY DEF IInv, EndInv, Over, Threads
<1> QED
  BY <1>1, <1>2, <1>3, <1>4 DEF Events

\* The oldest entry of the ring has been accepted.
LEMMA OldestAccepted ==
    ASSUME IInv, count > 0
    PROVE  /\ Contents[1] \notin lost \cup failed
           /\ \E k \in 1 .. Len(accepted) : Contents[1] = accepted[k]
<1>1. /\ Contents \in Seq(Events) /\ Len(Contents) > 0 /\ log \o local \in Seq(Events)
      /\ Trail = (log \o local) \o Contents
  BY ContentsIs DEF IInv, Trail
<1>2. PICK a \in Seq(Events) : a = log \o local
  BY <1>1
<1>3. Len(a) + 1 \in 1 .. Len(Trail) /\ Trail[Len(a) + 1] = Contents[1]
  BY <1>1, <1>2
<1> QED
  BY <1>3 DEF IInv, TrailInOrder, IsRest

-----------------------------------------------------------------------------
(* The steps.                                                              *)

\* The initial state.
LEMMA Initial == Init => IInv
<1> SUFFICES ASSUME Init PROVE IInv
  OBVIOUS
<1>1. RingSize \in Nat \ {0} /\ MaxEvents \in Nat
  BY RingAssumption
<1>2. TypeOK
  BY <1>1 DEF Init, TypeOK, Slots, EndNo
<1>3. RingInv
  BY <1>1 DEF Init, RingInv, Held
<1>4. PhaseInv /\ EndInv
  BY <1>1, ThreadAssumption DEF Init, PhaseInv, EndInv, Over, Threads, EndNo
<1>5. FreshInv
  BY DEF Init, FreshInv
<1>6. LostInv
  BY FS_EmptySet DEF Init, LostInv, Over, Threads
<1>7. Trail = <<>>
  BY <1>2, <1>3, ContentsIs, ConcatEmptySeq, EmptySeq DEF Init, Trail
<1>8. TrailInOrder
  BY <1>7, FS_EmptySet DEF Init, TrailInOrder, IsRest
<1> QED
  BY <1>2, <1>3, <1>4, <1>5, <1>6, <1>8 DEF IInv

\* What a step of the ring leaves in range.
LEMMA TypeStep == IInv /\ Next => TypeOK'
<1> SUFFICES ASSUME IInv, Next PROVE TypeOK'
  OBVIOUS
<1>1. /\ RingSize \in Nat \ {0} /\ MaxEvents \in Nat /\ EndNo \in Nat /\ EndNo = MaxEvents + 1
      /\ Main \in Threads /\ TypeOK /\ RingInv
  BY RingAssumption DEF EndNo, Threads, IInv
<1>2. CASE Start
  BY <1>1, <1>2 DEF Start, Goto, TypeOK, ringVars, fileVars
<1>3. ASSUME NEW t \in Threads, NEW n \in 0 .. EndNo, Choose(t, n)
      PROVE  TypeOK'
  BY <1>1, <1>3 DEF Choose, Goto, TypeOK, ringVars, workerVars, fileVars
<1>4. CASE Exit
  BY <1>1, <1>3, <1>4 DEF Exit
<1>5. CASE Close \/ Join
  BY <1>1, <1>5 DEF Close, Join, Goto, TypeOK, ringVars, workerVars, fileVars
<1>6. CASE WorkerDrain
  <2>1. tail + count \in Nat /\ tail + count < 2 * RingSize
    BY <1>1 DEF TypeOK, Slots
  <2>2. (tail + count) % RingSize \in Slots
    BY <2>1, Wrap, Zenon
  <2> QED
    BY <1>1, <1>6, <2>2, ContentsIs DEF WorkerDrain, TypeOK, fileVars
<1>7. CASE WorkerWrite
  <2>1. Head(local) \in Events /\ Tail(local) \in Seq(Events)
    BY <1>1, <1>7, HeadFirst DEF WorkerWrite, TypeOK
  <2> QED
    BY <1>1, <1>7, <2>1, WriteType DEF WorkerWrite, TypeOK, ringVars
<1>8. CASE WorkerReport \/ WorkerEnd
  BY <1>1, <1>8 DEF WorkerReport, WorkerEnd, TypeOK, ringVars, fileVars
<1>9. CASE Ended
  BY <1>1, <1>9 DEF Ended, vars, TypeOK, ringVars, workerVars, fileVars
<1>10. ASSUME NEW t \in Threads, AuditEvent(t)
      PROVE  TypeOK'
  <2>1. no[t] + 1 \in 0 .. EndNo
    BY <1>1, <1>10 DEF AuditEvent, TypeOK
  <2> QED
    BY <1>3, <1>10, <2>1 DEF AuditEvent
<1>11. ASSUME NEW t \in Threads, Enqueue(t)
       PROVE  TypeOK'
  <2>1. <<t, no[t]>> \in Events
    BY <1>11, NewEvent DEF Enqueue
  <2>2. tail + 1 \in Nat /\ tail + 1 < 2 * RingSize /\ head + 1 \in Nat /\ head + 1 < 2 * RingSize
    BY <1>1 DEF TypeOK, Slots
  <2>3. (tail + 1) % RingSize \in Slots /\ (head + 1) % RingSize \in Slots
    BY <2>2, Wrap, Zenon
  <2>4. head' \in Slots /\ tail' \in Slots /\ count' \in 0 .. RingSize
        /\ dropped' \in Nat
    BY <1>1, <1>11, <2>3 DEF Enqueue, TypeOK
  <2>5. count = RingSize => ring[tail] \in Events
    BY <1>1, OldestIs
  <2>6. lost' \subseteq Events /\ accepted' \in Seq(Events)
        /\ ring' \in [Slots -> Events \cup {NoEvent}]
    BY <1>1, <1>11, <2>1, <2>5 DEF Enqueue, TypeOK
  <2>7. pc' \in [Threads -> {"new", "idle", "enqueue", "append", "close", "join", "gone"}]
    BY <1>1, <1>11 DEF Enqueue, Return, Goto, TypeOK
  <2> QED
    BY <1>1, <1>11, <2>4, <2>6, <2>7 DEF Enqueue, TypeOK, workerVars, fileVars
<1>12. ASSUME NEW t \in Threads, AppendLine(t)
       PROVE  TypeOK'
  <2>1. <<t, no[t]>> \in Events
    BY <1>12, NewEvent DEF AppendLine
  <2>2. log' \in Seq(Events) /\ failed' \subseteq Events /\ accepted' \in Seq(Events)
    BY <1>1, <1>12, <2>1, WriteType, AppendProperties DEF AppendLine, TypeOK
  <2> QED
    BY <1>1, <1>12, <2>2 DEF AppendLine, Return, Goto, TypeOK, ringVars, workerVars
<1>13. ASSUME NEW t \in Threads, ThreadEnds(t)
       PROVE  TypeOK'
  BY <1>1, <1>13 DEF ThreadEnds, Goto, TypeOK, ringVars, workerVars, fileVars
<1> QED
  BY <1>2, <1>4, <1>5, <1>6, <1>7, <1>8, <1>9, <1>10, <1>11, <1>12, <1>13
  DEF Next, Worker, Thread

\* What a call of audit_enqueue makes of the ring.
LEMMA EnqueueRing ==
    ASSUME IInv, NEW t \in Threads, Enqueue(t)
    PROVE  /\ RingInv'
           /\ count < RingSize => Contents' = Append(Contents, <<t, no[t]>>)
           /\ count = RingSize => Contents' = Append(Tail(Contents), <<t, no[t]>>)
<1> DEFINE e == <<t, no[t]>>
<1>1. /\ RingSize \in Nat \ {0} /\ e \in Events
      /\ ring \in [Slots -> Events \cup {NoEvent}] /\ tail \in Slots
      /\ count \in 0 .. RingSize /\ Held(ring, tail, count)
      /\ head = (tail + count) % RingSize
      /\ Contents = In(ring, tail, count) /\ Contents' = In(ring', tail', count')
      /\ head' = (head + 1) % RingSize
      /\ ring' = Put(ring, (tail + count) % RingSize, e)
  BY RingAssumption, NewEvent, ContentsIs
  DEF IInv, TypeOK, RingInv, Enqueue, Contents, In, Put
<1> HIDE DEF e
<1>2. CASE count < RingSize
  <2>1. tail' = tail /\ count' = count + 1
    BY <1>1, <1>2 DEF Enqueue
  <2>2. count \in 0 .. RingSize - 1 /\ count' # 0 /\ count # RingSize
    BY <1>1, <1>2, <2>1
  <2>3. /\ In(ring', tail, count + 1) = Append(In(ring, tail, count), e)
        /\ Held(ring', tail, count + 1)
        /\ (((tail + count) % RingSize) + 1) % RingSize = (tail + (count + 1)) % RingSize
    BY <1>1, <2>2, PutFree
  <2>4. head' = (tail' + count') % RingSize /\ Held(ring, tail, count)'
    BY <1>1, <2>1, <2>3, Zenon
  <2>5. Contents' = Append(Contents, e)
    BY <1>1, <2>1, <2>3, Zenon
  <2> QED
    BY <2>2, <2>4, <2>5, Zenon DEF RingInv, e
<1>3. CASE count = RingSize
  <2>1. tail' = (tail + 1) % RingSize /\ count' = RingSize
    BY <1>1, <1>3 DEF Enqueue
  <2>2. /\ count' # 0 /\ ~(count < RingSize) /\ Held(ring, tail, RingSize)
        /\ ring' = Put(ring, (tail + RingSize) % RingSize, e)
    BY <1>1, <1>3, <2>1
  <2>3. /\ In(ring', tail', RingSize) = Append(Tail(In(ring, tail, RingSize)), e)
        /\ Held(ring', tail', RingSize)
        /\ (((tail + RingSize) % RingSize) + 1) % RingSize = (tail' + RingSize) % RingSize
    BY <1>1, <2>1, <2>2, PutFull
  <2>4. head' = (tail' + count') % RingSize /\ Held(ring, tail, count)'
    BY <1>1, <1>3, <2>1, <2>3, Zenon
  <2>5. Contents' = Append(Tail(Contents), e)
    BY <1>1, <1>3, <2>1, <2>3, Zenon
  <2> QED
    BY <2>2, <2>4, <2>5, Zenon DEF RingInv, e
<1>4. count < RingSize \/ count = RingSize
  BY <1>1
<1> QED
  BY <1>2, <1>3, <1>4

\* The worker leaves an empty ring.
LEMMA DrainRing ==
    ASSUME TypeOK, RingInv, WorkerDrain
    PROVE  RingInv' /\ Contents' = <<>>
<1>1. /\ head \in Nat /\ head < RingSize /\ head < 2 * RingSize /\ head + 0 = head
      /\ RingSize \in Nat
  BY RingAssumption DEF TypeOK, Slots
<1>2. head % RingSize = Wrapped(head)
  BY <1>1, Wrap, Zenon
<1>3. head % RingSize = head
  BY <1>1, <1>2 DEF Wrapped
<1>4. tail' = head /\ head' = head /\ count' = 0 /\ dropped' = 0
  BY DEF WorkerDrain, RingInv
<1>5. head' = (tail' + count') % RingSize
  BY <1>1, <1>3, <1>4
<1>6. Contents' = <<>>
  BY <1>4 DEF Contents
<1> QED
  BY <1>4, <1>5, <1>6 DEF RingInv, Held

\* The ring keeps its shape.
LEMMA RingStep == IInv /\ Next => RingInv'
<1> SUFFICES ASSUME IInv, Next PROVE RingInv'
  OBVIOUS
<1>1. CASE UNCHANGED ringVars
  BY <1>1 DEF IInv, RingInv, ringVars
<1>2. CASE WorkerDrain
  BY <1>2, DrainRing DEF IInv
<1>3. CASE \E t \in Threads : Enqueue(t)
  BY <1>3, EnqueueRing
<1> QED
  BY <1>1, <1>2, <1>3
  DEF Next, Worker, Thread, Start, Exit, Choose, Close, Join, WorkerWrite, WorkerReport,
      WorkerEnd, Ended, vars, AuditEvent, AppendLine, ThreadEnds

\* Who is where.
LEMMA PhaseStep == IInv /\ Next => PhaseInv'
<1> SUFFICES ASSUME IInv, Next PROVE PhaseInv'
  OBVIOUS
<1>1. TypeOK /\ RingInv /\ PhaseInv /\ EndInv /\ Main \in Threads /\ RingSize \in Nat \ {0}
  BY RingAssumption DEF IInv, Threads
<1>2. CASE Start
  <2>1. CASE started' = TRUE /\ worker' = "top" /\ Goto(Main, "enqueue")
    BY <1>1, <1>2, <2>1 DEF Start, Goto, TypeOK, PhaseInv, ringVars, Threads
  <2>2. CASE UNCHANGED <<started, worker>> /\ Goto(Main, "append")
    BY <1>1, <1>2, <2>2 DEF Start, Goto, TypeOK, PhaseInv, ringVars
  <2> QED
    BY <1>2, <2>1, <2>2 DEF Start
<1>3. ASSUME NEW t \in Threads, NEW n, Choose(t, n), pc[t] = "idle", pc[Main] # "new"
      PROVE  PhaseInv'
  <2>1. CASE started
    BY <1>1, <1>3, <2>1 DEF Choose, Goto, TypeOK, PhaseInv, ringVars, workerVars
  <2>2. CASE ~started
    <3>1. pc[Main] # "gone"
      BY <1>1, <1>3 DEF EndInv, Over, Threads
    <3>2. worker = "off"
      BY <1>1, <2>2, <3>1 DEF PhaseInv, TypeOK
    <3> QED
      BY <1>1, <1>3, <2>2, <3>2 DEF Choose, Goto, TypeOK, PhaseInv, ringVars, workerVars
  <2> QED
    BY <2>1, <2>2
<1>4. CASE Exit
  BY <1>1, <1>3, <1>4 DEF Exit
<1>5. CASE Close
  BY <1>1, <1>5 DEF Close, Goto, TypeOK, PhaseInv, EndInv, ringVars, workerVars
<1>6. CASE Join
  BY <1>1, <1>6 DEF Join, Goto, TypeOK, PhaseInv, EndInv, Over, Threads, ringVars, workerVars
<1>7. CASE WorkerDrain
  BY <1>1, <1>7 DEF WorkerDrain, TypeOK, PhaseInv
<1>8. CASE WorkerWrite
  BY <1>1, <1>8 DEF WorkerWrite, TypeOK, PhaseInv, ringVars
<1>9. CASE WorkerReport
  BY <1>1, <1>9 DEF WorkerReport, TypeOK, PhaseInv, ringVars
<1>10. CASE WorkerEnd
  BY <1>1, <1>10 DEF WorkerEnd, TypeOK, PhaseInv, ringVars
<1>11. CASE Ended
  BY <1>1, <1>11 DEF Ended, vars, PhaseInv, ringVars, workerVars
<1>12. ASSUME NEW t \in Threads, AuditEvent(t)
       PROVE  PhaseInv'
  BY <1>3, <1>12 DEF AuditEvent
<1>13. ASSUME NEW t \in Threads, Enqueue(t)
       PROVE  PhaseInv'
  <2>1. /\ pc[t] = "enqueue" /\ ~Over /\ started
        /\ UNCHANGED <<started, stop, worker, local, droppedLocal>>
    BY <1>1, <1>13, NewEvent DEF Enqueue, PhaseInv, workerVars
  <2>2. worker \in {"top", "write"} /\ ~stop
    BY <1>1, <2>1 DEF PhaseInv, TypeOK, Over
  <2> QED
    BY <1>1, <1>13, <2>1, <2>2 DEF Enqueue, Return, Goto, TypeOK, PhaseInv, Over
<1>14. ASSUME NEW t \in Threads, AppendLine(t)
       PROVE  PhaseInv'
  BY <1>1, <1>14 DEF AppendLine, Return, Goto, TypeOK, PhaseInv, ringVars, workerVars
<1>15. ASSUME NEW t \in Threads, ThreadEnds(t)
       PROVE  PhaseInv'
  BY <1>1, <1>15 DEF ThreadEnds, Goto, TypeOK, PhaseInv, ringVars, workerVars
<1> QED
  BY <1>2, <1>4, <1>5, <1>6, <1>7, <1>8, <1>9, <1>10, <1>11, <1>12, <1>13, <1>14, <1>15
  DEF Next, Worker, Thread

\* The main thread is the last one to emit.
LEMMA EndStep == IInv /\ Next => EndInv'
<1> SUFFICES ASSUME IInv, Next PROVE EndInv'
  OBVIOUS
<1>1. /\ TypeOK /\ PhaseInv /\ EndInv /\ Main \in Threads /\ Main \notin Others
      /\ MaxEvents \in Nat /\ EndNo = MaxEvents + 1 /\ Threads = Others \cup {Main}
  BY RingAssumption, ThreadAssumption DEF IInv, Threads, EndNo
<1>2. CASE Start
  BY <1>1, <1>2 DEF Start, Goto, TypeOK, EndInv, Over
<1>3. CASE Exit
  BY <1>1, <1>3 DEF Exit, Choose, Goto, TypeOK, EndInv, Over
<1>4. CASE Close \/ Join
  BY <1>1, <1>4 DEF Close, Join, Goto, TypeOK, EndInv, Over
<1>5. CASE UNCHANGED <<pc, no>>
  BY <1>5 DEF IInv, EndInv, Over
<1>6. ASSUME NEW t \in Threads, AuditEvent(t)
      PROVE  EndInv'
  BY <1>1, <1>6 DEF AuditEvent, Choose, Goto, TypeOK, EndInv, Over
<1>7. ASSUME NEW t \in Threads, Enqueue(t) \/ AppendLine(t)
      PROVE  EndInv'
  <2>1. pc[t] \in {"enqueue", "append"} /\ no' = no /\ Return(t) /\ ~Over
    BY <1>7, NewEvent DEF Enqueue, AppendLine
  <2> QED
    BY <1>1, <2>1 DEF Return, Goto, TypeOK, EndInv, Over
<1>8. ASSUME NEW t \in Threads, ThreadEnds(t)
      PROVE  EndInv'
  BY <1>1, <1>8 DEF ThreadEnds, Goto, TypeOK, EndInv, Over
<1> QED
  BY <1>2, <1>3, <1>4, <1>5, <1>6, <1>7, <1>8
  DEF Next, Worker, Thread, WorkerDrain, WorkerWrite, WorkerReport, WorkerEnd, Ended, vars

\* The events of a thread are numbered upwards.
LEMMA FreshStep == IInv /\ Next => FreshInv'
<1> SUFFICES ASSUME IInv, Next PROVE FreshInv'
  OBVIOUS
<1>1. /\ TypeOK /\ EndInv /\ FreshInv /\ Main \in Threads
      /\ MaxEvents \in Nat /\ EndNo = MaxEvents + 1
      /\ no \in [Threads -> 0 .. EndNo] /\ DOMAIN pc = Threads
  BY RingAssumption DEF IInv, Threads, EndNo, TypeOK
<1>2. CASE /\ UNCHANGED <<no, accepted>>
           /\ \A t \in Threads : pc'[t] \in {"new", "enqueue", "append"} =>
                                     pc[t] \in {"new", "enqueue", "append"}
  BY <1>1, <1>2 DEF FreshInv
<1>3. CASE Start \/ Close \/ Join
  <2>1. UNCHANGED <<no, accepted>>
    BY <1>3 DEF Start, Close, Join
  <2>2. \A t \in Threads : pc'[t] \in {"new", "enqueue", "append"} =>
                               pc[t] \in {"new", "enqueue", "append"}
    BY <1>1, <1>3 DEF Start, Close, Join, Goto, TypeOK
  <2> QED
    BY <1>2, <2>1, <2>2
<1>4. CASE UNCHANGED <<pc, no, accepted>>
  BY <1>2, <1>4
<1>5. ASSUME NEW t \in Threads, NEW n \in 0 .. EndNo, Choose(t, n), no[t] < n
      PROVE  FreshInv'
  <2>1. accepted' = accepted /\ no' = [no EXCEPT ![t] = n]
    BY <1>5 DEF Choose
  <2>2. \A u \in Threads : u # t => pc'[u] = pc[u]
    BY <1>1, <1>5 DEF Choose, Goto, TypeOK
  <2>3. ASSUME NEW k \in 1 .. Len(accepted'), NEW u \in Threads, NEW m \in 0 .. EndNo,
               accepted'[k] = <<u, m>>
        PROVE  /\ m <= no'[u]
               /\ pc'[u] \in {"new", "enqueue", "append"} => m < no'[u]
    <3>1. m <= no[u] /\ (pc[u] \in {"new", "enqueue", "append"} => m < no[u])
      BY <1>1, <2>1, <2>3 DEF FreshInv
    <3>2. CASE u = t
      BY <1>1, <1>5, <2>1, <3>1, <3>2
    <3>3. CASE u # t
      BY <1>1, <2>1, <2>2, <3>1, <3>3
    <3> QED
      BY <3>2, <3>3
  <2> QED
    BY <2>3 DEF FreshInv
<1>6. CASE Exit
  <2>1. no[Main] < EndNo /\ EndNo \in 0 .. EndNo
    BY <1>1, <1>6 DEF Exit, EndInv
  <2> QED
    BY <1>1, <1>5, <1>6, <2>1 DEF Exit
<1>7. ASSUME NEW t \in Threads, AuditEvent(t)
      PROVE  FreshInv'
  <2>1. no[t] < no[t] + 1 /\ no[t] + 1 \in 0 .. EndNo
    BY <1>1, <1>7 DEF AuditEvent
  <2> QED
    BY <1>5, <1>7, <2>1 DEF AuditEvent
<1>8. ASSUME NEW t \in Threads, Enqueue(t) \/ AppendLine(t)
      PROVE  FreshInv'
  <2>1. /\ <<t, no[t]>> \in Events /\ accepted \in Seq(Events) /\ no' = no
        /\ accepted' = Append(accepted, <<t, no[t]>>) /\ Return(t)
    BY <1>1, <1>8, NewEvent DEF Enqueue, AppendLine, TypeOK
  <2>2. /\ pc'[t] \notin {"new", "enqueue", "append"}
        /\ \A u \in Threads : u # t => pc'[u] = pc[u]
    BY <1>1, <2>1 DEF Return, Goto, TypeOK
  <2>3. /\ Len(accepted') = Len(accepted) + 1 /\ Len(accepted) \in Nat
        /\ \A k \in 1 .. Len(accepted) : accepted'[k] = accepted[k]
        /\ accepted'[Len(accepted) + 1] = <<t, no[t]>>
    BY <2>1, AppendProperties
  <2>4. ASSUME NEW k \in 1 .. Len(accepted'), NEW u \in Threads, NEW m \in 0 .. EndNo,
               accepted'[k] = <<u, m>>
        PROVE  /\ m <= no'[u]
               /\ pc'[u] \in {"new", "enqueue", "append"} => m < no'[u]
    <3>1. CASE k = Len(accepted) + 1
      <4>1. u = t /\ m = no[t]
        BY <2>3, <2>4, <3>1
      <4> QED
        BY <1>1, <2>1, <2>2, <4>1
    <3>2. CASE k # Len(accepted) + 1
      <4>1. k \in 1 .. Len(accepted)
        BY <2>3, <3>2
      <4>2. m <= no[u] /\ (pc[u] \in {"new", "enqueue", "append"} => m < no[u])
        BY <1>1, <2>3, <2>4, <4>1 DEF FreshInv
      <4> QED
        BY <2>1, <2>2, <4>2
    <3> QED
      BY <3>1, <3>2
  <2> QED
    BY <2>4 DEF FreshInv
<1>9. ASSUME NEW t \in Threads, ThreadEnds(t)
      PROVE  FreshInv'
  <2>1. UNCHANGED <<no, accepted>>
    BY <1>9 DEF ThreadEnds
  <2>2. \A u \in Threads : pc'[u] \in {"new", "enqueue", "append"} =>
                               pc[u] \in {"new", "enqueue", "append"}
    BY <1>1, <1>9 DEF ThreadEnds, Goto, TypeOK
  <2> QED
    BY <1>2, <2>1, <2>2
<1> QED
  BY <1>3, <1>4, <1>6, <1>7, <1>8, <1>9
  DEF Next, Worker, Thread, WorkerDrain, WorkerWrite, WorkerReport, WorkerEnd, Ended, vars

\* What the worker is about to write has been accepted.
LEMMA WorkerHead ==
    ASSUME IInv, WorkerWrite
    PROVE  /\ Head(local) \in Events /\ local \in Seq(Events) /\ log \in Seq(Events)
           /\ \E k \in 1 .. Len(accepted) : Head(local) = accepted[k]
<1>1. /\ log \in Seq(Events) /\ local \in Seq(Events) /\ local # <<>>
      /\ log \o local \in Seq(Events) /\ Contents \in Seq(Events)
  BY ContentsIs DEF IInv, TypeOK, WorkerWrite
<1>2. Head(local) \in Events /\ Len(local) > 0 /\ Head(local) = local[1]
  BY <1>1, HeadFirst
<1>3. /\ Len(log) + 1 \in 1 .. Len(log \o local)
      /\ (log \o local)[Len(log) + 1] = Head(local)
  BY <1>1, <1>2
<1>4. PICK a \in Seq(Events) : a = log \o local
  BY <1>1
<1>5. \A i \in 1 .. Len(a) : i \in 1 .. Len(a \o Contents) /\ (a \o Contents)[i] = a[i]
  BY <1>1, <1>4
<1>6. Len(log) + 1 \in 1 .. Len(Trail) /\ Trail[Len(log) + 1] = Head(local)
  BY <1>3, <1>4, <1>5 DEF Trail
<1>7. \A i \in 1 .. Len(Trail) : \E k \in 1 .. Len(accepted) : Trail[i] = accepted[k]
  BY DEF IInv, TrailInOrder, IsRest
<1>8. \E k \in 1 .. Len(accepted) : Trail[Len(log) + 1] = accepted[k]
  BY <1>6, <1>7
<1> QED
  BY <1>1, <1>2, <1>6, <1>8

\* Only accepted events are lost, and never "end".
LEMMA LostStep == IInv /\ Next => LostInv'
<1> SUFFICES ASSUME IInv, Next PROVE LostInv'
  OBVIOUS
<1>1. /\ TypeOK /\ RingInv /\ EndInv /\ LostInv /\ Main \in Threads /\ Main \notin Others
      /\ MaxEvents \in Nat /\ EndNo = MaxEvents + 1 /\ Threads = Others \cup {Main}
      /\ accepted \in Seq(Events)
  BY RingAssumption, ThreadAssumption DEF IInv, Threads, EndNo, TypeOK
<1>2. CASE UNCHANGED <<accepted, lost, failed>> /\ (Over' => Over)
  BY <1>1, <1>2 DEF LostInv
<1>3. CASE Start \/ Close \/ Join \/ Exit
  <2>1. UNCHANGED <<accepted, lost, failed>>
    BY <1>3 DEF Start, Close, Join, Exit, Choose, fileVars
  <2>2. Over' => Over
    BY <1>1, <1>3 DEF Start, Close, Join, Exit, Choose, Goto, Over, TypeOK
  <2> QED
    BY <1>2, <2>1, <2>2
<1>4. CASE WorkerDrain \/ WorkerReport \/ WorkerEnd \/ Ended
  BY <1>2, <1>4 DEF WorkerDrain, WorkerReport, WorkerEnd, Ended, vars, fileVars, Over
<1>5. CASE WorkerWrite
  <2>1. UNCHANGED <<pc, accepted, lost>> /\ failed' \subseteq failed \cup {Head(local)}
    BY <1>5 DEF WorkerWrite, WriteLine
  <2>2. \A e \in lost' \cup failed' : \E k \in 1 .. Len(accepted) : e = accepted[k]
    BY <1>1, <1>5, <2>1, WorkerHead DEF LostInv
  <2> QED
    BY <1>1, <2>1, <2>2 DEF LostInv, Over
<1>6. ASSUME NEW t \in Threads, AuditEvent(t) \/ ThreadEnds(t)
      PROVE  LostInv'
  <2>1. UNCHANGED <<accepted, lost, failed>>
    BY <1>6 DEF AuditEvent, Choose, ThreadEnds, fileVars
  <2>2. Over' => Over
    BY <1>1, <1>6 DEF AuditEvent, Choose, ThreadEnds, Goto, Over, TypeOK
  <2> QED
    BY <1>2, <2>1, <2>2
<1>7. ASSUME NEW t \in Threads, Enqueue(t) \/ AppendLine(t)
      PROVE  LostInv'
  <2> DEFINE e == <<t, no[t]>>
  <2>1. /\ e \in Events /\ e \notin lost \cup failed /\ ~Over
        /\ \A k \in 1 .. Len(accepted) : accepted[k] # e
    BY <1>7, NewEvent DEF Enqueue, AppendLine
  <2>2. no' = no /\ Return(t) /\ accepted' = Append(accepted, e)
    BY <1>7 DEF Enqueue, AppendLine
  <2>3. /\ Len(accepted) \in Nat /\ Len(accepted') = Len(accepted) + 1
        /\ \A k \in 1 .. Len(accepted) : accepted'[k] = accepted[k]
        /\ accepted'[Len(accepted) + 1] = e
    BY <1>1, <2>1, <2>2, AppendProperties
  <2>4. /\ IsFiniteSet(lost') /\ e \notin lost' /\ failed' \subseteq failed \cup {e}
        /\ \A y \in lost' : \E k \in 1 .. Len(accepted) : y = accepted[k]
    <3>1. CASE Enqueue(t) /\ count = RingSize
      <4>1. count > 0 /\ ring[tail] = Contents[1]
        BY <1>1, <3>1, OldestIs, RingAssumption
      <4>2. \E k \in 1 .. Len(accepted) : ring[tail] = accepted[k]
        BY <4>1, OldestAccepted
      <4>3. ring[tail] # e
        BY <2>1, <4>2
      <4>4. lost' = lost \cup {ring[tail]} /\ failed' = failed
        BY <3>1 DEF Enqueue, fileVars
      <4>5. IsFiniteSet(lost \cup {ring[tail]})
        BY <1>1, FS_AddElement DEF LostInv
      <4>6. \A y \in lost' : \E k \in 1 .. Len(accepted) : y = accepted[k]
        BY <1>1, <4>2, <4>4 DEF LostInv
      <4> QED
        BY <2>1, <4>3, <4>4, <4>5, <4>6
    <3>2. CASE Enqueue(t) /\ count # RingSize
      <4>1. lost' = lost /\ failed' = failed
        BY <3>2 DEF Enqueue, fileVars
      <4> QED
        BY <1>1, <2>1, <4>1 DEF LostInv
    <3>3. CASE AppendLine(t)
      <4>1. lost' = lost /\ failed' \subseteq failed \cup {e}
        BY <3>3 DEF AppendLine, WriteLine
      <4> QED
        BY <1>1, <2>1, <4>1 DEF LostInv
    <3> QED
      BY <1>7, <3>1, <3>2, <3>3
  <2>5. \A y \in lost' \cup failed' : \E k \in 1 .. Len(accepted') : y = accepted'[k]
    <3>1. \A y \in failed : \E k \in 1 .. Len(accepted) : y = accepted[k]
      BY <1>1 DEF LostInv
    <3> QED
      BY <2>3, <2>4, <3>1
  <2>6. Over' => t = Main /\ no[t] = EndNo
    BY <1>1, <2>1, <2>2 DEF Return, Goto, Over, TypeOK, EndInv
  <2> QED
    BY <2>3, <2>4, <2>5, <2>6 DEF LostInv
<1> QED
  BY <1>3, <1>4, <1>5, <1>6, <1>7 DEF Next, Worker, Thread

\* The trail and the count of the lost, when neither changes.
LEMMA TrailSame ==
    ASSUME TrailInOrder, Trail' = Trail, UNCHANGED <<accepted, lost, failed>>,
           dropped' + droppedLocal' + reported' = dropped + droppedLocal + reported
    PROVE  TrailInOrder'
  BY DEF TrailInOrder

\* A drain passes the contents of the ring on as they are.
LEMMA DrainTrail ==
    ASSUME IInv, WorkerDrain
    PROVE  TrailInOrder'
<1>1. /\ TypeOK /\ RingInv /\ log \in Seq(Events) /\ Contents \in Seq(Events)
      /\ local = <<>> /\ droppedLocal = 0 /\ dropped \in Nat /\ reported \in Nat
  BY ContentsIs DEF IInv, TypeOK, PhaseInv, WorkerDrain
<1>2. local' = Contents /\ Contents' = <<>> /\ log' = log
  BY <1>1, DrainRing DEF WorkerDrain, fileVars
<1>3. PICK c \in Seq(Events) : c = Contents
  BY <1>1
<1>4. (log \o <<>>) \o c = (log \o c) \o <<>>
  BY <1>1, <1>3, ConcatEmptySeq, ConcatProperties
<1>5. Trail' = Trail
  BY <1>1, <1>2, <1>3, <1>4 DEF Trail
<1>6. dropped' + droppedLocal' + reported' = dropped + droppedLocal + reported
  BY <1>1 DEF WorkerDrain, fileVars
<1>7. UNCHANGED <<accepted, lost, failed>>
  BY DEF WorkerDrain, fileVars
<1> QED
  BY <1>5, <1>6, <1>7, TrailSame DEF IInv

\* A line written moves from the worker to the file, a line refused is gone.
LEMMA WriteTrail ==
    ASSUME IInv, WorkerWrite
    PROVE  TrailInOrder'
<1>1. /\ log \in Seq(Events) /\ local \in Seq(Events) /\ local # <<>>
      /\ Contents \in Seq(Events) /\ Trail \in Seq(Events) /\ accepted \in Seq(Events)
      /\ Head(local) \in Events /\ Tail(local) \in Seq(Events) /\ Len(local) > 0
      /\ Head(local) = local[1]
  BY ContentsIs, HeadFirst DEF IInv, TypeOK, WorkerWrite
<1>2. /\ Contents' = Contents /\ local' = Tail(local) /\ UNCHANGED <<accepted, lost>>
      /\ UNCHANGED <<dropped, droppedLocal, reported>>
  BY DEF WorkerWrite, ringVars, Contents
<1>3. CASE log' = Append(log, Head(local)) /\ UNCHANGED failed
  <2>1. Append(log, Head(local)) \o Tail(local) = log \o local
    BY <1>1, MoveHead
  <2>2. Trail' = Trail
    BY <1>2, <1>3, <2>1 DEF Trail
  <2> QED
    BY <1>2, <1>3, <2>2, TrailSame DEF IInv
<1>4. CASE failed' = failed \cup {Head(local)} /\ UNCHANGED log
  <2>1. Len(log) + 1 \in Nat
    BY <1>1
  <2>2. PICK c \in Seq(Events), t \in Seq(Events), m \in Nat :
          c = Contents /\ t = Tail(local) /\ m = Len(log) + 1
    BY <1>1, <2>1, Zenon
  <2>3. /\ log \o t \in Seq(Events) /\ (log \o local)[Len(log) + 1] = local[1]
        /\ Without(log \o local, Len(log) + 1, log \o t)
    BY <1>1, <2>2, WithoutFirst
  <2>4. PICK x \in Seq(Events), y \in Seq(Events) : x = log \o local /\ y = log \o t
    BY <1>1, <2>3, ConcatProperties
  <2>5. x[m] = Head(local) /\ Without(x, m, y)
    BY <1>1, <2>2, <2>3, <2>4
  <2>6. /\ x \o c \in Seq(Events) /\ y \o c \in Seq(Events) /\ (x \o c)[m] = x[m]
        /\ Without(x \o c, m, y \o c)
    BY <2>5, WithoutBefore
  <2>7. Trail = x \o c /\ Trail' = y \o c
    BY <1>2, <1>4, <2>2, <2>4 DEF Trail
  <2>8. PICK s \in Seq(Events), r \in Seq(Events) : s = Trail /\ r = Trail'
    BY <2>6, <2>7
  <2>9. s[m] = Head(local) /\ Without(s, m, r)
    BY <2>5, <2>6, <2>7, <2>8
  <2>10. IsRest(s, accepted, lost \cup failed)
    BY <2>8 DEF IInv, TrailInOrder
  <2>11. IsRest(r, accepted, (lost \cup failed) \cup {s[m]})
    BY <1>1, <2>8, <2>9, <2>10, RestDrop
  <2>12. (lost \cup failed) \cup {s[m]} = lost' \cup failed'
    BY <1>2, <1>4, <2>9
  <2>13. IsRest(Trail', accepted', lost' \cup failed')
    BY <1>2, <2>8, <2>11, <2>12
  <2> QED
    BY <1>2, <2>13 DEF IInv, TrailInOrder
<1> QED
  BY <1>3, <1>4 DEF WorkerWrite, WriteLine

\* A new event goes to the end of the trail; a full ring loses its oldest.
LEMMA EnqueueTrail ==
    ASSUME IInv, NEW t \in Threads, Enqueue(t)
    PROVE  TrailInOrder'
<1>1. PICK e \in Events : e = <<t, no[t]>>
  BY NewEvent DEF Enqueue
<1>2. /\ e \notin lost \cup failed /\ \A k \in 1 .. Len(accepted) : accepted[k] # e
  BY <1>1, NewEvent DEF Enqueue
<1>3. PICK a \in Seq(Events), c \in Seq(Events), s \in Seq(Events) :
        a = log \o local /\ c = Contents /\ s = Trail /\ s = a \o c
  BY ContentsIs DEF IInv, Trail
<1>4. /\ accepted' = Append(accepted, e) /\ accepted \in Seq(Events)
      /\ UNCHANGED <<log, local, failed, droppedLocal, reported>>
      /\ Trail' = a \o Contents' /\ RingSize \in Nat \ {0}
      /\ dropped \in Nat /\ droppedLocal \in Nat /\ reported \in Nat
  BY <1>1, <1>3, RingAssumption DEF Enqueue, workerVars, fileVars, Trail, IInv, TypeOK
<1>5. IsRest(s, accepted, lost \cup failed) /\ Cardinality(lost) = dropped + droppedLocal + reported
  BY <1>3 DEF IInv, TrailInOrder
<1>6. CASE count < RingSize
  <2>1. Contents' = Append(c, e)
    BY <1>1, <1>3, <1>6, EnqueueRing
  <2>2. Trail' = Append(s, e)
    <3>1. a \o Append(c, e) = Append(a \o c, e)
      BY AppendLast
    <3> QED
      BY <1>3, <1>4, <2>1, <3>1, Zenon
  <2>3. IsRest(Append(s, e), Append(accepted, e), lost \cup failed)
    BY <1>2, <1>4, <1>5, RestAdd
  <2>4. lost' = lost /\ dropped' = dropped
    BY <1>4, <1>6 DEF Enqueue
  <2> QED
    BY <1>4, <1>5, <2>2, <2>3, <2>4 DEF TrailInOrder
<1>7. CASE count = RingSize
  <2>1. Contents' = Append(Tail(c), e)
    BY <1>1, <1>3, <1>7, EnqueueRing
  <2>2. /\ count > 0 /\ Len(c) > 0 /\ c[1] = ring[tail] /\ c[1] \notin lost \cup failed
        /\ \E k \in 1 .. Len(accepted) : c[1] = accepted[k]
    BY <1>3, <1>4, <1>7, ContentsIs, OldestIs, OldestAccepted DEF IInv
  <2>3. Len(a) + 1 \in Nat /\ Tail(c) \in Seq(Events)
    BY <2>2
  <2>4. a \o Tail(c) \in Seq(Events)
    BY <2>3, ConcatProperties
  <2>5. PICK w \in Seq(Events), r \in Seq(Events), m \in Nat :
          w = Tail(c) /\ r = a \o w /\ m = Len(a) + 1
    BY <2>3, <2>4, Zenon
  <2>6. s[m] = c[1] /\ Without(s, m, r)
    <3>1. (a \o c)[Len(a) + 1] = c[1] /\ Without(a \o c, Len(a) + 1, a \o w)
      BY <2>2, <2>5, WithoutFirst
    <3> QED
      BY <1>3, <2>5, <3>1
  <2>7. IsRest(r, accepted, (lost \cup failed) \cup {c[1]})
    <3>1. IsRest(r, accepted, (lost \cup failed) \cup {s[m]})
      BY <1>4, <1>5, <2>5, <2>6, RestDrop
    <3> QED
      BY <2>6, <3>1
  <2>8. e # c[1]
    BY <1>2, <2>2
  <2>9. lost' = lost \cup {c[1]} /\ dropped' = dropped + 1
    BY <1>4, <1>7, <2>2 DEF Enqueue
  <2>10. IsRest(Append(r, e), Append(accepted, e), (lost \cup failed) \cup {c[1]})
    BY <1>2, <1>4, <2>7, <2>8, RestAdd
  <2>11. Trail' = Append(r, e)
    <3>1. a \o Append(w, e) = Append(a \o w, e)
      BY AppendLast
    <3> QED
      BY <1>4, <2>1, <2>5, <3>1, Zenon
  <2>12. (lost \cup failed) \cup {c[1]} = lost' \cup failed'
    BY <1>4, <2>9
  <2>13. Cardinality(lost') = Cardinality(lost) + 1
    BY <2>2, <2>9, FS_AddElement DEF IInv, LostInv
  <2>14. Cardinality(lost') = dropped' + droppedLocal' + reported'
    BY <1>4, <1>5, <2>9, <2>13
  <2> QED
    BY <1>4, <2>10, <2>11, <2>12, <2>14 DEF TrailInOrder
<1>8. count < RingSize \/ count = RingSize
  BY <1>4 DEF IInv, TypeOK
<1> QED
  BY <1>6, <1>7, <1>8

\* Without a worker the file is the trail.
LEMMA AppendTrail ==
    ASSUME IInv, NEW t \in Threads, AppendLine(t)
    PROVE  TrailInOrder'
<1>1. PICK e \in Events : e = <<t, no[t]>>
  BY NewEvent DEF AppendLine
<1>2. /\ e \notin lost \cup failed /\ \A k \in 1 .. Len(accepted) : accepted[k] # e
  BY <1>1, NewEvent DEF AppendLine
<1>3. /\ local = <<>> /\ count = 0 /\ local' = <<>> /\ count' = 0 /\ UNCHANGED lost
      /\ accepted' = Append(accepted, e) /\ accepted \in Seq(Events) /\ log \in Seq(Events)
      /\ UNCHANGED <<dropped, droppedLocal, reported>>
      /\ WriteLine(e)
  BY <1>1 DEF AppendLine, IInv, PhaseInv, TypeOK, ringVars, workerVars
<1>4. Contents = <<>> /\ Contents' = <<>>
  BY <1>3 DEF Contents
<1>5. log' \in Seq(Events) /\ failed' \subseteq Events
  BY <1>3, WriteType DEF IInv
<1>6. \A l \in Seq(Events) : (l \o <<>>) \o <<>> = l
  BY ConcatEmptySeq
<1>7. Trail = log /\ Trail' = log'
  BY <1>3, <1>4, <1>5, <1>6 DEF Trail
<1>8. IsRest(log, accepted, lost \cup failed) /\ Cardinality(lost) = dropped + droppedLocal + reported
  BY <1>7 DEF IInv, TrailInOrder
<1>9. CASE log' = Append(log, e) /\ UNCHANGED failed
  <2>1. IsRest(Append(log, e), Append(accepted, e), lost \cup failed)
    BY <1>2, <1>3, <1>8, RestAdd
  <2> QED
    BY <1>3, <1>7, <1>8, <1>9, <2>1 DEF TrailInOrder
<1>10. CASE failed' = failed \cup {e} /\ UNCHANGED log
  <2>1. IsRest(log, Append(accepted, e), (lost \cup failed) \cup {e})
    BY <1>2, <1>3, <1>8, RestRefused
  <2>2. (lost \cup failed) \cup {e} = lost' \cup failed'
    BY <1>3, <1>10
  <2> QED
    BY <1>3, <1>7, <1>8, <1>10, <2>1, <2>2 DEF TrailInOrder
<1> QED
  BY <1>3, <1>9, <1>10 DEF WriteLine

\* Every step keeps the trail in order.
LEMMA TrailStep == IInv /\ Next => TrailInOrder'
<1> SUFFICES ASSUME IInv, Next PROVE TrailInOrder'
  OBVIOUS
<1>1. CASE UNCHANGED <<ringVars, fileVars, local, droppedLocal, accepted, lost>>
  BY <1>1, TrailSame DEF IInv, Trail, Contents, ringVars, fileVars
<1>2. CASE WorkerReport
  <2>1. Trail' = Trail
    BY <1>2 DEF WorkerReport, Trail, Contents, ringVars
  <2>2. dropped' + droppedLocal' + reported' = dropped + droppedLocal + reported
    BY <1>2 DEF WorkerReport, ringVars, IInv, TypeOK
  <2> QED
    BY <1>2, <2>1, <2>2, TrailSame DEF IInv, WorkerReport
<1> QED
  BY <1>1, <1>2, DrainTrail, WriteTrail, EnqueueTrail, AppendTrail
  DEF Next, Worker, Thread, Start, Exit, Choose, Close, Join, WorkerEnd, Ended, vars,
      AuditEvent, ThreadEnds, workerVars

\* The invariant is inductive: it holds at the start and every step keeps it.
THEOREM Inductive == Spec => []IInv
<1>1. IInv /\ [Next]_vars => IInv'
  <2>1. IInv /\ Next => IInv'
    BY TypeStep, RingStep, PhaseStep, EndStep, FreshStep, LostStep, TrailStep DEF IInv
  <2>2. IInv /\ UNCHANGED vars => IInv'
    <3> SUFFICES ASSUME IInv, UNCHANGED vars PROVE IInv'
      OBVIOUS
    <3>1. UNCHANGED <<ring, head, tail, count, dropped, started, stop, worker, local,
                      droppedLocal, pc, no, log, reported, failed, accepted, lost>>
      BY DEF vars, ringVars, workerVars, fileVars
    <3>2. (TypeOK /\ RingInv /\ PhaseInv)'
      BY <3>1 DEF IInv, TypeOK, RingInv, PhaseInv, Held
    <3>3. (EndInv /\ FreshInv /\ LostInv)'
      BY <3>1 DEF IInv, EndInv, FreshInv, LostInv, Over
    <3>4. TrailInOrder'
      BY <3>1 DEF IInv, TrailInOrder, Trail, Contents
    <3> QED
      BY <3>2, <3>3, <3>4 DEF IInv
  <2> QED
    BY <2>1, <2>2
<1> QED
  BY <1>1, Initial, PTL DEF Spec

\* Every variable keeps its type.
THEOREM TypeSafe == Spec => []TypeOK
<1>1. IInv => TypeOK
  BY DEF IInv
<1> QED
  BY <1>1, Inductive, PTL

\* The file, what the worker holds and the ring are together the accepted
\* events in their order, and every overwritten event is counted once
\* (audit_enqueue against the drain of audit_worker_fn).
THEOREM TrailSafe == Spec => []TrailInOrder
<1>1. IInv => TrailInOrder
  BY DEF IInv
<1> QED
  BY <1>1, Inductive, PTL

\* The last accepted event is the last of what is left, if it is left.
LEMMA LastIsLast ==
    ASSUME NEW E, NEW s \in Seq(E), NEW acc \in Seq(E), NEW gone, IsRest(s, acc, gone),
           Len(acc) > 0, acc[Len(acc)] \notin gone
    PROVE  s # <<>> /\ s[Len(s)] = acc[Len(acc)]
<1>1. /\ \A k, l \in 1 .. Len(acc) : k < l => acc[k] # acc[l]
      /\ \A k \in 1 .. Len(acc) : acc[k] \notin gone => \E i \in 1 .. Len(s) : acc[k] = s[i]
      /\ \A i, j \in 1 .. Len(s) : i < j =>
           \E k, l \in 1 .. Len(acc) : k < l /\ s[i] = acc[k] /\ s[j] = acc[l]
  BY DEF IsRest
<1>2. Len(acc) \in 1 .. Len(acc) /\ Len(s) \in Nat
  OBVIOUS
<1>3. PICK i \in 1 .. Len(s) : acc[Len(acc)] = s[i]
  BY <1>1, <1>2
<1>4. ASSUME i < Len(s)
      PROVE  FALSE
  <2>1. Len(s) \in 1 .. Len(s)
    BY <1>2, <1>3
  <2>2. PICK k \in 1 .. Len(acc), l \in 1 .. Len(acc) :
          k < l /\ s[i] = acc[k] /\ s[Len(s)] = acc[l]
    BY <1>1, <1>4, <2>1
  <2>3. k < Len(acc)
    BY <1>2, <2>2
  <2> QED
    BY <1>1, <1>2, <1>3, <2>2, <2>3
<1>5. i = Len(s) /\ s # <<>>
  BY <1>2, <1>3, <1>4
<1> QED
  BY <1>3, <1>5

\* When the exit handler is done nothing is left behind, every overwritten
\* event has been reported and "end" is the last line, unless the disk
\* refused it (atexit_writer and audit_worker_close).
THEOREM ExitSafe == Spec => []CompleteAtExit
<1>1. IInv => CompleteAtExit
  <2> SUFFICES ASSUME IInv, pc[Main] = "gone"
               PROVE  /\ count = 0 /\ local = <<>> /\ reported = Cardinality(lost)
                      /\ \/ <<Main, EndNo>> \in failed
                         \/ log # <<>> /\ log[Len(log)] = <<Main, EndNo>>
    BY DEF CompleteAtExit
  <2>1. /\ count = 0 /\ local = <<>> /\ droppedLocal = 0 /\ dropped = 0
        /\ log \in Seq(Events) /\ accepted \in Seq(Events) /\ reported \in Nat
    BY DEF IInv, PhaseInv, RingInv, TypeOK
  <2>2. reported = Cardinality(lost)
    BY <2>1 DEF IInv, TrailInOrder
  <2>3. Contents = <<>>
    BY <2>1 DEF Contents
  <2>4. \A l \in Seq(Events) : (l \o <<>>) \o <<>> = l
    BY ConcatEmptySeq
  <2>5. Trail = log
    BY <2>1, <2>3, <2>4 DEF Trail
  <2>6. /\ Len(accepted) > 0 /\ accepted[Len(accepted)] = <<Main, EndNo>>
        /\ <<Main, EndNo>> \notin lost
    BY DEF IInv, LostInv, Over
  <2>7. CASE <<Main, EndNo>> \notin failed
    <3>1. accepted[Len(accepted)] \notin lost \cup failed
      BY <2>6, <2>7
    <3>2. IsRest(log, accepted, lost \cup failed)
      BY <2>5 DEF IInv, TrailInOrder
    <3>3. log # <<>> /\ log[Len(log)] = accepted[Len(accepted)]
      BY <2>1, <2>6, <3>1, <3>2, LastIsLast
    <3> QED
      BY <2>1, <2>2, <2>6, <3>3
  <2> QED
    BY <2>1, <2>2, <2>7
<1> QED
  BY <1>1, Inductive, PTL

-----------------------------------------------------------------------------
(* The promise of AuditTrail.                                              *)

\* A concatenation with the first element of its second part left out.
LEMMA AroundFirst ==
    ASSUME NEW E, NEW s \in Seq(E), NEW c \in Seq(E), Len(c) > 0
    PROVE  /\ SubSeq(s \o c, 1, Len(s)) = s
           /\ SubSeq(s \o c, Len(s) + 2, Len(s \o c)) = Tail(c)
<1>1. /\ s \o c \in Seq(E) /\ Len(s \o c) = Len(s) + Len(c)
      /\ \A i \in 1 .. Len(s) + Len(c) :
           (s \o c)[i] = IF i <= Len(s) THEN s[i] ELSE c[i - Len(s)]
  BY ConcatProperties
<1>2. SubSeq(s \o c, 1, Len(s)) = s
  BY <1>1
<1>3. /\ Tail(c) \in Seq(E) /\ Len(Tail(c)) = Len(c) - 1
      /\ \A i \in 1 .. Len(c) - 1 : Tail(c)[i] = c[i + 1]
  OBVIOUS
<1>4. SubSeq(s \o c, Len(s) + 2, Len(s \o c)) = Tail(c)
  BY <1>1, <1>3
<1> QED
  BY <1>2, <1>4

\* The first element of a concatenation leaves it.
LEMMA FirstOut ==
    ASSUME NEW E, NEW s \in Seq(E), NEW c \in Seq(E), Len(s) > 0
    PROVE  /\ s \o c # <<>> /\ Head(s \o c) = Head(s)
           /\ Tail(s \o c) = Tail(s) \o c
<1>1. /\ s \o c \in Seq(E) /\ Len(s \o c) = Len(s) + Len(c)
      /\ \A i \in 1 .. Len(s) + Len(c) :
           (s \o c)[i] = IF i <= Len(s) THEN s[i] ELSE c[i - Len(s)]
  BY ConcatProperties
<1>2. s \o c # <<>> /\ Head(s \o c) = Head(s)
  BY <1>1
<1>3. /\ Tail(s) \in Seq(E) /\ Len(Tail(s)) = Len(s) - 1
      /\ \A i \in 1 .. Len(s) - 1 : Tail(s)[i] = s[i + 1]
  OBVIOUS
<1>4. /\ Tail(s) \o c \in Seq(E) /\ Len(Tail(s) \o c) = Len(s) - 1 + Len(c)
      /\ \A i \in 1 .. Len(s) - 1 + Len(c) :
           (Tail(s) \o c)[i] = IF i <= Len(s) - 1 THEN Tail(s)[i] ELSE c[i - (Len(s) - 1)]
  BY <1>3, ConcatProperties
<1>5. /\ Tail(s \o c) \in Seq(E) /\ Len(Tail(s \o c)) = Len(s) + Len(c) - 1
      /\ \A i \in 1 .. Len(s) + Len(c) - 1 : Tail(s \o c)[i] = (s \o c)[i + 1]
  BY <1>1
<1>6. Tail(s \o c) = Tail(s) \o c
  BY <1>1, <1>3, <1>4, <1>5
<1> QED
  BY <1>2, <1>6

\* Where the pending events are.
LEMMA PendingIs ==
    ASSUME IInv
    PROVE  /\ local \in Seq(Events) /\ Contents \in Seq(Events)
           /\ pendingEvents \in Seq(Events) /\ log \in Seq(Events)
           /\ pendingEvents = local \o Contents /\ Len(Contents) = count
           /\ RingSize \in Nat /\ RingSize > 0 /\ count \in 0 .. RingSize
           /\ dropped \in Nat /\ droppedLocal \in Nat /\ reported \in Nat
<1>1. local \in Seq(Events) /\ Contents \in Seq(Events) /\ Len(Contents) = count
  BY ContentsIs DEF IInv, TypeOK
<1>2. pendingEvents \in Seq(Events)
  BY <1>1, ConcatProperties DEF pendingEvents
<1> QED
  BY <1>1, <1>2, RingAssumption DEF IInv, TypeOK, pendingEvents

\* A call that puts an event into the ring.
LEMMA EnqueuePromise ==
    ASSUME IInv, NEW t \in Threads, Enqueue(t)
    PROVE  \E e \in Events : Promise!Accept(e) \/ Promise!Overflow(e)
<1>1. PICK e \in Events : e = <<t, no[t]>>
  BY NewEvent DEF Enqueue
<1>2. ~Gone /\ UNCHANGED Gone
  BY NewEvent DEF Enqueue, Return, Goto, Gone, Over, IInv, TypeOK, Threads
<1>3. PICK p \in Seq(Events), c \in Seq(Events) : p = local /\ c = Contents
  BY PendingIs
<1>4. /\ pendingEvents = p \o c /\ Len(c) = count /\ pendingEvents' = p \o Contents'
      /\ UNCHANGED <<log, reported>> /\ droppedLocal' = droppedLocal
      /\ RingSize \in Nat /\ RingSize > 0 /\ dropped \in Nat /\ droppedLocal \in Nat
      /\ count \in 0 .. RingSize
  BY <1>3, PendingIs DEF Enqueue, workerVars, fileVars, pendingEvents
<1>5. /\ count < RingSize => Contents' = Append(c, e)
      /\ count = RingSize => Contents' = Append(Tail(c), e)
  BY <1>1, <1>3, EnqueueRing
<1>6. dropped' = IF count = RingSize THEN dropped + 1 ELSE dropped
  BY DEF Enqueue
<1>7. CASE count < RingSize
  <2>1. Contents' = Append(c, e) /\ dropped' = dropped
    BY <1>4, <1>5, <1>6, <1>7
  <2>2. p \o Append(c, e) = Append(p \o c, e)
    BY AppendLast
  <2>3. pendingEvents' = Append(pendingEvents, e) /\ UNCHANGED unreportedEvents
    BY <1>4, <2>1, <2>2 DEF unreportedEvents
  <2>4. Promise!Accept(e)
    BY <1>2, <1>4, <2>3 DEF Promise!Accept
  <2> QED
    BY <2>4
<1>8. CASE count = RingSize
  <2>1. Contents' = Append(Tail(c), e) /\ dropped' = dropped + 1
    BY <1>5, <1>6, <1>8
  <2>2. Len(c) = RingSize /\ Len(c) > 0
    BY <1>4, <1>8
  <2>3. Tail(c) \in Seq(Events)
    BY <2>2
  <2>4. Len(p) \in Nat /\ Len(p \o c) = Len(p) + Len(c)
    BY ConcatProperties
  <2>5. p \o Append(Tail(c), e) = Append(p \o Tail(c), e)
    BY <2>3, AppendLast
  <2>6. /\ SubSeq(p \o c, 1, Len(p)) = p
        /\ SubSeq(p \o c, Len(p) + 2, Len(p \o c)) = Tail(c)
    BY <2>2, AroundFirst
  <2>7. Promise!Kept = Len(p) /\ Len(pendingEvents) >= RingSize
    BY <1>4, <2>2, <2>4 DEF Promise!Kept
  <2>8. pendingEvents' = Append(SubSeq(pendingEvents, 1, Len(p))
                                \o SubSeq(pendingEvents, Len(p) + 2, Len(pendingEvents)), e)
    BY <1>4, <2>1, <2>5, <2>6, Zenon
  <2>9. unreportedEvents' = unreportedEvents + 1
    BY <1>4, <2>1 DEF unreportedEvents
  <2>10. Promise!Overflow(e)
    BY <1>2, <1>4, <2>7, <2>8, <2>9, Zenon DEF Promise!Overflow
  <2> QED
    BY <2>10
<1> QED
  BY <1>4, <1>7, <1>8

\* A call that writes to the file itself.
LEMMA AppendPromise ==
    ASSUME IInv, NEW t \in Threads, AppendLine(t)
    PROVE  \E e \in Events : Promise!WriteThrough(e)
<1>1. PICK e \in Events : e = <<t, no[t]>>
  BY NewEvent DEF AppendLine
<1>2. ~Gone /\ UNCHANGED Gone
  BY NewEvent DEF AppendLine, Return, Goto, Gone, Over, IInv, TypeOK, Threads
<1>3. /\ local = <<>> /\ count = 0 /\ local' = <<>> /\ count' = 0
      /\ UNCHANGED <<dropped, droppedLocal, reported>>
      /\ log' \in {log, Append(log, e)}
  BY <1>1 DEF AppendLine, WriteLine, IInv, PhaseInv, ringVars, workerVars
<1>4. pendingEvents = <<>> \o <<>> /\ pendingEvents' = <<>> \o <<>>
  BY <1>3 DEF pendingEvents, Contents
<1>5. pendingEvents = <<>> /\ UNCHANGED pendingEvents
  BY <1>4, ConcatEmptySeq
<1>6. UNCHANGED unreportedEvents
  BY <1>3 DEF unreportedEvents
<1>7. Promise!WriteThrough(e)
  BY <1>2, <1>3, <1>5, <1>6 DEF Promise!WriteThrough
<1> QED
  BY <1>7

\* The worker writes a line, or the disk refuses it.
LEMMA WritePromise ==
    ASSUME IInv, WorkerWrite
    PROVE  Promise!Write
<1>1. worker # "off" /\ worker # "ended" /\ ~Gone /\ UNCHANGED Gone
  BY DEF WorkerWrite, IInv, PhaseInv, Gone
<1>2. PICK p \in Seq(Events), c \in Seq(Events) : p = local /\ c = Contents
  BY PendingIs
<1>3. Len(p) > 0 /\ pendingEvents = p \o c /\ pendingEvents' = Tail(p) \o c
  BY <1>2 DEF WorkerWrite, pendingEvents, Contents, ringVars
<1>4. pendingEvents # <<>> /\ Head(pendingEvents) = Head(p) /\ Tail(pendingEvents) = Tail(p) \o c
  BY <1>3, FirstOut
<1>5. log' \in {log, Append(log, Head(p))} /\ UNCHANGED <<dropped, droppedLocal, reported>>
  BY <1>2 DEF WorkerWrite, WriteLine, ringVars
<1> QED
  BY <1>1, <1>3, <1>4, <1>5 DEF Promise!Write, unreportedEvents

\* The worker takes the ring over, which no reader of the log notices.
LEMMA DrainPromise ==
    ASSUME IInv, WorkerDrain
    PROVE  UNCHANGED Promise!trailVars
<1>1. /\ local = <<>> /\ droppedLocal = 0 /\ Contents \in Seq(Events) /\ dropped \in Nat
      /\ UNCHANGED <<pc, log, reported>>
  BY PendingIs DEF WorkerDrain, IInv, PhaseInv, fileVars
<1>2. local' = Contents /\ Contents' = <<>> /\ droppedLocal' = dropped /\ dropped' = 0
  BY DrainRing DEF WorkerDrain, IInv
<1>3. PICK c \in Seq(Events) : c = Contents
  BY <1>1
<1>4. pendingEvents = <<>> \o c /\ pendingEvents' = c \o <<>>
  BY <1>1, <1>2, <1>3 DEF pendingEvents
<1>5. UNCHANGED pendingEvents
  BY <1>4, ConcatEmptySeq
<1>6. UNCHANGED unreportedEvents
  BY <1>1, <1>2 DEF unreportedEvents
<1> QED
  BY <1>1, <1>5, <1>6 DEF Promise!trailVars, Gone

\* The overflow line, if there is one, announces what was given up.
LEMMA ReportPromise ==
    ASSUME IInv, WorkerReport
    PROVE  Promise!Next \/ UNCHANGED Promise!trailVars
<1>1. /\ worker # "off" /\ worker # "ended" /\ ~Gone /\ UNCHANGED Gone
      /\ UNCHANGED <<log, pendingEvents, dropped>>
      /\ reported' = reported + droppedLocal /\ droppedLocal' = 0
  BY DEF WorkerReport, IInv, PhaseInv, Gone, pendingEvents, Contents, ringVars
<1>2. dropped \in Nat /\ droppedLocal \in Nat /\ reported \in Nat
  BY PendingIs
<1>3. CASE droppedLocal = 0
  BY <1>1, <1>2, <1>3 DEF Promise!trailVars, unreportedEvents
<1>4. CASE droppedLocal # 0
  <2>1. droppedLocal \in 1 .. unreportedEvents
    BY <1>2, <1>4 DEF unreportedEvents
  <2>2. Promise!Announce(droppedLocal)
    BY <1>1, <1>2 DEF Promise!Announce, unreportedEvents
  <2> QED
    BY <2>1, <2>2 DEF Promise!Next
<1> QED
  BY <1>3, <1>4

\* The exit handler is done: nothing is pending and all is announced.
LEMMA FinishPromise ==
    ASSUME IInv, Close \/ Join
    PROVE  Promise!Finish \/ UNCHANGED Promise!trailVars
<1>1. /\ ~Gone /\ Main \in Threads
      /\ UNCHANGED <<local, Contents, dropped, droppedLocal, log, reported>>
  BY DEF Close, Join, Gone, Contents, Threads, ringVars, workerVars, fileVars
<1>2. UNCHANGED <<pendingEvents, unreportedEvents>>
  BY <1>1 DEF pendingEvents, unreportedEvents
<1>3. CASE ~Gone'
  <2>1. UNCHANGED Gone
    BY <1>1, <1>3 DEF Gone
  <2> QED
    BY <1>1, <1>2, <2>1 DEF Promise!trailVars
<1>4. CASE Gone'
  <2>1. worker \in {"off", "ended"}
    BY <1>1, <1>4 DEF Close, Join, Goto, Gone, IInv, TypeOK, PhaseInv
  <2>2. local = <<>> /\ count = 0 /\ dropped = 0 /\ droppedLocal = 0
    BY <2>1 DEF IInv, PhaseInv, RingInv
  <2>3. pendingEvents = <<>> \o <<>>
    BY <2>2 DEF pendingEvents, Contents
  <2>4. pendingEvents = <<>> /\ unreportedEvents = 0
    BY <2>2, <2>3, ConcatEmptySeq DEF unreportedEvents
  <2>5. Gone' = TRUE
    BY <1>4 DEF Gone
  <2> QED
    BY <1>1, <1>2, <2>4, <2>5 DEF Promise!Finish
<1> QED
  BY <1>3, <1>4

\* Every step maps to one step of the promise or to none.
LEMMA PromiseStep ==
    IInv /\ [Next]_vars => [Promise!Next]_(Promise!trailVars)
<1> SUFFICES ASSUME IInv, [Next]_vars PROVE [Promise!Next]_(Promise!trailVars)
  OBVIOUS
<1>1. ASSUME NEW t \in Threads, Enqueue(t) \/ AppendLine(t) PROVE Promise!Next
  BY <1>1, EnqueuePromise, AppendPromise DEF Promise!Next
<1>2. CASE WorkerDrain \/ WorkerWrite \/ WorkerReport
  BY <1>2, DrainPromise, WritePromise, ReportPromise DEF Promise!Next
<1>3. CASE Close \/ Join
  BY <1>3, FinishPromise DEF Promise!Next
<1>4. CASE UNCHANGED vars \/ WorkerEnd
  <2>1. UNCHANGED <<local, Contents, dropped, droppedLocal, log, reported, pc>>
    BY <1>4 DEF vars, WorkerEnd, ringVars, workerVars, fileVars, Contents
  <2> QED
    BY <2>1 DEF Promise!trailVars, pendingEvents, unreportedEvents, Gone
<1>5. ASSUME NEW t \in Threads, AuditEvent(t) \/ ThreadEnds(t) \/ Start \/ Exit
      PROVE  UNCHANGED Promise!trailVars
  <2>1. UNCHANGED <<local, Contents, dropped, droppedLocal, log, reported>>
    BY <1>5
    DEF AuditEvent, ThreadEnds, Start, Exit, Choose, ringVars, workerVars, fileVars, Contents
  <2>2. UNCHANGED Gone
    BY <1>5, ThreadAssumption
    DEF AuditEvent, ThreadEnds, Start, Exit, Choose, Goto, Gone, IInv, TypeOK, Threads
  <2> QED
    BY <2>1, <2>2 DEF Promise!trailVars, pendingEvents, unreportedEvents
<1>6. Main \in Threads
  BY DEF Threads
<1> QED
  BY <1>1, <1>2, <1>3, <1>4, <1>5, <1>6 DEF Next, Worker, Thread, Ended

\* The audit log implements AuditTrail, for any size of the ring and any number
\* of threads and events: the file grows by the events in the order of the
\* calls, an event is given up only by a call that finds the ring full, and the
\* process is over only with everything written and announced.
THEOREM TrailRefinement == Spec => TrailPromise
<1>1. Init => Promise!Init
  <2> SUFFICES ASSUME Init PROVE Promise!Init
    OBVIOUS
  <2>1. pendingEvents = <<>> \o <<>>
    BY DEF Init, pendingEvents, Contents
  <2>2. pendingEvents = <<>> /\ unreportedEvents = 0 /\ ~Gone
    BY <2>1, ConcatEmptySeq DEF Init, unreportedEvents, Gone, Threads
  <2> QED
    BY <2>2 DEF Init, Promise!Init
<1> QED
  BY <1>1, PromiseStep, Inductive, PTL DEF Spec, TrailPromise, Promise!Spec
=============================================================================
