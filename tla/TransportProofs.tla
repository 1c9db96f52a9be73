-------------------------- MODULE TransportProofs --------------------------
(***************************************************************************)
(* Theorems about module Transport, whatever the number of pollers and of  *)
(* datagrams and the room of the kernel: relayed datagrams leave in order, *)
(* copies of broadcasts apart that later ones get ahead of; nothing is     *)
(* sent twice, and what is lost is lost in the queue.                      *)
(***************************************************************************)
EXTENDS Transport, Integers, SequenceTheorems, FiniteSetTheorems, WellFoundedInduction, TLAPS

(* a may be ahead of b: they differ, and if both are relayed, a came first *)
(* or is no copy of a broadcast and b is.                                  *)
Before(a, b) ==
    a # b /\ (a \in In /\ b \in In => a < b \/ (a \notin Bcast /\ b \in Bcast))

AllBefore(S, T) == \A a \in S, b \in T : Before(a, b)

Ordered(s) == \A i, j \in 1..Len(s) : i < j => Before(s[i], s[j])

Earlier == {r \in Ids \X Ids : Before(r[1], r[2])}

(* In s, what is further ahead is related by R to what is behind it.       *)
Chain(R, s) == \A i, j \in 1..Len(s) : i < j => <<s[i], s[j]>> \in R

-----------------------------------------------------------------------------
(* Sequences.                                                              *)
LEMMA InRange ==
  ASSUME NEW S, NEW s \in Seq(S)
  PROVE  /\ \A i \in 1..Len(s) : s[i] \in Range(s)
         /\ \A x \in Range(s) : \E i \in 1..Len(s) : s[i] = x
         /\ Range(s) \subseteq S
BY DEF Range

LEMMA RangeConcat ==
  ASSUME NEW S, NEW s \in Seq(S), NEW t \in Seq(S)
  PROVE  s \o t \in Seq(S) /\ Range(s \o t) = Range(s) \cup Range(t)
<1> DEFINE q == s \o t
<1>1. /\ q \in Seq(S) /\ Len(q) = Len(s) + Len(t) /\ Len(s) \in Nat /\ Len(t) \in Nat
      /\ \A i \in 1..Len(q) : q[i] = IF i <= Len(s) THEN s[i] ELSE t[i - Len(s)]
  BY ConcatProperties, LenProperties
<1> HIDE DEF q
<1>2. /\ \A i \in 1..Len(q) : q[i] \in Range(q)
      /\ \A i \in 1..Len(s) : s[i] \in Range(s)
      /\ \A i \in 1..Len(t) : t[i] \in Range(t)
  BY <1>1, InRange
<1>3. ASSUME NEW x \in Range(q) PROVE x \in Range(s) \cup Range(t)
  <2>1. PICK i \in 1..Len(q) : q[i] = x
    BY <1>1, InRange
  <2>2. CASE i <= Len(s)
    <3>1. i \in 1..Len(s) /\ x = s[i]
      BY <1>1, <2>1, <2>2
    <3> QED
      BY <1>2, <3>1
  <2>3. CASE ~(i <= Len(s))
    <3>1. i - Len(s) \in 1..Len(t) /\ x = t[i - Len(s)]
      BY <1>1, <2>1, <2>3
    <3> QED
      BY <1>2, <3>1
  <2> QED
    BY <2>2, <2>3
<1>4. ASSUME NEW x \in Range(s) PROVE x \in Range(q)
  <2>1. PICK i \in 1..Len(s) : s[i] = x
    BY InRange
  <2>2. i \in 1..Len(q) /\ q[i] = x
    BY <1>1, <2>1
  <2> QED
    BY <1>2, <2>2
<1>5. ASSUME NEW x \in Range(t) PROVE x \in Range(q)
  <2>1. PICK i \in 1..Len(t) : t[i] = x
    BY InRange
  <2>2. i + Len(s) \in 1..Len(q) /\ ~(i + Len(s) <= Len(s)) /\ (i + Len(s)) - Len(s) = i
    BY <1>1
  <2>3. q[i + Len(s)] = x
    BY <1>1, <2>1, <2>2
  <2> QED
    BY <1>2, <2>2, <2>3
<1> QED
  BY <1>1, <1>3, <1>4, <1>5 DEF q

LEMMA ChainConcat ==
  ASSUME NEW R, NEW S, NEW s \in Seq(S), NEW t \in Seq(S)
  PROVE  Chain(R, s \o t) <=> /\ Chain(R, s) /\ Chain(R, t)
                            /\ \A a \in Range(s), b \in Range(t) : <<a, b>> \in R
<1> DEFINE q == s \o t
<1>1. /\ q \in Seq(S) /\ Len(q) = Len(s) + Len(t) /\ Len(s) \in Nat /\ Len(t) \in Nat
      /\ \A i \in 1..Len(q) : q[i] = IF i <= Len(s) THEN s[i] ELSE t[i - Len(s)]
  BY ConcatProperties, LenProperties
<1> HIDE DEF q
<1>2. \A i \in 1..Len(s) : i \in 1..Len(q) /\ q[i] = s[i]
  BY <1>1
<1>3. \A i \in 1..Len(t) : Len(s) + i \in 1..Len(q) /\ q[Len(s) + i] = t[i]
  <2> SUFFICES ASSUME NEW i \in 1..Len(t)
               PROVE  Len(s) + i \in 1..Len(q) /\ q[Len(s) + i] = t[i]
    OBVIOUS
  <2>1. Len(s) + i \in 1..Len(q) /\ ~(Len(s) + i <= Len(s)) /\ (Len(s) + i) - Len(s) = i
    BY <1>1
  <2> QED
    BY <1>1, <2>1
<1>4. /\ \A i \in 1..Len(s) : s[i] \in Range(s)
      /\ \A i \in 1..Len(t) : t[i] \in Range(t)
      /\ \A x \in Range(s) : \E i \in 1..Len(s) : s[i] = x
      /\ \A x \in Range(t) : \E i \in 1..Len(t) : t[i] = x
  BY InRange
<1>5. ASSUME Chain(R, q) PROVE Chain(R, s) /\ Chain(R, t) /\ \A a \in Range(s), b \in Range(t) : <<a, b>> \in R
  <2>1. ASSUME NEW i \in 1..Len(s), NEW j \in 1..Len(s), i < j PROVE <<s[i], s[j]>> \in R
    BY <1>2, <1>5, <2>1 DEF Chain
  <2>2. ASSUME NEW i \in 1..Len(t), NEW j \in 1..Len(t), i < j PROVE <<t[i], t[j]>> \in R
    <3>1. Len(s) + i < Len(s) + j
      BY <1>1, <2>2
    <3> QED
      BY <1>3, <1>5, <3>1 DEF Chain
  <2>3. ASSUME NEW a \in Range(s), NEW b \in Range(t) PROVE <<a, b>> \in R
    <3>1. PICK i \in 1..Len(s), j \in 1..Len(t) : s[i] = a /\ t[j] = b
      BY <1>4
    <3>2. i < Len(s) + j
      BY <1>1
    <3> QED
      BY <1>2, <1>3, <1>5, <3>1, <3>2 DEF Chain
  <2> QED
    BY <2>1, <2>2, <2>3 DEF Chain
<1>6. ASSUME Chain(R, s), Chain(R, t), \A a \in Range(s), b \in Range(t) : <<a, b>> \in R PROVE Chain(R, q)
  <2> SUFFICES ASSUME NEW i \in 1..Len(q), NEW j \in 1..Len(q), i < j
               PROVE  <<q[i], q[j]>> \in R
    BY DEF Chain
  <2>1. CASE j <= Len(s)
    <3>1. i \in 1..Len(s) /\ j \in 1..Len(s)
      BY <1>1, <2>1
    <3> QED
      BY <1>2, <1>6, <3>1 DEF Chain
  <2>2. CASE i > Len(s)
    <3>1. /\ i - Len(s) \in 1..Len(t) /\ j - Len(s) \in 1..Len(t) /\ i - Len(s) < j - Len(s)
          /\ ~(i <= Len(s)) /\ ~(j <= Len(s))
      BY <1>1, <2>2
    <3>2. q[i] = t[i - Len(s)] /\ q[j] = t[j - Len(s)]
      BY <1>1, <3>1
    <3> QED
      BY <1>6, <3>1, <3>2 DEF Chain
  <2>3. CASE i <= Len(s) /\ j > Len(s)
    <3>1. i \in 1..Len(s) /\ j - Len(s) \in 1..Len(t) /\ ~(j <= Len(s))
      BY <1>1, <2>3
    <3>2. q[i] = s[i] /\ q[j] = t[j - Len(s)]
      BY <1>1, <1>2, <3>1
    <3> QED
      BY <1>4, <1>6, <3>1, <3>2
  <2> QED
    BY <1>1, <2>1, <2>2, <2>3
<1> QED
  BY <1>5, <1>6 DEF q

LEMMA OrderedConcat ==
  ASSUME NEW s \in Seq(Ids), NEW t \in Seq(Ids)
  PROVE  Ordered(s \o t) <=> Ordered(s) /\ Ordered(t) /\ AllBefore(Range(s), Range(t))
<1>1. ASSUME NEW q \in Seq(Ids) PROVE Ordered(q) <=> Chain(Earlier, q)
  <2>1. \A i \in 1..Len(q) : q[i] \in Ids
    BY ElementOfSeq
  <2> QED
    BY <2>1 DEF Ordered, Chain, Earlier
<1>2. s \o t \in Seq(Ids) /\ Range(s) \subseteq Ids /\ Range(t) \subseteq Ids
  BY ConcatProperties, InRange
<1>3. AllBefore(Range(s), Range(t)) <=> \A a \in Range(s), b \in Range(t) : <<a, b>> \in Earlier
  BY <1>2 DEF AllBefore, Earlier
<1> QED
  BY <1>1, <1>2, <1>3, ChainConcat

(* The parts of an ordered sequence.                                       *)
LEMMA OrderedParts ==
  ASSUME NEW S \in SUBSET Ids, NEW s \in Seq(S), Ordered(s), NEW k \in 0..Len(s), NEW j \in 0..k,
         NEW a, a = SubSeq(s, 1, j), NEW b, b = SubSeq(s, k + 1, Len(s))
  PROVE  /\ a \in Seq(S) /\ b \in Seq(S) /\ Ordered(a) /\ Ordered(b)
         /\ Range(a) \subseteq Range(s) /\ Range(b) \subseteq Range(s)
         /\ AllBefore(Range(a), Range(b))
<1>1. Len(s) \in Nat /\ \A i \in 1..Len(s) : s[i] \in S /\ s[i] \in Range(s)
  BY LenProperties, ElementOfSeq, InRange
<1>2. a \in Seq(S) /\ Len(a) = j /\ \A i \in 1..j : a[i] = s[i]
  <2>1. \A i \in 1..j : s[i] \in S
    BY <1>1
  <2> QED
    BY <1>1, <2>1, SubSeqProperties
<1>3. b \in Seq(S) /\ Len(b) = Len(s) - k /\ \A i \in 1..Len(s) - k : b[i] = s[k + i]
  <2>1. \A i \in k + 1..Len(s) : s[i] \in S
    BY <1>1
  <2> QED
    BY <1>1, <2>1, SubSeqProperties
<1>4. \A x \in Range(a) : \E i \in 1..j : x = s[i]
  <2> SUFFICES ASSUME NEW x \in Range(a) PROVE \E i \in 1..j : x = s[i]
    OBVIOUS
  <2>1. PICK i \in 1..Len(a) : a[i] = x
    BY <1>2, InRange
  <2> QED
    BY <1>2, <2>1
<1>5. \A x \in Range(b) : \E i \in k + 1..Len(s) : x = s[i]
  <2> SUFFICES ASSUME NEW x \in Range(b) PROVE \E i \in k + 1..Len(s) : x = s[i]
    OBVIOUS
  <2>1. PICK i \in 1..Len(b) : b[i] = x
    BY <1>3, InRange
  <2>2. k + i \in k + 1..Len(s) /\ x = s[k + i]
    BY <1>1, <1>3, <2>1
  <2> QED
    BY <2>2
<1>6. Ordered(a)
  <2> SUFFICES ASSUME NEW i \in 1..Len(a), NEW l \in 1..Len(a), i < l PROVE Before(a[i], a[l])
    BY DEF Ordered
  <2>1. i \in 1..j /\ l \in 1..j /\ i \in 1..Len(s) /\ l \in 1..Len(s)
    BY <1>1, <1>2
  <2>2. a[i] = s[i] /\ a[l] = s[l]
    BY <1>2, <2>1
  <2> QED
    BY <2>1, <2>2 DEF Ordered
<1>7. Ordered(b)
  <2> SUFFICES ASSUME NEW i \in 1..Len(b), NEW l \in 1..Len(b), i < l PROVE Before(b[i], b[l])
    BY DEF Ordered
  <2>1. k + i \in 1..Len(s) /\ k + l \in 1..Len(s) /\ k + i < k + l
    BY <1>1, <1>3
  <2> QED
    BY <1>3, <2>1 DEF Ordered
<1>8. Range(a) \subseteq Range(s) /\ Range(b) \subseteq Range(s)
  <2>1. 1..j \subseteq 1..Len(s) /\ k + 1..Len(s) \subseteq 1..Len(s)
    BY <1>1
  <2>2. \A i \in 1..Len(s) : s[i] \in Range(s)
    BY <1>1
  <2> QED
    BY <1>4, <1>5, <2>1, <2>2
<1>9. AllBefore(Range(a), Range(b))
  <2> SUFFICES ASSUME NEW x \in Range(a), NEW y \in Range(b) PROVE Before(x, y)
    BY DEF AllBefore
  <2>1. PICK i \in 1..j, l \in k + 1..Len(s) : x = s[i] /\ y = s[l]
    BY <1>4, <1>5
  <2>2. i \in 1..Len(s) /\ l \in 1..Len(s) /\ i < l
    BY <1>1
  <2> QED
    BY <2>1, <2>2 DEF Ordered
<1> QED
  BY <1>2, <1>3, <1>6, <1>7, <1>8, <1>9

LEMMA One ==
  ASSUME NEW S, NEW x \in S
  PROVE  <<x>> \in Seq(S) /\ Range(<<x>>) = {x} /\ Ordered(<<x>>)
BY DEF Range, Ordered

LEMMA None == ASSUME NEW S PROVE <<>> \in Seq(S) /\ Range(<<>>) = {} /\ Ordered(<<>>)
BY DEF Range, Ordered

-----------------------------------------------------------------------------
(* What the kernel takes of a batch.                                       *)
LEMMA LeastExists ==
  ASSUME NEW S \in SUBSET Nat, S # {}
  PROVE  \E n \in S : \A m \in S : n <= m
<1> DEFINE R == OpToRel(<, Nat)
<1>1. IsWellFoundedOn(R, Nat)
  BY NatLessThanWellFounded
<1>2. \A x, y \in Nat : y < x => <<y, x>> \in R
  BY DEF OpToRel
<1> HIDE DEF R
<1>3. PICK n \in S : \A y \in S : ~(<<y, n>> \in R)
  BY <1>1, WFMin
<1>4. ASSUME NEW m \in S PROVE n <= m
  <2>1. ~(m < n) /\ m \in Nat /\ n \in Nat
    BY <1>2, <1>3
  <2> QED
    BY <2>1
<1> QED
  BY <1>4

LEMMA TakenIs ==
  ASSUME NEW batch \in Seq(Ids), NEW room \in Nat, NEW k, k = Taken(batch, room)
  PROVE  /\ k \in 0..Len(batch) /\ k <= room
         /\ \A i \in 1..k : batch[i] \notin bad
         /\ k < Len(batch) => k = room \/ batch[k + 1] \in bad
<1> DEFINE Ends == {n \in Nat : n >= Len(batch) \/ n >= room \/ batch[n + 1] \in bad}
           Fits(n) == /\ n <= room /\ \A i \in 1..n : batch[i] \notin bad
                      /\ n < Len(batch) => n = room \/ batch[n + 1] \in bad
<1>1. Len(batch) \in Nat
  BY LenProperties
<1>2. PICK n \in Ends : \A m \in Ends : n <= m
  <2>1. Len(batch) \in Ends
    BY <1>1
  <2> QED
    BY <2>1, LeastExists
<1>3. n \in Nat /\ n <= Len(batch) /\ n <= room
  <2>1. Len(batch) \in Ends /\ room \in Ends
    BY <1>1
  <2> QED
    BY <1>2, <2>1
<1>4. ASSUME NEW i \in 1..n PROVE batch[i] \notin bad
  <2>1. i - 1 \in Nat /\ i - 1 < n /\ (i - 1) + 1 = i
    BY <1>3
  <2>2. i - 1 \notin Ends
    BY <1>2, <1>3, <2>1
  <2> QED
    BY <2>1, <2>2
<1>5. n < Len(batch) => n = room \/ batch[n + 1] \in bad
  BY <1>1, <1>2, <1>3
<1>6. n \in 0..Len(batch) /\ Fits(n)
  BY <1>1, <1>3, <1>4, <1>5
<1>7. Taken(batch, room) = CHOOSE m \in 0..Len(batch) : Fits(m)
  BY DEF Taken
<1> HIDE DEF Fits
<1>8. k \in 0..Len(batch) /\ Fits(k)
  BY <1>6, <1>7
<1> QED
  BY <1>8 DEF Fits

(* A round passes the batch on, or drops all of it, for its first datagram.*)
LEMMA RoundIs ==
  ASSUME NEW batch \in Seq(Ids), NEW room \in Nat, NEW r, r = Round(batch, room)
  PROVE  /\ r.taken \in Seq(Ids) /\ r.left \in Seq(Ids) /\ Len(r.taken) <= room
         /\ \/ r.taken \o r.left = batch /\ r.dropped = {}
            \/ /\ batch # <<>> /\ batch[1] \in bad
               /\ r.taken = <<>> /\ r.left = <<>> /\ r.dropped = Range(batch)
<1> DEFINE k == Taken(batch, room)
<1>1. /\ k \in 0..Len(batch) /\ k <= room
      /\ k < Len(batch) => k = room \/ batch[k + 1] \in bad
  BY TakenIs
<1>2. r = [taken |-> SubSeq(batch, 1, k),
           left |-> IF batch # <<>> /\ room > 0 /\ k = 0
                    THEN <<>> ELSE SubSeq(batch, k + 1, Len(batch)),
           dropped |-> IF batch # <<>> /\ room > 0 /\ k = 0 THEN Range(batch) ELSE {}]
  BY DEF Round, Refused, Rest
<1> HIDE DEF k
<1>3. Len(batch) \in Nat /\ \A i \in 1..Len(batch) : batch[i] \in Ids
  BY LenProperties, ElementOfSeq
<1>4. /\ SubSeq(batch, 1, k) \in Seq(Ids) /\ Len(SubSeq(batch, 1, k)) = k
      /\ \A i \in 1..k : SubSeq(batch, 1, k)[i] = batch[i]
  <2>1. \A i \in 1..k : batch[i] \in Ids
    BY <1>1, <1>3
  <2> QED
    BY <1>1, <1>3, <2>1, SubSeqProperties
<1>5. /\ SubSeq(batch, k + 1, Len(batch)) \in Seq(Ids)
      /\ Len(SubSeq(batch, k + 1, Len(batch))) = Len(batch) - k
      /\ \A i \in 1..Len(batch) - k : SubSeq(batch, k + 1, Len(batch))[i] = batch[k + i]
  <2>1. \A i \in k + 1..Len(batch) : batch[i] \in Ids
    BY <1>1, <1>3
  <2> QED
    BY <1>1, <1>3, <2>1, SubSeqProperties
<1>6. SubSeq(batch, 1, k) \o SubSeq(batch, k + 1, Len(batch)) = batch
  <2> DEFINE a == SubSeq(batch, 1, k)
             b == SubSeq(batch, k + 1, Len(batch))
  <2>1. /\ a \o b \in Seq(Ids) /\ Len(a \o b) = Len(batch)
        /\ \A i \in 1..Len(batch) : (a \o b)[i] = IF i <= k THEN a[i] ELSE b[i - k]
    <3> HIDE DEF a, b
    <3>1. /\ a \in Seq(Ids) /\ b \in Seq(Ids) /\ Len(a) = k /\ Len(b) = Len(batch) - k
          /\ Len(a) + Len(b) = Len(batch)
      BY <1>1, <1>3, <1>4, <1>5 DEF a, b
    <3> QED
      BY <3>1, ConcatProperties
  <2>2. ASSUME NEW i \in 1..Len(batch) PROVE (a \o b)[i] = batch[i]
    <3>1. CASE i <= k
      <4>1. i \in 1..k
        BY <1>1, <1>3, <3>1
      <4> QED
        BY <1>4, <2>1, <3>1, <4>1
    <3>2. CASE ~(i <= k)
      <4>1. i - k \in 1..Len(batch) - k /\ k + (i - k) = i
        BY <1>1, <1>3, <3>2
      <4> QED
        BY <1>5, <2>1, <3>2, <4>1
    <3> QED
      BY <3>1, <3>2
  <2> QED
    BY <2>1, <2>2, SeqEqual
<1>7. CASE batch # <<>> /\ room > 0 /\ k = 0
  <2>1. SubSeq(batch, 1, k) = <<>>
    BY <1>4, <1>7, EmptySeq
  <2>2. Len(batch) > 0 /\ batch[1] \in bad
    BY <1>1, <1>3, <1>7, EmptySeq
  <2>3. r.taken = <<>> /\ r.left = <<>> /\ r.dropped = Range(batch)
    BY <1>2, <1>7, <2>1
  <2> QED
    BY <1>1, <1>4, <1>7, <2>1, <2>2, <2>3, EmptySeq
<1>8. CASE ~(batch # <<>> /\ room > 0 /\ k = 0)
  <2>1. /\ r.taken = SubSeq(batch, 1, k) /\ r.left = SubSeq(batch, k + 1, Len(batch))
        /\ r.dropped = {}
    <3> DEFINE refused == batch # <<>> /\ room > 0 /\ k = 0
               a == SubSeq(batch, 1, k)
               b == SubSeq(batch, k + 1, Len(batch))
    <3>1. ~refused
      BY <1>8
    <3>2. r = [taken |-> a, left |-> IF refused THEN <<>> ELSE b,
               dropped |-> IF refused THEN Range(batch) ELSE {}]
      BY <1>2
    <3> HIDE DEF refused, a, b
    <3>3. r.taken = a /\ r.left = b /\ r.dropped = {}
      BY <3>1, <3>2
    <3> QED
      BY <3>3 DEF a, b
  <2>3. Len(r.taken) = k
    BY <1>4, <2>1, Zenon
  <2>4. r.taken \o r.left = batch
    BY <1>6, <2>1, Zenon
  <2>2. r.taken \in Seq(Ids) /\ r.left \in Seq(Ids)
    BY <1>4, <1>5, <2>1, Zenon
  <2> QED
    BY <1>1, <2>1, <2>2, <2>3, <2>4
<1> QED
  BY <1>7, <1>8

-----------------------------------------------------------------------------
(* What was handed to the socket and not given up, the oldest first.       *)
out == (sent \o sending) \o waiting

(* The socket only waits to be written when something waits in it.         *)
NothingWaits == sendable => sending = <<>> /\ waiting = <<>>

SocketTyped ==
    /\ sent \in Seq(Ids) /\ sending \in Seq(Ids) /\ waiting \in Seq(Ids)
    /\ dropped \subseteq Ids /\ kern \in 0..Room

(* What the socket may do to the queue q it has and was just given: keep   *)
(* its order, and drop some of it.                                         *)
Flow(q) ==
    /\ SocketTyped' /\ NothingWaits'
    /\ Ordered(out')
    /\ Range(out') \subseteq Range(q) /\ dropped' \subseteq Range(q) \cup dropped
    /\ Range(out') \cap dropped' = {}

LEMMA AllBeforeDisjoint ==
  ASSUME NEW S, NEW T, AllBefore(S, T) PROVE S \cap T = {}
BY DEF AllBefore, Before

(* A queue of three parts stays ordered without its second or its third.   *)
LEMMA ThreeParts ==
  ASSUME NEW a \in Seq(Ids), NEW b \in Seq(Ids), NEW c \in Seq(Ids), Ordered((a \o b) \o c)
  PROVE  /\ Ordered(a) /\ Ordered(a \o b) /\ Ordered(a \o c)
         /\ a \o b \in Seq(Ids) /\ a \o c \in Seq(Ids) /\ (a \o b) \o c \in Seq(Ids)
         /\ Range(a \o b) = Range(a) \cup Range(b) /\ Range(a \o c) = Range(a) \cup Range(c)
         /\ Range((a \o b) \o c) = Range(a) \cup Range(b) \cup Range(c)
         /\ Range(a) \cap Range(b) = {} /\ Range(a) \cap Range(c) = {}
         /\ Range(b) \cap Range(c) = {}
<1>1. /\ a \o b \in Seq(Ids) /\ Range(a \o b) = Range(a) \cup Range(b)
      /\ a \o c \in Seq(Ids) /\ Range(a \o c) = Range(a) \cup Range(c)
  BY RangeConcat
<1>2. (a \o b) \o c \in Seq(Ids) /\ Range((a \o b) \o c) = Range(a) \cup Range(b) \cup Range(c)
  <2> DEFINE d == a \o b
  <2>1. d \in Seq(Ids) /\ Range(d) = Range(a) \cup Range(b)
    BY <1>1
  <2> HIDE DEF d
  <2>2. d \o c \in Seq(Ids) /\ Range(d \o c) = Range(d) \cup Range(c)
    BY <2>1, RangeConcat
  <2> QED
    BY <2>1, <2>2 DEF d
<1>3. Ordered(a \o b) /\ Ordered(c) /\ AllBefore(Range(a \o b), Range(c))
  BY <1>1, OrderedConcat
<1>4. Ordered(a) /\ AllBefore(Range(a), Range(b))
  BY <1>3, OrderedConcat
<1>5. AllBefore(Range(a), Range(c)) /\ AllBefore(Range(b), Range(c))
  BY <1>1, <1>3 DEF AllBefore
<1>6. Ordered(a \o c)
  BY <1>3, <1>4, <1>5, OrderedConcat
<1> QED
  BY <1>1, <1>2, <1>3, <1>4, <1>5, <1>6, AllBeforeDisjoint

(* The queue is kept.                                                      *)
LEMMA FlowAll ==
  ASSUME NEW q \in Seq(Ids), Ordered(q), Range(q) \cap dropped = {},
         SocketTyped', NothingWaits', out' = q, dropped' = dropped
  PROVE  Flow(q)
BY DEF Flow

(* send_l on a socket that can be written.                                 *)
LEMMA SendNowFlow ==
  ASSUME SocketTyped, NothingWaits, NEW n \in Ids,
         Ordered(out \o <<n>>), (Range(out) \cup {n}) \cap dropped = {},
         SendNow(Append(waiting, n))
  PROVE  Flow(out \o <<n>>)
<1> DEFINE u == <<n>>
           room == Room - kern
           r == Round(u, room)
<1>1. /\ sending = <<>> /\ waiting = <<>> /\ sent \in Seq(Ids) /\ out = sent
      /\ Append(waiting, n) = u
  BY DEF SendNow, NothingWaits, SocketTyped, out
<1>2. u \in Seq(Ids) /\ Range(u) = {n} /\ u # <<>>
  BY One
<1>3. room \in Nat /\ kern \in Nat /\ Room \in Nat
  BY BoundsAssumption DEF SocketTyped
<1>4. /\ sent' = (sent \o r.taken) \o <<>> /\ sending' = r.left /\ waiting' = <<>>
      /\ kern' = kern + Len(r.taken) + 0 /\ dropped' = dropped \cup r.dropped \cup {}
      /\ sendable' = (r.left = <<>>)
  BY <1>1 DEF SendNow, Flushed, NoRound
<1> HIDE DEF u, r
<1>5. /\ r.taken \in Seq(Ids) /\ r.left \in Seq(Ids) /\ Len(r.taken) <= room
      /\ \/ r.taken \o r.left = u /\ r.dropped = {}
         \/ r.taken = <<>> /\ r.left = <<>> /\ r.dropped = Range(u)
  BY <1>2, <1>3, RoundIs DEF r
<1>6. sent' = sent \o r.taken /\ sent' \in Seq(Ids) /\ <<>> \in Seq(Ids)
  BY <1>1, <1>4, <1>5, RangeConcat, ConcatEmptySeq, EmptySeq
<1>7. kern' \in 0..Room
  BY <1>3, <1>4, <1>5, LenProperties
<1>8. dropped' \subseteq Ids
  BY <1>2, <1>4, <1>5 DEF SocketTyped
<1>9. SocketTyped' /\ NothingWaits'
  BY <1>4, <1>5, <1>6, <1>7, <1>8 DEF SocketTyped, NothingWaits
<1>10. out' = sent \o (r.taken \o r.left)
  <2>1. out' = ((sent \o r.taken) \o r.left) \o <<>>
    BY <1>4, <1>6 DEF out
  <2>2. (sent \o r.taken) \o r.left \in Seq(Ids)
    BY <1>5, <1>6, RangeConcat
  <2>3. ((sent \o r.taken) \o r.left) \o <<>> = (sent \o r.taken) \o r.left
    BY <2>2, ConcatEmptySeq
  <2>4. (sent \o r.taken) \o r.left = sent \o (r.taken \o r.left)
    <3> DEFINE t == r.taken
               l == r.left
    <3>1. sent \in Seq(Ids) /\ t \in Seq(Ids) /\ l \in Seq(Ids)
      BY <1>1, <1>5
    <3> HIDE DEF t, l
    <3>2. (sent \o t) \o l = sent \o (t \o l)
      BY <3>1, ConcatAssociative
    <3> QED
      BY <3>2 DEF t, l
  <2> QED
    BY <2>1, <2>3, <2>4
<1>11. sent \o u \in Seq(Ids) /\ Range(sent \o u) = Range(sent) \cup {n}
  BY <1>1, <1>2, RangeConcat
<1>12. Ordered(sent \o u) /\ (Range(sent) \cup {n}) \cap dropped = {}
  BY <1>1 DEF u
<1>13. Ordered(sent) /\ Range(sent) \cap {n} = {}
  BY <1>1, <1>2, <1>12, OrderedConcat, AllBeforeDisjoint
<1>14. CASE r.taken \o r.left = u /\ r.dropped = {}
  <2>1. out' = sent \o u /\ dropped' = dropped
    BY <1>4, <1>10, <1>14
  <2> QED
    BY <1>1, <1>9, <1>11, <1>12, <2>1, FlowAll DEF u
<1>15. CASE r.taken = <<>> /\ r.left = <<>> /\ r.dropped = Range(u)
  <2>1. out' = sent /\ dropped' = dropped \cup {n}
    BY <1>1, <1>2, <1>4, <1>10, <1>15, ConcatEmptySeq, EmptySeq
  <2>2. Flow(sent \o u)
    BY <1>9, <1>11, <1>12, <1>13, <2>1 DEF Flow
  <2> QED
    BY <1>1, <2>2 DEF u
<1> QED
  BY <1>5, <1>14, <1>15

(* send_l on one that cannot.                                              *)
LEMMA SendLaterFlow ==
  ASSUME SocketTyped, NEW n \in Ids,
         Ordered(out \o <<n>>), (Range(out) \cup {n}) \cap dropped = {},
         SendLater(Append(waiting, n)), sent' = sent
  PROVE  Flow(out \o <<n>>)
<1> DEFINE u == <<n>>
           a == sent \o sending
<1>1. /\ sending' = sending /\ kern' = kern /\ dropped' = dropped /\ ~sendable'
      /\ waiting' = Append(waiting, n)
  BY DEF SendLater
<1>2. u \in Seq(Ids) /\ Range(u) = {n}
  BY One
<1>3. a \in Seq(Ids) /\ waiting \in Seq(Ids) /\ waiting' = waiting \o u /\ waiting' \in Seq(Ids)
  BY <1>1, <1>2, ConcatProperties, AppendIsConcat DEF SocketTyped
<1>4. SocketTyped' /\ NothingWaits'
  BY <1>1, <1>3 DEF SocketTyped, NothingWaits
<1>5. out = a \o waiting /\ out' = a \o waiting'
  BY <1>1 DEF out
<1>6. Ordered(out \o u)
  OBVIOUS
<1> HIDE DEF a, u
<1>7. out' = out \o u
  BY <1>2, <1>3, <1>5, ConcatAssociative
<1>8. out \in Seq(Ids)
  BY <1>3, <1>5, RangeConcat
<1>9. out \o u \in Seq(Ids) /\ Range(out \o u) = Range(out) \cup {n}
  BY <1>2, <1>8, RangeConcat
<1>10. Flow(out \o u)
  BY <1>1, <1>4, <1>6, <1>7, <1>9, FlowAll
<1> QED
  BY <1>10 DEF u

(* The socket gives up what waits.                                         *)
LEMMA GiveUpFlow ==
  ASSUME SocketTyped, NEW n \in Ids,
         Ordered(out \o <<n>>), (Range(out) \cup {n}) \cap dropped = {},
         GiveUp(Append(waiting, n))
  PROVE  Flow(out \o <<n>>)
<1> DEFINE u == <<n>>
           w == Append(waiting, n)
<1>1. /\ sent' = sent /\ sending' = <<>> /\ waiting' = <<>> /\ kern' = kern
      /\ dropped' = dropped \cup Range(w) \cup Range(sending)
  BY DEF GiveUp
<1>2. u \in Seq(Ids) /\ Range(u) = {n}
  BY One
<1>3. /\ sent \in Seq(Ids) /\ sending \in Seq(Ids) /\ waiting \in Seq(Ids)
      /\ w = waiting \o u
  BY AppendIsConcat DEF SocketTyped
<1>4. Ordered(out \o u)
  OBVIOUS
<1> HIDE DEF u, w
<1>5. Range(w) = Range(waiting) \cup {n}
  BY <1>2, <1>3, RangeConcat
<1>6. SocketTyped' /\ NothingWaits'
  <2>1. <<>> \in Seq(Ids)
    BY EmptySeq
  <2>2. Range(w) \cup Range(sending) \subseteq Ids
    BY <1>3, <1>5, InRange
  <2> QED
    BY <1>1, <2>1, <2>2 DEF SocketTyped, NothingWaits
<1>7. out' = sent
  BY <1>1, <1>3, ConcatEmptySeq DEF out
<1>8. out \in Seq(Ids)
  BY <1>3, RangeConcat DEF out
<1>9. Ordered(out) /\ Range(out) \cap {n} = {} /\ Range(out \o u) = Range(out) \cup {n}
  BY <1>2, <1>4, <1>8, OrderedConcat, RangeConcat, AllBeforeDisjoint
<1>10. /\ Ordered(sent) /\ Range(out) = Range(sent) \cup Range(sending) \cup Range(waiting)
       /\ Range(sent) \cap Range(sending) = {} /\ Range(sent) \cap Range(waiting) = {}
  BY <1>3, <1>9, ThreeParts DEF out
<1>11. Flow(out \o u)
  BY <1>1, <1>5, <1>6, <1>7, <1>9, <1>10 DEF Flow
<1> QED
  BY <1>11 DEF u

(* The two rounds of onWriteAble.                                          *)
LEMMA TwoRounds ==
  ASSUME SocketTyped, NEW first, first = Round(sending, Room - kern),
         NEW second, second = Round(waiting, (Room - kern) - Len(first.taken))
  PROVE  /\ first.taken \in Seq(Ids) /\ first.left \in Seq(Ids)
         /\ Len(first.taken) <= Room - kern
         /\ \/ first.taken \o first.left = sending /\ first.dropped = {}
            \/ /\ sending # <<>> /\ sending[1] \in bad
               /\ first.taken = <<>> /\ first.left = <<>> /\ first.dropped = Range(sending)
         /\ second.taken \in Seq(Ids) /\ second.left \in Seq(Ids)
         /\ Len(second.taken) <= (Room - kern) - Len(first.taken)
         /\ \/ second.taken \o second.left = waiting /\ second.dropped = {}
            \/ /\ waiting # <<>> /\ waiting[1] \in bad
               /\ second.taken = <<>> /\ second.left = <<>> /\ second.dropped = Range(waiting)
<1> DEFINE room == Room - kern
           rest == room - Len(first.taken)
<1>1. room \in Nat /\ sending \in Seq(Ids) /\ waiting \in Seq(Ids)
  BY BoundsAssumption DEF SocketTyped
<1> HIDE DEF room
<1>2. first = Round(sending, room)
  BY DEF room
<1>3. /\ first.taken \in Seq(Ids) /\ first.left \in Seq(Ids) /\ Len(first.taken) <= room
      /\ \/ first.taken \o first.left = sending /\ first.dropped = {}
         \/ /\ sending # <<>> /\ sending[1] \in bad
            /\ first.taken = <<>> /\ first.left = <<>> /\ first.dropped = Range(sending)
  BY <1>1, <1>2, RoundIs
<1>4. rest \in Nat
  BY <1>1, <1>3, LenProperties
<1> HIDE DEF rest
<1>5. second = Round(waiting, rest)
  BY DEF rest, room
<1>6. /\ second.taken \in Seq(Ids) /\ second.left \in Seq(Ids) /\ Len(second.taken) <= rest
      /\ \/ second.taken \o second.left = waiting /\ second.dropped = {}
         \/ /\ waiting # <<>> /\ waiting[1] \in bad
            /\ second.taken = <<>> /\ second.left = <<>> /\ second.dropped = Range(waiting)
  BY <1>1, <1>4, <1>5, RoundIs
<1> QED
  BY <1>3, <1>6 DEF rest, room

(* onWriteAble.                                                            *)
LEMMA WriteFlow ==
  ASSUME SocketTyped, NothingWaits, Ordered(out), Range(out) \cap dropped = {}, Write
  PROVE  Flow(out)
<1> DEFINE room == Room - kern
           first == Round(sending, room)
           t1 == first.taken
           second == Round(waiting, room - Len(t1))
           t2 == second.taken
           l1 == first.left
           l2 == second.left
           d1 == first.dropped
           d2 == second.dropped
<1>1. /\ sent \in Seq(Ids) /\ sending \in Seq(Ids) /\ waiting \in Seq(Ids) /\ <<>> \in Seq(Ids)
      /\ dropped \subseteq Ids /\ kern \in Nat /\ Room \in Nat /\ room \in Nat
  BY BoundsAssumption, EmptySeq DEF SocketTyped
<1>2. /\ t1 \in Seq(Ids) /\ l1 \in Seq(Ids) /\ Len(t1) <= room
      /\ \/ t1 \o l1 = sending /\ d1 = {}
         \/ t1 = <<>> /\ l1 = <<>> /\ d1 = Range(sending)
  <2> HIDE DEF first, second
  <2> QED
    BY TwoRounds DEF first, second
<1>3. Len(t1) \in Nat /\ room - Len(t1) \in Nat
  BY <1>1, <1>2, LenProperties
<1>4. /\ t2 \in Seq(Ids) /\ l2 \in Seq(Ids) /\ Len(t2) <= room - Len(t1)
      /\ \/ t2 \o l2 = waiting /\ d2 = {}
         \/ t2 = <<>> /\ l2 = <<>> /\ d2 = Range(waiting)
  BY TwoRounds
<1>5. \/ /\ l1 # <<>> /\ sent' = (sent \o t1) \o <<>> /\ kern' = kern + Len(t1) + 0
         /\ dropped' = dropped \cup d1 \cup {} /\ sending' = l1 /\ waiting' = waiting
         /\ sendable' = sendable
      \/ /\ l1 = <<>> /\ sent' = (sent \o t1) \o t2 /\ kern' = kern + Len(t1) + Len(t2)
         /\ dropped' = dropped \cup d1 \cup d2 /\ sending' = l2 /\ waiting' = <<>>
         /\ (l2 # <<>> => sendable' = sendable)
  BY DEF Write, Flushed, NoRound
<1>6. out = (sent \o sending) \o waiting
  BY DEF out
<1> HIDE DEF first, second, t1, t2, l1, l2, d1, d2
<1>7. Len(t2) \in Nat /\ Len(t1) + Len(t2) <= Room - kern
  <2>1. Len(t2) \in Nat
    BY <1>4, LenProperties
  <2> QED
    BY <1>1, <1>2, <1>3, <1>4, <2>1
<1> HIDE DEF room
<1>8. sent \o t1 \in Seq(Ids) /\ Range(sending) \subseteq Ids /\ Range(waiting) \subseteq Ids
  BY <1>1, <1>2, RangeConcat, InRange
<1>9. out \in Seq(Ids)
  BY <1>1, <1>6, ThreeParts
<1>10. CASE l1 # <<>>
  <2>1. t1 \o l1 = sending /\ d1 = {}
    BY <1>2, <1>10
  <2>2. /\ sent' = (sent \o t1) \o <<>> /\ kern' = kern + Len(t1) + 0
        /\ dropped' = dropped \cup d1 \cup {} /\ sending' = l1 /\ waiting' = waiting
        /\ sendable' = sendable
    BY <1>5, <1>10
  <2>3. sent' = sent \o t1
    BY <1>8, <2>2, ConcatEmptySeq
  <2>4. sending # <<>>
    BY <1>2, <1>10, <2>1, ConcatEqualIffEmpty
  <2>5. ~sendable'
    BY <2>2, <2>4 DEF NothingWaits
  <2>6. kern' \in 0..Room
    BY <1>1, <1>3, <1>7, <2>2
  <2>7. SocketTyped' /\ NothingWaits'
    BY <1>1, <1>2, <1>8, <2>1, <2>2, <2>3, <2>5, <2>6 DEF SocketTyped, NothingWaits
  <2>8. (sent \o t1) \o l1 = sent \o sending
    <3>1. sent \in Seq(Ids) /\ t1 \in Seq(Ids) /\ l1 \in Seq(Ids)
      BY <1>1, <1>2
    <3>2. (sent \o t1) \o l1 = sent \o (t1 \o l1)
      BY <3>1, ConcatAssociative
    <3> QED
      BY <2>1, <3>2
  <2>9. out' = out /\ dropped' = dropped
    BY <1>6, <2>1, <2>2, <2>3, <2>8 DEF out
  <2> QED
    BY <1>9, <2>7, <2>9, FlowAll
<1>11. CASE l1 = <<>>
  <2>1. /\ sent' = (sent \o t1) \o t2 /\ kern' = kern + Len(t1) + Len(t2)
        /\ dropped' = dropped \cup d1 \cup d2 /\ sending' = l2 /\ waiting' = <<>>
        /\ (l2 # <<>> => sendable' = sendable)
    BY <1>5, <1>11
  <2>2. (t1 = sending /\ d1 = {}) \/ (t1 = <<>> /\ d1 = Range(sending))
    <3>1. t1 \o <<>> = t1
      <4>1. t1 \in Seq(Ids)
        BY <1>2
      <4> QED
        BY <4>1, ConcatEmptySeq
    <3> QED
      <4>1. t1 \o l1 = t1
        BY <1>11, <3>1
      <4> QED
        BY <1>2, <4>1
  <2>3. sent' \in Seq(Ids)
    BY <1>4, <1>8, <2>1, ConcatProperties
  <2>4. kern' \in 0..Room
    BY <1>1, <1>3, <1>7, <2>1
  <2>5. l2 # <<>> => waiting # <<>>
    BY <1>4, ConcatEqualIffEmpty
  <2>6. NothingWaits'
    BY <2>1, <2>5 DEF NothingWaits
  <2>7. dropped' \subseteq Ids
    BY <1>1, <1>4, <1>8, <2>1, <2>2
  <2>8. SocketTyped'
    BY <1>1, <1>4, <2>1, <2>3, <2>4, <2>7 DEF SocketTyped
  <2>9. out' = (sent \o t1) \o (t2 \o l2)
    <3> DEFINE a == sent \o t1
    <3>1. a \in Seq(Ids)
      BY <1>8
    <3>2. sent' = a \o t2 /\ out' = ((a \o t2) \o l2) \o <<>>
      BY <2>1 DEF out
    <3> HIDE DEF a
    <3>3. (a \o t2) \o l2 = a \o (t2 \o l2) /\ a \o (t2 \o l2) \in Seq(Ids)
      <4>1. t2 \o l2 \in Seq(Ids)
        BY <1>4, ConcatProperties
      <4>2. a \o (t2 \o l2) \in Seq(Ids)
        BY <3>1, <4>1, RangeConcat
      <4>3. (a \o t2) \o l2 = a \o (t2 \o l2)
        <5>1. a \in Seq(Ids) /\ t2 \in Seq(Ids) /\ l2 \in Seq(Ids)
          BY <1>4, <3>1
        <5> QED
          BY <5>1, ConcatAssociative
      <4> QED
        BY <4>2, <4>3
    <3>4. (a \o (t2 \o l2)) \o <<>> = a \o (t2 \o l2)
      BY <3>3, ConcatEmptySeq
    <3> QED
      BY <3>2, <3>3, <3>4 DEF a
  <2>10. \/ t2 \o l2 = waiting /\ d2 = {}
         \/ t2 \o l2 = <<>> /\ d2 = Range(waiting)
    BY <1>1, <1>4, ConcatEmptySeq
  <2>11. \/ out' = out /\ dropped' = dropped
         \/ out' = sent \o sending /\ dropped' = dropped \cup Range(waiting)
         \/ out' = sent \o waiting /\ dropped' = dropped \cup Range(sending)
         \/ out' = sent /\ dropped' = dropped \cup Range(sending) \cup Range(waiting)
    <3>1. sent \o <<>> = sent /\ (sent \o sending) \o <<>> = sent \o sending
      BY <1>1, ConcatEmptySeq, ConcatProperties
    <3>2. CASE t1 = sending /\ d1 = {}
      BY <1>6, <2>1, <2>9, <2>10, <3>1, <3>2
    <3>3. CASE t1 = <<>> /\ d1 = Range(sending)
      BY <1>6, <2>1, <2>9, <2>10, <3>1, <3>3
    <3> QED
      BY <2>2, <3>2, <3>3
  <2>12. /\ Ordered(sent) /\ Ordered(sent \o sending) /\ Ordered(sent \o waiting)
         /\ Range(sent \o sending) = Range(sent) \cup Range(sending)
         /\ Range(sent \o waiting) = Range(sent) \cup Range(waiting)
         /\ Range(out) = Range(sent) \cup Range(sending) \cup Range(waiting)
         /\ Range(sent) \cap Range(sending) = {} /\ Range(sent) \cap Range(waiting) = {}
         /\ Range(sending) \cap Range(waiting) = {}
    BY <1>1, <1>6, ThreeParts
  <2>13. CASE out' = out /\ dropped' = dropped
    BY <1>9, <2>6, <2>8, <2>13, FlowAll
  <2>14. CASE ~(out' = out /\ dropped' = dropped)
    <3>1. Ordered(out')
      BY <2>11, <2>12, <2>14
    <3>2. /\ Range(out') \subseteq Range(out) /\ dropped' \subseteq Range(out) \cup dropped
          /\ Range(out') \cap dropped' = {}
      BY <2>11, <2>12, <2>14
    <3> QED
      BY <2>6, <2>8, <3>1, <3>2 DEF Flow
  <2> QED
    BY <2>13, <2>14
<1> QED
  BY <1>10, <1>11

-----------------------------------------------------------------------------
(* The tasks of a poller.                                                  *)
Jobs == {t \in [do : {"each", "compress", "send"}, id : Ids] : t.do = "each" => t.id \in Bcast}

(* How many tasks follow this one.                                         *)
Left(t) == IF t.do = "each" THEN 2 ELSE IF t.do = "compress" THEN 1 ELSE 0

(* t may be ahead of u in the queue of one poller: its datagram leaves     *)
(* first, unless more tasks follow it than u.                              *)
InTurn(t, u) ==
    /\ Left(t) <= Left(u) => Before(t.id, u.id)
    /\ Left(t) > Left(u) => Before(u.id, t.id)

Turn == {r \in Jobs \X Jobs : InTurn(r[1], r[2])}

Given(s) == {t.id : t \in Range(s)}

LEMMA GivenIs ==
  ASSUME NEW s \in Seq(Jobs)
  PROVE  /\ Given(s) \subseteq Ids
         /\ \A t \in Range(s) : t \in Jobs /\ t.id \in Given(s) /\ t.id \in Ids
                               /\ t.do \in {"each", "compress", "send"}
<1>1. Range(s) \subseteq Jobs
  BY InRange
<1> QED
  BY <1>1 DEF Given, Jobs

LEMMA JobAppended ==
  ASSUME NEW s \in Seq(Jobs), NEW t \in Jobs, Chain(Turn, s),
         \A u \in Range(s) : InTurn(u, t)
  PROVE  /\ Append(s, t) \in Seq(Jobs) /\ Chain(Turn, Append(s, t))
         /\ Range(Append(s, t)) = Range(s) \cup {t}
         /\ Given(Append(s, t)) = Given(s) \cup {t.id}
<1> DEFINE w == <<t>>
           q == Append(s, t)
<1>1. w \in Seq(Jobs) /\ Range(w) = {t} /\ Chain(Turn, w)
  BY DEF Range, Chain
<1>2. q = s \o w
  BY AppendIsConcat
<1> HIDE DEF w, q
<1>3. s \o w \in Seq(Jobs) /\ Range(s \o w) = Range(s) \cup {t}
  BY <1>1, RangeConcat
<1>4. \A u \in Range(s), v \in Range(w) : <<u, v>> \in Turn
  BY <1>1, GivenIs DEF Turn
<1>5. Chain(Turn, s \o w)
  BY <1>1, <1>4, ChainConcat
<1>6. q \in Seq(Jobs) /\ Chain(Turn, q) /\ Range(q) = Range(s) \cup {t}
  BY <1>2, <1>3, <1>5
<1>7. Given(q) = Given(s) \cup {t.id}
  BY <1>6 DEF Given
<1> QED
  BY <1>6, <1>7 DEF q

LEMMA JobTaken ==
  ASSUME NEW s \in Seq(Jobs), s # <<>>, Chain(Turn, s)
  PROVE  /\ Tail(s) \in Seq(Jobs) /\ Chain(Turn, Tail(s)) /\ Head(s) \in Jobs
         /\ Range(s) = Range(Tail(s)) \cup {Head(s)}
         /\ Given(s) = Given(Tail(s)) \cup {Head(s).id}
         /\ \A u \in Range(Tail(s)) : u \in Jobs /\ InTurn(Head(s), u)
         /\ Head(s).id \notin Given(Tail(s))
<1> DEFINE h == Head(s)
           r == Tail(s)
           w == <<h>>
<1>1. h \in Jobs /\ r \in Seq(Jobs)
  BY HeadTailProperties
<1>2. s = w \o r
  BY <1>1
<1>3. w \in Seq(Jobs) /\ Range(w) = {h}
  BY <1>1 DEF Range
<1> HIDE DEF h, r, w
<1>4. Range(s) = Range(r) \cup {h}
  BY <1>1, <1>2, <1>3, RangeConcat
<1>5. Chain(Turn, r) /\ \A u \in Range(r) : <<h, u>> \in Turn
  <2>1. Chain(Turn, w \o r)
    BY <1>2
  <2> QED
    BY <1>1, <1>3, <2>1, ChainConcat
<1>6. \A u \in Range(r) : u \in Jobs /\ InTurn(h, u)
  BY <1>5 DEF Turn
<1>7. Given(s) = Given(r) \cup {h.id}
  BY <1>4 DEF Given
<1>8. h.id \notin Given(r)
  <2> SUFFICES ASSUME NEW u \in Range(r) PROVE h.id # u.id
    BY DEF Given
  <2>1. InTurn(h, u)
    BY <1>6
  <2> QED
    BY <2>1 DEF InTurn, Before, Left
<1> QED
  BY <1>1, <1>4, <1>5, <1>6, <1>7, <1>8 DEF h, r

(* A task that posts the next one to its own poller.                       *)
LEMMA JobAdvanced ==
  ASSUME NEW s \in Seq(Jobs), s # <<>>, Chain(Turn, s),
         NEW t \in Jobs, t.id = Head(s).id, Left(Head(s)) = Left(t) + 1,
         NEW q, q = Append(Tail(s), t)
  PROVE  q \in Seq(Jobs) /\ Chain(Turn, q) /\ Given(q) = Given(s) /\ Range(q) \subseteq Range(s) \cup {t}
<1> DEFINE h == Head(s)
           r == Tail(s)
<1>1. /\ r \in Seq(Jobs) /\ Chain(Turn, r) /\ Range(s) = Range(r) \cup {h}
      /\ Given(s) = Given(r) \cup {h.id} /\ \A u \in Range(r) : InTurn(h, u)
  BY JobTaken
<1>2. t.id = h.id /\ Left(h) = Left(t) + 1 /\ q = Append(r, t)
  OBVIOUS
<1> HIDE DEF h, r
<1>3. ASSUME NEW u \in Range(r) PROVE InTurn(u, t)
  <2>1. Left(u) \in Nat /\ Left(t) \in Nat /\ InTurn(h, u)
    BY <1>1 DEF Left
  <2>2. CASE Left(u) <= Left(t)
    BY <1>2, <2>1, <2>2 DEF InTurn
  <2>3. CASE Left(u) > Left(t)
    BY <1>2, <2>1, <2>3 DEF InTurn
  <2> QED
    BY <2>1, <2>2, <2>3
<1>4. /\ Append(r, t) \in Seq(Jobs) /\ Chain(Turn, Append(r, t))
      /\ Range(Append(r, t)) = Range(r) \cup {t} /\ Given(Append(r, t)) = Given(r) \cup {t.id}
  BY <1>1, <1>3, JobAppended
<1> QED
  BY <1>1, <1>2, <1>4

LEMMA FirstIs ==
  ASSUME NEW n \in Ids
  PROVE  /\ First(n) \in Jobs /\ First(n).id = n /\ First(n).do # "send"
         /\ Left(First(n)) = IF n \in Bcast THEN 2 ELSE 1
BY DEF First, Task, Jobs, Left

(* The first task of a datagram that comes later is in turn.               *)
LEMMA FirstInTurn ==
  ASSUME NEW u \in Jobs, NEW n \in Ids, Before(u.id, n)
  PROVE  InTurn(u, First(n))
<1>1. First(n).id = n /\ Left(First(n)) = IF n \in Bcast THEN 2 ELSE 1
  BY FirstIs
<1>2. Left(u) = 2 => u.id \in Bcast
  BY DEF Left, Jobs
<1>3. Left(u) \in 0..2
  BY DEF Left
<1>4. CASE Left(u) <= Left(First(n))
  BY <1>1, <1>3, <1>4 DEF InTurn
<1>5. CASE Left(u) > Left(First(n))
  <2>1. u.id \in Bcast /\ n \notin Bcast
    BY <1>1, <1>2, <1>3, <1>5
  <2>2. Before(n, u.id)
    BY <2>1 DEF Before
  <2> QED
    BY <1>1, <1>3, <1>5, <2>2 DEF InTurn
<1> QED
  BY <1>1, <1>3, <1>4, <1>5

(* What was read, as tasks.                                                *)
LEMMA JobsRead ==
  ASSUME NEW s \in Seq(Jobs), NEW r \in Seq(In), Chain(Turn, s), Ordered(r),
         AllBefore(Given(s), Range(r)), NEW q, q = s \o Firsts(r)
  PROVE  /\ q \in Seq(Jobs) /\ Chain(Turn, q) /\ Given(q) = Given(s) \cup Range(r)
<1> DEFINE w == Firsts(r)
<1>1. In \subseteq Ids /\ Len(r) \in Nat /\ \A i \in 1..Len(r) : r[i] \in Ids
  BY BoundsAssumption, LenProperties, ElementOfSeq DEF In, Ids
<1>2. \A i \in 1..Len(r) : First(r[i]) \in Jobs /\ First(r[i]).id = r[i]
  BY <1>1, FirstIs
<1>3. /\ w \in Seq(Jobs) /\ Len(w) = Len(r)
      /\ \A i \in 1..Len(w) : w[i] = First(r[i]) /\ w[i].id = r[i] /\ w[i] \in Jobs
  BY <1>1, <1>2 DEF Firsts
<1> HIDE DEF w
<1>4. \A v \in Range(w) : v.id \in Range(r) /\ v.id \in Ids /\ v = First(v.id) /\ v \in Jobs
  <2> SUFFICES ASSUME NEW v \in Range(w)
               PROVE  v.id \in Range(r) /\ v.id \in Ids /\ v = First(v.id) /\ v \in Jobs
    OBVIOUS
  <2>1. PICK i \in 1..Len(w) : w[i] = v
    BY <1>3, InRange
  <2>2. r[i] \in Range(r)
    BY <1>3, InRange
  <2> QED
    BY <1>1, <1>3, <2>1, <2>2
<1>5. Given(w) = Range(r)
  <2>1. ASSUME NEW n \in Range(r) PROVE n \in Given(w)
    <3>1. PICK i \in 1..Len(r) : r[i] = n
      BY InRange
    <3>2. w[i] \in Range(w) /\ w[i].id = n
      BY <1>3, <3>1, InRange
    <3> QED
      BY <3>2 DEF Given
  <2> QED
    BY <1>4, <2>1 DEF Given
<1>6. Chain(Turn, w)
  <2> SUFFICES ASSUME NEW i \in 1..Len(w), NEW j \in 1..Len(w), i < j
               PROVE  <<w[i], w[j]>> \in Turn
    BY DEF Chain
  <2>1. Before(r[i], r[j]) /\ r[j] \in Ids
    BY <1>1, <1>3 DEF Ordered
  <2>2. w[i] \in Jobs /\ w[j] \in Jobs /\ w[j] = First(r[j]) /\ w[i].id = r[i]
    BY <1>3
  <2>3. InTurn(w[i], w[j])
    BY <2>1, <2>2, FirstInTurn
  <2> QED
    BY <2>2, <2>3 DEF Turn
<1>7. \A u \in Range(s), v \in Range(w) : <<u, v>> \in Turn
  <2> SUFFICES ASSUME NEW u \in Range(s), NEW v \in Range(w) PROVE <<u, v>> \in Turn
    OBVIOUS
  <2>1. u \in Jobs /\ v \in Jobs /\ v.id \in Ids /\ v = First(v.id) /\ Before(u.id, v.id)
    BY <1>4, GivenIs DEF AllBefore
  <2>2. InTurn(u, v)
    BY <2>1, FirstInTurn
  <2> QED
    BY <2>1, <2>2 DEF Turn
<1>8. Chain(Turn, s \o w)
  BY <1>3, <1>6, <1>7, ChainConcat
<1>9. s \o w \in Seq(Jobs) /\ Range(s \o w) = Range(s) \cup Range(w)
  BY <1>3, RangeConcat
<1>10. Given(s \o w) = Given(s) \cup Given(w)
  BY <1>9 DEF Given
<1> QED
  BY <1>5, <1>8, <1>9, <1>10 DEF w

-----------------------------------------------------------------------------
(* Where a datagram is: out of the socket or in it (O), dropped (D), in    *)
(* the receive buffer (X), in the tasks of poller p (W[p]).  Those that    *)
(* came are C.                                                             *)
Places(O, D, X, W, C) ==
    /\ \A p, q \in Pollers : p # q => W[p] \cap W[q] = {}
    /\ \A p \in Pollers \ {Home} : W[p] \cap In = {}
    /\ AllBefore(O, X)
    /\ \A p \in Pollers : AllBefore(O, W[p]) /\ AllBefore(W[p], X)
    /\ D \cap O = {} /\ D \cap X = {} /\ \A p \in Pollers : D \cap W[p] = {}
    /\ O \subseteq C /\ D \subseteq C /\ X \subseteq C /\ \A p \in Pollers : W[p] \subseteq C

(* A datagram that came from outside, and one from the TAP interface.      *)
LEMMA PlacesArrive ==
  ASSUME NEW O, NEW D, NEW X, NEW W, NEW C, Places(O, D, X, W, C),
         NEW n \in In, n \notin C, \A c \in C \cap In : c < n
  PROVE  Places(O, D, X \cup {n}, W, C \cup {n})
BY DEF Places, AllBefore, Before

LEMMA PlacesTap ==
  ASSUME NEW O, NEW D, NEW X, NEW W, NEW C, Places(O, D, X, W, C),
         NEW n, n \notin In, n \notin C, NEW p \in Pollers,
         NEW V, V[p] = W[p] \cup {n}, \A q \in Pollers \ {p} : V[q] = W[q]
  PROVE  Places(O, D, X, V, C \cup {n})
<1>1. \A q \in Pollers : V[q] = IF q = p THEN W[p] \cup {n} ELSE W[q]
  OBVIOUS
<1>2. \A q, r \in Pollers : q # r => V[q] \cap V[r] = {}
  BY <1>1 DEF Places
<1>3. \A q \in Pollers \ {Home} : V[q] \cap In = {}
  BY <1>1 DEF Places
<1>4. \A q \in Pollers : AllBefore(O, V[q]) /\ AllBefore(V[q], X)
  BY <1>1 DEF Places, AllBefore, Before
<1>5. \A q \in Pollers : D \cap V[q] = {} /\ V[q] \subseteq C \cup {n}
  BY <1>1 DEF Places
<1> QED
  BY <1>2, <1>3, <1>4, <1>5 DEF Places

(* One that changes its poller.                                            *)
LEMMA PlacesMove ==
  ASSUME NEW O, NEW D, NEW X, NEW W, NEW C, Places(O, D, X, W, C),
         NEW p \in Pollers \ {Home}, NEW n \in W[p],
         NEW V, V[p] = W[p] \ {n}, V[Home] = W[Home] \cup {n},
         \A q \in Pollers \ {p, Home} : V[q] = W[q]
  PROVE  Places(O, D, X, V, C)
<1>1. Home \in Pollers /\ n \notin In
  BY PollersAssumption DEF Places
<1>2. \A q \in Pollers : V[q] = IF q = p THEN W[p] \ {n}
                                ELSE IF q = Home THEN W[Home] \cup {n} ELSE W[q]
  OBVIOUS
<1>3. \A q, r \in Pollers : q # r => V[q] \cap V[r] = {}
  BY <1>1, <1>2 DEF Places
<1>4. \A q \in Pollers \ {Home} : V[q] \cap In = {}
  BY <1>2 DEF Places
<1>5. \A q \in Pollers : AllBefore(O, V[q]) /\ AllBefore(V[q], X)
  BY <1>1, <1>2 DEF Places, AllBefore
<1>6. \A q \in Pollers : D \cap V[q] = {} /\ V[q] \subseteq C
  BY <1>1, <1>2 DEF Places
<1> QED
  BY <1>3, <1>4, <1>5, <1>6 DEF Places

(* One that reaches the socket; it may drop it, and others.                *)
LEMMA PlacesSend ==
  ASSUME NEW O, NEW D, NEW X, NEW W, NEW C, Places(O, D, X, W, C), NEW n \in W[Home],
         NEW V, V[Home] = W[Home] \ {n}, \A q \in Pollers \ {Home} : V[q] = W[q],
         \A a \in V[Home] : Before(n, a),
         NEW P, NEW E, P \cup E \subseteq O \cup {n} \cup D, P \cap E = {},
         P \subseteq O \cup {n}
  PROVE  Places(P, E, X, V, C)
<1>1. Home \in Pollers /\ n \in C
  BY PollersAssumption DEF Places
<1>2. \A q \in Pollers : V[q] = IF q = Home THEN W[Home] \ {n} ELSE W[q]
  OBVIOUS
<1>3. \A q, r \in Pollers : q # r => V[q] \cap V[r] = {}
  BY <1>2 DEF Places
<1>4. \A q \in Pollers \ {Home} : V[q] \cap In = {}
  BY <1>2 DEF Places
<1>5. AllBefore(P, X)
  BY <1>1 DEF Places, AllBefore
<1>6. \A q \in Pollers \ {Home} : \A a \in V[q] : Before(n, a)
  BY <1>1, <1>2 DEF Places, Before
<1>7. \A q \in Pollers : AllBefore(P, V[q]) /\ AllBefore(V[q], X)
  BY <1>2, <1>6 DEF Places, AllBefore
<1>8. O \cap X = {} /\ n \notin X /\ \A q \in Pollers : O \cap W[q] = {}
  BY <1>1 DEF Places, AllBefore, Before
<1>9. E \cap X = {}
  BY <1>8 DEF Places
<1>10. \A q \in Pollers : E \cap V[q] = {} /\ V[q] \subseteq C
  BY <1>1, <1>2, <1>8 DEF Places
<1> QED
  BY <1>1, <1>3, <1>4, <1>5, <1>7, <1>9, <1>10 DEF Places

(* Of what was received (X), the poller of the socket is handed N, Y is    *)
(* left, and the rest is lost.                                             *)
LEMMA PlacesRead ==
  ASSUME NEW O, NEW D, NEW X, NEW W, NEW C, Places(O, D, X, W, C),
         NEW N, NEW Y, N \subseteq X, Y \subseteq X, AllBefore(N, Y), X \subseteq In,
         NEW V, V[Home] = W[Home] \cup N, \A q \in Pollers \ {Home} : V[q] = W[q],
         NEW P, NEW E, P \cup E \subseteq O \cup D, P \cap E = {}, P \subseteq O
  PROVE  Places(P, E, Y, V, C)
<1>1. Home \in Pollers
  BY PollersAssumption
<1>2. \A q \in Pollers : V[q] = IF q = Home THEN W[Home] \cup N ELSE W[q]
  OBVIOUS
<1>3. \A q, r \in Pollers : q # r => V[q] \cap V[r] = {}
  BY <1>1, <1>2 DEF Places, AllBefore, Before
<1>4. \A q \in Pollers \ {Home} : V[q] \cap In = {}
  BY <1>2 DEF Places
<1>5. AllBefore(P, Y) /\ \A q \in Pollers : AllBefore(P, V[q]) /\ AllBefore(V[q], Y)
  BY <1>1, <1>2 DEF Places, AllBefore
<1>6. O \cap X = {} /\ \A q \in Pollers : O \cap W[q] = {}
  BY DEF Places, AllBefore, Before
<1>7. E \cap Y = {} /\ \A q \in Pollers : E \cap V[q] = {} /\ V[q] \subseteq C
  BY <1>1, <1>2, <1>6 DEF Places
<1> QED
  BY <1>3, <1>4, <1>5, <1>7 DEF Places

-----------------------------------------------------------------------------
(* The inductive invariant.                                                *)
came == (1..arrived) \cup (MaxIn + 1..MaxIn + tapped)
given == [p \in Pollers |-> Given(work[p])]

Counted == arrived \in 0..MaxIn /\ tapped \in 0..MaxTap

Queues ==
    /\ rx \in Seq(In) /\ Ordered(rx)
    /\ work \in [Pollers -> Seq(Jobs)]
    /\ \A p \in Pollers : Chain(Turn, work[p])
    /\ \A p \in Pollers \ {Home} : \A t \in Range(work[p]) : t.do # "send"

Inv ==
    /\ Counted /\ SocketTyped /\ NothingWaits /\ Queues /\ Ordered(out)
    /\ Places(Range(out), dropped, Range(rx), given, came)

LEMMA InIds == In \subseteq Ids /\ Seq(In) \subseteq Seq(Ids) /\ Home \in Pollers
<1>1. In \subseteq Ids
  BY BoundsAssumption DEF In, Ids
<1> QED
  BY <1>1, PollersAssumption

LEMMA OutTyped ==
  ASSUME SocketTyped
  PROVE  /\ out \in Seq(Ids)
         /\ Range(out) = Range(sent) \cup Range(sending) \cup Range(waiting)
<1> DEFINE a == sent \o sending
<1>1. a \in Seq(Ids) /\ Range(a) = Range(sent) \cup Range(sending) /\ waiting \in Seq(Ids)
  BY RangeConcat DEF SocketTyped
<1> HIDE DEF a
<1>2. a \o waiting \in Seq(Ids) /\ Range(a \o waiting) = Range(a) \cup Range(waiting)
  BY <1>1, RangeConcat
<1> QED
  BY <1>1, <1>2 DEF out, a

(* The socket is left alone, but for the kernel.                           *)
LEMMA SocketKept ==
  ASSUME Inv, UNCHANGED <<waiting, sending, sendable, sent, dropped>>, kern' \in 0..Room
  PROVE  SocketTyped' /\ NothingWaits' /\ out' = out /\ dropped' = dropped /\ Ordered(out')
<1>1. out' = out
  BY DEF out
<1> QED
  BY <1>1 DEF Inv, SocketTyped, NothingWaits

LEMMA ArriveStep ==
  ASSUME Inv, Arrive
  PROVE  Inv'
<1> DEFINE n == arrived'
           w == <<n>>
<1>1. n = arrived + 1 /\ arrived \in Nat /\ MaxIn \in Nat /\ tapped \in Nat /\ arrived < MaxIn
  BY BoundsAssumption DEF Inv, Counted, Arrive
<1>2. /\ rx' = Append(rx, n) /\ tapped' = tapped /\ work' = work /\ kern' = kern
      /\ UNCHANGED <<waiting, sending, sendable, sent, dropped>>
  BY DEF Arrive, socket
<1>3. n \in In /\ n \notin came /\ \A c \in came \cap In : c < n
  BY <1>1 DEF In, came
<1>4. came' = came \cup {n}
  BY <1>1, <1>2 DEF came
<1>5. SocketTyped' /\ NothingWaits' /\ out' = out /\ dropped' = dropped /\ Ordered(out')
  BY <1>2, SocketKept DEF Inv, SocketTyped
<1>6. Counted'
  BY <1>1, <1>2 DEF Inv, Counted
<1>7. rx \in Seq(In) /\ Ordered(rx) /\ Range(rx) \subseteq came /\ Range(rx) \subseteq In
  BY InRange DEF Inv, Queues, Places
<1> HIDE DEF n
<1>8. rx' \in Seq(In) /\ Range(rx') = Range(rx) \cup {n} /\ Ordered(rx')
  <2>1. w \in Seq(In) /\ Range(w) = {n} /\ Ordered(w)
    BY <1>3, One
  <2>2. rx' = rx \o w
    BY <1>2, <1>3, <1>7, AppendIsConcat
  <2> HIDE DEF w
  <2>3. rx \o w \in Seq(In) /\ Range(rx \o w) = Range(rx) \cup {n}
    BY <1>7, <2>1, RangeConcat
  <2>4. AllBefore(Range(rx), Range(w))
    BY <1>3, <1>7, <2>1 DEF AllBefore, Before
  <2>5. rx \in Seq(Ids) /\ w \in Seq(Ids)
    BY <1>7, <2>1, InIds
  <2>6. Ordered(rx \o w)
    BY <1>7, <2>1, <2>4, <2>5, OrderedConcat
  <2> QED
    BY <2>2, <2>3, <2>6
<1>9. Queues'
  BY <1>2, <1>8 DEF Inv, Queues
<1>10. given' = given
  BY <1>2 DEF given
<1>11. Places(Range(out), dropped, Range(rx) \cup {n}, given, came \cup {n})
  BY <1>3, PlacesArrive DEF Inv
<1> QED
  BY <1>4, <1>5, <1>6, <1>8, <1>9, <1>10, <1>11 DEF Inv

LEMMA TapStep ==
  ASSUME Inv, NEW p \in Pollers, TapSend(p)
  PROVE  Inv'
<1> DEFINE n == MaxIn + tapped'
           t == First(n)
<1>1. /\ tapped' = tapped + 1 /\ arrived \in 0..MaxIn /\ MaxIn \in Nat /\ MaxTap \in Nat
      /\ tapped \in Nat /\ tapped < MaxTap
  BY BoundsAssumption DEF Inv, Counted, TapSend
<1>2. /\ work' = [work EXCEPT ![p] = Append(work[p], t)] /\ arrived' = arrived
      /\ rx' = rx /\ kern' = kern
      /\ UNCHANGED <<waiting, sending, sendable, sent, dropped>>
  BY DEF TapSend, inbox, socket
<1>3. n \in Ids /\ n \notin In /\ n \notin came /\ came' = came \cup {n}
  BY <1>1, <1>2 DEF In, Ids, came
<1>4. SocketTyped' /\ NothingWaits' /\ out' = out /\ dropped' = dropped /\ Ordered(out')
  BY <1>2, SocketKept DEF Inv, SocketTyped
<1>5. Counted'
  BY <1>1, <1>2 DEF Inv, Counted
<1>6. /\ work \in [Pollers -> Seq(Jobs)] /\ work[p] \in Seq(Jobs) /\ Chain(Turn, work[p])
  BY DEF Inv, Queues
<1>7. t \in Jobs /\ t.do # "send" /\ t.id = n
  BY <1>3, FirstIs
<1>8. n \notin Given(work[p])
  BY <1>3 DEF Inv, Places, given
<1> HIDE DEF t, n
<1>9. \A u \in Range(work[p]) : InTurn(u, t)
  <2> SUFFICES ASSUME NEW u \in Range(work[p]) PROVE InTurn(u, t)
    OBVIOUS
  <2>1. u.id # n
    BY <1>8 DEF Given
  <2>2. Before(u.id, t.id) /\ Before(t.id, u.id)
    BY <1>3, <1>7, <2>1 DEF Before
  <2> QED
    BY <2>2 DEF InTurn
<1>10. /\ Append(work[p], t) \in Seq(Jobs) /\ Chain(Turn, Append(work[p], t))
       /\ Range(Append(work[p], t)) = Range(work[p]) \cup {t}
       /\ Given(Append(work[p], t)) = Given(work[p]) \cup {n}
  BY <1>6, <1>7, <1>9, JobAppended
<1>11. work'[p] = Append(work[p], t) /\ \A q \in Pollers \ {p} : work'[q] = work[q]
  BY <1>2, <1>6
<1>12. work' \in [Pollers -> Seq(Jobs)]
  BY <1>2, <1>6, <1>10
<1>13. \A q \in Pollers : Chain(Turn, work'[q])
  BY <1>10, <1>11 DEF Inv, Queues
<1>14. \A q \in Pollers \ {Home} : \A u \in Range(work'[q]) : u.do # "send"
  BY <1>7, <1>10, <1>11 DEF Inv, Queues
<1>15. Queues'
  BY <1>2, <1>12, <1>13, <1>14 DEF Inv, Queues
<1>16. given'[p] = given[p] \cup {n} /\ \A q \in Pollers \ {p} : given'[q] = given[q]
  BY <1>10, <1>11 DEF given
<1> DEFINE V == given'
<1>17. V[p] = given[p] \cup {n} /\ \A q \in Pollers \ {p} : V[q] = given[q]
  BY <1>16
<1> HIDE DEF V
<1>18. Places(Range(out), dropped, Range(rx), V, came \cup {n})
  BY <1>3, <1>17, PlacesTap DEF Inv
<1> QED
  BY <1>2, <1>3, <1>4, <1>5, <1>15, <1>18 DEF Inv, V

LEMMA ForEachStep ==
  ASSUME Inv, NEW p \in Pollers, ForEach(p)
  PROVE  Inv'
<1> DEFINE s == work[p]
           h == Head(s)
           t == Task("compress", h.id)
           w == Append(Tail(s), t)
<1>1. /\ work \in [Pollers -> Seq(Jobs)] /\ s \in Seq(Jobs) /\ Chain(Turn, s) /\ s # <<>>
      /\ h.do = "each"
  BY DEF Inv, Queues, ForEach
<1>2. /\ work' = [work EXCEPT ![p] = w]
      /\ arrived' = arrived /\ tapped' = tapped /\ rx' = rx /\ kern' = kern
      /\ UNCHANGED <<waiting, sending, sendable, sent, dropped>>
  BY DEF ForEach, environment, inbox, socket
<1>3. SocketTyped' /\ NothingWaits' /\ out' = out /\ dropped' = dropped /\ Ordered(out')
  BY <1>2, SocketKept DEF Inv, SocketTyped
<1>4. Counted' /\ came' = came
  BY <1>2 DEF Inv, Counted, came
<1>5. h \in Jobs
  BY <1>1, JobTaken
<1>6. t \in Jobs /\ t.do = "compress" /\ t.id = h.id
  BY <1>5 DEF Task, Jobs
<1>7. Left(h) = Left(t) + 1
  BY <1>1, <1>6 DEF Left
<1> HIDE DEF t
<1>8. /\ w \in Seq(Jobs) /\ Chain(Turn, w) /\ Given(w) = Given(s)
      /\ Range(w) \subseteq Range(s) \cup {t}
  BY <1>1, <1>6, <1>7, JobAdvanced
<1> HIDE DEF w, h
<1>9. /\ work'[p] = w /\ \A q \in Pollers \ {p} : work'[q] = work[q]
      /\ work' \in [Pollers -> Seq(Jobs)]
  BY <1>1, <1>2, <1>8
<1>10. \A q \in Pollers : Chain(Turn, work'[q])
  BY <1>8, <1>9 DEF Inv, Queues
<1>11. \A q \in Pollers \ {Home} : \A u \in Range(work'[q]) : u.do # "send"
  BY <1>6, <1>8, <1>9 DEF Inv, Queues
<1>12. Queues'
  BY <1>2, <1>9, <1>10, <1>11 DEF Inv, Queues
<1>13. given' = given
  <2>1. \A q \in Pollers : Given(work'[q]) = Given(work[q])
    BY <1>8, <1>9
  <2> QED
    BY <2>1 DEF given
<1> QED
  BY <1>2, <1>3, <1>4, <1>12, <1>13 DEF Inv

LEMMA CompressStep ==
  ASSUME Inv, NEW p \in Pollers, Compress(p)
  PROVE  Inv'
<1> DEFINE s == work[p]
           h == Head(s)
           n == h.id
           t == Task("send", n)
<1>1. /\ work \in [Pollers -> Seq(Jobs)] /\ s \in Seq(Jobs) /\ Chain(Turn, s) /\ s # <<>>
      /\ h.do = "compress" /\ Home \in Pollers
  BY PollersAssumption DEF Inv, Queues, Compress
<1>2. /\ work' = [[work EXCEPT ![p] = Tail(s)] EXCEPT
                     ![Home] = Append([work EXCEPT ![p] = Tail(s)][Home], t)]
      /\ arrived' = arrived /\ tapped' = tapped /\ rx' = rx /\ kern' = kern
      /\ UNCHANGED <<waiting, sending, sendable, sent, dropped>>
  BY <1>1 DEF Compress, environment, inbox, socket
<1>3. SocketTyped' /\ NothingWaits' /\ out' = out /\ dropped' = dropped /\ Ordered(out')
  BY <1>2, SocketKept DEF Inv, SocketTyped
<1>4. Counted' /\ came' = came
  BY <1>2 DEF Inv, Counted, came
<1>5. /\ Tail(s) \in Seq(Jobs) /\ Chain(Turn, Tail(s)) /\ h \in Jobs
      /\ Range(s) = Range(Tail(s)) \cup {h} /\ Given(s) = Given(Tail(s)) \cup {n}
      /\ \A u \in Range(Tail(s)) : u \in Jobs /\ InTurn(h, u)
      /\ n \notin Given(Tail(s))
  BY <1>1, JobTaken
<1>6. n \in Ids /\ t \in Jobs /\ t.do = "send" /\ t.id = n
  BY <1>5 DEF Task, Jobs
<1>7. Places(Range(out), dropped, Range(rx), given, came)
  BY DEF Inv
<1>8. given[p] = Given(s) /\ \A q \in Pollers : given[q] = Given(work[q])
  BY DEF given
<1> DEFINE V == given'
<1>9. \A q \in Pollers : V[q] = Given(work'[q])
  BY DEF given
<1> HIDE DEF t, n, h, V
<1>10. CASE p = Home
  <2>1. /\ work'[p] = Append(Tail(s), t) /\ \A q \in Pollers \ {Home} : work'[q] = work[q]
        /\ work' \in [Pollers -> Seq(Jobs)]
    BY <1>1, <1>2, <1>5, <1>6, <1>10, AppendProperties
  <2>2. Left(h) = Left(t) + 1
    BY <1>1, <1>6 DEF Left
  <2>3. Chain(Turn, Append(Tail(s), t)) /\ Given(Append(Tail(s), t)) = Given(s)
    <3>1. Left(Head(s)) = Left(t) + 1 /\ t.id = Head(s).id
      BY <1>6, <2>2 DEF h, n
    <3> QED
      BY <1>1, <1>6, <3>1, JobAdvanced
  <2>4. \A q \in Pollers : Chain(Turn, work'[q])
    BY <1>10, <2>1, <2>3 DEF Inv, Queues
  <2>5. \A q \in Pollers \ {Home} : \A u \in Range(work'[q]) : u.do # "send"
    BY <2>1 DEF Inv, Queues
  <2>6. Queues'
    BY <1>2, <2>1, <2>4, <2>5 DEF Inv, Queues
  <2>7. \A q \in Pollers : V[q] = given[q]
    BY <1>5, <1>8, <1>9, <1>10, <2>1, <2>3
  <2>8. Places(Range(out), dropped, Range(rx), V, came)
    BY <1>7, <2>7 DEF Places
  <2> QED
    BY <1>2, <1>3, <1>4, <2>6, <2>8 DEF Inv, V
<1>11. CASE p # Home
  <2> DEFINE b == work[Home]
  <2>1. b \in Seq(Jobs) /\ Chain(Turn, b)
    BY <1>1 DEF Inv, Queues
  <2>2. /\ work'[p] = Tail(s) /\ work'[Home] = Append(b, t)
        /\ \A q \in Pollers \ {p, Home} : work'[q] = work[q]
        /\ work' \in [Pollers -> Seq(Jobs)]
    BY <1>1, <1>2, <1>5, <1>6, <1>11, <2>1, AppendProperties
  <2>3. n \notin In /\ n \in Given(s) /\ n \notin Given(b)
    BY <1>1, <1>5, <1>7, <1>8, <1>11 DEF Places
  <2> HIDE DEF b
  <2>4. \A u \in Range(b) : InTurn(u, t)
    <3> SUFFICES ASSUME NEW u \in Range(b) PROVE InTurn(u, t)
      OBVIOUS
    <3>1. u.id # n
      BY <2>3 DEF Given
    <3>2. Before(u.id, t.id) /\ Before(t.id, u.id)
      BY <1>6, <2>3, <3>1 DEF Before
    <3> QED
      BY <3>2 DEF InTurn
  <2>5. /\ Chain(Turn, Append(b, t)) /\ Range(Append(b, t)) = Range(b) \cup {t}
        /\ Given(Append(b, t)) = Given(b) \cup {t.id}
    BY <1>6, <2>1, <2>4, JobAppended
  <2>6. \A q \in Pollers : Chain(Turn, work'[q])
    BY <1>5, <2>2, <2>5 DEF Inv, Queues
  <2>7. \A q \in Pollers \ {Home} : \A u \in Range(work'[q]) : u.do # "send"
    BY <1>5, <1>11, <2>2 DEF Inv, Queues
  <2>8. Queues'
    BY <1>2, <2>2, <2>6, <2>7 DEF Inv, Queues
  <2>9. /\ V[p] = given[p] \ {n} /\ V[Home] = given[Home] \cup {n} /\ n \in given[p]
        /\ \A q \in Pollers \ {p, Home} : V[q] = given[q]
    <3>1. V[p] = Given(Tail(s)) /\ V[Home] = Given(b) \cup {n} /\ given[Home] = Given(b)
      BY <1>1, <1>6, <1>8, <1>9, <2>2, <2>5 DEF b
    <3>2. \A q \in Pollers \ {p, Home} : V[q] = given[q]
      BY <1>8, <1>9, <2>2
    <3>3. n \in given[p] /\ Given(Tail(s)) = given[p] \ {n}
      BY <1>5, <1>8
    <3> QED
      BY <3>1, <3>2, <3>3
  <2>10. Places(Range(out), dropped, Range(rx), V, came)
    BY <1>7, <1>11, <2>9, PlacesMove
  <2> QED
    BY <1>2, <1>3, <1>4, <2>8, <2>10 DEF Inv, V
<1> QED
  BY <1>10, <1>11

LEMMA SendStep ==
  ASSUME Inv, Send
  PROVE  Inv'
<1> DEFINE s == work[Home]
           h == Head(s)
           n == h.id
           q == out \o <<n>>
<1>1. /\ work \in [Pollers -> Seq(Jobs)] /\ s \in Seq(Jobs) /\ Chain(Turn, s) /\ s # <<>>
      /\ h.do = "send" /\ Home \in Pollers
  BY PollersAssumption DEF Inv, Queues, Send
<1>2. /\ work' = [work EXCEPT ![Home] = Tail(s)]
      /\ arrived' = arrived /\ tapped' = tapped /\ rx' = rx
      /\ \/ SendNow(Append(waiting, n))
         \/ SendLater(Append(waiting, n)) /\ sent' = sent
         \/ GiveUp(Append(waiting, n))
  BY DEF Send, environment, inbox, SendLater
<1>3. /\ Tail(s) \in Seq(Jobs) /\ Chain(Turn, Tail(s)) /\ h \in Jobs
      /\ Range(s) = Range(Tail(s)) \cup {h} /\ Given(s) = Given(Tail(s)) \cup {n}
      /\ \A u \in Range(Tail(s)) : u \in Jobs /\ InTurn(h, u)
      /\ n \notin Given(Tail(s))
  BY <1>1, JobTaken
<1>4. n \in Ids
  BY <1>3 DEF Jobs
<1>5. /\ Places(Range(out), dropped, Range(rx), given, came) /\ SocketTyped /\ NothingWaits
      /\ Ordered(out)
  BY DEF Inv
<1>6. given[Home] = Given(s) /\ \A r \in Pollers : given[r] = Given(work[r])
  BY <1>1 DEF given
<1> DEFINE V == given'
<1>7. \A r \in Pollers : V[r] = Given(work'[r])
  BY DEF given
<1>8. /\ work'[Home] = Tail(s) /\ \A r \in Pollers \ {Home} : work'[r] = work[r]
      /\ work' \in [Pollers -> Seq(Jobs)]
  BY <1>1, <1>2, <1>3
<1>9. Counted' /\ came' = came
  BY <1>2 DEF Inv, Counted, came
<1> HIDE DEF n, h, V
<1>10. n \in given[Home] /\ V[Home] = given[Home] \ {n}
       /\ \A r \in Pollers \ {Home} : V[r] = given[r]
  <2>1. V[Home] = Given(Tail(s)) /\ \A r \in Pollers \ {Home} : V[r] = given[r]
    BY <1>1, <1>6, <1>7, <1>8
  <2>2. n \in given[Home] /\ Given(Tail(s)) = given[Home] \ {n}
    BY <1>3, <1>6
  <2> QED
    BY <2>1, <2>2
<1>11. \A a \in V[Home] : Before(n, a)
  <2> SUFFICES ASSUME NEW a \in Given(Tail(s)) PROVE Before(n, a)
    BY <1>1, <1>7, <1>8
  <2>1. PICK u \in Range(Tail(s)) : u.id = a
    BY DEF Given
  <2>2. InTurn(h, u) /\ Left(h) = 0 /\ Left(u) \in Nat
    BY <1>1, <1>3 DEF Left
  <2> QED
    BY <2>1, <2>2 DEF InTurn, n
<1>12. AllBefore(Range(out), {n}) /\ (Range(out) \cup {n}) \cap dropped = {}
  BY <1>1, <1>5, <1>10 DEF Places, AllBefore
<1>13. q \in Seq(Ids) /\ Range(q) = Range(out) \cup {n} /\ Ordered(q)
  <2> DEFINE u == <<n>>
  <2>1. u \in Seq(Ids) /\ Range(u) = {n} /\ Ordered(u) /\ out \in Seq(Ids)
    BY <1>4, <1>5, One, OutTyped
  <2> HIDE DEF u
  <2>2. out \o u \in Seq(Ids) /\ Range(out \o u) = Range(out) \cup {n}
    BY <2>1, RangeConcat
  <2>3. Ordered(out) /\ AllBefore(Range(out), Range(u))
    BY <1>5, <1>12, <2>1
  <2>4. Ordered(out \o u)
    BY <2>1, <2>3, OrderedConcat
  <2> QED
    BY <2>2, <2>4 DEF u
<1>14. Flow(q)
  BY <1>2, <1>4, <1>5, <1>12, <1>13, SendNowFlow, SendLaterFlow, GiveUpFlow
<1> HIDE DEF q
<1>15. /\ SocketTyped' /\ NothingWaits' /\ Ordered(out')
       /\ Range(out') \subseteq Range(out) \cup {n}
       /\ dropped' \subseteq Range(out) \cup {n} \cup dropped
       /\ Range(out') \cap dropped' = {}
  BY <1>13, <1>14 DEF Flow
<1>16. \A r \in Pollers : Chain(Turn, work'[r])
  BY <1>3, <1>8 DEF Inv, Queues
<1>17. \A r \in Pollers \ {Home} : \A u \in Range(work'[r]) : u.do # "send"
  BY <1>8 DEF Inv, Queues
<1>18. Queues'
  BY <1>2, <1>8, <1>16, <1>17 DEF Inv, Queues
<1> DEFINE P == Range(out')
           E == dropped'
<1>19. P \cup E \subseteq Range(out) \cup {n} \cup dropped /\ P \cap E = {}
       /\ P \subseteq Range(out) \cup {n}
  BY <1>15
<1> HIDE DEF P, E
<1>20. Places(P, E, Range(rx), V, came)
  BY <1>5, <1>10, <1>11, <1>19, PlacesSend
<1> QED
  BY <1>2, <1>9, <1>15, <1>18, <1>20 DEF Inv, V, P, E

LEMMA EventStep ==
  ASSUME Inv, SocketEvent
  PROVE  Inv'
<1> DEFINE s == work[Home]
<1>1. /\ work \in [Pollers -> Seq(Jobs)] /\ s \in Seq(Jobs) /\ Chain(Turn, s) /\ Home \in Pollers
      /\ rx \in Seq(In) /\ Ordered(rx)
  BY PollersAssumption DEF Inv, Queues
<1>20. PICK k \in 0..Len(rx) : \E j \in 0..k :
         /\ work' = [work EXCEPT ![Home] = s \o Firsts(SubSeq(rx, 1, j))]
         /\ rx' = SubSeq(rx, k + 1, Len(rx))
  BY DEF SocketEvent, Read
<1>0. PICK j \in 0..k :
        /\ work' = [work EXCEPT ![Home] = s \o Firsts(SubSeq(rx, 1, j))]
        /\ rx' = SubSeq(rx, k + 1, Len(rx))
  BY <1>20
<1> DEFINE a == SubSeq(rx, 1, j)
           b == SubSeq(rx, k + 1, Len(rx))
           w == s \o Firsts(a)
<1>2. /\ work' = [work EXCEPT ![Home] = w] /\ rx' = b
      /\ arrived' = arrived /\ tapped' = tapped
  BY <1>0 DEF SocketEvent, environment
<1>21. /\ a \in Seq(In) /\ b \in Seq(In) /\ Ordered(a) /\ Ordered(b)
       /\ Range(a) \subseteq Range(rx) /\ Range(b) \subseteq Range(rx)
       /\ AllBefore(Range(a), Range(b))
  BY <1>1, InIds, OrderedParts
<1> HIDE DEF a, b
<1>3. Write \/ UNCHANGED <<kern, waiting, sending, sendable, sent, dropped>>
  BY DEF SocketEvent, socket
<1>4. /\ Places(Range(out), dropped, Range(rx), given, came) /\ SocketTyped /\ NothingWaits
      /\ Ordered(out)
  BY DEF Inv
<1>5. given[Home] = Given(s) /\ \A r \in Pollers : given[r] = Given(work[r])
  BY <1>1 DEF given
<1> DEFINE V == given'
<1>6. \A r \in Pollers : V[r] = Given(work'[r])
  BY DEF given
<1>7. w \in Seq(Jobs) /\ Chain(Turn, w) /\ Given(w) = Given(s) \cup Range(a)
  <2>1. AllBefore(Given(s), Range(a))
    BY <1>1, <1>4, <1>5, <1>21 DEF Places, AllBefore
  <2> HIDE DEF s
  <2> QED
    BY <1>1, <1>21, <2>1, JobsRead
<1> HIDE DEF w, V
<1>8. /\ work'[Home] = w /\ \A r \in Pollers \ {Home} : work'[r] = work[r]
      /\ work' \in [Pollers -> Seq(Jobs)]
  BY <1>1, <1>2, <1>7
<1>9. Counted' /\ came' = came
  BY <1>2 DEF Inv, Counted, came
<1>10. Range(out) \cap dropped = {} /\ out \in Seq(Ids)
  BY <1>4, OutTyped DEF Places
<1>11. Flow(out)
  <2>1. CASE Write
    BY <1>4, <1>10, <2>1, WriteFlow
  <2>2. CASE UNCHANGED <<kern, waiting, sending, sendable, sent, dropped>>
    <3>1. SocketTyped' /\ NothingWaits' /\ out' = out /\ dropped' = dropped
      BY <1>4, <2>2, SocketKept DEF SocketTyped
    <3> QED
      BY <1>4, <1>10, <3>1, FlowAll
  <2> QED
    BY <1>3, <2>1, <2>2
<1>12. /\ SocketTyped' /\ NothingWaits' /\ Ordered(out')
       /\ Range(out') \subseteq Range(out) /\ dropped' \subseteq Range(out) \cup dropped
       /\ Range(out') \cap dropped' = {}
  BY <1>11 DEF Flow
<1>13. \A r \in Pollers : Chain(Turn, work'[r])
  BY <1>7, <1>8 DEF Inv, Queues
<1>14. \A r \in Pollers \ {Home} : \A u \in Range(work'[r]) : u.do # "send"
  BY <1>8 DEF Inv, Queues
<1>15. Queues'
  BY <1>2, <1>8, <1>13, <1>14, <1>21 DEF Queues
<1>16. V[Home] = given[Home] \cup Range(a) /\ \A r \in Pollers \ {Home} : V[r] = given[r]
  BY <1>1, <1>5, <1>6, <1>7, <1>8
<1> DEFINE P == Range(out')
           E == dropped'
<1>17. P \cup E \subseteq Range(out) \cup dropped /\ P \cap E = {} /\ P \subseteq Range(out)
  BY <1>12
<1> HIDE DEF P, E
<1>18. Range(rx) \subseteq In
  BY <1>1, InRange
<1>19. Places(P, E, Range(b), V, came)
  BY <1>4, <1>16, <1>17, <1>18, <1>21, PlacesRead
<1> QED
  BY <1>2, <1>9, <1>12, <1>15, <1>19 DEF Inv, V, P, E

THEOREM Invariance == Spec => []Inv
<1>1. Init => Inv
  <2> SUFFICES ASSUME Init PROVE Inv
    OBVIOUS
  <2>1. /\ <<>> \in Seq(Ids) /\ <<>> \in Seq(In) /\ <<>> \in Seq(Jobs)
        /\ Range(<<>>) = {} /\ Ordered(<<>>) /\ Len(<<>>) = 0
    BY None, EmptySeq
  <2>2. /\ sent = <<>> /\ sending = <<>> /\ waiting = <<>> /\ rx = <<>> /\ dropped = {}
        /\ kern = 0 /\ arrived = 0 /\ tapped = 0 /\ \A p \in Pollers : work[p] = <<>>
        /\ work \in [Pollers -> Seq(Jobs)]
    BY <2>1 DEF Init
  <2>3. out = <<>>
    <3>1. (<<>> \o <<>>) \o <<>> = <<>>
      BY <2>1, ConcatEmptySeq
    <3> QED
      BY <2>2, <3>1 DEF out
  <2>4. Counted /\ SocketTyped /\ NothingWaits
    BY <2>1, <2>2, BoundsAssumption DEF Counted, SocketTyped, NothingWaits
  <2>5. Queues
    BY <2>1, <2>2 DEF Queues, Chain
  <2>6. \A p \in Pollers : given[p] = {}
    BY <2>1, <2>2 DEF given, Given
  <2>7. Places(Range(out), dropped, Range(rx), given, came)
    BY <2>1, <2>2, <2>3, <2>6 DEF Places, AllBefore
  <2> QED
    BY <2>1, <2>3, <2>4, <2>5, <2>7 DEF Inv
<1>2. Inv /\ [Next]_vars => Inv'
  <2> SUFFICES ASSUME Inv, [Next]_vars PROVE Inv'
    OBVIOUS
  <2>1. ASSUME UNCHANGED <<environment, inbox, work, waiting, sending, sendable, sent, dropped>>,
               kern' \in 0..Room
        PROVE  Inv'
    <3>1. SocketTyped' /\ NothingWaits' /\ out' = out /\ dropped' = dropped /\ Ordered(out')
      BY <2>1, SocketKept
    <3>2. /\ rx' = rx /\ work' = work /\ arrived' = arrived /\ tapped' = tapped
          /\ given' = given /\ came' = came
      BY <2>1 DEF environment, inbox, given, came
    <3> QED
      BY <3>1, <3>2 DEF Inv, Counted, Queues
  <2>2. CASE Arrive
    BY <2>2, ArriveStep
  <2>3. CASE Transmit
    <3>1. kern' \in 0..Room
      BY <2>3, BoundsAssumption DEF Transmit, Inv, SocketTyped
    <3> QED
      BY <2>1, <2>3, <3>1 DEF Transmit, socket
  <2>4. CASE Elapse
    <3>1. kern' \in 0..Room
      BY <2>4 DEF Elapse, Inv, SocketTyped
    <3> QED
      BY <2>1, <2>4, <3>1 DEF Elapse
  <2>5. CASE \E p \in Pollers : TapSend(p)
    BY <2>5, TapStep
  <2>6. CASE \E p \in Pollers : Poll(p)
    BY <2>6, ForEachStep, CompressStep, SendStep, EventStep DEF Poll
  <2>7. CASE UNCHANGED vars
    <3>1. kern' \in 0..Room
      BY <2>7 DEF vars, Inv, SocketTyped
    <3> QED
      BY <2>1, <2>7, <3>1 DEF vars, socket
  <2> QED
    BY <2>2, <2>3, <2>4, <2>5, <2>6, <2>7 DEF Next
<1> QED
  BY <1>1, <1>2, PTL DEF Spec

(* However many datagrams arrive, and whatever the TAP interface adds on   *)
(* other pollers, what is relayed leaves in the order in which it came,    *)
(* but for a copy of a broadcast that a later frame for one host gets      *)
(* ahead of.                                                               *)
THEOREM RelayedInOrder == Spec => []RelayInOrder
<1>1. Inv => RelayInOrder
  <2> SUFFICES ASSUME Inv PROVE RelayInOrder
    OBVIOUS
  <2>1. Ordered(sent)
    BY ThreeParts DEF Inv, SocketTyped, out
  <2> QED
    BY <2>1 DEF RelayInOrder, Ordered, Before
<1> QED
  BY <1>1, Invariance, PTL

LEMMA OrderedCounts ==
  ASSUME NEW s \in Seq(Ids), Ordered(s)
  PROVE  Len(s) = Cardinality(Range(s))
<1>1. Len(s) \in Nat /\ s \in [1..Len(s) -> Ids] /\ DOMAIN s = 1..Len(s)
  BY LenProperties
<1>2. IsFiniteSet(1..Len(s)) /\ Cardinality(1..Len(s)) = Len(s)
  BY <1>1, FS_Interval
<1>3. \A i, j \in 1..Len(s) : s[i] = s[j] => i = j
  <2> SUFFICES ASSUME NEW i \in 1..Len(s), NEW j \in 1..Len(s), i # j PROVE s[i] # s[j]
    OBVIOUS
  <2>1. i < j \/ j < i
    BY <1>1
  <2> QED
    BY <2>1 DEF Ordered, Before
<1>4. s \in Bijection(1..Len(s), Range(s))
  <2>1. /\ s \in [1..Len(s) -> Range(s)]
        /\ \A x \in Range(s) : \E i \in 1..Len(s) : s[i] = x
    BY <1>1, InRange DEF Range
  <2> QED
    BY <1>3, <2>1 DEF Bijection, Injection, Surjection, IsInjective
<1>5. ExistsBijection(1..Len(s), Range(s))
  BY <1>4 DEF ExistsBijection
<1> QED
  BY <1>2, <1>5, FS_Bijection

(* No datagram is sent twice, or sent after it was given up.               *)
THEOREM SentOnce == Spec => []OnceOnly
<1>1. Inv => OnceOnly
  <2> SUFFICES ASSUME Inv PROVE OnceOnly
    OBVIOUS
  <2>1. out \in Seq(Ids) /\ Ordered(out) /\ Range(out) \cap dropped = {}
    BY OutTyped DEF Inv, Places
  <2>2. Len(out) = Cardinality(Range(out))
    BY <2>1, OrderedCounts
  <2> QED
    BY <2>1, <2>2 DEF OnceOnly, out
<1> QED
  BY <1>1, Invariance, PTL

-----------------------------------------------------------------------------
(* What is lost.                                                           *)
Excused(n) == ~sendable /\ (~watched' \/ dropped' \cap bad # dropped \cap bad)

LEMMA SendNowLoses ==
  ASSUME Inv, NEW m \in Ids, SendNow(Append(waiting, m)), NEW n \in (dropped' \ dropped) \ bad
  PROVE  FALSE
<1> DEFINE u == <<m>>
           room == Room - kern
           r == Round(u, room)
<1>1. waiting = <<>> /\ Append(waiting, m) = u
  BY DEF SendNow, NothingWaits, Inv
<1>2. u \in Seq(Ids) /\ Range(u) = {m} /\ u[1] = m
  BY One
<1>3. room \in Nat
  BY BoundsAssumption DEF Inv, SocketTyped
<1>4. dropped' = dropped \cup r.dropped \cup {}
  BY <1>1 DEF SendNow, Flushed, NoRound
<1> HIDE DEF u, r, room
<1>5. r.dropped = {} \/ (u[1] \in bad /\ r.dropped = Range(u))
  BY <1>2, <1>3, RoundIs DEF r
<1> QED
  BY <1>2, <1>4, <1>5

LEMMA WriteLoses ==
  ASSUME Inv, Write, NEW n \in (dropped' \ dropped) \ bad
  PROVE  Excused(n)
<1> DEFINE room == Room - kern
           first == Round(sending, room)
           t1 == first.taken
           second == Round(waiting, room - Len(t1))
           d1 == first.dropped
           d2 == second.dropped
<1>1. sending \in Seq(Ids) /\ waiting \in Seq(Ids) /\ room \in Nat
  BY BoundsAssumption DEF Inv, SocketTyped
<1>2. d1 = {} \/ (sending # <<>> /\ sending[1] \in bad /\ d1 = Range(sending))
  BY TwoRounds DEF Inv
<1>3. d2 = {} \/ (waiting # <<>> /\ waiting[1] \in bad /\ d2 = Range(waiting))
  BY TwoRounds DEF Inv
<1>4. dropped' = dropped \cup d1 \/ dropped' = dropped \cup d1 \cup d2
  BY DEF Write, Flushed, NoRound
<1> HIDE DEF room, first, second, t1, d1, d2
<1>5. Range(out) \cap dropped = {} /\ Range(out) = Range(sent) \cup Range(sending) \cup Range(waiting)
  BY OutTyped DEF Inv, Places
<1>6. CASE n \in d1
  <2>1. sending # <<>> /\ sending[1] \in bad /\ d1 = Range(sending)
    BY <1>2, <1>6
  <2>2. ~sendable
    BY <2>1 DEF Inv, NothingWaits
  <2>3. sending[1] \in Range(sending)
    <3>1. 1 \in 1..Len(sending)
      BY <1>1, <2>1, EmptySeq
    <3> QED
      BY <1>1, <3>1, InRange
  <2>4. sending[1] \in dropped' \cap bad /\ sending[1] \notin dropped \cap bad
    BY <1>4, <1>5, <2>1, <2>3
  <2> QED
    BY <2>2, <2>4 DEF Excused
<1>7. CASE n \in d2 /\ dropped' = dropped \cup d1 \cup d2
  <2>1. waiting # <<>> /\ waiting[1] \in bad /\ d2 = Range(waiting)
    BY <1>3, <1>7
  <2>2. ~sendable
    BY <2>1 DEF Inv, NothingWaits
  <2>3. waiting[1] \in Range(waiting)
    <3>1. 1 \in 1..Len(waiting)
      BY <1>1, <2>1, EmptySeq
    <3> QED
      BY <1>1, <3>1, InRange
  <2>4. waiting[1] \in dropped' \cap bad /\ waiting[1] \notin dropped \cap bad
    BY <1>5, <1>7, <2>1, <2>3
  <2> QED
    BY <2>2, <2>4 DEF Excused
<1> QED
  BY <1>4, <1>6, <1>7

LEMMA SendLoses ==
  ASSUME Inv, Send, NEW n \in (dropped' \ dropped) \ bad
  PROVE  Excused(n)
<1> DEFINE s == work[Home]
           m == Head(s).id
<1>1. s \in Seq(Jobs) /\ s # <<>>
  BY PollersAssumption DEF Inv, Queues, Send
<1>2. m \in Ids
  <2> HIDE DEF s
  <2>1. Head(s) \in Jobs
    BY <1>1, HeadTailProperties
  <2> QED
    BY <2>1 DEF Jobs
<1>3. \/ SendNow(Append(waiting, m)) \/ SendLater(Append(waiting, m))
      \/ GiveUp(Append(waiting, m))
  BY DEF Send
<1> HIDE DEF m, s
<1>4. CASE SendNow(Append(waiting, m))
  BY <1>2, <1>4, SendNowLoses
<1>5. CASE SendLater(Append(waiting, m))
  BY <1>5 DEF SendLater
<1>6. CASE GiveUp(Append(waiting, m))
  BY <1>6 DEF GiveUp, Excused
<1> QED
  BY <1>3, <1>4, <1>5, <1>6

(* A datagram the kernel would have taken is lost only when it waited for  *)
(* room: with one that the kernel refused, or when the socket gave up.     *)
THEOREM LostWaiting == Spec => LostInQueueOnly
<1>1. ASSUME Inv, [Next]_vars, NEW n \in (dropped' \ dropped) \ bad PROVE Excused(n)
  <2>1. ASSUME dropped' = dropped PROVE Excused(n)
    BY <2>1
  <2>2. CASE Arrive \/ Transmit \/ Elapse
    BY <2>1, <2>2 DEF Arrive, Transmit, Elapse, socket
  <2>3. ASSUME NEW p \in Pollers, TapSend(p) \/ ForEach(p) \/ Compress(p) PROVE Excused(n)
    BY <2>1, <2>3 DEF TapSend, ForEach, Compress, socket
  <2>4. CASE Send
    BY <1>1, <2>4, SendLoses
  <2>5. CASE SocketEvent
    <3>1. Write \/ dropped' = dropped
      BY <2>5 DEF SocketEvent, socket
    <3> QED
      BY <1>1, <2>1, <3>1, WriteLoses
  <2>6. CASE UNCHANGED vars
    BY <2>1, <2>6 DEF vars, socket
  <2> QED
    BY <1>1, <2>2, <2>3, <2>4, <2>5, <2>6 DEF Next, Poll
<1>2. Inv /\ [Next]_vars
        => [\A n \in (dropped' \ dropped) \ bad :
              ~sendable /\ (~watched' \/ dropped' \cap bad # dropped \cap bad)]_vars
  BY <1>1 DEF Excused
<1> QED
  BY <1>2, Invariance, PTL DEF Spec, LostInQueueOnly
=============================================================================
