-------------------------- MODULE EpollEchoProofs --------------------------
(***************************************************************************)
(* Proofs about the epoll server, for any number of connections and slots, *)
(* any budgets, and any number of bytes.                                   *)
(*                                                                         *)
(* The argument: an open slot has a connection of its own (ConnInv), so    *)
(* what a service reads, keeps and gives back is the business of one peer, *)
(* and one lemma about the outcomes of a service says that the bytes given *)
(* back and the ones still pending grow by the bytes read (OutcomeIs).     *)
(* The end of the input is noticed only when everything was read (SlotInv),*)
(* so what is flushed after it is all there is.  A handle is in the ready  *)
(* queue at most once, and the ones of connections that are gone have      *)
(* generations of the past (QueueInv), so no later connection of the slot  *)
(* is mistaken for one that has yielded.                                   *)
(***************************************************************************)
EXTENDS EpollEcho, TLAPS, FiniteSetTheorems, SequenceTheorems, WellFoundedInduction

Bits == {"in", "out"}

SlotRecords ==
  [fd : Conns \cup {Free}, generation : Nat, out : Seq(Nat), off : Nat,
   peerEof : BOOLEAN, closing : BOOLEAN, readyAgain : BOOLEAN, armed : SUBSET Bits]

SlotHandles == [slot : Slots, generation : Nat]

TypeInv ==
  /\ pc \in {"top", "batch", "gone"} /\ stopRequested \in BOOLEAN
  /\ batch \subseteq [handle : SlotHandles \cup {Listener}, bits : SUBSET Bits]
  /\ accepts \in 0 .. AcceptBudget
  /\ slots \in [Slots -> SlotRecords]
  /\ peer \in [Conns -> {"absent", "backlog", "open", "closed", "refused"}]
  /\ sent \in [Conns -> {0, MaxBytes}] /\ received \in [Conns -> Nat]
  /\ got \in [Conns -> Seq(Nat)]
  /\ ended \subseteq Conns /\ reset \subseteq Conns
  /\ blocked \subseteq Conns /\ dropped \subseteq Conns

\* A slot between two services.
SlotGood(s) ==
  /\ s.off <= Len(s.out) /\ Len(s.out) <= OutputCap
  /\ ~s.closing

\* The connection of a slot: its input so far, and the end of it.
ConnGood(s) ==
  /\ peer[s.fd] = "open"
  /\ got[s.fd] \o Pending(s) = Upto(received[s.fd])
  /\ s.peerEof => s.fd \in ended /\ received[s.fd] = sent[s.fd]

SlotInv ==
  /\ \A i \in Slots : SlotGood(slots[i])
  /\ \A i \in Slots : slots[i].fd # Free => ConnGood(slots[i])

InQueue(q, h) == \E k \in 1 .. Len(q) : q[k] = h

\* A ready queue without duplicates, and with no handle of a connection to come.
QueueGood(q) ==
  /\ q \in Seq(SlotHandles) /\ Len(q) <= MaxConns
  /\ \A j, k \in 1 .. Len(q) : q[j] = q[k] => j = k
  /\ \A k \in 1 .. Len(q) : q[k].generation <= slots[q[k].slot].generation

\* The flags of all slots but those of S say which handles are in the queue.
FlagsTrue(q, S) ==
  \A i \in Slots \ S : slots[i].fd # Free => (slots[i].readyAgain <=> InQueue(q, Handle(i)))

QueueInv == QueueGood(readyQueue) /\ FlagsTrue(readyQueue, {})

ConnInv ==
  /\ \A i, j \in Slots : slots[i].fd = slots[j].fd /\ slots[i].fd # Free => i = j
  /\ \A c \in Conns : received[c] <= sent[c]
  /\ \A c \in Conns : peer[c] \in {"absent", "backlog"} => received[c] = 0 /\ got[c] = <<>>

IInv == TypeInv /\ SlotInv /\ QueueInv /\ ConnInv /\ ClosedWhenFlushed

-----------------------------------------------------------------------------
(* Sequences and least elements.                                           *)

Before == {p \in Nat \X Nat : p[1] < p[2]}

\* A set of numbers that is not empty has a least one.
LEMMA LeastIs ==
  ASSUME NEW S \in SUBSET Nat, S # {}
  PROVE  Min(S) \in S /\ \A x \in S : Min(S) <= x
<1>1. IsWellFoundedOn(Before, Nat)
  <2>1. Before = OpToRel(<, Nat)
    BY DEF OpToRel, Before
  <2> QED BY <2>1, NatLessThanWellFounded
<1>2. PICK x \in S : \A y \in S : ~(<<y, x>> \in Before)
  BY <1>1, WFMin
<1>3. ASSUME NEW y \in S PROVE x <= y
  <2>1. x \in Nat /\ y \in Nat
    OBVIOUS
  <2>2. y < x => <<y, x>> \in Before
    BY <2>1 DEF Before
  <2>3. ~(y < x)
    BY <1>2, <2>2
  <2> QED BY <2>1, <2>3
<1> QED BY <1>3 DEF Min

LEMMA NothingPending == Upto(0) = <<>>
  BY DEF Upto

\* The next n positions after the first m.
LEMMA UptoGrows ==
  ASSUME NEW m \in Nat, NEW n \in Nat,
         NEW data \in Seq(Nat), Len(data) = n, \A k \in 1 .. n : data[k] = m + k
  PROVE  Upto(m) \in Seq(Nat) /\ Upto(m) \o data = Upto(m + n)
<1>1. Upto(m) \in Seq(Nat) /\ Len(Upto(m)) = m /\ \A k \in 1 .. m : Upto(m)[k] = k
  BY DEF Upto
<1>2. Upto(m + n) \in Seq(Nat) /\ Len(Upto(m + n)) = m + n /\ \A k \in 1 .. m + n : Upto(m + n)[k] = k
  BY DEF Upto
<1>3. /\ Upto(m) \o data \in Seq(Nat) /\ Len(Upto(m) \o data) = m + n
      /\ \A k \in 1 .. m + n : (Upto(m) \o data)[k] = IF k <= m THEN Upto(m)[k] ELSE data[k - m]
  <2> DEFINE u == Upto(m)
  <2> HIDE DEF u
  <2>1. u \in Seq(Nat) /\ Len(u) = m
    BY <1>1 DEF u
  <2>2. /\ u \o data \in Seq(Nat) /\ Len(u \o data) = Len(u) + Len(data)
        /\ \A k \in 1 .. Len(u) + Len(data) : (u \o data)[k] = IF k <= Len(u) THEN u[k] ELSE data[k - Len(u)]
    BY <2>1, ConcatProperties
  <2> QED BY <2>1, <2>2 DEF u
<1>4. \A k \in 1 .. m + n : (Upto(m) \o data)[k] = k
  BY <1>1, <1>3
<1> QED BY <1>1, <1>2, <1>3, <1>4, SeqEqual

LEMMA Regroup == \A a, b, d \in Seq(Nat) : (a \o b) \o d = a \o (b \o d)
<1> TAKE a, b, d \in Seq(Nat)
<1>1. /\ a \o b \in Seq(Nat) /\ Len(a \o b) = Len(a) + Len(b)
      /\ \A i \in 1 .. Len(a) + Len(b) : (a \o b)[i] = IF i <= Len(a) THEN a[i] ELSE b[i - Len(a)]
  BY ConcatProperties
<1>2. /\ b \o d \in Seq(Nat) /\ Len(b \o d) = Len(b) + Len(d)
      /\ \A i \in 1 .. Len(b) + Len(d) : (b \o d)[i] = IF i <= Len(b) THEN b[i] ELSE d[i - Len(b)]
  BY ConcatProperties
<1> DEFINE ab == a \o b   bd == b \o d
<1> HIDE DEF ab, bd
<1>3. ab \in Seq(Nat) /\ bd \in Seq(Nat)
  BY <1>1, <1>2 DEF ab, bd
<1>4. /\ ab \o d \in Seq(Nat) /\ Len(ab \o d) = Len(ab) + Len(d)
      /\ \A i \in 1 .. Len(ab) + Len(d) : (ab \o d)[i] = IF i <= Len(ab) THEN ab[i] ELSE d[i - Len(ab)]
  BY <1>3, ConcatProperties
<1>5. /\ a \o bd \in Seq(Nat) /\ Len(a \o bd) = Len(a) + Len(bd)
      /\ \A i \in 1 .. Len(a) + Len(bd) : (a \o bd)[i] = IF i <= Len(a) THEN a[i] ELSE bd[i - Len(a)]
  BY <1>3, ConcatProperties
<1>6. Len(a) \in Nat /\ Len(b) \in Nat /\ Len(d) \in Nat
  BY LenProperties
<1>7. Len(ab \o d) = Len(a \o bd)
  BY <1>1, <1>2, <1>4, <1>5, <1>6 DEF ab, bd
<1>8. ASSUME NEW i \in 1 .. Len(ab \o d) PROVE (ab \o d)[i] = (a \o bd)[i]
  <2>1. i \in Int /\ 1 <= i /\ i <= Len(a) + Len(b) + Len(d)
    BY <1>1, <1>4, <1>6 DEF ab
  <2>2. CASE i <= Len(a)
    BY <1>1, <1>2, <1>4, <1>5, <1>6, <2>1, <2>2 DEF ab, bd
  <2>3. CASE Len(a) < i /\ i <= Len(a) + Len(b)
    <3>1. ab[i] = b[i - Len(a)] /\ (ab \o d)[i] = ab[i]
      BY <1>1, <1>4, <1>6, <2>1, <2>3 DEF ab
    <3>2. bd[i - Len(a)] = b[i - Len(a)] /\ (a \o bd)[i] = bd[i - Len(a)]
      BY <1>2, <1>5, <1>6, <2>1, <2>3 DEF bd
    <3> QED BY <3>1, <3>2
  <2>4. CASE Len(a) + Len(b) < i
    <3>1. (ab \o d)[i] = d[i - (Len(a) + Len(b))]
      BY <1>1, <1>4, <1>6, <2>1, <2>4 DEF ab
    <3>2. bd[i - Len(a)] = d[i - Len(a) - Len(b)] /\ (a \o bd)[i] = bd[i - Len(a)]
      BY <1>2, <1>5, <1>6, <2>1, <2>4 DEF bd
    <3>3. i - (Len(a) + Len(b)) = i - Len(a) - Len(b)
      BY <1>6, <2>1
    <3> QED BY <3>1, <3>2, <3>3
  <2>5. i <= Len(a) \/ (Len(a) < i /\ i <= Len(a) + Len(b)) \/ Len(a) + Len(b) < i
    BY <1>6, <2>1
  <2> QED BY <2>2, <2>3, <2>4, <2>5, Zenon
<1>9. ab \o d = a \o bd
  BY <1>4, <1>5, <1>7, <1>8, SeqEqual
<1> QED BY <1>9 DEF ab, bd

\* A connection stays what it is while it is served.
Same(r, s) == r.fd = s.fd /\ r.generation = s.generation /\ r.readyAgain = s.readyAgain

LEMMA PendingIs ==
  ASSUME NEW s \in SlotRecords, s.off <= Len(s.out)
  PROVE  Pending(s) \in Seq(Nat) /\ Len(Pending(s)) = Len(s.out) - s.off
<1>1. s.out \in Seq(Nat) /\ s.off \in Nat /\ Len(s.out) \in Nat
  BY LenProperties DEF SlotRecords
<1>2. \A k \in s.off + 1 .. Len(s.out) : s.out[k] \in Nat
  BY <1>1, ElementOfSeq
<1> QED BY <1>1, <1>2, SubSeqProperties DEF Pending

\* A window of k places after the first o of l.
LEMMA WindowIn ==
  ASSUME NEW o \in Nat, NEW l \in Nat, NEW k \in Nat, k # 0, k <= l - o
  PROVE  /\ o + 1 \in 1 .. l /\ l \in 1 .. l
         /\ 1 \in 1 .. l - (o + 1) + 1 /\ k \in 1 .. l - (o + 1) + 1
OBVIOUS

\* What is offered comes first, what is kept after it.
LEMMA WrittenIs ==
  ASSUME NEW s \in SlotRecords, s.off <= Len(s.out), NEW k \in 0 .. Len(Pending(s))
  PROVE  /\ Written(s, k) \in SlotRecords /\ Same(Written(s, k), s)
         /\ Written(s, k).peerEof = s.peerEof /\ Written(s, k).closing = s.closing
         /\ Written(s, k).off <= Len(Written(s, k).out) /\ Len(Written(s, k).out) <= Len(s.out)
         /\ Pending(Written(s, k)) \in Seq(Nat) /\ SubSeq(Pending(s), 1, k) \in Seq(Nat)
         /\ SubSeq(Pending(s), 1, k) \o Pending(Written(s, k)) = Pending(s)
<1> DEFINE p == Pending(s)   l == Len(s.out)   w == Written(s, k)
<1>1. s.out \in Seq(Nat) /\ s.off \in Nat /\ l \in Nat
  BY LenProperties DEF SlotRecords
<1>2. p \in Seq(Nat) /\ Len(p) = l - s.off
  BY PendingIs
<1>3. k \in Nat /\ k <= l - s.off
  BY <1>1, <1>2
<1>4. CASE s.off + k = l
  <2>1. w = [s EXCEPT !.out = <<>>, !.off = 0] /\ w.out = <<>> /\ w.off = 0
    BY <1>4 DEF Written, SlotRecords
  <2>2. Pending(w) = <<>>
    BY <2>1, SubSeqEmpty DEF Pending
  <2>3. k = Len(p)
    BY <1>1, <1>2, <1>3, <1>4
  <2> HIDE DEF p, w
  <2>4. SubSeq(p, 1, k) = p
    BY <1>2, <2>3, SubSeqFull
  <2>5. p \o <<>> = p
    BY <1>2, ConcatEmptySeq
  <2>6. <<>> \in Seq(Nat) /\ Len(<<>>) = 0
    BY EmptySeq
  <2>7. SubSeq(p, 1, k) \o Pending(w) = p /\ Pending(w) \in Seq(Nat) /\ SubSeq(p, 1, k) \in Seq(Nat)
    BY <1>2, <2>2, <2>4, <2>5, <2>6
  <2>8. /\ w \in SlotRecords /\ Same(w, s) /\ w.peerEof = s.peerEof /\ w.closing = s.closing
        /\ w.off <= Len(w.out) /\ Len(w.out) <= l
    <3> HIDE DEF w
    <3>1. w \in SlotRecords
      BY <2>1, <2>6 DEF SlotRecords
    <3>2. Same(w, s) /\ w.peerEof = s.peerEof /\ w.closing = s.closing
      BY <2>1 DEF Same, SlotRecords
    <3>3. w.off <= Len(w.out) /\ Len(w.out) <= l
      <4> HIDE DEF l
      <4> QED BY <1>1, <2>1, <2>6
    <3> QED BY <3>1, <3>2, <3>3
  <2> HIDE DEF p, w
  <2> QED BY <2>7, <2>8 DEF p, w
<1>5. CASE s.off + k # l
  <2>0. s.off + k \in Nat /\ s.off + k <= l
    BY <1>1, <1>3
  <2>1. w = [s EXCEPT !.out = s.out, !.off = s.off + k] /\ w.out = s.out /\ w.off = s.off + k /\ w \in SlotRecords
    <3>1. w = [s EXCEPT !.off = s.off + k]
      BY <1>5 DEF Written
    <3> DEFINE n == s.off + k
    <3>2. n \in Nat
      BY <2>0
    <3> HIDE DEF n, w
    <3>3. w = [s EXCEPT !.off = n]
      BY <3>1 DEF n
    <3>4. w = [s EXCEPT !.out = s.out, !.off = n] /\ w.out = s.out /\ w.off = n /\ w \in SlotRecords
      BY <3>2, <3>3 DEF SlotRecords
    <3> QED BY <3>4 DEF n
  <2>2. Pending(w) = SubSeq(s.out, s.off + k + 1, l)
    BY <2>1 DEF Pending
  <2>3. SubSeq(p, 1, k) = SubSeq(s.out, s.off + 1, s.off + k)
    <3>1. CASE k = 0
      <4>1. SubSeq(p, 1, 0) = <<>> /\ SubSeq(s.out, s.off + 1, s.off + 0) = <<>>
        BY <1>1, SubSeqEmpty
      <4> QED BY <3>1, <4>1
    <3>2. CASE k # 0
      <4>1. /\ s.off + 1 \in 1 .. l /\ l \in 1 .. l
            /\ 1 \in 1 .. l - (s.off + 1) + 1 /\ k \in 1 .. l - (s.off + 1) + 1
        <5>1. s.off \in Nat /\ l \in Nat /\ k \in Nat /\ k # 0 /\ k <= l - s.off
          BY <1>1, <1>3, <3>2
        <5> HIDE DEF l
        <5> QED BY <5>1, WindowIn
      <4>2. SubSeq(SubSeq(s.out, s.off + 1, l), 1, k) = SubSeq(s.out, s.off + 1 + 1 - 1, s.off + 1 + k - 1)
        <5> DEFINE i == s.off + 1
        <5>1. i \in 1 .. l /\ l \in 1 .. l /\ 1 \in 1 .. l - i + 1 /\ k \in 1 .. l - i + 1
          BY <4>1
        <5> HIDE DEF i
        <5>2. SubSeq(SubSeq(s.out, i, l), 1, k) = SubSeq(s.out, i + 1 - 1, i + k - 1)
          BY <1>1, <5>1, SubSeqOfSubSeq
        <5> QED BY <5>2 DEF i
      <4>3. s.off + 1 + 1 - 1 = s.off + 1 /\ s.off + 1 + k - 1 = s.off + k
        BY <1>1, <1>3
      <4> QED BY <4>2, <4>3 DEF Pending
    <3> QED BY <3>1, <3>2
  <2>4. SubSeq(s.out, s.off + 1, s.off + k) \o SubSeq(s.out, s.off + k + 1, l) = SubSeq(s.out, s.off + 1, l)
    <3> DEFINE m == s.off + 1   j == s.off + k
    <3>1. m \in 1 .. l + 1 /\ j \in m - 1 .. l /\ l \in j .. l
      BY <1>1, <1>3
    <3> HIDE DEF m, j
    <3>2. SubSeq(s.out, m, j) \o SubSeq(s.out, j + 1, l) = SubSeq(s.out, m, l)
      BY <1>1, <3>1, ConcatAdjacentSubSeq
    <3> QED BY <3>2 DEF m, j
  <2>5. w.off <= Len(w.out)
    BY <1>1, <1>3, <2>1
  <2>6. Pending(w) \in Seq(Nat)
    BY <2>1, <2>5, PendingIs
  <2>7. SubSeq(p, 1, k) \in Seq(Nat)
    <3>1. \A j \in 1 .. k : p[j] \in Nat
      BY <1>2, <1>3, ElementOfSeq
    <3> HIDE DEF p
    <3> QED BY <1>3, <3>1, SubSeqProperties
  <2>8. /\ w \in SlotRecords /\ Same(w, s) /\ w.peerEof = s.peerEof /\ w.closing = s.closing
        /\ w.off <= Len(w.out) /\ Len(w.out) <= l
    <3> DEFINE n == s.off + k
    <3> HIDE DEF n, w
    <3>1. /\ w = [s EXCEPT !.out = s.out, !.off = n] /\ w.out = s.out /\ w.off = n
          /\ w \in SlotRecords /\ n \in Nat /\ n <= l
      BY <2>0, <2>1 DEF n
    <3> QED BY <1>1, <3>1 DEF Same, SlotRecords
  <2>9. SubSeq(p, 1, k) \o Pending(w) = p
    BY <2>2, <2>3, <2>4 DEF Pending
  <2> HIDE DEF p, w
  <2> QED BY <2>6, <2>7, <2>8, <2>9 DEF p, w
<1> QED BY <1>4, <1>5


-----------------------------------------------------------------------------
(* A service.                                                              *)

\* A connection that can be served.
Held(s) == s \in SlotRecords /\ s.fd \in Conns /\ SlotGood(s) /\ ConnGood(s)

\* The same connection after n more bytes were read and the bytes w given back.
Flows(s, r, n, w) ==
  /\ r \in SlotRecords /\ Same(r, s)
  /\ r.off <= Len(r.out) /\ Len(r.out) <= OutputCap
  /\ n \in Nat /\ received[s.fd] + n <= sent[s.fd]
  /\ w \in Seq(Nat) /\ Pending(r) \in Seq(Nat)
  /\ (got[s.fd] \o w) \o Pending(r) = Upto(received[s.fd] + n)
  /\ r.peerEof => s.fd \in ended /\ received[s.fd] + n = sent[s.fd]

LEMMA HeldTypes ==
  ASSUME TypeInv, ConnInv, NEW s, Held(s)
  PROVE  /\ Pending(s) \in Seq(Nat) /\ Len(Pending(s)) \in Nat /\ Len(Pending(s)) <= OutputCap
         /\ got[s.fd] \in Seq(Nat) /\ received[s.fd] \in Nat /\ sent[s.fd] \in Nat
         /\ received[s.fd] <= sent[s.fd] /\ OutputCap \in Nat /\ IoBudget \in Nat
<1>1. s.out \in Seq(Nat) /\ Len(s.out) \in Nat /\ s.off \in Nat
  BY LenProperties DEF Held, SlotRecords
<1>2. OutputCap \in Nat /\ IoBudget \in Nat /\ MaxBytes \in Nat
  BY EpollAssumption
<1>3. Pending(s) \in Seq(Nat) /\ Len(Pending(s)) = Len(s.out) - s.off
  BY PendingIs DEF Held, SlotGood
<1>4. Len(Pending(s)) \in Nat /\ Len(Pending(s)) <= OutputCap
  BY <1>1, <1>2, <1>3 DEF Held, SlotGood
<1>5. got[s.fd] \in Seq(Nat) /\ received[s.fd] \in Nat /\ sent[s.fd] \in Nat /\ received[s.fd] <= sent[s.fd]
  <2> PICK c \in Conns : c = s.fd
    BY DEF Held
  <2>1. got[c] \in Seq(Nat) /\ received[c] \in Nat /\ sent[c] \in {0, MaxBytes}
    BY DEF TypeInv
  <2>2. received[c] <= sent[c]
    BY DEF ConnInv
  <2> QED BY <1>2, <2>1, <2>2
<1> QED BY <1>2, <1>3, <1>4, <1>5

LEMMA ReadSizeIs ==
  ASSUME TypeInv, ConnInv, NEW s, Held(s)
  PROVE  /\ ReadSize(s) \in Nat
         /\ ReadSize(s) <= OutputCap - Len(Pending(s)) /\ ReadSize(s) <= sent[s.fd] - received[s.fd]
<1> DEFINE p == Len(Pending(s))   a == OutputCap - p   b == sent[s.fd] - received[s.fd]
<1>1. a \in Nat /\ b \in Nat /\ IoBudget \in Nat
  BY HeldTypes
<1>2. ReadSize(s) = Min({IoBudget, a, b})
  BY DEF ReadSize
<1> HIDE DEF a, b
<1>3. {IoBudget, a, b} \in SUBSET Nat /\ {IoBudget, a, b} # {}
  BY <1>1
<1>4. Min({IoBudget, a, b}) \in {IoBudget, a, b} /\ \A x \in {IoBudget, a, b} : Min({IoBudget, a, b}) <= x
  BY <1>3, LeastIs
<1>5. ReadSize(s) \in Nat /\ ReadSize(s) <= a /\ ReadSize(s) <= b
  BY <1>1, <1>2, <1>4
<1> QED BY <1>5 DEF a, b

\* Nothing is read, as when no input was reported.
LEMMA NotRead ==
  ASSUME TypeInv, ConnInv, NEW s, Held(s)
  PROVE  Flows(s, s, 0, <<>>) /\ ~s.closing
<1>1. /\ Pending(s) \in Seq(Nat) /\ got[s.fd] \in Seq(Nat) /\ received[s.fd] \in Nat
      /\ received[s.fd] <= sent[s.fd]
  BY HeldTypes
<1>2. got[s.fd] \o <<>> = got[s.fd] /\ <<>> \in Seq(Nat)
  BY <1>1, ConcatEmptySeq, EmptySeq
<1>3. received[s.fd] + 0 = received[s.fd]
  BY <1>1
<1>4. s \in SlotRecords /\ SlotGood(s) /\ ConnGood(s)
  BY DEF Held
<1>5. got[s.fd] \o Pending(s) = Upto(received[s.fd])
  BY <1>4 DEF ConnGood
<1>6. (got[s.fd] \o <<>>) \o Pending(s) = Upto(received[s.fd] + 0)
  BY <1>2, <1>3, <1>5
<1> QED BY <1>1, <1>2, <1>3, <1>4, <1>6 DEF Flows, Same, SlotGood, ConnGood

\* What is read is queued whole: it fits, because no more is read than fits.
LEMMA ReadIs ==
  ASSUME TypeInv, ConnInv, NEW s, Held(s)
  PROVE  Flows(s, ReadBy(s, ReadSize(s)), ReadSize(s), <<>>) /\ ~ReadBy(s, ReadSize(s)).closing
<1> DEFINE n == ReadSize(s)   p == Pending(s)   m == received[s.fd]   r == ReadBy(s, n)
           data == [k \in 1 .. n |-> m + 1 + k - 1]
           end == /\ s.fd \in ended /\ m + 1 + n - 1 = sent[s.fd]
                  /\ n < IoBudget /\ Len(p) + n < OutputCap
           filled == IF n = 0 THEN s ELSE Queued(s, data)
<1>1. /\ p \in Seq(Nat) /\ Len(p) \in Nat /\ got[s.fd] \in Seq(Nat) /\ m \in Nat /\ sent[s.fd] \in Nat
      /\ OutputCap \in Nat
  BY HeldTypes
<1>2. n \in Nat /\ n <= OutputCap - Len(p) /\ n <= sent[s.fd] - m
  BY ReadSizeIs
<1>3. r = [filled EXCEPT !.peerEof = @ \/ end]
  BY DEF ReadBy
<1>4. s \in SlotRecords /\ SlotGood(s) /\ ConnGood(s) /\ Flows(s, s, 0, <<>>) /\ ~s.closing
  BY NotRead DEF Held
<1> HIDE DEF n, p, m, r, end
<1>5. data \in Seq(Nat) /\ Len(data) = n /\ \A k \in 1 .. n : data[k] = m + k
  BY <1>1, <1>2
<1>6. /\ filled \in SlotRecords /\ Same(filled, s) /\ filled.peerEof = s.peerEof /\ ~filled.closing
      /\ filled.off <= Len(filled.out) /\ Len(filled.out) <= OutputCap
      /\ Pending(filled) \in Seq(Nat) /\ got[s.fd] \o Pending(filled) = Upto(m + n)
  <2>1. CASE n = 0
    <3>1. filled = s /\ m + n = m
      BY <1>1, <2>1
    <3> QED BY <1>1, <1>4, <3>1 DEF SlotGood, ConnGood, Same, p, m
  <2>2. CASE n # 0
    <3> HIDE DEF data
    <3>1. filled = [s EXCEPT !.out = p \o data, !.off = 0]
      BY <1>1, <1>2, <1>5, <2>2 DEF Queued, p
    <3>2. p \o data \in Seq(Nat) /\ Len(p \o data) = Len(p) + Len(data)
      BY <1>1, <1>5, ConcatProperties
    <3>3. Len(p \o data) <= OutputCap /\ Len(p \o data) \in Nat
      BY <1>1, <1>2, <1>5, <3>2
    <3> DEFINE q == p \o data
    <3>4. SubSeq(q, 0 + 1, Len(q)) = q
      <4> HIDE DEF q
      <4> QED BY <3>2, SubSeqFull DEF q
    <3>5. got[s.fd] \o q = Upto(m + n)
      <4>1. got[s.fd] \o p = Upto(m)
        BY <1>4 DEF ConnGood, p, m
      <4>2. (got[s.fd] \o p) \o data = got[s.fd] \o q
        <5> DEFINE g == got[s.fd]
        <5>1. g \in Seq(Nat)
          BY <1>1
        <5> HIDE DEF g
        <5>2. (g \o p) \o data = g \o (p \o data)
          BY <1>1, <1>5, <5>1, ConcatAssociative
        <5> QED BY <5>2 DEF g
      <4>3. Upto(m) \o data = Upto(m + n)
        BY <1>1, <1>2, <1>5, UptoGrows
      <4> QED BY <4>1, <4>2, <4>3
    <3> HIDE DEF q, filled
    <3>6. filled = [s EXCEPT !.out = q, !.off = 0]
      BY <3>1 DEF q
    <3>7. q \in Seq(Nat) /\ Len(q) <= OutputCap /\ Len(q) \in Nat
      BY <3>2, <3>3 DEF q
    <3>8. /\ filled \in SlotRecords /\ filled.out = q /\ filled.off = 0
          /\ filled.peerEof = s.peerEof /\ filled.closing = s.closing
          /\ filled.fd = s.fd /\ filled.generation = s.generation /\ filled.readyAgain = s.readyAgain
      BY <1>4, <3>6, <3>7 DEF SlotRecords
    <3>9. Pending(filled) = q
      BY <3>4, <3>8 DEF Pending
    <3> QED BY <1>4, <3>5, <3>7, <3>8, <3>9 DEF Same
  <2> QED BY <2>1, <2>2
<1> HIDE DEF filled, data
<1>7. end \in BOOLEAN /\ (end => s.fd \in ended /\ m + n = sent[s.fd])
  BY <1>1, <1>2 DEF end
<1>8. /\ r \in SlotRecords /\ r.out = filled.out /\ r.off = filled.off /\ r.closing = filled.closing
      /\ r.fd = filled.fd /\ r.generation = filled.generation /\ r.readyAgain = filled.readyAgain
      /\ r.peerEof = (s.peerEof \/ end)
  BY <1>3, <1>6, <1>7 DEF SlotRecords
<1>9. s.peerEof => s.fd \in ended /\ m + n = sent[s.fd]
  BY <1>1, <1>2, <1>4 DEF ConnGood, m
<1>10. Pending(r) = Pending(filled)
  BY <1>8 DEF Pending
<1>11. got[s.fd] \o <<>> = got[s.fd] /\ <<>> \in Seq(Nat)
  BY <1>1, ConcatEmptySeq, EmptySeq
<1>12. m + n <= sent[s.fd]
  BY <1>1, <1>2
<1>13. r.peerEof => s.fd \in ended /\ m + n = sent[s.fd]
  BY <1>7, <1>8, <1>9
<1>14. Same(r, s) /\ ~r.closing
  BY <1>6, <1>8 DEF Same
<1>15. Flows(s, r, n, <<>>)
  BY <1>2, <1>6, <1>8, <1>10, <1>11, <1>12, <1>13, <1>14 DEF Flows, m
<1> QED BY <1>14, <1>15 DEF r, n

LEMMA WriteSizesAre ==
  ASSUME NEW s, NEW k \in WriteSizes(s), Pending(s) \in Seq(Nat)
  PROVE  k \in 0 .. Len(Pending(s))
<1> DEFINE l == Len(Pending(s))
<1>1. l \in Nat /\ IoBudget \in Nat
  BY EpollAssumption, LenProperties
<1>2. Offer(s) = Min({IoBudget, l})
  BY DEF Offer
<1> HIDE DEF l
<1>3. {IoBudget, l} \in SUBSET Nat /\ {IoBudget, l} # {}
  BY <1>1
<1>4. Min({IoBudget, l}) \in {IoBudget, l} /\ \A x \in {IoBudget, l} : Min({IoBudget, l}) <= x
  BY <1>3, LeastIs
<1>5. Offer(s) \in Nat /\ Offer(s) <= l
  BY <1>1, <1>2, <1>4
<1>6. k = 0 \/ k \in 1 .. Offer(s)
  BY DEF WriteSizes
<1>7. k \in 0 .. l
  BY <1>1, <1>5, <1>6
<1> QED BY <1>7 DEF l

\* What a service comes to: every byte read is given back or pending, in its place, and
\* the service ends the connection only when everything is given back.
LEMMA OutcomeIs ==
  ASSUME TypeInv, ConnInv, NEW s, Held(s), NEW bits, NEW o \in Outcomes(s, bits)
  PROVE  /\ Flows(s, o.conn, o.read, o.wrote)
         /\ o.conn.closing => s.fd \in ended /\ got[s.fd] \o o.wrote = Upto(sent[s.fd])
<1> DEFINE n == IF "in" \in bits THEN ReadSize(s) ELSE 0
           r == IF "in" \in bits THEN ReadBy(s, n) ELSE s
           g == got[s.fd]   m == received[s.fd]   p == Pending(r)
<1>1. Flows(s, r, n, <<>>) /\ ~r.closing
  <2>1. CASE "in" \in bits
    BY <2>1, ReadIs
  <2>2. CASE "in" \notin bits
    BY <2>2, NotRead
  <2> QED BY <2>1, <2>2
<1>2. PICK k \in WriteSizes(r) :
        o = [conn |-> Finished(Written(r, k)), read |-> n,
             wrote |-> SubSeq(Pending(r), 1, k), short |-> k < Offer(r)]
  BY DEF Outcomes
<1> HIDE DEF n, r
<1> DEFINE w == Written(r, k)   f == Finished(w)   a == SubSeq(p, 1, k)
<1>3. /\ r \in SlotRecords /\ r.off <= Len(r.out) /\ Len(r.out) <= OutputCap /\ Same(r, s)
      /\ n \in Nat /\ m + n <= sent[s.fd] /\ p \in Seq(Nat)
      /\ (g \o <<>>) \o p = Upto(m + n)
      /\ r.peerEof => s.fd \in ended /\ m + n = sent[s.fd]
  BY <1>1 DEF Flows
<1>4. k \in 0 .. Len(p)
  BY <1>3, WriteSizesAre
<1>5. /\ w \in SlotRecords /\ Same(w, r) /\ w.peerEof = r.peerEof /\ w.closing = r.closing
      /\ w.off <= Len(w.out) /\ Len(w.out) <= Len(r.out)
      /\ Pending(w) \in Seq(Nat) /\ a \in Seq(Nat) /\ a \o Pending(w) = p
  BY <1>3, <1>4, WrittenIs
<1>6. g \in Seq(Nat) /\ OutputCap \in Nat /\ m \in Nat /\ sent[s.fd] \in Nat
  BY HeldTypes
<1>7. o.conn = f /\ o.read = n /\ o.wrote = a
  BY <1>2
<1> HIDE DEF w, a, g, p, m
<1>8. (g \o a) \o Pending(w) = Upto(m + n)
  <2> DEFINE b == Pending(w)
  <2>0. a \in Seq(Nat) /\ b \in Seq(Nat) /\ g \in Seq(Nat)
    BY <1>5, <1>6
  <2> HIDE DEF b, f
  <2>1. (g \o a) \o b = g \o (a \o b)
    BY <2>0, Regroup
  <2>2. g \o <<>> = g
    BY <1>6, ConcatEmptySeq
  <2> QED BY <1>3, <1>5, <2>1, <2>2 DEF b
<1>9. /\ f \in SlotRecords /\ f.out = w.out /\ f.off = w.off /\ f.peerEof = w.peerEof
      /\ f.fd = w.fd /\ f.generation = w.generation /\ f.readyAgain = w.readyAgain
      /\ f.closing = (w.closing \/ (w.peerEof /\ w.off = Len(w.out)))
  BY <1>5 DEF Finished, SlotRecords
<1>10. Pending(f) = Pending(w)
  BY <1>9 DEF Pending
<1> HIDE DEF f
<1>11. f.off <= Len(f.out) /\ Len(f.out) <= OutputCap
  <2>1. Len(w.out) \in Nat /\ Len(r.out) \in Nat
    BY <1>3, <1>5, LenProperties DEF SlotRecords
  <2> QED BY <1>3, <1>5, <1>6, <1>9, <2>1
<1>12. Same(f, s)
  BY <1>3, <1>5, <1>9 DEF Same
<1>13. f.peerEof => s.fd \in ended /\ m + n = sent[s.fd]
  BY <1>3, <1>5, <1>9
<1>14. Flows(s, f, n, a)
  BY <1>3, <1>5, <1>8, <1>9, <1>10, <1>11, <1>12, <1>13 DEF Flows, g, m
<1>15. f.closing => f.peerEof /\ w.off = Len(w.out)
  <2>1. ~w.closing
    BY <1>1, <1>5
  <2> QED BY <1>9, <2>1
<1>16. f.closing => s.fd \in ended /\ g \o a = Upto(sent[s.fd])
  <2> SUFFICES ASSUME f.closing PROVE s.fd \in ended /\ g \o a = Upto(sent[s.fd])
    OBVIOUS
  <2>1. w.off = Len(w.out) /\ s.fd \in ended /\ m + n = sent[s.fd]
    BY <1>13, <1>15
  <2>2. Pending(w) = <<>>
    <3>1. Len(w.out) \in Nat
      BY <1>5, LenProperties DEF SlotRecords
    <3>2. SubSeq(w.out, Len(w.out) + 1, Len(w.out)) = <<>>
      BY <3>1, SubSeqEmpty
    <3> QED BY <2>1, <3>2 DEF Pending
  <2>3. g \o a \in Seq(Nat)
    BY <1>5, <1>6, ConcatProperties
  <2>4. (g \o a) \o <<>> = g \o a
    BY <2>3, ConcatEmptySeq
  <2> QED BY <1>8, <2>1, <2>2, <2>4
<1> QED BY <1>7, <1>14, <1>16 DEF g

-----------------------------------------------------------------------------
(* One slot changes.                                                       *)

\* A step of connection c: what it reads and gives back is its own.
Touches(c) ==
  /\ received' \in [Conns -> Nat] /\ got' \in [Conns -> Seq(Nat)]
  /\ \A d \in Conns \ {c} : received'[d] = received[d] /\ got'[d] = got[d]
  /\ received'[c] <= sent[c]
  /\ dropped \subseteq dropped' /\ dropped' \subseteq Conns /\ blocked' \subseteq Conns

\* What a slot becomes when it goes on with its connection, or is given up.
Becomes(i, r) ==
  /\ r \in SlotRecords /\ r.generation = slots[i].generation
  /\ slots' = [slots EXCEPT ![i] = r]

\* The slots and connections of a state of the invariant.
LEMMA SlotTypes ==
  ASSUME IInv, NEW i \in Slots
  PROVE  /\ slots[i] \in SlotRecords /\ slots[i].generation \in Nat /\ SlotGood(slots[i])
         /\ slots[i].fd # Free => slots[i].fd \in Conns /\ ConnGood(slots[i])
BY DEF IInv, TypeInv, SlotInv, SlotRecords

LEMMA FreeIsNone == Free \notin Conns
BY EpollAssumption DEF Free

LEMMA HandlesStay ==
  ASSUME IInv, NEW i \in Slots, NEW r, Becomes(i, r)
  PROVE  /\ slots' \in [Slots -> SlotRecords] /\ slots'[i] = r
         /\ \A j \in Slots \ {i} : slots'[j] = slots[j]
         /\ \A j \in Slots : slots'[j].generation = slots[j].generation /\ Handle(j)' = Handle(j)
<1>1. slots \in [Slots -> SlotRecords]
  BY DEF IInv, TypeInv
<1>2. slots' \in [Slots -> SlotRecords] /\ slots'[i] = r /\ \A j \in Slots \ {i} : slots'[j] = slots[j]
  BY <1>1 DEF Becomes
<1>3. \A j \in Slots : slots'[j].generation = slots[j].generation
  BY <1>2 DEF Becomes
<1> QED BY <1>2, <1>3 DEF Handle

LEMMA QueueStays ==
  ASSUME IInv, NEW i \in Slots, NEW r, Becomes(i, r), QueueGood(readyQueue'), FlagsTrue(readyQueue', {i}),
         r.fd # Free => (r.readyAgain <=> InQueue(readyQueue', Handle(i)))
  PROVE  QueueInv'
<1> DEFINE q == readyQueue'
<1>1. /\ slots'[i] = r /\ \A j \in Slots \ {i} : slots'[j] = slots[j]
      /\ \A j \in Slots : slots'[j].generation = slots[j].generation /\ Handle(j)' = Handle(j)
  BY HandlesStay
<1>2. \A k \in 1 .. Len(q) : q[k].slot \in Slots
  <2>1. q \in Seq(SlotHandles)
    BY DEF QueueGood
  <2> HIDE DEF q
  <2>2. \A k \in 1 .. Len(q) : q[k] \in SlotHandles
    BY <2>1, ElementOfSeq
  <2> QED BY <2>2 DEF SlotHandles
<1>3. QueueGood(readyQueue)'
  BY <1>1, <1>2 DEF QueueGood
<1>4. \A j \in Slots : slots'[j].fd # Free => (slots'[j].readyAgain <=> InQueue(q, Handle(j)'))
  <2> TAKE j \in Slots
  <2>1. CASE j = i
    BY <1>1, <2>1
  <2>2. CASE j # i
    BY <1>1, <2>2 DEF FlagsTrue
  <2> QED BY <2>1, <2>2
<1>5. FlagsTrue(readyQueue, {})'
  BY <1>4 DEF FlagsTrue, InQueue
<1> QED BY <1>3, <1>5 DEF QueueInv

LEMMA CloseStep ==
  ASSUME IInv, NEW i \in Slots, NEW c \in Conns, c = slots[i].fd, Close(i), Touches(c), UNCHANGED client,
         QueueGood(readyQueue'), FlagsTrue(readyQueue', {i}),
         c \in reset \/ c \in dropped' \/ (c \in ended /\ got'[c] = Upto(sent[c]))
  PROVE  /\ slots' \in [Slots -> SlotRecords]
         /\ peer' \in [Conns -> {"absent", "backlog", "open", "closed", "refused"}]
         /\ SlotInv' /\ QueueInv' /\ ConnInv' /\ ClosedWhenFlushed'
<1> DEFINE r == Removed(slots[i])
<1>1. slots[i] \in SlotRecords /\ slots[i].generation \in Nat
  BY SlotTypes
<1>2. r \in SlotRecords /\ r.generation = slots[i].generation /\ r.fd = Free /\ SlotGood(r)
  BY <1>1, EmptySeq, EpollAssumption DEF Removed, NewSlot, SlotRecords, SlotGood
<1>3. Becomes(i, r)
  BY <1>2 DEF Close, Becomes
<1> HIDE DEF r
<1>4. /\ slots' \in [Slots -> SlotRecords] /\ slots'[i] = r /\ \A j \in Slots \ {i} : slots'[j] = slots[j]
  BY <1>3, HandlesStay
<1>5. QueueInv'
  BY <1>2, <1>3, QueueStays
<1>6. /\ peer \in [Conns -> {"absent", "backlog", "open", "closed", "refused"}]
      /\ peer' = [peer EXCEPT ![c] = "closed"]
  BY DEF IInv, TypeInv, Close
<1>7. /\ peer' \in [Conns -> {"absent", "backlog", "open", "closed", "refused"}]
      /\ peer'[c] = "closed" /\ \A d \in Conns \ {c} : peer'[d] = peer[d]
  BY <1>6
<1>8. \A j \in Slots \ {i} : slots[j].fd # Free => slots[j].fd \in Conns \ {c}
  BY SlotTypes, FreeIsNone DEF IInv, ConnInv
<1>9. SlotInv'
  <2>1. \A j \in Slots : SlotGood(slots'[j])
    BY <1>2, <1>4, SlotTypes
  <2>2. ASSUME NEW j \in Slots, slots'[j].fd # Free PROVE ConnGood(slots[j])'
    <3>1. j # i /\ slots'[j] = slots[j]
      BY <1>2, <1>4, <2>2
    <3>2. slots[j].fd \in Conns \ {c} /\ ConnGood(slots[j])
      BY <1>8, <2>2, <3>1, SlotTypes
    <3> QED BY <1>7, <3>1, <3>2 DEF ConnGood, Touches, Pending, client
  <2> QED BY <2>1, <2>2 DEF SlotInv, SlotGood
<1>10. ConnInv'
  <2>1. \A j, k \in Slots : slots'[j].fd = slots'[k].fd /\ slots'[j].fd # Free => j = k
    BY <1>2, <1>4 DEF IInv, ConnInv
  <2>2. \A d \in Conns : received'[d] <= sent'[d]
    BY DEF IInv, ConnInv, Touches, client
  <2>3. \A d \in Conns : peer'[d] \in {"absent", "backlog"} => received'[d] = 0 /\ got'[d] = <<>>
    BY <1>7 DEF IInv, ConnInv, Touches
  <2> QED BY <2>1, <2>2, <2>3 DEF ConnInv
<1>11. ClosedWhenFlushed'
  <2> SUFFICES ASSUME NEW d \in Conns, peer'[d] = "closed"
               PROVE  d \in reset' \/ d \in dropped' \/ (d \in ended' /\ got'[d] = Upto(sent'[d]))
    BY DEF ClosedWhenFlushed, Upto
  <2>1. reset' = reset /\ ended' = ended /\ sent' = sent
    BY DEF client
  <2>2. CASE d = c
    BY <2>1, <2>2
  <2>3. CASE d # c
    <3>1. d \in reset \/ d \in dropped \/ (d \in ended /\ got[d] = Upto(sent[d]))
      BY <1>7, <2>3 DEF IInv, ClosedWhenFlushed
    <3>2. got'[d] = got[d] /\ dropped \subseteq dropped'
      BY <2>3 DEF Touches
    <3> QED BY <2>1, <3>1, <3>2
  <2> QED BY <2>2, <2>3
<1> QED BY <1>4, <1>5, <1>7, <1>9, <1>10, <1>11

LEMMA KeepStep ==
  ASSUME IInv, NEW i \in Slots, NEW c \in Conns, c = slots[i].fd,
         NEW r, Becomes(i, r), UNCHANGED peer, Touches(c), UNCHANGED client,
         QueueGood(readyQueue'), FlagsTrue(readyQueue', {i}), r.readyAgain <=> InQueue(readyQueue', Handle(i)),
         r.fd = c, SlotGood(r), got'[c] \o Pending(r) = Upto(received'[c]),
         r.peerEof => c \in ended /\ received'[c] = sent[c]
  PROVE  /\ slots' \in [Slots -> SlotRecords] /\ SlotInv' /\ QueueInv' /\ ConnInv' /\ ClosedWhenFlushed'
<1>1. c # Free
  BY FreeIsNone
<1>2. slots' \in [Slots -> SlotRecords] /\ slots'[i] = r /\ \A j \in Slots \ {i} : slots'[j] = slots[j]
  BY HandlesStay
<1>3. QueueInv'
  BY QueueStays
<1>4. peer[c] = "open"
  BY <1>1, SlotTypes DEF ConnGood
<1>5. \A j \in Slots \ {i} : slots[j].fd # Free => slots[j].fd \in Conns \ {c}
  BY SlotTypes DEF IInv, ConnInv
<1>6. SlotInv'
  <2>1. \A j \in Slots : SlotGood(slots'[j])
    BY <1>2, SlotTypes
  <2>2. ASSUME NEW j \in Slots, slots'[j].fd # Free PROVE ConnGood(slots[j])'
    <3>1. CASE j = i
      BY <1>2, <1>4, <3>1 DEF ConnGood, Pending, client
    <3>2. CASE j # i
      <4>1. slots[j].fd \in Conns \ {c} /\ ConnGood(slots[j]) /\ slots'[j] = slots[j]
        BY <1>2, <1>5, <2>2, <3>2, SlotTypes
      <4> QED BY <4>1 DEF ConnGood, Touches, Pending, client
    <3> QED BY <3>1, <3>2
  <2> QED BY <2>1, <2>2 DEF SlotInv, SlotGood
<1>7. ConnInv'
  <2>1. \A j, k \in Slots : slots'[j].fd = slots'[k].fd /\ slots'[j].fd # Free => j = k
    BY <1>1, <1>2 DEF IInv, ConnInv
  <2>2. \A d \in Conns : received'[d] <= sent'[d]
    BY DEF IInv, ConnInv, Touches, client
  <2>3. \A d \in Conns : peer'[d] \in {"absent", "backlog"} => received'[d] = 0 /\ got'[d] = <<>>
    BY <1>4 DEF IInv, ConnInv, Touches
  <2> QED BY <2>1, <2>2, <2>3 DEF ConnInv
<1>8. ClosedWhenFlushed'
  <2> SUFFICES ASSUME NEW d \in Conns, peer'[d] = "closed"
               PROVE  d \in reset' \/ d \in dropped' \/ (d \in ended' /\ got'[d] = Upto(sent'[d]))
    BY DEF ClosedWhenFlushed, Upto
  <2>1. reset' = reset /\ ended' = ended /\ sent' = sent /\ d # c
    BY <1>4 DEF client
  <2>2. d \in reset \/ d \in dropped \/ (d \in ended /\ got[d] = Upto(sent[d]))
    BY DEF IInv, ClosedWhenFlushed
  <2>3. got'[d] = got[d] /\ dropped \subseteq dropped'
    BY <2>1 DEF Touches
  <2> QED BY <2>1, <2>2, <2>3
<1> QED BY <1>2, <1>3, <1>6, <1>7, <1>8

-----------------------------------------------------------------------------
(* A slot is served.                                                       *)

\* A handle that is not in the queue yet is put at its end.
LEMMA AppendGood ==
  ASSUME IInv, NEW i \in Slots, NEW q, QueueGood(q), ~InQueue(q, Handle(i)), Len(q) # MaxConns
  PROVE  /\ QueueGood(Append(q, Handle(i)))
         /\ \A h : InQueue(Append(q, Handle(i)), h) <=> InQueue(q, h) \/ h = Handle(i)
<1> DEFINE e == Handle(i)   n == Len(q)   a == Append(q, e)
<1>1. q \in Seq(SlotHandles) /\ n \in Nat /\ n <= MaxConns /\ MaxConns \in Nat
  BY EpollAssumption, LenProperties DEF QueueGood
<1>2. e \in SlotHandles /\ e.slot = i /\ e.generation = slots[i].generation /\ slots[i].generation \in Nat
  BY SlotTypes DEF Handle, SlotHandles
<1>3. /\ \A j, k \in 1 .. n : q[j] = q[k] => j = k
      /\ \A k \in 1 .. n : q[k].generation <= slots[q[k].slot].generation
      /\ \A k \in 1 .. n : q[k] # e
  BY DEF QueueGood, InQueue
<1> HIDE DEF e
<1>4. a \in Seq(SlotHandles) /\ Len(a) = n + 1 /\ a[n + 1] = e /\ \A k \in 1 .. n : a[k] = q[k]
  BY <1>1, <1>2, AppendProperties
<1> HIDE DEF a, n
<1>5. \A k \in 1 .. n + 1 : k = n + 1 \/ k \in 1 .. n
  BY <1>1
<1>6. n + 1 <= MaxConns
  BY <1>1 DEF n
<1>7. \A j, k \in 1 .. n + 1 : a[j] = a[k] => j = k
  BY <1>3, <1>4, <1>5
<1>8. \A k \in 1 .. n + 1 : a[k].generation <= slots[a[k].slot].generation
  <2> TAKE k \in 1 .. n + 1
  <2>1. CASE k = n + 1
    BY <1>2, <1>4, <2>1
  <2>2. CASE k \in 1 .. n
    BY <1>3, <1>4, <2>2
  <2> QED BY <1>5, <2>1, <2>2
<1>9. QueueGood(a)
  BY <1>4, <1>6, <1>7, <1>8 DEF QueueGood
<1>10. n + 1 \in 1 .. n + 1 /\ \A k \in 1 .. n : k \in 1 .. n + 1
  BY <1>1
<1>11. \A h : InQueue(a, h) <=> InQueue(q, h) \/ h = e
  <2> TAKE h
  <2>1. ASSUME InQueue(a, h) PROVE InQueue(q, h) \/ h = e
    BY <1>4, <1>5, <2>1 DEF InQueue, n
  <2>2. ASSUME InQueue(q, h) PROVE InQueue(a, h)
    BY <1>4, <1>10, <2>2 DEF InQueue, n
  <2>3. ASSUME h = e PROVE InQueue(a, h)
    BY <1>4, <1>10, <2>3 DEF InQueue
  <2> QED BY <2>1, <2>2, <2>3
<1> QED BY <1>9, <1>11 DEF a, e

\* The record of slot i that a service starts from.
Serves(s, i) ==
  /\ s \in SlotRecords
  /\ s.fd = slots[i].fd /\ s.generation = slots[i].generation /\ s.out = slots[i].out
  /\ s.off = slots[i].off /\ s.peerEof = slots[i].peerEof /\ s.closing = slots[i].closing

\* The rest of a step that serves.
LoopTypes ==
  /\ pc' \in {"top", "batch", "gone"} /\ stopRequested' \in BOOLEAN
  /\ batch' \subseteq [handle : SlotHandles \cup {Listener}, bits : SUBSET Bits]
  /\ accepts' \in 0 .. AcceptBudget /\ UNCHANGED client

LEMMA ServesHeld ==
  ASSUME IInv, NEW i \in Slots, slots[i].fd # Free, NEW s, Serves(s, i)
  PROVE  Held(s)
<1>1. SlotGood(slots[i]) /\ slots[i].fd \in Conns /\ ConnGood(slots[i])
  BY SlotTypes
<1>2. Pending(s) = Pending(slots[i])
  BY DEF Pending, Serves
<1>3. SlotGood(s)
  BY <1>1 DEF SlotGood, Serves
<1>4. ConnGood(s)
  BY <1>1, <1>2 DEF ConnGood, Serves
<1> QED BY <1>1, <1>3, <1>4 DEF Held, Serves

LEMMA ServedTypes ==
  ASSUME IInv, LoopTypes, NEW c \in Conns, Touches(c), slots' \in [Slots -> SlotRecords],
         peer' \in [Conns -> {"absent", "backlog", "open", "closed", "refused"}]
  PROVE  TypeInv'
BY DEF IInv, TypeInv, LoopTypes, Touches, client

LEMMA ServiceInv ==
  ASSUME IInv, NEW i \in Slots, slots[i].fd # Free, NEW s, Serves(s, i),
         NEW q, QueueGood(q), FlagsTrue(q, {i}), s.readyAgain <=> InQueue(q, Handle(i)),
         NEW bits, Service(i, s, bits, q), LoopTypes
  PROVE  IInv'
<1> DEFINE c == slots[i].fd
<1>1. c \in Conns /\ s.fd = c /\ s.generation = slots[i].generation /\ Held(s)
  BY SlotTypes, ServesHeld DEF Serves
<1>2. /\ received \in [Conns -> Nat] /\ got \in [Conns -> Seq(Nat)] /\ received[c] <= sent[c]
      /\ dropped \subseteq Conns /\ blocked \subseteq Conns
      /\ peer \in [Conns -> {"absent", "backlog", "open", "closed", "refused"}]
  BY <1>1 DEF IInv, TypeInv, ConnInv
<1>3. UNCHANGED client
  BY DEF LoopTypes
<1>4. CASE s.fd \in reset /\ Close(i) /\ readyQueue' = q /\ UNCHANGED io
  <2>1. Touches(c)
    BY <1>2, <1>4 DEF Touches, io
  <2>2. /\ slots' \in [Slots -> SlotRecords]
        /\ peer' \in [Conns -> {"absent", "backlog", "open", "closed", "refused"}]
        /\ SlotInv' /\ QueueInv' /\ ConnInv' /\ ClosedWhenFlushed'
    BY <1>1, <1>3, <1>4, <2>1, CloseStep
  <2> QED BY <1>1, <2>1, <2>2, ServedTypes DEF IInv
<1>5. ASSUME NEW o \in Outcomes(s, bits),
             received' = [received EXCEPT ![c] = @ + o.read],
             got' = [got EXCEPT ![c] = @ \o o.wrote],
             blocked' = IF o.short THEN blocked \cup {c} ELSE blocked
      PROVE  /\ Flows(s, o.conn, o.read, o.wrote)
             /\ o.conn.closing => c \in ended /\ got'[c] = Upto(sent[c])
             /\ received' \in [Conns -> Nat] /\ got' \in [Conns -> Seq(Nat)]
             /\ \A d \in Conns \ {c} : received'[d] = received[d] /\ got'[d] = got[d]
             /\ received'[c] = received[c] + o.read /\ got'[c] = got[c] \o o.wrote
             /\ received'[c] <= sent[c] /\ blocked' \subseteq Conns
  <2>1. /\ Flows(s, o.conn, o.read, o.wrote)
        /\ o.conn.closing => s.fd \in ended /\ got[s.fd] \o o.wrote = Upto(sent[s.fd])
    BY <1>1, OutcomeIs DEF IInv
  <2>2. /\ o.read \in Nat /\ o.wrote \in Seq(Nat) /\ received[c] + o.read <= sent[c]
    BY <1>1, <2>1 DEF Flows
  <2>3. received[c] \in Nat /\ got[c] \in Seq(Nat)
    BY <1>1, <1>2
  <2>4. received[c] + o.read \in Nat /\ got[c] \o o.wrote \in Seq(Nat)
    BY <2>2, <2>3, ConcatProperties
  <2> HIDE DEF c
  <2>5. received'[c] = received[c] + o.read /\ got'[c] = got[c] \o o.wrote
    BY <1>1, <1>2, <1>5
  <2>6. /\ received' \in [Conns -> Nat] /\ got' \in [Conns -> Seq(Nat)]
        /\ \A d \in Conns \ {c} : received'[d] = received[d] /\ got'[d] = got[d]
    BY <1>1, <1>2, <1>5, <2>4
  <2>7. blocked' \subseteq Conns
    BY <1>1, <1>2, <1>5
  <2> QED BY <1>1, <2>1, <2>2, <2>5, <2>6, <2>7
\* The connection is closed, flushed or for want of a place in the queue.
<1>6. ASSUME NEW o \in Outcomes(s, bits), NEW lost \in BOOLEAN,
             received' = [received EXCEPT ![c] = @ + o.read],
             got' = [got EXCEPT ![c] = @ \o o.wrote],
             blocked' = IF o.short THEN blocked \cup {c} ELSE blocked,
             dropped' = IF lost /\ ~o.conn.closing THEN dropped \cup {c} ELSE dropped,
             o.conn.closing \/ lost, Close(i), readyQueue' = q
      PROVE  IInv'
  <2>1. Touches(c)
    BY <1>1, <1>2, <1>5, <1>6 DEF Touches
  <2>2. c \in dropped' \/ (c \in ended /\ got'[c] = Upto(sent[c]))
    BY <1>5, <1>6
  <2>3. /\ slots' \in [Slots -> SlotRecords]
        /\ peer' \in [Conns -> {"absent", "backlog", "open", "closed", "refused"}]
        /\ SlotInv' /\ QueueInv' /\ ConnInv' /\ ClosedWhenFlushed'
    <3> HIDE DEF c
    <3>1. c = slots[i].fd /\ c \in Conns
      BY <1>1 DEF c
    <3> QED BY <1>3, <1>6, <2>1, <2>2, <3>1, CloseStep
  <2> QED BY <1>1, <2>1, <2>3, ServedTypes DEF IInv
\* It goes on, in the queue if it used up a budget.
<1>7. ASSUME NEW o \in Outcomes(s, bits), NEW enqueue \in BOOLEAN,
             enqueue => ~o.conn.readyAgain /\ Len(q) # MaxConns, ~o.conn.closing,
             received' = [received EXCEPT ![c] = @ + o.read],
             got' = [got EXCEPT ![c] = @ \o o.wrote],
             blocked' = IF o.short THEN blocked \cup {c} ELSE blocked,
             dropped' = dropped,
             slots' = [slots EXCEPT ![i] = [o.conn EXCEPT !.armed = Interest(o.conn), !.readyAgain = @ \/ enqueue]],
             readyQueue' = IF enqueue THEN Append(q, Handle(i)) ELSE q, UNCHANGED peer
      PROVE  IInv'
  <2> DEFINE r == [o.conn EXCEPT !.armed = Interest(o.conn), !.readyAgain = @ \/ enqueue]
  <2>1. Touches(c)
    BY <1>1, <1>2, <1>5, <1>7 DEF Touches
  <2>2. Flows(s, o.conn, o.read, o.wrote) /\ received'[c] = received[c] + o.read /\ got'[c] = got[c] \o o.wrote
    BY <1>5, <1>7
  <2>3. o.conn \in SlotRecords /\ Same(o.conn, s) /\ o.conn.off <= Len(o.conn.out) /\ Len(o.conn.out) <= OutputCap
    BY <2>2 DEF Flows
  <2>4. Interest(o.conn) \in SUBSET Bits
    BY DEF Interest, Bits
  <2>5. /\ r \in SlotRecords /\ r.fd = o.conn.fd /\ r.generation = o.conn.generation /\ r.out = o.conn.out
        /\ r.off = o.conn.off /\ r.peerEof = o.conn.peerEof /\ r.closing = o.conn.closing
        /\ r.readyAgain = (o.conn.readyAgain \/ enqueue)
    BY <2>3, <2>4 DEF SlotRecords
  <2>6. slots' = [slots EXCEPT ![i] = r]
    BY <1>7
  <2> HIDE DEF r
  <2>7. r.fd = c /\ Becomes(i, r)
    BY <1>1, <2>3, <2>5, <2>6 DEF Becomes, Same
  <2>8. SlotGood(r)
    BY <1>7, <2>3, <2>5 DEF SlotGood
  <2>9. Pending(r) = Pending(o.conn)
    BY <2>5 DEF Pending
  <2>10. got'[c] \o Pending(r) = Upto(received'[c]) /\ (r.peerEof => c \in ended /\ received'[c] = sent[c])
    BY <1>1, <2>2, <2>5, <2>9 DEF Flows
  <2>11. /\ QueueGood(readyQueue') /\ FlagsTrue(readyQueue', {i})
         /\ r.readyAgain <=> InQueue(readyQueue', Handle(i))
    <3>1. o.conn.readyAgain <=> InQueue(q, Handle(i))
      BY <2>3 DEF Same
    <3>2. CASE enqueue
      <4>1. ~InQueue(q, Handle(i)) /\ Len(q) # MaxConns /\ readyQueue' = Append(q, Handle(i))
        BY <1>7, <3>1, <3>2
      <4>2. /\ QueueGood(Append(q, Handle(i)))
            /\ \A h : InQueue(Append(q, Handle(i)), h) <=> InQueue(q, h) \/ h = Handle(i)
        BY <4>1, AppendGood
      <4>3. \A j \in Slots \ {i} : Handle(j) # Handle(i)
        BY DEF Handle
      <4>4. FlagsTrue(readyQueue', {i})
        BY <4>1, <4>2, <4>3 DEF FlagsTrue
      <4>5. InQueue(readyQueue', Handle(i))
        BY <4>1, <4>2
      <4> QED BY <2>5, <3>2, <4>1, <4>2, <4>4, <4>5
    <3>3. CASE ~enqueue
      BY <1>7, <2>5, <3>1, <3>3
    <3> QED BY <3>2, <3>3
  <2>12. slots' \in [Slots -> SlotRecords] /\ SlotInv' /\ QueueInv' /\ ConnInv' /\ ClosedWhenFlushed'
    <3> HIDE DEF c
    <3>1. c = slots[i].fd /\ c \in Conns
      BY <1>1 DEF c
    <3>2. UNCHANGED peer
      BY <1>7
    <3> QED BY <1>3, <2>1, <2>7, <2>8, <2>10, <2>11, <3>1, <3>2, KeepStep
  <2>13. peer' \in [Conns -> {"absent", "backlog", "open", "closed", "refused"}]
    BY <1>2, <1>7
  <2> QED BY <1>1, <2>1, <2>12, <2>13, ServedTypes DEF IInv
<1>8. CASE s.fd \notin reset /\ \E o \in Outcomes(s, bits) :
             LET enqueue == Yielded(o) /\ ~o.conn.readyAgain
                 noPlace == enqueue /\ Len(q) = MaxConns
             IN
             /\ received' = [received EXCEPT ![s.fd] = @ + o.read]
             /\ got' = [got EXCEPT ![s.fd] = @ \o o.wrote]
             /\ blocked' = IF o.short THEN blocked \cup {s.fd} ELSE blocked
             /\ dropped' = IF noPlace /\ ~o.conn.closing THEN dropped \cup {s.fd} ELSE dropped
             /\ IF o.conn.closing \/ noPlace
                THEN Close(i) /\ readyQueue' = q
                ELSE /\ slots' = [slots EXCEPT ![i] =
                          [o.conn EXCEPT !.armed = Interest(o.conn), !.readyAgain = @ \/ enqueue]]
                     /\ readyQueue' = IF enqueue THEN Append(q, Handle(i)) ELSE q
                     /\ UNCHANGED peer
  <2>1. PICK o \in Outcomes(s, bits) :
             LET enqueue == Yielded(o) /\ ~o.conn.readyAgain
                 noPlace == enqueue /\ Len(q) = MaxConns
             IN
             /\ received' = [received EXCEPT ![s.fd] = @ + o.read]
             /\ got' = [got EXCEPT ![s.fd] = @ \o o.wrote]
             /\ blocked' = IF o.short THEN blocked \cup {s.fd} ELSE blocked
             /\ dropped' = IF noPlace /\ ~o.conn.closing THEN dropped \cup {s.fd} ELSE dropped
             /\ IF o.conn.closing \/ noPlace
                THEN Close(i) /\ readyQueue' = q
                ELSE /\ slots' = [slots EXCEPT ![i] =
                          [o.conn EXCEPT !.armed = Interest(o.conn), !.readyAgain = @ \/ enqueue]]
                     /\ readyQueue' = IF enqueue THEN Append(q, Handle(i)) ELSE q
                     /\ UNCHANGED peer
    BY <1>8, Zenon
  <2> DEFINE enqueue == Yielded(o) /\ ~o.conn.readyAgain
             noPlace == enqueue /\ Len(q) = MaxConns
  <2>2. /\ received' = [received EXCEPT ![s.fd] = @ + o.read]
        /\ got' = [got EXCEPT ![s.fd] = @ \o o.wrote]
        /\ blocked' = IF o.short THEN blocked \cup {s.fd} ELSE blocked
        /\ dropped' = IF noPlace /\ ~o.conn.closing THEN dropped \cup {s.fd} ELSE dropped
    BY <2>1, Zenon
  <2>3. /\ enqueue \in BOOLEAN /\ noPlace \in BOOLEAN
        /\ enqueue => ~o.conn.readyAgain
        /\ ~noPlace => (enqueue => Len(q) # MaxConns)
        /\ IF o.conn.closing \/ noPlace
           THEN Close(i) /\ readyQueue' = q
           ELSE /\ slots' = [slots EXCEPT ![i] =
                     [o.conn EXCEPT !.armed = Interest(o.conn), !.readyAgain = @ \/ enqueue]]
                /\ readyQueue' = IF enqueue THEN Append(q, Handle(i)) ELSE q
                /\ UNCHANGED peer
    BY <2>1, Zenon
  <2> HIDE DEF enqueue, noPlace
  <2>4. /\ received' = [received EXCEPT ![c] = @ + o.read]
        /\ got' = [got EXCEPT ![c] = @ \o o.wrote]
        /\ blocked' = IF o.short THEN blocked \cup {c} ELSE blocked
        /\ dropped' = IF noPlace /\ ~o.conn.closing THEN dropped \cup {c} ELSE dropped
    BY <1>1, <2>2
  <2>5. CASE o.conn.closing \/ noPlace
    <3>1. Close(i) /\ readyQueue' = q
      BY <2>3, <2>5, Zenon
    <3> QED BY <1>6, <2>3, <2>4, <2>5, <3>1
  <2>6. CASE ~(o.conn.closing \/ noPlace)
    <3>1. /\ slots' = [slots EXCEPT ![i] = [o.conn EXCEPT !.armed = Interest(o.conn), !.readyAgain = @ \/ enqueue]]
          /\ readyQueue' = IF enqueue THEN Append(q, Handle(i)) ELSE q
          /\ UNCHANGED peer
          /\ enqueue => ~o.conn.readyAgain /\ Len(q) # MaxConns
      BY <2>3, <2>6
    <3>2. dropped' = dropped /\ ~o.conn.closing
      BY <2>4, <2>6
    <3> QED BY <1>7, <2>3, <2>4, <3>1, <3>2
  <2> QED BY <2>5, <2>6
<1> QED BY <1>4, <1>8 DEF Service

-----------------------------------------------------------------------------
(* The steps.                                                              *)

Alike(r, s) ==
  /\ r.fd = s.fd /\ r.generation = s.generation /\ r.out = s.out /\ r.off = s.off
  /\ r.peerEof = s.peerEof /\ r.closing = s.closing /\ r.readyAgain = s.readyAgain

\* What a step may do to the connections when it serves none.
PeerMoves(c) ==
  \/ peer'[c] = peer[c]
  \/ peer[c] = "absent" /\ peer'[c] = "backlog"
  \/ peer[c] = "backlog" /\ peer'[c] = "refused"

SteadyTypes ==
  /\ pc' \in {"top", "batch", "gone"} /\ stopRequested' \in BOOLEAN
  /\ batch' \subseteq [handle : SlotHandles \cup {Listener}, bits : SUBSET Bits]
  /\ accepts' \in 0 .. AcceptBudget
  /\ slots' \in [Slots -> SlotRecords]
  /\ peer' \in [Conns -> {"absent", "backlog", "open", "closed", "refused"}]
  /\ sent' \in [Conns -> {0, MaxBytes}]
  /\ ended \subseteq ended' /\ ended' \subseteq Conns /\ reset \subseteq reset' /\ reset' \subseteq Conns
  /\ blocked' \subseteq Conns /\ UNCHANGED <<received, got, dropped>>

LEMMA SteadyInv ==
  ASSUME IInv, SteadyTypes, QueueGood(readyQueue'), FlagsTrue(readyQueue', {}),
         \A j \in Slots : Alike(slots'[j], slots[j]), \A c \in Conns : PeerMoves(c),
         \A c \in Conns : sent'[c] = sent[c] \/ (c \notin ended /\ sent[c] = 0)
  PROVE  IInv'
<1>1. TypeInv'
  BY DEF IInv, TypeInv, SteadyTypes
<1>2. UNCHANGED <<received, got, dropped>> /\ ended \subseteq ended' /\ reset \subseteq reset'
  BY DEF SteadyTypes
<1>3. \A j \in Slots : slots'[j].fd = slots[j].fd /\ slots'[j].generation = slots[j].generation
                       /\ Handle(j)' = Handle(j) /\ Pending(slots[j])' = Pending(slots[j])
  BY DEF Alike, Handle, Pending
<1>4. SlotInv'
  <2>1. \A j \in Slots : SlotGood(slots'[j])
    BY SlotTypes DEF Alike, SlotGood
  <2>2. ASSUME NEW j \in Slots, slots'[j].fd # Free PROVE ConnGood(slots[j])'
    <3> DEFINE c == slots[j].fd
    <3>1. c \in Conns /\ ConnGood(slots[j]) /\ slots'[j].fd = c
      BY <1>3, <2>2, SlotTypes
    <3> HIDE DEF c
    <3>2. peer'[c] = "open"
      BY <3>1 DEF ConnGood, PeerMoves, c
    <3>3. got'[c] \o Pending(slots[j])' = Upto(received'[c])
      BY <1>2, <1>3, <3>1 DEF ConnGood, c
    <3>4. slots'[j].peerEof => c \in ended' /\ received'[c] = sent'[c]
      BY <1>2, <3>1 DEF ConnGood, Alike, c
    <3> QED BY <3>1, <3>2, <3>3, <3>4 DEF ConnGood, Upto
  <2> QED BY <2>1, <2>2 DEF SlotInv, SlotGood
<1>5. QueueInv'
  <2>1. \A k \in 1 .. Len(readyQueue') : readyQueue'[k].slot \in Slots
    <3> DEFINE q == readyQueue'
    <3>1. q \in Seq(SlotHandles)
      BY DEF QueueGood
    <3> HIDE DEF q
    <3>2. \A k \in 1 .. Len(q) : q[k] \in SlotHandles
      BY <3>1, ElementOfSeq
    <3>3. \A k \in 1 .. Len(q) : q[k].slot \in Slots
      BY <3>2 DEF SlotHandles
    <3> QED BY <3>3 DEF q
  <2>2. QueueGood(readyQueue)'
    BY <1>3, <2>1 DEF QueueGood
  <2>3. \A j \in Slots : slots'[j].fd # Free => (slots'[j].readyAgain <=> InQueue(readyQueue', Handle(j)'))
    <3> TAKE j \in Slots
    <3>1. slots[j].fd # Free => (slots[j].readyAgain <=> InQueue(readyQueue', Handle(j)))
      BY DEF FlagsTrue
    <3>2. slots'[j].readyAgain = slots[j].readyAgain
      BY DEF Alike
    <3> QED BY <1>3, <3>1, <3>2
  <2> QED BY <2>2, <2>3 DEF QueueInv, FlagsTrue, InQueue
<1>6. ConnInv'
  <2>1. \A j, k \in Slots : slots'[j].fd = slots'[k].fd /\ slots'[j].fd # Free => j = k
    BY <1>3 DEF IInv, ConnInv
  <2>2. \A c \in Conns : received'[c] <= sent'[c]
    <3> TAKE c \in Conns
    <3>1. received[c] \in Nat /\ received[c] <= sent[c] /\ sent'[c] \in {0, MaxBytes} /\ MaxBytes \in Nat
      BY EpollAssumption DEF IInv, TypeInv, ConnInv, SteadyTypes
    <3>2. sent'[c] = sent[c] \/ sent[c] = 0
      OBVIOUS
    <3>3. sent[c] = 0 => received[c] = 0
      BY <3>1
    <3> QED BY <1>2, <3>1, <3>2, <3>3
  <2>3. \A c \in Conns : peer'[c] \in {"absent", "backlog"} => received'[c] = 0 /\ got'[c] = <<>>
    BY <1>2 DEF IInv, ConnInv, PeerMoves
  <2> QED BY <2>1, <2>2, <2>3 DEF ConnInv
<1>7. ClosedWhenFlushed'
  <2> SUFFICES ASSUME NEW c \in Conns, peer'[c] = "closed"
               PROVE  c \in reset' \/ c \in dropped' \/ (c \in ended' /\ got'[c] = Upto(sent'[c]))
    BY DEF ClosedWhenFlushed, Upto
  <2>1. peer[c] = "closed"
    BY DEF PeerMoves
  <2>2. c \in reset \/ c \in dropped \/ (c \in ended /\ got[c] = Upto(sent[c]))
    BY <2>1 DEF IInv, ClosedWhenFlushed
  <2> QED BY <1>2, <2>2
<1> QED BY <1>1, <1>4, <1>5, <1>6, <1>7 DEF IInv

LEMMA QueueIsGood == IInv => QueueGood(readyQueue) /\ FlagsTrue(readyQueue, {})
BY DEF IInv, QueueInv

\* The steps of the peers and of the loop that serve nobody and leave the slots alone.
LEMMA QuietInv ==
  ASSUME IInv, UNCHANGED <<slots, readyQueue, received, got, dropped>>,
         pc' \in {"top", "batch", "gone"}, stopRequested' \in BOOLEAN,
         batch' \subseteq [handle : SlotHandles \cup {Listener}, bits : SUBSET Bits],
         accepts' \in 0 .. AcceptBudget, blocked' \subseteq Conns,
         peer' \in [Conns -> {"absent", "backlog", "open", "closed", "refused"}],
         \A c \in Conns : PeerMoves(c),
         sent' \in [Conns -> {0, MaxBytes}],
         \A c \in Conns : sent'[c] = sent[c] \/ (c \notin ended /\ sent[c] = 0),
         ended \subseteq ended', ended' \subseteq Conns, reset \subseteq reset', reset' \subseteq Conns
  PROVE  IInv'
<1>1. SteadyTypes
  BY DEF SteadyTypes, IInv, TypeInv
<1>2. \A j \in Slots : Alike(slots'[j], slots[j])
  BY DEF Alike
<1> QED BY <1>1, <1>2, QueueIsGood, SteadyInv

LEMMA ClientSteps ==
  ASSUME IInv, NEW c \in Conns, Connect(c) \/ Send(c) \/ HalfClose(c) \/ Reset(c) \/ PeerReads(c)
  PROVE  IInv'
<1> USE DEF IInv, TypeInv, PeerMoves, server, client, io
<1>1. CASE Connect(c)
  <2>1. /\ peer' \in [Conns -> {"absent", "backlog", "open", "closed", "refused"}]
        /\ \A d \in Conns : PeerMoves(d)
    BY <1>1 DEF Connect
  <2> QED BY <1>1, <2>1, QuietInv DEF Connect
<1>2. CASE Send(c)
  <2>1. /\ sent' \in [Conns -> {0, MaxBytes}]
        /\ \A d \in Conns : sent'[d] = sent[d] \/ (d \notin ended /\ sent[d] = 0)
    BY <1>2 DEF Send
  <2> QED BY <1>2, <2>1, QuietInv DEF Send
<1>3. CASE HalfClose(c)
  BY <1>3, QuietInv DEF HalfClose
<1>4. CASE Reset(c)
  BY <1>4, QuietInv DEF Reset
<1>5. CASE PeerReads(c)
  BY <1>5, QuietInv DEF PeerReads
<1> QED BY <1>1, <1>2, <1>3, <1>4, <1>5

LEMMA QuietSteps ==
  ASSUME IInv, Signal \/ HandleListener \/ AcceptNone \/ UNCHANGED vars
  PROVE  IInv'
<1> USE DEF IInv, TypeInv, PeerMoves, server, client, io
<1>1. CASE Signal
  BY <1>1, QuietInv DEF Signal
<1>2. CASE HandleListener
  <2>1. accepts' \in 0 .. AcceptBudget
    BY <1>2, EpollAssumption DEF HandleListener
  <2>2. batch' \subseteq batch
    BY <1>2 DEF HandleListener
  <2> QED BY <1>2, <2>1, <2>2, QuietInv DEF HandleListener
<1>3. CASE AcceptNone
  <2>1. accepts' \in 0 .. AcceptBudget
    BY <1>3, EpollAssumption DEF AcceptNone
  <2> QED BY <1>3, <2>1, QuietInv DEF AcceptNone
<1>4. CASE UNCHANGED vars
  BY <1>4, QuietInv DEF vars
<1> QED BY <1>1, <1>2, <1>3, <1>4

LEMMA WaitInv == IInv /\ Wait => IInv'
<1> SUFFICES ASSUME IInv, Wait PROVE IInv'
  OBVIOUS
<1>1. slots \in [Slots -> SlotRecords]
  BY DEF IInv, TypeInv
<1>2. slots' = [i \in Slots |-> IF i \in ReadySlots THEN [slots[i] EXCEPT !.armed = {}] ELSE slots[i]]
  BY DEF Wait
<1>3. \A i \in Slots : slots'[i] \in SlotRecords /\ Alike(slots'[i], slots[i])
  <2> TAKE i \in Slots
  <2>1. slots[i] \in SlotRecords
    BY <1>1
  <2>2. /\ [slots[i] EXCEPT !.armed = {}] \in SlotRecords
        /\ Alike([slots[i] EXCEPT !.armed = {}], slots[i]) /\ Alike(slots[i], slots[i])
    BY <2>1 DEF SlotRecords, Alike
  <2> QED BY <1>2, <2>1, <2>2
<1>4. slots' \in [Slots -> SlotRecords]
  BY <1>2, <1>3
<1>5. batch' \subseteq [handle : SlotHandles \cup {Listener}, bits : SUBSET Bits]
  <2>1. \A i \in ReadySlots : Handle(i) \in SlotHandles /\ ReadyBits(slots[i]) \in SUBSET Bits
    <3> TAKE i \in ReadySlots
    <3>1. i \in Slots /\ slots[i].generation \in Nat /\ slots[i].armed \in SUBSET Bits
      BY <1>1 DEF ReadySlots, SlotRecords
    <3>2. Handle(i) \in SlotHandles
      BY <3>1 DEF Handle, SlotHandles
    <3>3. ReadyBits(slots[i]) \in SUBSET Bits
      BY <3>1 DEF ReadyBits, Bits
    <3> QED BY <3>2, <3>3
  <2>2. {"in"} \in SUBSET Bits
    BY DEF Bits
  <2>3. batch' = {[handle |-> Handle(i), bits |-> ReadyBits(slots[i])] : i \in ReadySlots}
                   \cup (IF Backlog = {} THEN {} ELSE {[handle |-> Listener, bits |-> {"in"}]})
    BY DEF Wait
  <2> QED BY <2>1, <2>2, <2>3
<1>6. SteadyTypes
  BY <1>4, <1>5 DEF Wait, SteadyTypes, IInv, TypeInv, client, io
<1>7. \A c \in Conns : PeerMoves(c) /\ sent'[c] = sent[c]
  BY DEF Wait, PeerMoves, client
<1>8. QueueGood(readyQueue') /\ FlagsTrue(readyQueue', {})
  BY QueueIsGood DEF Wait
<1> QED BY <1>3, <1>6, <1>7, <1>8, SteadyInv

LEMMA HandleEventInv == IInv /\ HandleEvent => IInv'
<1> SUFFICES ASSUME IInv, HandleEvent PROVE IInv'
  OBVIOUS
<1>1. PICK e \in batch :
        /\ e.handle # Listener /\ batch' = batch \ {e}
        /\ IF Live(e.handle)
           THEN Service(e.handle.slot, slots[e.handle.slot], e.bits, readyQueue)
           ELSE UNCHANGED <<slots, readyQueue, peer, io>>
  BY DEF HandleEvent
<1>2. UNCHANGED <<pc, stopRequested, accepts, client>>
  BY DEF HandleEvent
<1>3. e.handle \in SlotHandles
  BY <1>1 DEF IInv, TypeInv
<1>4. batch' \subseteq [handle : SlotHandles \cup {Listener}, bits : SUBSET Bits]
  BY <1>1 DEF IInv, TypeInv
<1>5. CASE Live(e.handle)
  <2> DEFINE i == e.handle.slot   s == slots[i]
  <2>1. i \in Slots /\ s.fd # Free /\ s \in SlotRecords
    BY <1>3, <1>5, SlotTypes DEF Live, SlotHandles
  <2>2. Serves(s, i)
    BY <2>1 DEF Serves
  <2>3. LoopTypes
    BY <1>2, <1>4 DEF LoopTypes, IInv, TypeInv
  <2>4. QueueGood(readyQueue) /\ FlagsTrue(readyQueue, {i}) /\ (s.readyAgain <=> InQueue(readyQueue, Handle(i)))
    BY <2>1, QueueIsGood DEF FlagsTrue
  <2>5. Service(i, s, e.bits, readyQueue)
    BY <1>1, <1>5
  <2> HIDE DEF i, s
  <2>6. s = slots[i]
    BY DEF s
  <2> QED BY <2>1, <2>2, <2>3, <2>4, <2>5, <2>6, ServiceInv
<1>6. CASE ~Live(e.handle)
  BY <1>1, <1>2, <1>4, <1>6, QuietInv DEF IInv, TypeInv, PeerMoves, client, io
<1> QED BY <1>5, <1>6

\* A handle that leaves the queue was in it once.
LEMMA TailGood ==
  ASSUME QueueGood(readyQueue), readyQueue # <<>>
  PROVE  /\ QueueGood(Tail(readyQueue)) /\ Head(readyQueue) \in SlotHandles
         /\ ~InQueue(Tail(readyQueue), Head(readyQueue))
         /\ \A h : h # Head(readyQueue) => (InQueue(Tail(readyQueue), h) <=> InQueue(readyQueue, h))
<1> DEFINE q == readyQueue   n == Len(q)   t == Tail(q)
<1>1. /\ q \in Seq(SlotHandles) /\ n <= MaxConns
      /\ \A j, k \in 1 .. n : q[j] = q[k] => j = k
      /\ \A k \in 1 .. n : q[k].generation <= slots[q[k].slot].generation
  BY DEF QueueGood
<1>2. n \in Nat /\ n # 0 /\ MaxConns \in Nat
  BY <1>1, EmptySeq, LenProperties, EpollAssumption
<1>3. /\ Head(q) \in SlotHandles /\ Head(q) = q[1]
      /\ t \in Seq(SlotHandles) /\ Len(t) = n - 1 /\ \A k \in 1 .. n - 1 : t[k] = q[k + 1]
  BY <1>1, HeadTailProperties
<1> HIDE DEF n, t, q
<1>4. \A k \in 1 .. n - 1 : k + 1 \in 1 .. n /\ k + 1 # 1
  BY <1>2
<1>5. 1 \in 1 .. n
  BY <1>2
<1>6. \A j, k \in 1 .. n - 1 : t[j] = t[k] => j = k
  <2> TAKE j, k \in 1 .. n - 1
  <2> HAVE t[j] = t[k]
  <2>1. j + 1 = k + 1
    BY <1>1, <1>3, <1>4
  <2> QED BY <2>1
<1>7. \A k \in 1 .. n - 1 : t[k].generation <= slots[t[k].slot].generation
  BY <1>1, <1>3, <1>4
<1>8. QueueGood(t)
  BY <1>1, <1>2, <1>3, <1>6, <1>7 DEF QueueGood
<1>9. ~InQueue(t, Head(q))
  BY <1>1, <1>3, <1>4, <1>5 DEF InQueue
<1>10. ASSUME NEW h, h # Head(q) PROVE InQueue(t, h) <=> InQueue(q, h)
  <2>1. ASSUME InQueue(t, h) PROVE InQueue(q, h)
    BY <1>3, <1>4, <2>1 DEF InQueue, n
  <2>2. ASSUME InQueue(q, h) PROVE InQueue(t, h)
    <3>1. PICK k \in 1 .. n : q[k] = h
      BY <2>2 DEF InQueue, n
    <3>2. k # 1
      BY <1>3, <1>10, <3>1
    <3>3. k - 1 \in 1 .. n - 1 /\ (k - 1) + 1 = k
      BY <1>2, <3>1, <3>2
    <3>4. t[k - 1] = h
      BY <1>3, <3>1, <3>3
    <3> QED BY <1>3, <3>3, <3>4 DEF InQueue
  <2> QED BY <2>1, <2>2
<1> QED BY <1>3, <1>8, <1>9, <1>10 DEF t, q

LEMMA RerunInv == IInv /\ Rerun => IInv'
<1> SUFFICES ASSUME IInv, Rerun PROVE IInv'
  OBVIOUS
<1>1. UNCHANGED <<stopRequested, batch, accepts, client>> /\ pc' = "top"
  BY DEF Rerun
<1>2. LoopTypes
  BY <1>1 DEF LoopTypes, IInv, TypeInv
<1>3. CASE readyQueue = <<>>
  BY <1>1, <1>3, QuietInv DEF Rerun, IInv, TypeInv, PeerMoves, client, io
<1>4. CASE readyQueue # <<>> /\ ~Live(Head(readyQueue))
  <2>1. readyQueue' = Tail(readyQueue) /\ UNCHANGED <<slots, peer, io>>
    BY <1>4 DEF Rerun
  <2>2. /\ QueueGood(Tail(readyQueue)) /\ Head(readyQueue) \in SlotHandles
        /\ \A h : h # Head(readyQueue) => (InQueue(Tail(readyQueue), h) <=> InQueue(readyQueue, h))
    BY <1>4, QueueIsGood, TailGood
  <2>3. \A j \in Slots : slots[j].fd # Free => Handle(j) # Head(readyQueue)
    BY <1>4 DEF Live, Handle
  <2>4. FlagsTrue(readyQueue', {})
    BY <2>1, <2>2, <2>3, QueueIsGood DEF FlagsTrue
  <2>5. SteadyTypes
    BY <1>1, <2>1 DEF SteadyTypes, IInv, TypeInv, client, io
  <2>6. \A j \in Slots : Alike(slots'[j], slots[j])
    BY <2>1 DEF Alike
  <2>7. \A c \in Conns : PeerMoves(c) /\ sent'[c] = sent[c]
    BY <1>1, <2>1 DEF PeerMoves, client
  <2> QED BY <2>1, <2>2, <2>4, <2>5, <2>6, <2>7, SteadyInv
<1>5. CASE readyQueue # <<>> /\ Live(Head(readyQueue))
  <2> DEFINE h == Head(readyQueue)   i == h.slot   s == Taken(slots[i])   q == Tail(readyQueue)
  <2>1. /\ QueueGood(q) /\ h \in SlotHandles /\ ~InQueue(q, h)
        /\ \A g : g # h => (InQueue(q, g) <=> InQueue(readyQueue, g))
    BY <1>5, QueueIsGood, TailGood
  <2>2. i \in Slots /\ slots[i].fd # Free /\ h = Handle(i) /\ slots[i] \in SlotRecords
    BY <1>5, <2>1, SlotTypes DEF Live, SlotHandles, Handle
  <2>3. Service(i, s, {"in"}, q)
    BY <1>5 DEF Rerun
  <2> HIDE DEF h, i, q
  <2>4. Serves(s, i) /\ s.readyAgain = FALSE
    BY <2>2 DEF Taken, Serves, SlotRecords
  <2>5. FlagsTrue(q, {i})
    <3>1. \A j \in Slots \ {i} : Handle(j) # h
      BY <2>2 DEF Handle
    <3> QED BY <2>1, <3>1, QueueIsGood DEF FlagsTrue
  <2>6. s.readyAgain <=> InQueue(q, Handle(i))
    BY <2>1, <2>2, <2>4
  <2> HIDE DEF s
  <2> QED BY <1>2, <2>1, <2>2, <2>3, <2>4, <2>5, <2>6, ServiceInv
<1> QED BY <1>3, <1>4, <1>5

\* A connection takes a slot under a generation no handle has had.
LEMMA AcceptedInv ==
  ASSUME IInv, NEW c \in Backlog, NEW i \in Slots, slots[i].fd = Free,
         peer' = [peer EXCEPT ![c] = "open"],
         slots' = [slots EXCEPT ![i] = [NewSlot(c, @.generation + 1) EXCEPT !.armed = {"in"}]],
         accepts' \in 0 .. AcceptBudget,
         UNCHANGED <<pc, stopRequested, batch, readyQueue, client, io>>
  PROVE  IInv'
<1>1. /\ c \in Conns /\ peer[c] = "backlog" /\ slots[i].generation \in Nat
      /\ slots \in [Slots -> SlotRecords]
  BY SlotTypes DEF Backlog, IInv, TypeInv
<1>2. PICK g \in Nat : g = slots[i].generation
  BY <1>1
<1>3. PICK r \in SlotRecords :
        /\ slots' = [slots EXCEPT ![i] = r]
        /\ r.fd = c /\ r.generation = g + 1 /\ r.out = <<>> /\ r.off = 0
        /\ r.peerEof = FALSE /\ r.closing = FALSE /\ r.readyAgain = FALSE
  <2> DEFINE x == NewSlot(c, slots[i].generation + 1)   y == [x EXCEPT !.armed = {"in"}]
  <2>1. slots[i].generation + 1 \in Nat /\ <<>> \in Seq(Nat) /\ {"in"} \in SUBSET Bits
    BY <1>1, EmptySeq DEF Bits
  <2>2. /\ x \in SlotRecords /\ x.fd = c /\ x.generation = g + 1 /\ x.out = <<>> /\ x.off = 0
        /\ x.peerEof = FALSE /\ x.closing = FALSE /\ x.readyAgain = FALSE
    BY <1>1, <1>2, <2>1 DEF NewSlot, SlotRecords
  <2>3. slots' = [slots EXCEPT ![i] = y]
    OBVIOUS
  <2> HIDE DEF x
  <2>4. /\ y \in SlotRecords /\ y.fd = c /\ y.generation = g + 1 /\ y.out = <<>> /\ y.off = 0
        /\ y.peerEof = FALSE /\ y.closing = FALSE /\ y.readyAgain = FALSE
    BY <2>1, <2>2 DEF SlotRecords
  <2> HIDE DEF y
  <2> QED BY <2>3, <2>4
<1>4. slots' \in [Slots -> SlotRecords] /\ slots'[i] = r /\ \A j \in Slots \ {i} : slots'[j] = slots[j]
  BY <1>1, <1>3
<1>5. /\ peer' \in [Conns -> {"absent", "backlog", "open", "closed", "refused"}]
      /\ peer'[c] = "open" /\ \A d \in Conns \ {c} : peer'[d] = peer[d]
  BY <1>1 DEF IInv, TypeInv
<1>6. TypeInv'
  BY <1>4, <1>5 DEF IInv, TypeInv, client, io
<1>7. \A j \in Slots : slots[j].fd # c
  BY <1>1, SlotTypes, FreeIsNone DEF ConnGood
<1>8. UNCHANGED <<received, got, dropped, sent, ended, reset>>
  BY DEF client, io
<1>9. SlotInv'
  <2>1. SlotGood(r)
    BY <1>3, EpollAssumption, EmptySeq DEF SlotGood
  <2>2. \A j \in Slots : SlotGood(slots'[j])
    BY <1>4, <2>1, SlotTypes
  <2>3. ASSUME NEW j \in Slots, slots'[j].fd # Free PROVE ConnGood(slots[j])'
    <3>1. CASE j = i
      <4>1. got[c] = <<>> /\ received[c] = 0
        BY <1>1 DEF IInv, ConnInv
      <4>2. Pending(r) = <<>>
        BY <1>3, SubSeqEmpty, EmptySeq DEF Pending
      <4>3. <<>> \o <<>> = <<>>
        BY EmptySeq, ConcatEmptySeq
      <4>4. got[c] \o Pending(r) = Upto(received[c])
        BY <4>1, <4>2, <4>3, NothingPending
      <4>5. ConnGood(r)'
        BY <1>3, <1>5, <1>8, <4>4 DEF ConnGood, Pending, Upto
      <4> QED BY <1>4, <3>1, <4>5 DEF ConnGood, Pending, Upto
    <3>2. CASE j # i
      <4>1. slots'[j] = slots[j] /\ ConnGood(slots[j]) /\ slots[j].fd \in Conns \ {c}
        BY <1>4, <1>7, <2>3, <3>2, SlotTypes
      <4>2. peer'[slots[j].fd] = peer[slots[j].fd]
        BY <1>5, <4>1
      <4>3. ConnGood(slots[j]) /\ Pending(slots[j])' = Pending(slots[j])
        BY <4>1 DEF Pending
      <4>4. got'[slots'[j].fd] \o Pending(slots[j])' = Upto(received'[slots'[j].fd])
        BY <1>8, <4>1, <4>3 DEF ConnGood
      <4>5. slots'[j].peerEof => slots'[j].fd \in ended' /\ received'[slots'[j].fd] = sent'[slots'[j].fd]
        <5>1. slots[j].peerEof => slots[j].fd \in ended /\ received[slots[j].fd] = sent[slots[j].fd]
          BY <4>3 DEF ConnGood
        <5>2. slots[j].peerEof => slots[j].fd \in ended' /\ received'[slots[j].fd] = sent'[slots[j].fd]
          BY <1>8, <5>1
        <5>3. slots'[j] = slots[j]
          BY <4>1
        <5> QED BY <5>2, <5>3, Zenon
      <4> QED BY <4>1, <4>2, <4>3, <4>4, <4>5 DEF ConnGood
    <3> QED BY <3>1, <3>2
  <2> QED BY <2>2, <2>3 DEF SlotInv, SlotGood
<1>10. QueueInv'
  <2>1. QueueGood(readyQueue) /\ FlagsTrue(readyQueue, {}) /\ readyQueue' = readyQueue
    BY QueueIsGood
  <2>2. \A k \in 1 .. Len(readyQueue) : readyQueue[k] \in SlotHandles
    BY <2>1, ElementOfSeq DEF QueueGood
  <2>3. \A j \in Slots : slots[j].generation \in Nat /\ slots[j].generation <= slots'[j].generation
    <3> TAKE j \in Slots
    <3>0. slots[j].generation \in Nat
      BY SlotTypes
    <3>1. CASE j = i
      <4>1. slots'[j].generation = g + 1 /\ slots[j].generation = g
        BY <1>2, <1>3, <1>4, <3>1
      <4> QED BY <1>2, <3>0, <4>1
    <3>2. CASE j # i
      <4>1. slots'[j].generation = slots[j].generation
        BY <1>4, <3>2
      <4> QED BY <3>0, <4>1
    <3> QED BY <3>1, <3>2
  <2>4. ASSUME NEW k \in 1 .. Len(readyQueue)
        PROVE  /\ readyQueue[k].generation <= slots'[readyQueue[k].slot].generation
               /\ readyQueue[k] # Handle(i)'
    <3> DEFINE h == readyQueue[k]
    <3>1. h \in SlotHandles /\ h.generation <= slots[h.slot].generation
      BY <2>1, <2>2 DEF QueueGood
    <3> HIDE DEF h
    <3>2. h.slot \in Slots /\ h.generation \in Nat
      BY <3>1 DEF SlotHandles
    <3>3. slots[h.slot].generation \in Nat /\ slots[h.slot].generation <= slots'[h.slot].generation
      BY <2>3, <3>2
    <3>4. slots'[h.slot].generation \in Nat
      <4>1. slots'[h.slot] \in SlotRecords
        BY <1>4, <3>2
      <4> QED BY <4>1 DEF SlotRecords
    <3>5. h.generation <= slots'[h.slot].generation
      BY <3>1, <3>2, <3>3, <3>4
    <3>6. h # Handle(i)'
      <4> SUFFICES ASSUME h = Handle(i)' PROVE FALSE
        OBVIOUS
      <4>1. h.slot = i /\ h.generation = g + 1
        BY <1>3, <1>4 DEF Handle
      <4> QED BY <1>2, <3>1, <4>1
    <3> QED BY <3>5, <3>6 DEF h
  <2>5. QueueGood(readyQueue)'
    BY <2>1, <2>4 DEF QueueGood
  <2>6. \A j \in Slots : slots'[j].fd # Free => (slots'[j].readyAgain <=> InQueue(readyQueue, Handle(j)'))
    <3> TAKE j \in Slots
    <3>1. CASE j = i
      BY <1>3, <1>4, <2>4, <3>1 DEF InQueue
    <3>2. CASE j # i
      <4>1. slots'[j] = slots[j] /\ Handle(j)' = Handle(j)
        BY <1>4, <3>2 DEF Handle
      <4> QED BY <2>1, <4>1 DEF FlagsTrue
    <3> QED BY <3>1, <3>2
  <2> QED BY <2>1, <2>5, <2>6 DEF QueueInv, FlagsTrue, InQueue
<1>11. ConnInv'
  <2>1. \A j, k \in Slots : slots'[j].fd = slots'[k].fd /\ slots'[j].fd # Free => j = k
    <3> TAKE j, k \in Slots
    <3> HAVE slots'[j].fd = slots'[k].fd /\ slots'[j].fd # Free
    <3>1. slots'[i].fd = c
      BY <1>3, <1>4
    <3>2. CASE j # i /\ k # i
      BY <1>4, <3>2 DEF IInv, ConnInv
    <3>3. CASE j = i \/ k = i
      BY <1>4, <1>7, <3>1, <3>3
    <3> QED BY <3>2, <3>3
  <2>2. \A d \in Conns : received'[d] <= sent'[d]
    BY <1>8 DEF IInv, ConnInv
  <2>3. \A d \in Conns : peer'[d] \in {"absent", "backlog"} => received'[d] = 0 /\ got'[d] = <<>>
    BY <1>5, <1>8 DEF IInv, ConnInv
  <2> QED BY <2>1, <2>2, <2>3 DEF ConnInv
<1>12. ClosedWhenFlushed'
  BY <1>5, <1>8 DEF IInv, ClosedWhenFlushed, Upto
<1> QED BY <1>6, <1>9, <1>10, <1>11, <1>12 DEF IInv

LEMMA AcceptInv == IInv /\ Accept => IInv'
<1> SUFFICES ASSUME IInv, Accept PROVE IInv'
  OBVIOUS
<1> DEFINE c == Min(Backlog)   free == {i \in Slots : slots[i].fd = Free}
<1>1. UNCHANGED <<pc, stopRequested, batch, readyQueue, client, io>> /\ accepts > 0 /\ accepts' = accepts - 1
  BY DEF Accept
<1>2. accepts' \in 0 .. AcceptBudget
  BY <1>1, EpollAssumption DEF IInv, TypeInv
<1>3. c \in Backlog
  <2>1. Backlog \in SUBSET Nat /\ Backlog # {}
    BY EpollAssumption DEF Accept, Backlog
  <2> QED BY <2>1, LeastIs
<1>4. c \in Conns /\ peer[c] = "backlog"
  BY <1>3 DEF Backlog
<1>5. CASE peer' = [peer EXCEPT ![c] = "refused"] /\ UNCHANGED slots
  <2> HIDE DEF c
  <2>1. /\ peer' \in [Conns -> {"absent", "backlog", "open", "closed", "refused"}]
        /\ \A d \in Conns : PeerMoves(d)
    BY <1>4, <1>5 DEF IInv, TypeInv, PeerMoves
  <2> QED BY <1>1, <1>2, <1>5, <2>1, QuietInv DEF IInv, TypeInv, client, io
<1>6. CASE /\ free # {} /\ peer' = [peer EXCEPT ![c] = "open"]
           /\ slots' = [slots EXCEPT ![Min(free)] =
                          [NewSlot(c, @.generation + 1) EXCEPT !.armed = {"in"}]]
  <2>1. free \in SUBSET Nat
    BY DEF Slots
  <2>2. Min(free) \in free
    BY <1>6, <2>1, LeastIs
  <2> DEFINE i == Min(free)
  <2>3. i \in Slots /\ slots[i].fd = Free
    BY <2>2
  <2>4. slots' = [slots EXCEPT ![i] = [NewSlot(c, @.generation + 1) EXCEPT !.armed = {"in"}]]
    BY <1>6
  <2>5. peer' = [peer EXCEPT ![c] = "open"]
    BY <1>6
  <2> HIDE DEF c, i
  <2> QED BY <1>1, <1>2, <1>3, <2>3, <2>4, <2>5, AcceptedInv
<1> QED BY <1>5, <1>6 DEF Accept

LEMMA StopInv == IInv /\ Stop => IInv'
<1> SUFFICES ASSUME IInv, Stop PROVE IInv'
  OBVIOUS
<1>1. /\ slots' = [i \in Slots |-> Removed(slots[i])] /\ pc' = "gone"
      /\ peer' = [c \in Conns |-> IF peer[c] \in {"backlog", "open"} THEN "refused" ELSE peer[c]]
      /\ UNCHANGED <<stopRequested, batch, accepts, readyQueue, client, io>>
  BY DEF Stop
<1>2. \A i \in Slots : /\ slots'[i] \in SlotRecords /\ slots'[i].fd = Free /\ SlotGood(slots'[i])
                       /\ slots'[i].generation = slots[i].generation
  <2> TAKE i \in Slots
  <2>1. slots[i].generation \in Nat /\ slots'[i] = Removed(slots[i])
    BY <1>1, SlotTypes
  <2> DEFINE g == slots[i].generation
  <2> HIDE DEF g
  <2>2. NewSlot(Free, g) \in SlotRecords /\ NewSlot(Free, g).fd = Free
        /\ NewSlot(Free, g).generation = g /\ SlotGood(NewSlot(Free, g))
    BY <2>1, EmptySeq, EpollAssumption DEF NewSlot, SlotRecords, SlotGood, g
  <2> QED BY <2>1, <2>2 DEF Removed, g
<1>3. slots' \in [Slots -> SlotRecords]
  BY <1>1, <1>2
<1>4. /\ peer' \in [Conns -> {"absent", "backlog", "open", "closed", "refused"}]
      /\ \A c \in Conns : peer'[c] \in {"absent", "closed"} => peer'[c] = peer[c]
      /\ \A c \in Conns : peer'[c] # "backlog"
  BY <1>1 DEF IInv, TypeInv
<1>5. TypeInv'
  BY <1>1, <1>3, <1>4 DEF IInv, TypeInv, client, io
<1>6. SlotInv'
  BY <1>2 DEF SlotInv, SlotGood
<1>7. QueueInv'
  <2>1. \A k \in 1 .. Len(readyQueue) : readyQueue[k].slot \in Slots
    <3>1. \A k \in 1 .. Len(readyQueue) : readyQueue[k] \in SlotHandles
      BY QueueIsGood, ElementOfSeq DEF QueueGood
    <3> QED BY <3>1 DEF SlotHandles
  <2>2. QueueGood(readyQueue)'
    BY <1>1, <1>2, <2>1, QueueIsGood DEF QueueGood
  <2> QED BY <1>2, <2>2 DEF QueueInv, FlagsTrue
<1>8. ConnInv'
  <2>1. UNCHANGED <<received, got, sent>>
    BY <1>1 DEF client, io
  <2> QED BY <1>2, <1>4, <2>1 DEF IInv, ConnInv
<1>9. ClosedWhenFlushed'
  BY <1>1, <1>4 DEF IInv, ClosedWhenFlushed, Upto, client, io
<1> QED BY <1>5, <1>6, <1>7, <1>8, <1>9 DEF IInv

LEMMA InitInv == Init => IInv
<1> SUFFICES ASSUME Init PROVE IInv
  OBVIOUS
<1>1. \A i \in Slots : slots[i] = NewSlot(Free, 0)
  BY DEF Init
<1>2. NewSlot(Free, 0) \in SlotRecords /\ NewSlot(Free, 0).fd = Free /\ SlotGood(NewSlot(Free, 0))
  BY EmptySeq, EpollAssumption DEF NewSlot, SlotRecords, SlotGood
<1>3. <<>> \in Seq(Nat) /\ <<>> \in Seq(SlotHandles) /\ Len(<<>>) = 0
  BY EmptySeq
<1>4. TypeInv
  <2>1. slots \in [Slots -> SlotRecords]
    BY <1>2 DEF Init
  <2>2. batch \subseteq [handle : SlotHandles \cup {Listener}, bits : SUBSET Bits] /\ accepts \in 0 .. AcceptBudget
    BY EpollAssumption DEF Init
  <2>3. got \in [Conns -> Seq(Nat)] /\ received \in [Conns -> Nat] /\ sent \in [Conns -> {0, MaxBytes}]
    BY <1>3 DEF Init
  <2> QED BY <2>1, <2>2, <2>3 DEF Init, TypeInv
<1>5. SlotInv
  BY <1>1, <1>2 DEF SlotInv
<1>6. QueueInv
  BY <1>1, <1>2, <1>3, EpollAssumption DEF Init, QueueInv, QueueGood, FlagsTrue
<1>7. ConnInv
  BY <1>1, <1>2, EpollAssumption DEF Init, ConnInv
<1>8. ClosedWhenFlushed
  BY DEF Init, ClosedWhenFlushed
<1> QED BY <1>4, <1>5, <1>6, <1>7, <1>8 DEF IInv

LEMMA NextInv == IInv /\ [Next]_vars => IInv'
BY ClientSteps, QuietSteps, WaitInv, HandleEventInv, RerunInv, AcceptInv, StopInv DEF Next, Server

-----------------------------------------------------------------------------
(* The theorems.                                                           *)

\* The inductive invariant holds in every state of main's loop.
THEOREM Invariance == Spec => []IInv
<1>1. Init => IInv
  BY InitInv
<1>2. IInv /\ [Next]_vars => IInv'
  BY NextInv
<1> QED BY <1>1, <1>2, PTL DEF Spec

\* Every variable has its type; in particular no output or queue outgrows its limit, and
\* ready_again says exactly whether the handle of a connection is in the ready queue, once.
THEOREM TypeCorrect == Spec => []TypeOK
<1>1. IInv => TypeOK
  <2> SUFFICES ASSUME IInv PROVE TypeOK
    OBVIOUS
  <2>1. batch \subseteq [handle : Handles, bits : SUBSET {"in", "out"}]
    <3>1. SlotHandles \cup {Listener} \subseteq Handles
      BY DEF SlotHandles, Listener, Handles
    <3> QED BY <3>1 DEF IInv, TypeInv, Bits
  <2>2. \A i \in Slots :
          /\ slots[i].fd \in Conns \cup {Free}
          /\ Len(slots[i].out) <= OutputCap /\ slots[i].off \in 0 .. Len(slots[i].out)
          /\ slots[i].armed \subseteq {"in", "out"}
    <3> TAKE i \in Slots
    <3>1. slots[i] \in SlotRecords /\ SlotGood(slots[i])
      BY SlotTypes
    <3>2. slots[i].out \in Seq(Nat) /\ slots[i].off \in Nat
      BY <3>1 DEF SlotRecords
    <3>3. Len(slots[i].out) \in Nat
      BY <3>2, LenProperties
    <3> QED BY <3>1, <3>2, <3>3 DEF SlotRecords, SlotGood, Bits
  <2>3. ASSUME NEW i \in Open
        PROVE  Cardinality({k \in DOMAIN readyQueue : readyQueue[k] = Handle(i)}) =
                 (IF slots[i].readyAgain THEN 1 ELSE 0)
    <3> DEFINE S == {k \in DOMAIN readyQueue : readyQueue[k] = Handle(i)}
    <3>1. /\ \A j, k \in 1 .. Len(readyQueue) : readyQueue[j] = readyQueue[k] => j = k
          /\ readyQueue \in Seq(SlotHandles)
      BY QueueIsGood DEF QueueGood
    <3>2. slots[i].readyAgain <=> InQueue(readyQueue, Handle(i))
      BY QueueIsGood DEF FlagsTrue, Open
    <3>3. DOMAIN readyQueue = 1 .. Len(readyQueue)
      BY <3>1, LenProperties
    <3>4. CASE InQueue(readyQueue, Handle(i))
      <4>1. PICK k \in 1 .. Len(readyQueue) : readyQueue[k] = Handle(i)
        BY <3>4 DEF InQueue
      <4>2. S = {k}
        BY <3>1, <3>3, <4>1
      <4>3. Cardinality({k}) = 1
        BY FS_Singleton
      <4> QED BY <3>2, <3>4, <4>2, <4>3
    <3>5. CASE ~InQueue(readyQueue, Handle(i))
      <4>1. S = {}
        BY <3>3, <3>5 DEF InQueue
      <4>2. Cardinality({}) = 0
        BY FS_EmptySet
      <4> QED BY <3>2, <3>5, <4>1, <4>2
    <3> QED BY <3>4, <3>5
  <2>4. readyQueue \in Seq(Handles) /\ Len(readyQueue) <= MaxConns
    <3>1. readyQueue \in Seq(SlotHandles) /\ Len(readyQueue) <= MaxConns
      BY QueueIsGood DEF QueueGood
    <3>2. SlotHandles \subseteq Handles
      BY DEF SlotHandles, Handles
    <3> QED BY <3>1, <3>2, SeqMonotonic
  <2>5. received \in [Conns -> 0 .. MaxBytes]
    <3>1. ASSUME NEW c \in Conns PROVE received[c] \in 0 .. MaxBytes
      <4>1. received[c] \in Nat /\ sent[c] \in {0, MaxBytes} /\ received[c] <= sent[c] /\ MaxBytes \in Nat
        BY EpollAssumption DEF IInv, TypeInv, ConnInv
      <4> QED BY <4>1
    <3> QED BY <3>1 DEF IInv, TypeInv
  <2> QED BY <2>1, <2>2, <2>3, <2>4, <2>5 DEF IInv, TypeInv, TypeOK
<1> QED BY <1>1, Invariance, PTL

\* Whatever the sizes of reads and writes, the order of events and the reuse of slots, a
\* peer gets its bytes back in order: handle_read, queue_bytes and handle_write lose none.
THEOREM EchoIsInOrder == Spec => []EchoInOrder
<1>1. IInv => EchoInOrder
  BY DEF IInv, SlotInv, ConnGood, EchoInOrder, Open
<1> QED BY <1>1, Invariance, PTL

\* The server closes a connection when it was reset, when the ready queue had no place,
\* or when its peer had ended and had everything back; there is no fourth way.
THEOREM ClosingIsFlushed == Spec => []ClosedWhenFlushed
<1>1. IInv => ClosedWhenFlushed
  BY DEF IInv
<1> QED BY <1>1, Invariance, PTL
=============================================================================
