--------------------------- MODULE UringEchoProofs ---------------------------
(***************************************************************************)
(* Proofs about the io_uring server, for any number of connections, slots  *)
(* and bytes, any buffer size and any largest generation.                  *)
(*                                                                         *)
(* The argument: the flags of the slots and of the listener say exactly    *)
(* which operations are with the kernel or in the completion queue (OpInv),*)
(* and none of those is in two places (PlaceInv).  So the count of the     *)
(* loop can be taken from either side, and a completion that is handled    *)
(* meets the slot it was submitted for.  The bytes a peer got, the ones a  *)
(* send still points at and the ones just received make up what was        *)
(* received, wherever the operation of the slot stands (FlowInv).          *)
(***************************************************************************)
EXTENDS UringEcho, TLAPS, FiniteSetTheorems, SequenceTheorems

\* The operation of kind k of slot s is under way.
UnderWay(s, k) ==
  \/ k = "recv" /\ s.recvInflight
  \/ k = "send" /\ s.sendInflight
  \/ k = "cancel" /\ s.cancelInflight

OpInv ==
  /\ \A op \in Outstanding :
       \/ op = AcceptOp /\ acceptInflight
       \/ op = AcceptCancelOp /\ acceptCancelInflight
       \/ op.slot \in Slots /\ UnderWay(slots[op.slot], op.kind) /\ op.conn = slots[op.slot].fd
  /\ acceptInflight => AcceptOp \in Outstanding
  /\ acceptCancelInflight => AcceptCancelOp \in Outstanding
  /\ \A i \in Slots, k \in OpKinds : UnderWay(slots[i], k) => Op(k, i, slots[i].fd) \in Outstanding

PlaceInv ==
  /\ IsFiniteSet(inflight) /\ IsFiniteSet(cq)
  /\ \A e \in cq : e.op \notin inflight
  /\ \A e, f \in cq : e.op = f.op => e = f

SlotGood(s) ==
  /\ s.recvInflight => s.recvGen = s.generation
  /\ s.sendInflight => s.sendOp.gen = s.generation
  /\ s.cancelInflight => s.cancelGen = s.generation
  /\ Busy(s) => s.fd # Free
  /\ ~(s.recvInflight /\ s.sendInflight)
  /\ s.fd # Free => s.generation > 0

SlotInv == \A i \in Slots : SlotGood(slots[i])

\* Before shutdown the accept is always under way, and no slot waits for nothing.
ModeInv ==
  ~shuttingDown =>
    /\ acceptInflight /\ ~acceptCancelInflight
    /\ \A i \in Slots : ~slots[i].cancelInflight /\ (slots[i].fd # Free => Busy(slots[i]))

OpsInv == TypeOK /\ OpInv /\ PlaceInv /\ SlotInv /\ ModeInv /\ PendingIsOutstanding

ConnInv ==
  /\ \A i, j \in Slots : slots[i].fd = slots[j].fd /\ slots[i].fd # Free => i = j
  /\ \A i \in Slots : slots[i].fd # Free => peer[slots[i].fd] = "open"
  /\ \A e \in cq : e.op = AcceptOp /\ e.res # Errno => e.res \in Conns /\ peer[e.res] = "accepted"
  /\ \A c \in Conns : peer[c] \notin {"open", "closed"} => received[c] = 0 /\ got[c] = <<>>

Back(c) == Len(got[c])

\* What a recv and a send that are with the kernel have before them.
Ahead(op) ==
  /\ op.kind = "recv" => received[op.conn] = Back(op.conn)
  /\ op.kind = "send" =>
       /\ Back(op.conn) = slots[op.slot].sendOp.start + slots[op.slot].sendOp.off
       /\ slots[op.slot].sendOp.start + slots[op.slot].sendOp.len = received[op.conn]
       /\ slots[op.slot].sendOp.off < slots[op.slot].sendOp.len

\* What they have done when their completion waits to be handled.
Done(e) ==
  /\ e.op.kind = "recv" =>
       \/ e.res = Errno /\ e.op.conn \in failed
       \/ /\ e.res \in Nat /\ received[e.op.conn] = Back(e.op.conn) + e.res
          /\ e.res = 0 => received[e.op.conn] = total[e.op.conn]
  /\ e.op.kind = "send" =>
       \/ e.res = Errno /\ e.op.conn \in failed
       \/ /\ e.res \in 1 .. slots[e.op.slot].sendOp.len - slots[e.op.slot].sendOp.off
          /\ Back(e.op.conn) = slots[e.op.slot].sendOp.start + slots[e.op.slot].sendOp.off + e.res
          /\ slots[e.op.slot].sendOp.start + slots[e.op.slot].sendOp.len = received[e.op.conn]

FlowInv ==
  /\ \A op \in inflight : Ahead(op)
  /\ \A e \in cq : Done(e)

IInv == OpsInv /\ ConnInv /\ FlowInv /\ EchoInOrder /\ HalfCloseFlushes

-----------------------------------------------------------------------------
(* Counting.                                                               *)

LEMMA CountDisjoint ==
  ASSUME NEW S, NEW T, IsFiniteSet(S), IsFiniteSet(T), S \cap T = {}
  PROVE  IsFiniteSet(S \cup T) /\ Cardinality(S \cup T) = Cardinality(S) + Cardinality(T)
<1>1. /\ IsFiniteSet(S \cup T)
      /\ Cardinality(S \cup T) = Cardinality(S) + Cardinality(T) - Cardinality({})
  BY FS_Union
<1>2. Cardinality({}) = 0 /\ Cardinality(S) \in Nat /\ Cardinality(T) \in Nat
  BY FS_EmptySet, FS_CardinalityType
<1> QED BY <1>1, <1>2

\* The operations of one kind of slots R are as many as R.
LEMMA CountOps ==
  ASSUME NEW k, NEW R \in SUBSET Slots
  PROVE  /\ IsFiniteSet({Op(k, i, slots[i].fd) : i \in R})
         /\ Cardinality({Op(k, i, slots[i].fd) : i \in R}) = Cardinality(R)
<1> DEFINE T == {Op(k, i, slots[i].fd) : i \in R}
           f == [i \in R |-> Op(k, i, slots[i].fd)]
<1>1. IsFiniteSet(R)
  BY UringAssumption, FS_Subset
<1>2. f \in [R -> T] /\ \A t \in T : \E i \in R : f[i] = t
  OBVIOUS
<1>3. \A i, j \in R : f[i] = f[j] => i = j
  BY DEF Op
<1>4. ExistsBijection(R, T)
  BY <1>2, <1>3 DEF ExistsBijection, Bijection, Injection, Surjection, IsInjective
<1> HIDE DEF T, f
<1>5. IsFiniteSet(T) /\ Cardinality(T) = Cardinality(R)
  BY <1>1, <1>4, FS_Bijection
<1> QED BY <1>5 DEF T

OpsOf(k) == {Op(k, i, slots[i].fd) : i \in {j \in Slots : UnderWay(slots[j], k)}}

LEMMA CountKind ==
  ASSUME NEW k
  PROVE  /\ IsFiniteSet(OpsOf(k))
         /\ Cardinality(OpsOf(k)) = Cardinality({j \in Slots : UnderWay(slots[j], k)})
<1> DEFINE R == {j \in Slots : UnderWay(slots[j], k)}
<1> DEFINE T == {Op(k, i, slots[i].fd) : i \in R}
<1>1. R \in SUBSET Slots
  OBVIOUS
<1>2. OpsOf(k) = T
  BY DEF OpsOf
<1>3. IsFiniteSet(T) /\ Cardinality(T) = Cardinality(R)
  <2> HIDE DEF R
  <2> QED BY <1>1, CountOps
<1> HIDE DEF R, T
<1>4. IsFiniteSet(OpsOf(k)) /\ Cardinality(OpsOf(k)) = Cardinality(R)
  BY <1>2, <1>3
<1> QED BY <1>4 DEF R

\* A completion stands for its operation.
LEMMA CountCompletions ==
  ASSUME PlaceInv
  PROVE  /\ IsFiniteSet({e.op : e \in cq})
         /\ Cardinality({e.op : e \in cq}) = Cardinality(cq)
<1> DEFINE D == {e.op : e \in cq}   f == [e \in cq |-> e.op]
<1>1. f \in [cq -> D] /\ \A t \in D : \E e \in cq : f[e] = t
  OBVIOUS
<1>2. \A d, e \in cq : f[d] = f[e] => d = e
  BY DEF PlaceInv
<1>3. ExistsBijection(cq, D)
  BY <1>1, <1>2 DEF ExistsBijection, Bijection, Injection, Surjection, IsInjective
<1> HIDE DEF D, f
<1>4. IsFiniteSet(D) /\ Cardinality(D) = Cardinality(cq)
  BY <1>3, FS_Bijection DEF PlaceInv
<1> QED BY <1>4 DEF D

\* The two ways to count what is outstanding agree: the kernel and the completion queue
\* on one side, the flags that pending_clients looks at on the other.
FlagsAgree ==
  /\ Cardinality(inflight) + Cardinality(cq)
       = PendingInShutdown(acceptInflight, acceptCancelInflight, slots)
  /\ PendingInShutdown(acceptInflight, acceptCancelInflight, slots) \in Nat

LEMMA FlagsCount ==
  ASSUME Outstanding \subseteq Ops, OpInv, PlaceInv
  PROVE  FlagsAgree
<1> DEFINE A == IF acceptInflight THEN {AcceptOp} ELSE {}
           C == IF acceptCancelInflight THEN {AcceptCancelOp} ELSE {}
           D == {e.op : e \in cq}
<1>1. IsFiniteSet(A) /\ Cardinality(A) = Bit(acceptInflight)
  BY FS_EmptySet, FS_Singleton DEF Bit
<1>2. IsFiniteSet(C) /\ Cardinality(C) = Bit(acceptCancelInflight)
  BY FS_EmptySet, FS_Singleton DEF Bit
<1>3. Listener \notin Slots
  BY UringAssumption DEF Listener
<1>4. Outstanding = (((A \cup C) \cup OpsOf("recv")) \cup OpsOf("send")) \cup OpsOf("cancel")
  <2>1. ASSUME NEW op \in Outstanding
        PROVE  op \in (((A \cup C) \cup OpsOf("recv")) \cup OpsOf("send")) \cup OpsOf("cancel")
    <3>1. CASE op = AcceptOp /\ acceptInflight
      BY <3>1
    <3>2. CASE op = AcceptCancelOp /\ acceptCancelInflight
      BY <3>2
    <3>3. CASE op.slot \in Slots /\ UnderWay(slots[op.slot], op.kind) /\ op.conn = slots[op.slot].fd
      <4>1. op \in Ops
        OBVIOUS
      <4>2. op = Op(op.kind, op.slot, op.conn)
        BY <4>1 DEF Ops, Op
      <4>3. op.kind \in {"recv", "send", "cancel"}
        BY <3>3 DEF UnderWay
      <4> QED BY <3>3, <4>2, <4>3 DEF OpsOf
    <3> QED BY <3>1, <3>2, <3>3 DEF OpInv
  <2>2. \A k \in {"recv", "send", "cancel"} : OpsOf(k) \subseteq Outstanding
    BY DEF OpsOf, OpInv, OpKinds
  <2>3. A \cup C \subseteq Outstanding
    BY DEF OpInv
  <2> QED BY <2>1, <2>2, <2>3
<1>5. /\ A \cap C = {} /\ (A \cup C) \cap OpsOf("recv") = {}
      /\ ((A \cup C) \cup OpsOf("recv")) \cap OpsOf("send") = {}
      /\ (((A \cup C) \cup OpsOf("recv")) \cup OpsOf("send")) \cap OpsOf("cancel") = {}
  <2>1. \A op \in OpsOf("recv") : op.kind = "recv" /\ op.slot # Listener
    BY <1>3 DEF OpsOf, Op
  <2>2. \A op \in OpsOf("send") : op.kind = "send" /\ op.slot # Listener
    BY <1>3 DEF OpsOf, Op
  <2>3. \A op \in OpsOf("cancel") : op.kind = "cancel" /\ op.slot # Listener
    BY <1>3 DEF OpsOf, Op
  <2>4. \A op \in A : op.kind = "accept" /\ op.slot = Listener
    BY DEF AcceptOp, Op
  <2>5. \A op \in C : op.kind = "cancel" /\ op.slot = Listener
    BY DEF AcceptCancelOp, Op
  <2> QED BY <2>1, <2>2, <2>3, <2>4, <2>5
<1>6. inflight \cap D = {} /\ Outstanding = inflight \cup D /\ IsFiniteSet(inflight)
  BY DEF PlaceInv, Outstanding
<1>7. IsFiniteSet(D) /\ Cardinality(D) = Cardinality(cq)
  BY CountCompletions
<1> HIDE DEF A, C, D
<1>8. Cardinality(Outstanding) = Cardinality(inflight) + Cardinality(cq)
  BY <1>6, <1>7, CountDisjoint
<1>9. /\ IsFiniteSet(A \cup C) /\ Cardinality(A \cup C) = Cardinality(A) + Cardinality(C)
  BY <1>1, <1>2, <1>5, CountDisjoint
<1>10. /\ IsFiniteSet((A \cup C) \cup OpsOf("recv"))
       /\ Cardinality((A \cup C) \cup OpsOf("recv")) = Cardinality(A \cup C) + Cardinality(OpsOf("recv"))
  BY <1>9, <1>5, CountKind, CountDisjoint
<1>11. /\ IsFiniteSet(((A \cup C) \cup OpsOf("recv")) \cup OpsOf("send"))
       /\ Cardinality(((A \cup C) \cup OpsOf("recv")) \cup OpsOf("send"))
            = Cardinality((A \cup C) \cup OpsOf("recv")) + Cardinality(OpsOf("send"))
  BY <1>10, <1>5, CountKind, CountDisjoint
<1>12. Cardinality(Outstanding) = Cardinality(((A \cup C) \cup OpsOf("recv")) \cup OpsOf("send"))
                                    + Cardinality(OpsOf("cancel"))
  BY <1>11, <1>4, <1>5, CountKind, CountDisjoint
<1>13. /\ Cardinality(OpsOf("recv")) = Cardinality({i \in Slots : slots[i].recvInflight})
       /\ Cardinality(OpsOf("send")) = Cardinality({i \in Slots : slots[i].sendInflight})
       /\ Cardinality(OpsOf("cancel")) = Cardinality({i \in Slots : slots[i].cancelInflight})
  <2>1. /\ {j \in Slots : UnderWay(slots[j], "recv")} = {i \in Slots : slots[i].recvInflight}
        /\ {j \in Slots : UnderWay(slots[j], "send")} = {i \in Slots : slots[i].sendInflight}
        /\ {j \in Slots : UnderWay(slots[j], "cancel")} = {i \in Slots : slots[i].cancelInflight}
    BY DEF UnderWay
  <2> QED BY <2>1, CountKind
<1>14. /\ Cardinality(OpsOf("recv")) \in Nat /\ Cardinality(OpsOf("send")) \in Nat
       /\ Cardinality(OpsOf("cancel")) \in Nat
       /\ Bit(acceptInflight) \in Nat /\ Bit(acceptCancelInflight) \in Nat
  BY CountKind, FS_CardinalityType DEF Bit
<1> QED BY <1>1, <1>2, <1>8, <1>9, <1>10, <1>11, <1>12, <1>13, <1>14
  DEF FlagsAgree, PendingInShutdown, PendingClients

\* The same of the state after a step.
LEMMA FlagsCountNext == (Outstanding \subseteq Ops)' /\ OpInv' /\ PlaceInv' => FlagsAgree'
<1>1. Outstanding \subseteq Ops /\ OpInv /\ PlaceInv => FlagsAgree
  BY FlagsCount
<1> QED BY <1>1, PTL

-----------------------------------------------------------------------------
(* Where operations are: what the kernel and a turn of the loop do to it.  *)

SlotRec == [fd : Conns \cup {Free}, generation : 0 .. MaxGeneration,
            recvGen : 0 .. MaxGeneration, cancelGen : 0 .. MaxGeneration,
            sendOp : [gen : 0 .. MaxGeneration, start : Nat, len : Nat, off : Nat],
            recvInflight : BOOLEAN, sendInflight : BOOLEAN, cancelInflight : BOOLEAN]

Traffic ==
  /\ peer \in [Conns -> {"absent", "backlog", "accepted", "open", "closed", "refused"}]
  /\ total \in [Conns -> Nat] /\ received \in [Conns -> Nat]
  /\ got \in [Conns -> Seq(Nat)]
  /\ failed \subseteq Conns

LEMMA OutstandingType ==
  ASSUME TypeOK, NEW op \in Outstanding
  PROVE  op \in Ops /\ op = Op(op.kind, op.slot, op.conn)
<1>1. op \in Ops
  BY DEF Outstanding, TypeOK
<1> QED BY <1>1 DEF Ops, Op

\* drop_client takes the fd of a slot that nothing refers to, and nothing else.
LEMMA DroppedSlot ==
  ASSUME NEW s \in SlotRec
  PROVE  /\ Dropped(s) \in SlotRec
         /\ Dropped(s).generation = s.generation /\ Dropped(s).recvGen = s.recvGen
         /\ Dropped(s).cancelGen = s.cancelGen /\ Dropped(s).sendOp = s.sendOp
         /\ Dropped(s).recvInflight = s.recvInflight /\ Dropped(s).sendInflight = s.sendInflight
         /\ Dropped(s).cancelInflight = s.cancelInflight
         /\ Dropped(s).fd = IF Busy(s) THEN s.fd ELSE Free
         /\ SlotGood(s) => SlotGood(Dropped(s))
         /\ \A k : UnderWay(Dropped(s), k) <=> UnderWay(s, k)
         /\ \A k : UnderWay(s, k) => Dropped(s).fd = s.fd
<1>1. /\ Dropped(s) \in SlotRec
      /\ Dropped(s).generation = s.generation /\ Dropped(s).recvGen = s.recvGen
      /\ Dropped(s).cancelGen = s.cancelGen /\ Dropped(s).sendOp = s.sendOp
      /\ Dropped(s).recvInflight = s.recvInflight /\ Dropped(s).sendInflight = s.sendInflight
      /\ Dropped(s).cancelInflight = s.cancelInflight
      /\ Dropped(s).fd = IF Busy(s) THEN s.fd ELSE Free
  BY DEF Dropped, SlotRec
<1>2. \A k : UnderWay(s, k) => Busy(s)
  BY DEF UnderWay, Busy
<1> QED BY <1>1, <1>2 DEF SlotGood, UnderWay, Busy

\* What the kernel does to an operation keeps the books.
LEMMA CompleteOps ==
  ASSUME OpsInv, NEW op \in inflight, NEW res \in Int, Complete(op, res), Traffic'
  PROVE  OpsInv' /\ Outstanding' = Outstanding
<1> USE DEF OpsInv
<1> DEFINE e == [op |-> op, res |-> res]
<1>1. /\ inflight' = inflight \ {op} /\ cq' = cq \cup {e}
      /\ UNCHANGED <<pc, flags, pending, accept, slots>> /\ ~Gone
  BY DEF Complete
<1>2. op \in Ops /\ op \in Outstanding
  BY DEF TypeOK, Outstanding
<1>3. TypeOK'
  <2>1. inflight' \subseteq Ops /\ cq' \subseteq [op : Ops, res : Int]
    BY <1>1, <1>2 DEF TypeOK
  <2> QED BY <1>1, <2>1 DEF TypeOK, Traffic, flags, accept
<1>4. Outstanding' = Outstanding
  <2> DEFINE D(q) == {f.op : f \in q}
  <2>1. D(cq') = D(cq) \cup {op}
    <3>1. e.op = op
      OBVIOUS
    <3> HIDE DEF e
    <3> QED BY <1>1, <3>1, Zenon
  <2>2. Outstanding = inflight \cup D(cq) /\ Outstanding' = inflight' \cup D(cq')
    BY DEF Outstanding
  <2> HIDE DEF D
  <2> QED BY <1>1, <2>1, <2>2
<1>5. e \notin cq
  BY DEF PlaceInv
<1>6. PlaceInv'
  <2>1. IsFiniteSet(inflight') /\ IsFiniteSet(cq')
    BY <1>1, FS_RemoveElement, FS_AddElement DEF PlaceInv
  <2> QED BY <1>1, <2>1 DEF PlaceInv
<1>7. OpInv'
  BY <1>1, <1>4 DEF OpInv, accept
<1>8. SlotInv' /\ ModeInv'
  BY <1>1 DEF SlotInv, ModeInv, accept, flags
<1>9. PendingIsOutstanding'
  <2>1. Cardinality(inflight') = Cardinality(inflight) - 1 /\ Cardinality(cq') = Cardinality(cq) + 1
    BY <1>1, <1>5, FS_RemoveElement, FS_AddElement DEF PlaceInv
  <2>2. Cardinality(inflight) \in Nat /\ Cardinality(cq) \in Nat
    BY FS_CardinalityType DEF PlaceInv
  <2> QED BY <1>1, <2>1, <2>2 DEF PendingIsOutstanding
<1> QED BY <1>3, <1>4, <1>6, <1>7, <1>8, <1>9

\* Slots ns, submissions sub and accept flags na and nc account for completion e.
Change(e, ns, sub, na, nc) ==
  /\ ns \in [Slots -> SlotRec] /\ \A i \in Slots : SlotGood(ns[i])
  /\ na \in BOOLEAN /\ nc \in BOOLEAN
  /\ sub \subseteq Ops /\ IsFiniteSet(sub) /\ sub \cap Outstanding \subseteq {e.op}
  /\ \A op \in sub :
       op = AcceptOp \/ (op.slot \in Slots /\ UnderWay(ns[op.slot], op.kind) /\ op.conn = ns[op.slot].fd)
  /\ na <=> (acceptInflight /\ e.op # AcceptOp) \/ AcceptOp \in sub
  /\ nc <=> acceptCancelInflight /\ e.op # AcceptCancelOp
  /\ \A i \in Slots, k \in OpKinds :
       /\ UnderWay(ns[i], k) =>
            \/ Op(k, i, ns[i].fd) \in sub
            \/ UnderWay(slots[i], k) /\ ns[i].fd = slots[i].fd /\ e.op # Op(k, i, slots[i].fd)
       /\ UnderWay(slots[i], k) =>
            e.op = Op(k, i, slots[i].fd) \/ (UnderWay(ns[i], k) /\ ns[i].fd = slots[i].fd)
  /\ ~shuttingDown =>
       /\ na /\ ~nc
       /\ \A i \in Slots : ~ns[i].cancelInflight /\ (ns[i].fd # Free => Busy(ns[i]))

\* What a turn makes of the slots.
LEMMA TurnSlots ==
  ASSUME NEW e, NEW ns, NEW sub, NEW na, NEW nc,
         Turn(e, ns, sub, na, nc), Change(e, ns, sub, na, nc)
  PROVE  /\ slots' \in [Slots -> SlotRec] /\ \A i \in Slots : SlotGood(slots'[i])
         /\ \A i \in Slots, k \in OpKinds : UnderWay(slots'[i], k) <=> UnderWay(ns[i], k)
         /\ \A i \in Slots, k \in OpKinds : UnderWay(ns[i], k) => slots'[i].fd = ns[i].fd
         /\ \A i \in Slots : slots'[i].fd \in {ns[i].fd, Free} /\ slots'[i].sendOp = ns[i].sendOp
         /\ ~shuttingDown => slots' = ns
<1>1. CASE shuttingDown
  <2>1. slots' = [i \in Slots |-> Dropped(ns[i])]
    BY <1>1 DEF Turn
  <2>2. \A i \in Slots : ns[i] \in SlotRec /\ SlotGood(ns[i])
    BY DEF Change
  <2> QED BY <1>1, <2>1, <2>2, DroppedSlot
<1>2. CASE ~shuttingDown
  BY <1>2 DEF Turn, Change
<1> QED BY <1>1, <1>2

LEMMA TurnOps ==
  ASSUME OpsInv, NEW e \in cq, NEW ns, NEW sub, NEW na, NEW nc,
         Turn(e, ns, sub, na, nc), Change(e, ns, sub, na, nc), Traffic'
  PROVE  OpsInv'
<1> USE DEF OpsInv
<1>1. /\ cq' = cq \ {e} /\ inflight' = inflight \cup sub
      /\ acceptInflight' = na /\ acceptCancelInflight' = nc
      /\ UNCHANGED <<flags, listening, traffic>>
      /\ pc' \in {"top", "exit70"} /\ pc = "waiting"
  BY DEF Turn
<1>2. /\ slots' \in [Slots -> SlotRec] /\ \A i \in Slots : SlotGood(slots'[i])
      /\ \A i \in Slots, k \in OpKinds : UnderWay(slots'[i], k) <=> UnderWay(ns[i], k)
      /\ \A i \in Slots, k \in OpKinds : UnderWay(ns[i], k) => slots'[i].fd = ns[i].fd
      /\ ~shuttingDown => slots' = ns
  BY TurnSlots
<1>3. e.op \in Outstanding /\ e.op \notin inflight /\ \A f \in cq \ {e} : f.op # e.op
  BY DEF Outstanding, PlaceInv
<1>4. Outstanding' = (Outstanding \ {e.op}) \cup sub
  BY <1>1, <1>3 DEF Outstanding
<1>5. SlotInv'
  BY <1>2 DEF SlotInv
<1>6. ModeInv'
  BY <1>1, <1>2 DEF ModeInv, Change, flags
<1>7. PlaceInv'
  <2>1. IsFiniteSet(inflight') /\ IsFiniteSet(cq')
    BY <1>1, FS_RemoveElement, FS_Union DEF PlaceInv, Change
  <2>2. \A f \in cq' : f.op \notin sub
    BY <1>1, <1>3 DEF Change, Outstanding
  <2> QED BY <1>1, <2>1, <2>2 DEF PlaceInv
<1>8. OpInv'
  <2>1. ASSUME NEW op \in Outstanding'
        PROVE  \/ op = AcceptOp /\ na
               \/ op = AcceptCancelOp /\ nc
               \/ op.slot \in Slots /\ UnderWay(slots'[op.slot], op.kind) /\ op.conn = slots'[op.slot].fd
    <3>1. CASE op \in sub
      <4>1. op = AcceptOp \/ (op.slot \in Slots /\ UnderWay(ns[op.slot], op.kind) /\ op.conn = ns[op.slot].fd)
        BY <3>1 DEF Change
      <4>2. op.kind \in OpKinds
        BY <3>1 DEF Change, Ops
      <4> QED BY <1>2, <3>1, <4>1, <4>2 DEF Change
    <3>2. CASE op \in Outstanding /\ op # e.op
      <4>1. op.kind \in OpKinds /\ op = Op(op.kind, op.slot, op.conn)
        BY <3>2, OutstandingType DEF Ops
      <4>2. CASE op = AcceptOp /\ acceptInflight
        BY <3>2, <4>2 DEF Change
      <4>3. CASE op = AcceptCancelOp /\ acceptCancelInflight
        BY <3>2, <4>3 DEF Change
      <4>4. CASE op.slot \in Slots /\ UnderWay(slots[op.slot], op.kind) /\ op.conn = slots[op.slot].fd
        <5>1. UnderWay(ns[op.slot], op.kind) /\ ns[op.slot].fd = slots[op.slot].fd
          BY <3>2, <4>1, <4>4 DEF Change
        <5> QED BY <1>2, <4>1, <4>4, <5>1
      <4> QED BY <3>2, <4>2, <4>3, <4>4 DEF OpInv
    <3> QED BY <1>4, <3>1, <3>2
  <2>2. na => AcceptOp \in Outstanding'
    BY <1>4 DEF Change, OpInv
  <2>3. nc => AcceptCancelOp \in Outstanding'
    BY <1>4 DEF Change, OpInv
  <2>4. ASSUME NEW i \in Slots, NEW k \in OpKinds, UnderWay(slots'[i], k)
        PROVE  Op(k, i, slots'[i].fd) \in Outstanding'
    <3>1. UnderWay(ns[i], k) /\ slots'[i].fd = ns[i].fd
      BY <1>2, <2>4
    <3>2. \/ Op(k, i, ns[i].fd) \in sub
          \/ UnderWay(slots[i], k) /\ ns[i].fd = slots[i].fd /\ e.op # Op(k, i, slots[i].fd)
      BY <3>1 DEF Change
    <3> QED BY <1>4, <3>1, <3>2 DEF OpInv
  <2> QED BY <1>1, <2>1, <2>2, <2>3, <2>4 DEF OpInv
<1>9. /\ Cardinality(inflight') = Cardinality(inflight) + Cardinality(sub)
      /\ Cardinality(cq') = Cardinality(cq) - 1
      /\ Cardinality(inflight) \in Nat /\ Cardinality(cq) \in Nat /\ Cardinality(sub) \in Nat
      /\ Cardinality(cq) > 0
  <2>1. inflight \cap sub = {}
    BY <1>3 DEF Change, Outstanding
  <2>2. Cardinality(inflight') = Cardinality(inflight) + Cardinality(sub)
    BY <1>1, <2>1, CountDisjoint DEF Change, PlaceInv
  <2>3. Cardinality(cq) # 0 /\ Cardinality(cq) \in Nat
    BY FS_EmptySet, FS_CardinalityType DEF PlaceInv
  <2>4. Cardinality(cq') = Cardinality(cq) - 1
    BY <1>1, FS_RemoveElement DEF PlaceInv
  <2> QED BY <2>2, <2>3, <2>4, FS_CardinalityType DEF Change, PlaceInv
<1>10. TypeOK' /\ PendingIsOutstanding'
  <2> DEFINE TypeRest ==
        /\ pc' \in {"top", "waiting", "exit0", "exit70"}
        /\ inflight' \subseteq Ops /\ cq' \subseteq [op : Ops, res : Int]
        /\ stopRequested' \in BOOLEAN /\ shuttingDown' \in BOOLEAN /\ deadlinePassed' \in BOOLEAN
        /\ listening' \in BOOLEAN /\ acceptInflight' \in BOOLEAN /\ acceptCancelInflight' \in BOOLEAN
        /\ slots' \in [Slots -> SlotRec]
  <2>1. TypeRest
    BY <1>1, <1>2 DEF TypeOK, Change, flags
  <2>2. pending' \in Nat => TypeOK'
    BY <2>1 DEF TypeOK, Traffic, SlotRec
  <2>3. CASE ~shuttingDown
    <3>1. pending = Cardinality(inflight) + Cardinality(cq)
      BY <1>1 DEF PendingIsOutstanding, Gone
    <3>2. pending' = pending - 1 + Cardinality(sub)
      BY <2>3 DEF Turn
    <3> QED BY <1>9, <2>2, <3>1, <3>2 DEF PendingIsOutstanding
  <2>4. CASE shuttingDown
    <3>1. pending' = PendingInShutdown(acceptInflight', acceptCancelInflight', slots')
      BY <1>1, <2>4 DEF Turn
    <3>2. Outstanding' \subseteq Ops
      BY <2>1 DEF Outstanding
    <3>3. FlagsAgree'
      BY <1>7, <1>8, <3>2, FlagsCountNext
    <3> QED BY <2>2, <3>1, <3>3 DEF FlagsAgree, PendingIsOutstanding
  <2> QED BY <2>3, <2>4
<1> QED BY <1>5, <1>6, <1>7, <1>8, <1>10

-----------------------------------------------------------------------------
(* What a turn about one slot accounts for.                                *)

LEMMA SlotTypes ==
  ASSUME TypeOK, NEW i \in Slots
  PROVE  slots \in [Slots -> SlotRec] /\ slots[i] \in SlotRec
BY DEF TypeOK, SlotRec

\* A recv or send that is not done with belongs to a slot and to its connection.
LEMMA ClientOp ==
  ASSUME OpsInv, NEW op \in Outstanding, op.kind \in {"recv", "send"}
  PROVE  /\ op.slot \in Slots /\ op.conn = slots[op.slot].fd /\ op.conn \in Conns
         /\ op = Op(op.kind, op.slot, slots[op.slot].fd)
         /\ UnderWay(slots[op.slot], op.kind)
<1>1. op.slot \in Slots /\ UnderWay(slots[op.slot], op.kind) /\ op.conn = slots[op.slot].fd
  BY DEF OpsInv, OpInv, AcceptOp, AcceptCancelOp, Op
<1>2. slots[op.slot].fd # Free /\ slots[op.slot].fd \in Conns \cup {Free}
  BY <1>1, SlotTypes DEF OpsInv, SlotInv, SlotGood, UnderWay, Busy, SlotRec
<1> QED BY <1>1, <1>2, OutstandingType DEF OpsInv

LEMMA CancelOp ==
  ASSUME OpsInv, NEW op \in Outstanding, op.kind = "cancel"
  PROVE  \/ op = AcceptCancelOp /\ acceptCancelInflight
         \/ op.slot \in Slots /\ slots[op.slot].cancelInflight /\ op = Op("cancel", op.slot, slots[op.slot].fd)
<1>1. CASE op = AcceptCancelOp /\ acceptCancelInflight
  BY <1>1
<1>2. CASE op.slot \in Slots /\ UnderWay(slots[op.slot], op.kind) /\ op.conn = slots[op.slot].fd
  BY <1>2, OutstandingType DEF OpsInv, UnderWay
<1> QED BY <1>1, <1>2 DEF OpsInv, OpInv, AcceptOp, Op

\* Slot i, about which completion e is, becomes s, and operations sub are submitted.
LEMMA SlotChange ==
  ASSUME OpsInv, NEW e \in cq, NEW i \in Slots, NEW s \in SlotRec, SlotGood(s), NEW sub,
         e.op = Op(e.op.kind, i, slots[i].fd),
         sub \subseteq {Op("recv", i, slots[i].fd), Op("send", i, slots[i].fd)},
         \A k \in OpKinds :
           UnderWay(s, k) <=> Op(k, i, slots[i].fd) \in sub \/ (UnderWay(slots[i], k) /\ k # e.op.kind),
         Busy(s) => s.fd = slots[i].fd,
         \A op \in sub : op = e.op \/ ~UnderWay(slots[i], op.kind),
         ~shuttingDown => ~s.cancelInflight /\ (s.fd # Free => Busy(s))
  PROVE  Change(e, [slots EXCEPT ![i] = s], sub, acceptInflight, acceptCancelInflight)
<1> DEFINE ns == [slots EXCEPT ![i] = s]
<1> USE DEF OpsInv
<1>1. ns \in [Slots -> SlotRec] /\ ns[i] = s /\ \A j \in Slots \ {i} : ns[j] = slots[j]
  BY SlotTypes
<1>2. \A j \in Slots : SlotGood(ns[j])
  BY <1>1 DEF SlotInv
<1>3. Listener \notin Slots
  BY UringAssumption DEF Listener
<1>4. e.op \in Outstanding /\ e.op # AcceptOp /\ e.op # AcceptCancelOp
  BY <1>3 DEF Outstanding, AcceptOp, AcceptCancelOp, Op
<1>5. slots[i].fd \in Conns \cup {Free}
  BY SlotTypes DEF SlotRec
<1>6. sub \subseteq Ops /\ AcceptOp \notin sub
  BY <1>3, <1>5 DEF Ops, OpKinds, Op, AcceptOp
<1>7. IsFiniteSet(sub)
  <2>1. IsFiniteSet({Op("recv", i, slots[i].fd)} \cup {Op("send", i, slots[i].fd)})
    BY FS_Singleton, FS_Union
  <2> QED BY <2>1, FS_Subset
<1>8. sub \cap Outstanding \subseteq {e.op}
  <2> SUFFICES ASSUME NEW op \in sub, op \in Outstanding PROVE op = e.op OBVIOUS
  <2>1. op.kind \in {"recv", "send"} /\ op.slot = i
    BY DEF Op
  <2> QED BY <2>1, ClientOp
<1>9. \A op \in sub : op.slot \in Slots /\ UnderWay(ns[op.slot], op.kind) /\ op.conn = ns[op.slot].fd
  <2> SUFFICES ASSUME NEW op \in sub
               PROVE  op.slot = i /\ UnderWay(s, op.kind) /\ op.conn = s.fd
    BY <1>1
  <2>1. op.slot = i /\ op.kind \in {"recv", "send"} /\ op.conn = slots[i].fd
        /\ op = Op(op.kind, i, slots[i].fd)
    BY DEF Op
  <2>2. UnderWay(s, op.kind)
    BY <2>1 DEF OpKinds
  <2> QED BY <2>1, <2>2 DEF UnderWay, Busy
<1>10. ASSUME NEW j \in Slots, NEW k \in OpKinds
       PROVE  /\ UnderWay(ns[j], k) =>
                   \/ Op(k, j, ns[j].fd) \in sub
                   \/ UnderWay(slots[j], k) /\ ns[j].fd = slots[j].fd /\ e.op # Op(k, j, slots[j].fd)
              /\ UnderWay(slots[j], k) =>
                   e.op = Op(k, j, slots[j].fd) \/ (UnderWay(ns[j], k) /\ ns[j].fd = slots[j].fd)
  <2>1. CASE j # i
    <3>1. e.op # Op(k, j, slots[j].fd)
      BY <2>1 DEF Op
    <3> QED BY <1>1, <2>1, <3>1
  <2>2. CASE j = i
    <3>1. UnderWay(s, k) => s.fd = slots[i].fd
      BY DEF UnderWay, Busy
    <3>2. k # e.op.kind => e.op # Op(k, i, slots[i].fd)
      BY DEF Op
    <3> QED BY <1>1, <2>2, <3>1, <3>2
  <2> QED BY <2>1, <2>2
<1>11. ~shuttingDown =>
         /\ acceptInflight /\ ~acceptCancelInflight
         /\ \A j \in Slots : ~ns[j].cancelInflight /\ (ns[j].fd # Free => Busy(ns[j]))
  BY <1>1 DEF ModeInv
<1>12. acceptInflight \in BOOLEAN /\ acceptCancelInflight \in BOOLEAN
  BY DEF TypeOK
<1> HIDE DEF ns
<1>13. Change(e, ns, sub, acceptInflight, acceptCancelInflight)
  BY <1>1, <1>2, <1>4, <1>6, <1>7, <1>8, <1>9, <1>10, <1>11, <1>12 DEF Change
<1> QED BY <1>13 DEF ns

\* Only the listener's flags and operations change.
LEMMA ListenerChange ==
  ASSUME OpsInv, NEW e \in cq, e.op \in {AcceptOp, AcceptCancelOp},
         NEW sub \in SUBSET {AcceptOp}, NEW na \in BOOLEAN, NEW nc \in BOOLEAN,
         na <=> (acceptInflight /\ e.op # AcceptOp) \/ AcceptOp \in sub,
         nc <=> acceptCancelInflight /\ e.op # AcceptCancelOp,
         e.op = AcceptCancelOp => sub = {},
         ~shuttingDown => na /\ ~nc
  PROVE  Change(e, slots, sub, na, nc)
<1> USE DEF OpsInv
<1>1. Listener \notin Slots
  BY UringAssumption DEF Listener
<1>2. sub \subseteq Ops
  BY DEF Ops, OpKinds, Op, AcceptOp
<1>3. IsFiniteSet(sub)
  BY FS_Singleton, FS_Subset
<1>4. \A j \in Slots, k \in OpKinds : e.op # Op(k, j, slots[j].fd)
  BY <1>1 DEF Op, AcceptOp, AcceptCancelOp
<1>5. slots \in [Slots -> SlotRec]
  BY DEF TypeOK, SlotRec
<1>6. ~shuttingDown => \A j \in Slots : ~slots[j].cancelInflight /\ (slots[j].fd # Free => Busy(slots[j]))
  BY DEF ModeInv
<1>7. sub \cap Outstanding \subseteq {e.op}
  OBVIOUS
<1> QED BY <1>2, <1>3, <1>4, <1>5, <1>6, <1>7 DEF Change, SlotInv

-----------------------------------------------------------------------------
(* The kernel.                                                             *)

\* A connection has one slot, and that slot one recv or send at a time.
LEMMA OneClientOp ==
  ASSUME OpsInv, ConnInv,
         NEW op \in Outstanding, op.kind \in {"recv", "send"},
         NEW other \in Outstanding, other.kind \in {"recv", "send"}, other.conn = op.conn
  PROVE  other = op
<1>1. op.slot = other.slot
  <2>1. op.conn # Free
    BY ClientOp, UringAssumption DEF Free
  <2> QED BY <2>1, ClientOp DEF ConnInv
<1>2. op.kind = other.kind
  BY <1>1, ClientOp DEF OpsInv, SlotInv, SlotGood, UnderWay
<1> QED BY <1>1, <1>2, ClientOp

LEMMA TrafficType ==
  ASSUME TypeOK
  PROVE  /\ Traffic
         /\ \A c \in Conns : Back(c) \in Nat /\ received[c] \in Nat /\ total[c] \in Nat /\ got[c] \in Seq(Nat)
BY LenProperties DEF TypeOK, Traffic, Back

\* Other operations are not touched by what one connection gains.
LEMMA OthersFlow ==
  ASSUME IInv, NEW op \in inflight, NEW res \in Int, Complete(op, res),
         op.kind \in {"recv", "send"},
         \A c \in Conns \ {op.conn} : received'[c] = received[c] /\ got'[c] = got[c],
         total' = total, failed \subseteq failed',
         Done([op |-> op, res |-> res])'
  PROVE  FlowInv'
<1> USE DEF IInv
<1>1. /\ inflight' = inflight \ {op} /\ cq' = cq \cup {[op |-> op, res |-> res]} /\ slots' = slots
  BY DEF Complete
<1>2. op \in Outstanding /\ op \in inflight
  BY DEF Outstanding
<1>3. ASSUME NEW o \in Outstanding, o # op, o.kind \in {"recv", "send"}
      PROVE  /\ o.conn \in Conns /\ received'[o.conn] = received[o.conn] /\ got'[o.conn] = got[o.conn]
             /\ total'[o.conn] = total[o.conn]
  <2>1. o.conn # op.conn
    BY <1>2, <1>3, OneClientOp
  <2> QED BY <1>3, <2>1, ClientOp
<1>4. ASSUME NEW o \in inflight' PROVE Ahead(o)'
  <2>1. o \in Outstanding /\ o # op /\ Ahead(o)
    BY <1>1 DEF Outstanding, FlowInv
  <2> QED BY <1>1, <1>3, <2>1 DEF Ahead, Back
<1>5. ASSUME NEW e \in cq PROVE Done(e)'
  <2>1. e.op \in Outstanding /\ e.op # op /\ Done(e)
    BY DEF Outstanding, FlowInv, OpsInv, PlaceInv
  <2> QED BY <1>1, <1>3, <2>1 DEF Done, Back
<1> QED BY <1>1, <1>4, <1>5 DEF FlowInv

LEMMA AcceptCompletesInv == IInv /\ AcceptCompletes => IInv'
<1> SUFFICES ASSUME IInv, AcceptCompletes PROVE IInv' OBVIOUS
<1> USE DEF IInv
<1>1. PICK c \in Conns :
        peer[c] = "backlog" /\ peer' = [peer EXCEPT ![c] = "accepted"] /\ Complete(AcceptOp, c)
  BY DEF AcceptCompletes
<1>2. UNCHANGED traffic
  BY DEF AcceptCompletes
<1>3. /\ inflight' = inflight \ {AcceptOp} /\ cq' = cq \cup {[op |-> AcceptOp, res |-> c]} /\ slots' = slots
      /\ AcceptOp \in inflight /\ shuttingDown' = shuttingDown /\ AcceptOp.kind = "accept"
  BY <1>1 DEF Complete, flags, AcceptOp, Op
<1>4. Traffic'
  BY <1>1, <1>2, TrafficType DEF Traffic, traffic, OpsInv
<1>5. OpsInv'
  BY <1>1, <1>3, <1>4, CompleteOps, UringAssumption
<1>6. peer \in [Conns -> {"absent", "backlog", "accepted", "open", "closed", "refused"}]
  BY DEF OpsInv, TypeOK
<1>7. ConnInv'
  BY <1>1, <1>2, <1>3, <1>6 DEF ConnInv, traffic
<1>8. FlowInv'
  <2>1. \A o \in inflight' : Ahead(o)'
    BY <1>2, <1>3 DEF FlowInv, Ahead, Back, traffic
  <2>2. \A e \in cq : Done(e)'
    BY <1>2, <1>3 DEF FlowInv, Done, Back, traffic
  <2>3. Done([op |-> AcceptOp, res |-> c])'
    BY <1>3 DEF Done
  <2> QED BY <1>3, <2>1, <2>2, <2>3 DEF FlowInv
<1>9. EchoInOrder' /\ HalfCloseFlushes'
  BY <1>1, <1>2, <1>3, <1>6 DEF EchoInOrder, HalfCloseFlushes, traffic
<1> QED BY <1>5, <1>7, <1>8, <1>9

\* A connection with an operation under way is open.
LEMMA ClientIsOpen ==
  ASSUME IInv, NEW op \in Outstanding, op.kind \in {"recv", "send"}
  PROVE  op.conn \in Conns /\ peer[op.conn] = "open"
<1>1. op.conn \in Conns /\ op.slot \in Slots /\ op.conn = slots[op.slot].fd
  BY ClientOp DEF IInv
<1>2. op.conn # Free
  BY <1>1, UringAssumption DEF Free
<1> QED BY <1>1, <1>2 DEF IInv, ConnInv

LEMMA RecvCompletesInv == IInv /\ RecvCompletes => IInv'
<1> SUFFICES ASSUME IInv, RecvCompletes PROVE IInv' OBVIOUS
<1> USE DEF IInv
<1>1. PICK op \in inflight, n \in 0 .. BufferCap :
        /\ op.kind = "recv"
        /\ received[op.conn] + n <= total[op.conn]
        /\ n = 0 => received[op.conn] = total[op.conn]
        /\ Complete(op, n)
        /\ received' = [received EXCEPT ![op.conn] = @ + n]
        /\ UNCHANGED <<peer, total, got, failed>>
  BY DEF RecvCompletes
<1>2. n \in Nat /\ n \in Int
  BY UringAssumption
<1>3. op \in Outstanding /\ op.conn \in Conns /\ peer[op.conn] = "open"
  BY <1>1, ClientIsOpen DEF Outstanding
<1>4. \A c \in Conns : received[c] \in Nat /\ Back(c) \in Nat
  BY TrafficType DEF OpsInv
<1>5. /\ received' \in [Conns -> Nat] /\ received'[op.conn] = received[op.conn] + n
      /\ \A c \in Conns \ {op.conn} : received'[c] = received[c]
  BY <1>1, <1>2, <1>3, <1>4 DEF OpsInv, TypeOK
<1>6. Traffic'
  BY <1>1, <1>5, TrafficType DEF Traffic, OpsInv
<1>7. OpsInv'
  BY <1>1, <1>2, <1>6, CompleteOps
<1>8. /\ cq' = cq \cup {[op |-> op, res |-> n]} /\ slots' = slots /\ shuttingDown' = shuttingDown
  BY <1>1 DEF Complete, flags
<1>9. ConnInv'
  BY <1>1, <1>3, <1>5, <1>8 DEF ConnInv, AcceptOp, Op
<1>10. Done([op |-> op, res |-> n])'
  <2>1. received[op.conn] = Back(op.conn)
    BY <1>1 DEF FlowInv, Ahead
  <2>2. received[op.conn] \in Nat /\ total[op.conn] \in Nat
    BY <1>3, TrafficType DEF OpsInv
  <2>3. /\ received'[op.conn] = Back(op.conn) + n
        /\ n = 0 => received'[op.conn] = total[op.conn]
    BY <1>1, <1>5, <2>1, <2>2
  <2> QED BY <1>1, <1>2, <2>3 DEF Done, Back
<1>11. FlowInv'
  BY <1>1, <1>2, <1>5, <1>10, OthersFlow
<1>12. EchoInOrder' /\ HalfCloseFlushes'
  BY <1>1, <1>8 DEF EchoInOrder, HalfCloseFlushes
<1> QED BY <1>7, <1>9, <1>11, <1>12

\* What a concatenation of sequences of numbers is.
LEMMA ConcatIs ==
  ASSUME NEW s \in Seq(Nat), NEW u \in Seq(Nat)
  PROVE  /\ s \o u \in Seq(Nat) /\ Len(s \o u) = Len(s) + Len(u)
         /\ \A i \in 1 .. Len(s) + Len(u) : (s \o u)[i] = IF i <= Len(s) THEN s[i] ELSE u[i - Len(s)]
BY ConcatProperties

\* Counting on from n.
LEMMA CountedOn ==
  ASSUME NEW s \in Seq(Nat), s = [k \in 1 .. Len(s) |-> k], NEW n \in Nat
  PROVE  LET t == s \o [k \in 1 .. n |-> Len(s) + k]
         IN  t \in Seq(Nat) /\ Len(t) = Len(s) + n /\ t = [k \in 1 .. Len(t) |-> k]
<1> DEFINE u == [k \in 1 .. n |-> Len(s) + k]   t == s \o u
<1>1. Len(s) \in Nat
  BY LenProperties
<1>2. u \in Seq(Nat) /\ Len(u) = n /\ \A k \in 1 .. n : u[k] = Len(s) + k
  BY <1>1
<1> HIDE DEF u
<1>3. /\ t \in Seq(Nat) /\ Len(t) = Len(s) + n
      /\ \A i \in 1 .. Len(s) + n : t[i] = IF i <= Len(s) THEN s[i] ELSE u[i - Len(s)]
  <2>1. /\ s \o u \in Seq(Nat) /\ Len(s \o u) = Len(s) + Len(u)
        /\ \A i \in 1 .. Len(s) + Len(u) : (s \o u)[i] = IF i <= Len(s) THEN s[i] ELSE u[i - Len(s)]
    BY <1>2, ConcatIs, Zenon
  <2> QED BY <1>2, <2>1, Zenon
<1> HIDE DEF t
<1>4. \A i \in 1 .. Len(s) + n : t[i] = i
  <2>1. \A i \in 1 .. Len(s) : s[i] = i
    OBVIOUS
  <2>2. \A i \in 1 .. Len(s) + n : i > Len(s) => i - Len(s) \in 1 .. n /\ u[i - Len(s)] = i
    BY <1>1, <1>2
  <2> QED BY <1>1, <1>3, <2>1, <2>2
<1>5. DOMAIN t = 1 .. Len(t) /\ t = [k \in DOMAIN t |-> t[k]]
  BY <1>3, LenProperties
<1>6. t = [k \in 1 .. Len(t) |-> k]
  BY <1>3, <1>4, <1>5
<1> QED BY <1>3, <1>6 DEF t, u

LEMMA SendCompletesInv == IInv /\ SendCompletes => IInv'
<1> SUFFICES ASSUME IInv, SendCompletes PROVE IInv' OBVIOUS
<1> USE DEF IInv
<1>1. PICK op \in inflight :
        /\ op.kind = "send"
        /\ \E n \in 1 .. slots[op.slot].sendOp.len - slots[op.slot].sendOp.off :
             /\ Complete(op, n)
             /\ got' = [got EXCEPT ![op.conn] = @ \o
                          [k \in 1 .. n |-> slots[op.slot].sendOp.start + slots[op.slot].sendOp.off + k]]
        /\ UNCHANGED <<peer, total, received, failed>>
  BY DEF SendCompletes
<1> DEFINE send == slots[op.slot].sendOp
<1>2. PICK n \in 1 .. send.len - send.off :
        /\ Complete(op, n)
        /\ got' = [got EXCEPT ![op.conn] = @ \o [k \in 1 .. n |-> send.start + send.off + k]]
  BY <1>1
<1>3. op \in Outstanding /\ op.conn \in Conns /\ peer[op.conn] = "open" /\ op.slot \in Slots
  BY <1>1, ClientIsOpen, ClientOp DEF Outstanding
<1>4. send.len \in Nat /\ send.off \in Nat /\ send.start \in Nat
  BY <1>3, SlotTypes DEF OpsInv, SlotRec
<1>5. /\ Back(op.conn) = send.start + send.off /\ send.start + send.len = received[op.conn]
  BY <1>1 DEF FlowInv, Ahead
<1> HIDE DEF send
<1>6. n \in Nat /\ n \in Int /\ n >= 1
  BY <1>4
<1>7. got[op.conn] \in Seq(Nat) /\ got[op.conn] = [k \in 1 .. Len(got[op.conn]) |-> k]
  BY <1>3, TrafficType DEF OpsInv, EchoInOrder
<1>8. /\ got'[op.conn] \in Seq(Nat) /\ Len(got'[op.conn]) = Len(got[op.conn]) + n
      /\ got'[op.conn] = [k \in 1 .. Len(got'[op.conn]) |-> k]
  <2>1. got'[op.conn] = got[op.conn] \o [k \in 1 .. n |-> Len(got[op.conn]) + k]
    BY <1>2, <1>3, <1>5 DEF OpsInv, TypeOK, Back
  <2> QED BY <1>6, <1>7, <2>1, CountedOn
<1>9. /\ got' \in [Conns -> Seq(Nat)] /\ \A c \in Conns \ {op.conn} : got'[c] = got[c]
  <2>1. got \in [Conns -> Seq(Nat)]
    BY DEF OpsInv, TypeOK
  <2>2. got' = [got EXCEPT ![op.conn] = got'[op.conn]]
    BY <1>2, <1>3, <2>1
  <2> QED BY <1>3, <1>8, <2>1, <2>2
<1>10. Traffic'
  BY <1>1, <1>9, TrafficType DEF Traffic, OpsInv
<1>11. OpsInv'
  BY <1>2, <1>6, <1>10, CompleteOps
<1>12. /\ cq' = cq \cup {[op |-> op, res |-> n]} /\ slots' = slots /\ shuttingDown' = shuttingDown
  BY <1>2 DEF Complete, flags
<1>13. ConnInv'
  BY <1>1, <1>3, <1>9, <1>12 DEF ConnInv, AcceptOp, Op
<1>14. Done([op |-> op, res |-> n])'
  BY <1>1, <1>2, <1>5, <1>8, <1>12 DEF Done, Back, send
<1>15. FlowInv'
  BY <1>1, <1>2, <1>6, <1>9, <1>14, OthersFlow
<1>16. EchoInOrder'
  BY <1>8, <1>9 DEF EchoInOrder
<1>17. HalfCloseFlushes'
  BY <1>1, <1>3, <1>9, <1>12 DEF HalfCloseFlushes
<1> QED BY <1>11, <1>13, <1>15, <1>16, <1>17

LEMMA FailsInv == IInv /\ Fails => IInv'
<1> SUFFICES ASSUME IInv, Fails PROVE IInv' OBVIOUS
<1> USE DEF IInv
<1>1. PICK op \in inflight :
        /\ op.kind \in {"accept", "recv", "send"}
        /\ Complete(op, Errno)
        /\ failed' = failed \cup ({op.conn} \cap Conns)
        /\ UNCHANGED <<peer, total, received, got>>
  BY DEF Fails
<1>2. Traffic'
  BY <1>1, TrafficType DEF Traffic, OpsInv
<1>3. Errno \in Int
  BY DEF Errno
<1>4. OpsInv'
  BY <1>1, <1>2, <1>3, CompleteOps
<1>5. /\ inflight' = inflight \ {op} /\ cq' = cq \cup {[op |-> op, res |-> Errno]}
      /\ slots' = slots /\ shuttingDown' = shuttingDown
  BY <1>1 DEF Complete, flags
<1>6. ConnInv'
  BY <1>1, <1>5 DEF ConnInv
<1>7. Done([op |-> op, res |-> Errno])'
  <2>1. op.kind \in {"recv", "send"} => op.conn \in failed'
    BY <1>1, ClientIsOpen DEF Outstanding
  <2> QED BY <2>1 DEF Done
<1>8. FlowInv'
  <2>1. CASE op.kind \in {"recv", "send"}
    BY <1>1, <1>3, <1>7, <2>1, OthersFlow
  <2>2. CASE op.kind = "accept"
    <3>1. \A o \in inflight' : Ahead(o)'
      BY <1>1, <1>5 DEF FlowInv, Ahead, Back
    <3>2. \A e \in cq : Done(e)'
      BY <1>1, <1>5 DEF FlowInv, Done, Back
    <3> QED BY <1>5, <1>7, <3>1, <3>2 DEF FlowInv
  <2> QED BY <1>1, <2>1, <2>2
<1>9. EchoInOrder' /\ HalfCloseFlushes'
  BY <1>1, <1>5 DEF EchoInOrder, HalfCloseFlushes
<1> QED BY <1>4, <1>6, <1>8, <1>9

LEMMA CancelCompletesInv == IInv /\ CancelCompletes => IInv'
<1> SUFFICES ASSUME IInv, CancelCompletes PROVE IInv' OBVIOUS
<1> USE DEF IInv
<1>1. PICK op \in inflight, res \in {0, Errno} :
        op.kind = "cancel" /\ Complete(op, res) /\ UNCHANGED <<peer, traffic>>
  BY DEF CancelCompletes
<1>2. Traffic'
  BY <1>1, TrafficType DEF Traffic, OpsInv, traffic
<1>3. OpsInv'
  BY <1>1, <1>2, CompleteOps DEF Errno
<1>4. /\ inflight' = inflight \ {op} /\ cq' = cq \cup {[op |-> op, res |-> res]}
      /\ slots' = slots /\ shuttingDown' = shuttingDown
  BY <1>1 DEF Complete, flags
<1>5. ConnInv'
  BY <1>1, <1>4 DEF ConnInv, AcceptOp, Op, traffic
<1>6. FlowInv'
  <2>1. \A o \in inflight' : Ahead(o)'
    BY <1>1, <1>4 DEF FlowInv, Ahead, Back, traffic
  <2>2. \A e \in cq : Done(e)'
    BY <1>1, <1>4 DEF FlowInv, Done, Back, traffic
  <2>3. Done([op |-> op, res |-> res])'
    BY <1>1 DEF Done
  <2> QED BY <1>4, <2>1, <2>2, <2>3 DEF FlowInv
<1>7. EchoInOrder' /\ HalfCloseFlushes'
  BY <1>1, <1>4 DEF EchoInOrder, HalfCloseFlushes, traffic
<1> QED BY <1>3, <1>5, <1>6, <1>7

-----------------------------------------------------------------------------
(* The turns of the loop.                                                  *)

LEMMA FdTypes ==
  ASSUME TypeOK
  PROVE  \A i \in Slots : slots[i].fd \in Conns \cup {Free}
BY SlotTypes DEF SlotRec

\* Closing the connections whose slots are given up.
LEMMA CloseConn ==
  ASSUME OpsInv, ConnInv, CloseDropped, cq' \subseteq cq, UNCHANGED traffic,
         \A i \in Slots : slots'[i].fd \in {slots[i].fd, Free}
  PROVE  ConnInv' /\ Traffic'
<1>1. /\ peer' = [c \in Conns |-> IF c \in Fds(slots) \ Fds(slots') THEN "closed" ELSE peer[c]]
  BY DEF CloseDropped
<1>2. Traffic'
  BY <1>1, TrafficType DEF OpsInv, Traffic, traffic
<1>3. \A i, j \in Slots : slots'[i].fd = slots'[j].fd /\ slots'[i].fd # Free => i = j
  BY DEF ConnInv
<1>4. ASSUME NEW i \in Slots, slots'[i].fd # Free
      PROVE  peer'[slots'[i].fd] = "open"
  <2>1. slots'[i].fd = slots[i].fd /\ slots[i].fd \in Conns /\ peer[slots[i].fd] = "open"
    BY <1>4, FdTypes DEF OpsInv, ConnInv
  <2>2. slots'[i].fd \in Fds(slots')
    BY <1>4 DEF Fds
  <2> QED BY <1>1, <2>1, <2>2
<1>5. ASSUME NEW e \in cq', e.op = AcceptOp, e.res # Errno
      PROVE  e.res \in Conns /\ peer'[e.res] = "accepted"
  <2>1. e.res \in Conns /\ peer[e.res] = "accepted"
    BY <1>5 DEF ConnInv
  <2>2. e.res \notin Fds(slots)
    BY <2>1 DEF ConnInv, Fds
  <2> QED BY <1>1, <2>1, <2>2
<1>6. ASSUME NEW c \in Conns, peer'[c] \notin {"open", "closed"}
      PROVE  received'[c] = 0 /\ got'[c] = <<>>
  <2>1. peer'[c] = peer[c]
    BY <1>1, <1>6
  <2> QED BY <1>6, <2>1 DEF ConnInv, traffic
<1> QED BY <1>2, <1>3, <1>4, <1>5, <1>6 DEF ConnInv

\* After a turn, the operations it left alone have before them what they had, and the
\* new ones what they should.
TurnAhead(e, ns, sub) ==
  /\ \A o \in Outstanding \ {e.op} : o.kind = "send" => ns[o.slot].sendOp = slots[o.slot].sendOp
  /\ \A o \in sub :
       /\ o.kind = "recv" => received[o.conn] = Back(o.conn)
       /\ o.kind = "send" =>
            /\ Back(o.conn) = ns[o.slot].sendOp.start + ns[o.slot].sendOp.off
            /\ ns[o.slot].sendOp.start + ns[o.slot].sendOp.len = received[o.conn]
            /\ ns[o.slot].sendOp.off < ns[o.slot].sendOp.len

LEMMA TurnFlow ==
  ASSUME IInv, NEW e \in cq, NEW ns, NEW sub, NEW na, NEW nc,
         Turn(e, ns, sub, na, nc), Change(e, ns, sub, na, nc), TurnAhead(e, ns, sub)
  PROVE  FlowInv' /\ EchoInOrder'
<1> USE DEF IInv, TurnAhead
<1>1. /\ cq' = cq \ {e} /\ inflight' = inflight \cup sub /\ UNCHANGED traffic
  BY DEF Turn
<1>2. \A i \in Slots : slots'[i].sendOp = ns[i].sendOp
  BY TurnSlots
<1>3. \A o \in Outstanding : o.kind = "send" => o.slot \in Slots
  BY ClientOp
<1>4. ASSUME NEW o \in inflight PROVE Ahead(o)'
  <2>1. o \in Outstanding \ {e.op} /\ Ahead(o)
    BY DEF Outstanding, FlowInv, OpsInv, PlaceInv
  <2> QED BY <1>1, <1>2, <1>3, <2>1 DEF Ahead, Back, traffic
<1>5. ASSUME NEW o \in sub PROVE Ahead(o)'
  <2>1. o.kind = "send" => o.slot \in Slots
    BY DEF Change, AcceptOp, Op
  <2> QED BY <1>1, <1>2, <2>1 DEF Ahead, Back, traffic
<1>6. ASSUME NEW f \in cq \ {e} PROVE Done(f)'
  <2>1. f.op \in Outstanding \ {e.op} /\ Done(f)
    BY DEF Outstanding, FlowInv, OpsInv, PlaceInv
  <2> QED BY <1>1, <1>2, <1>3, <2>1 DEF Done, Back, traffic
<1>7. EchoInOrder'
  BY <1>1 DEF EchoInOrder, traffic
<1> QED BY <1>1, <1>4, <1>5, <1>6, <1>7 DEF FlowInv

\* What a turn about the slot of completion e makes of it: s, with sub submitted.
SlotResult(e, s, sub) ==
  /\ e.op.slot \in Slots /\ e.op = Op(e.op.kind, e.op.slot, slots[e.op.slot].fd)
  /\ s \in SlotRec /\ SlotGood(s)
  /\ sub \subseteq {Op("recv", e.op.slot, slots[e.op.slot].fd), Op("send", e.op.slot, slots[e.op.slot].fd)}
  /\ \A k \in OpKinds :
       UnderWay(s, k) <=>
         Op(k, e.op.slot, slots[e.op.slot].fd) \in sub \/ (UnderWay(slots[e.op.slot], k) /\ k # e.op.kind)
  /\ Busy(s) => s.fd = slots[e.op.slot].fd
  /\ s.fd \in {slots[e.op.slot].fd, Free}
  /\ \A o \in sub : o = e.op \/ ~UnderWay(slots[e.op.slot], o.kind)
  /\ ~shuttingDown => ~s.cancelInflight /\ (s.fd # Free => Busy(s))
  /\ s.sendOp = slots[e.op.slot].sendOp \/ e.op.kind \in {"recv", "send"}
  /\ \A o \in sub :
       /\ o.kind = "recv" => received[o.conn] = Back(o.conn)
       /\ o.kind = "send" =>
            /\ Back(o.conn) = s.sendOp.start + s.sendOp.off
            /\ s.sendOp.start + s.sendOp.len = received[o.conn]
            /\ s.sendOp.off < s.sendOp.len
  /\ \/ shuttingDown \/ s.fd = slots[e.op.slot].fd
     \/ e.op.conn \in failed \/ Back(e.op.conn) = total[e.op.conn]

LEMMA SlotTurnInv ==
  ASSUME IInv, NEW e \in cq, NEW s, NEW sub, SlotTurn(e, s, sub), SlotResult(e, s, sub)
  PROVE  IInv'
<1> USE DEF IInv, SlotResult
<1> DEFINE i == e.op.slot   ns == [slots EXCEPT ![i] = s]
<1>1. Turn(e, ns, sub, acceptInflight, acceptCancelInflight) /\ CloseDropped
  BY DEF SlotTurn
<1>2. Change(e, ns, sub, acceptInflight, acceptCancelInflight)
  BY SlotChange
<1>3. slots \in [Slots -> SlotRec] /\ ns[i] = s /\ \A j \in Slots \ {i} : ns[j] = slots[j]
  BY SlotTypes DEF OpsInv
<1> HIDE DEF ns
<1>4. /\ \A j \in Slots : slots'[j].fd \in {ns[j].fd, Free}
      /\ ~shuttingDown => slots' = ns
  BY <1>1, <1>2, TurnSlots
<1>5. cq' \subseteq cq /\ UNCHANGED traffic /\ shuttingDown' = shuttingDown
  BY <1>1 DEF Turn, flags
<1>6. \A j \in Slots : slots'[j].fd \in {slots[j].fd, Free}
  BY <1>3, <1>4
<1>7. ConnInv' /\ Traffic'
  BY <1>1, <1>5, <1>6, CloseConn
<1>8. OpsInv'
  BY <1>1, <1>2, <1>7, TurnOps
<1>9. FlowInv' /\ EchoInOrder'
  <2>1. ASSUME NEW o \in Outstanding \ {e.op}, o.kind = "send"
        PROVE  ns[o.slot].sendOp = slots[o.slot].sendOp
    <3>1. o.slot \in Slots /\ o.conn = slots[o.slot].fd
      BY <2>1, ClientOp
    <3>2. CASE o.slot # i
      BY <1>3, <3>1, <3>2
    <3>3. CASE o.slot = i
      <4>1. e.op.kind \in {"recv", "send"} => o = e.op
        BY <2>1, <3>1, <3>3, OneClientOp DEF Outstanding, Op
      <4> QED BY <1>3, <2>1, <3>3, <4>1
    <3> QED BY <3>2, <3>3
  <2>2. ASSUME NEW o \in sub
        PROVE  ns[o.slot] = s
    BY <1>3 DEF Op
  <2>3. TurnAhead(e, ns, sub)
    BY <2>1, <2>2 DEF TurnAhead
  <2> QED BY <1>1, <1>2, <2>3, TurnFlow
<1>10. HalfCloseFlushes'
  <2> SUFFICES ASSUME NEW c \in Conns, peer'[c] = "closed", c \notin failed, ~shuttingDown
               PROVE  Back(c) = total[c]
    BY <1>5 DEF HalfCloseFlushes, Back, traffic
  <2>1. CASE peer[c] = "closed"
    BY <2>1 DEF HalfCloseFlushes, Back
  <2>2. CASE c \in Fds(slots) \ Fds(slots')
    <3>1. PICK j \in Slots : slots[j].fd = c /\ c # Free
      BY <2>2 DEF Fds
    <3>2. slots'[j].fd # c
      BY <2>2, <3>1 DEF Fds
    <3>3. j = i /\ s.fd # slots[i].fd
      BY <1>3, <1>4, <3>1, <3>2
    <3>4. e.op.conn = c
      BY <3>1, <3>3 DEF Op
    <3> QED BY <3>3, <3>4
  <2> QED BY <1>1, <2>1, <2>2 DEF CloseDropped
<1> QED BY <1>7, <1>8, <1>9, <1>10

LEMMA SendingIs ==
  ASSUME NEW s \in SlotRec, NEW send \in [gen : 0 .. MaxGeneration, start : Nat, len : Nat, off : Nat]
  PROVE  LET t == Sending(s, send)
         IN  /\ t \in SlotRec /\ t.fd = s.fd /\ t.generation = s.generation /\ t.sendOp = send
             /\ t.recvInflight = s.recvInflight /\ t.sendInflight = TRUE
             /\ t.cancelInflight = s.cancelInflight /\ t.cancelGen = s.cancelGen
<1> DEFINE t == Sending(s, send)
<1>1. t = [s EXCEPT !.sendOp = send, !.sendInflight = TRUE]
  BY DEF Sending
<1> HIDE DEF t
<1>2. t \in SlotRec
  BY <1>1 DEF SlotRec
<1>3. /\ t.fd = s.fd /\ t.generation = s.generation /\ t.sendOp = send
      /\ t.recvInflight = s.recvInflight /\ t.sendInflight = TRUE
      /\ t.cancelInflight = s.cancelInflight /\ t.cancelGen = s.cancelGen
  BY <1>1 DEF SlotRec
<1> QED BY <1>2, <1>3 DEF t

LEMMA HandleRecvInv == IInv /\ HandleRecv => IInv'
<1> SUFFICES ASSUME IInv, HandleRecv PROVE IInv' OBVIOUS
<1>1. PICK e \in cq :
        /\ e.op.kind = "recv"
        /\ LET s == [slots[e.op.slot] EXCEPT !.recvInflight = FALSE]
               send == [gen |-> s.generation, start |-> received[e.op.conn] - e.res, len |-> e.res, off |-> 0]
           IN \/ /\ ~shuttingDown /\ e.res > 0
                 /\ SlotTurn(e, Sending(s, send), {Op("send", e.op.slot, s.fd)})
              \/ /\ shuttingDown \/ e.res <= 0
                 /\ SlotTurn(e, Dropped(s), {})
  BY DEF HandleRecv, Fresh
<1> DEFINE i == e.op.slot   old == slots[i]   s == [old EXCEPT !.recvInflight = FALSE]
           send == [gen |-> s.generation, start |-> received[e.op.conn] - e.res, len |-> e.res, off |-> 0]
<1>2. /\ i \in Slots /\ e.op = Op("recv", i, old.fd) /\ e.op.conn = old.fd /\ e.op.conn \in Conns
      /\ old.recvInflight
  <2>1. e.op \in Outstanding
    BY DEF Outstanding
  <2> QED BY <1>1, <2>1, ClientOp DEF IInv, UnderWay
<1>3. old \in SlotRec /\ SlotGood(old) /\ (~shuttingDown => ~old.cancelInflight)
  BY <1>2, SlotTypes DEF IInv, OpsInv, SlotInv, ModeInv
<1>4. /\ s \in SlotRec /\ SlotGood(s) /\ s.fd = old.fd /\ s.generation = old.generation
      /\ s.sendOp = old.sendOp /\ ~s.recvInflight /\ ~s.sendInflight /\ s.cancelInflight = old.cancelInflight
      /\ old.fd # Free /\ ~old.sendInflight
  BY <1>2, <1>3 DEF SlotRec, SlotGood, Busy
<1>5. /\ \/ e.res = Errno /\ e.op.conn \in failed
         \/ /\ e.res \in Nat /\ received[e.op.conn] = Back(e.op.conn) + e.res
            /\ e.res = 0 => received[e.op.conn] = total[e.op.conn]
      /\ received[e.op.conn] \in Nat /\ Back(e.op.conn) \in Nat
  BY <1>1, <1>2, TrafficType DEF IInv, OpsInv, FlowInv, Done
<1>6. CASE ~shuttingDown /\ e.res > 0 /\ SlotTurn(e, Sending(s, send), {Op("send", i, s.fd)})
  <2> DEFINE t == Sending(s, send)   sub == {Op("send", i, s.fd)}
  <2>1. e.res \in Nat /\ received[e.op.conn] = Back(e.op.conn) + e.res
    BY <1>5, <1>6 DEF Errno
  <2>2. /\ send \in [gen : 0 .. MaxGeneration, start : Nat, len : Nat, off : Nat]
        /\ send.gen = old.generation /\ send.start = Back(e.op.conn) /\ send.len = e.res /\ send.off = 0
    BY <1>3, <1>4, <1>5, <2>1 DEF SlotRec
  <2> HIDE DEF send, s
  <2>3. /\ t \in SlotRec /\ t.fd = old.fd /\ t.generation = old.generation /\ t.sendOp = send
        /\ ~t.recvInflight /\ t.sendInflight /\ t.cancelInflight = old.cancelInflight
        /\ t.cancelGen = s.cancelGen
    <3>1. s \in SlotRec /\ send \in [gen : 0 .. MaxGeneration, start : Nat, len : Nat, off : Nat]
      BY <1>4, <2>2
    <3> QED BY <1>4, <3>1, SendingIs
  <2>4. SlotGood(t) /\ Busy(t)
    BY <1>4, <2>2, <2>3 DEF SlotGood, Busy
  <2>5. \A k \in OpKinds : UnderWay(t, k) <=> Op(k, i, old.fd) \in sub \/ (UnderWay(old, k) /\ k # e.op.kind)
    BY <1>1, <1>4, <2>3 DEF UnderWay, Op
  <2>6. \A o \in sub : o.kind = "send" /\ o.conn = e.op.conn /\ o.slot = i
    BY <1>2, <1>4 DEF Op
  <2>7. \A o \in sub : ~UnderWay(old, o.kind)
    BY <1>4, <2>6 DEF UnderWay
  <2>8. /\ Back(e.op.conn) = t.sendOp.start + t.sendOp.off
        /\ t.sendOp.start + t.sendOp.len = received[e.op.conn]
        /\ t.sendOp.off < t.sendOp.len
    BY <1>5, <1>6, <2>1, <2>2, <2>3
  <2>9. SlotTurn(e, t, sub) /\ e.op = Op(e.op.kind, i, old.fd)
    BY <1>1, <1>2, <1>6
  <2>10. sub \subseteq {Op("recv", i, old.fd), Op("send", i, old.fd)}
    BY <1>4
  <2> HIDE DEF t, sub
  <2>11. SlotResult(e, t, sub)
    BY <1>1, <1>2, <1>3, <2>3, <2>4, <2>5, <2>6, <2>7, <2>8, <2>9, <2>10 DEF SlotResult
  <2> QED BY <2>9, <2>11, SlotTurnInv
<1>7. CASE (shuttingDown \/ e.res <= 0) /\ SlotTurn(e, Dropped(s), {})
  <2> DEFINE t == Dropped(s)
  <2> HIDE DEF s
  <2>1. /\ t \in SlotRec /\ SlotGood(t) /\ t.fd = (IF Busy(s) THEN s.fd ELSE Free)
        /\ ~t.recvInflight /\ ~t.sendInflight /\ t.cancelInflight = old.cancelInflight
        /\ Busy(t) <=> Busy(s)
    BY <1>4, DroppedSlot DEF Busy
  <2>2. \A k \in OpKinds : UnderWay(t, k) <=> UnderWay(old, k) /\ k # e.op.kind
    BY <1>1, <1>4, <2>1 DEF UnderWay
  <2>3. shuttingDown \/ e.op.conn \in failed \/ Back(e.op.conn) = total[e.op.conn]
    BY <1>5, <1>7
  <2>4. SlotTurn(e, t, {}) /\ e.op = Op(e.op.kind, i, old.fd)
    BY <1>1, <1>2, <1>7
  <2> HIDE DEF t
  <2>5. SlotResult(e, t, {})
    BY <1>1, <1>2, <1>3, <1>4, <2>1, <2>2, <2>3, <2>4 DEF SlotResult
  <2> QED BY <2>4, <2>5, SlotTurnInv
<1> QED BY <1>1, <1>6, <1>7

LEMMA AdvancedIs ==
  ASSUME NEW send \in [gen : 0 .. MaxGeneration, start : Nat, len : Nat, off : Nat], NEW n \in Nat
  PROVE  LET a == Advanced(send, n)
         IN  /\ a \in [gen : 0 .. MaxGeneration, start : Nat, len : Nat, off : Nat]
             /\ a.gen = send.gen /\ a.start = send.start /\ a.len = send.len /\ a.off = send.off + n
BY DEF Advanced

LEMMA HandleSendInv == IInv /\ HandleSend => IInv'
<1> SUFFICES ASSUME IInv, HandleSend PROVE IInv' OBVIOUS
<1>1. PICK e \in cq :
        /\ e.op.kind = "send"
        /\ LET s == [slots[e.op.slot] EXCEPT !.sendInflight = FALSE]
               send == Advanced(s.sendOp, e.res)
               valid == ~shuttingDown /\ e.res > 0 /\ e.res <= s.sendOp.len - s.sendOp.off
           IN \/ /\ valid /\ send.off < send.len
                 /\ SlotTurn(e, Sending(s, send), {Op("send", e.op.slot, s.fd)})
              \/ /\ valid /\ send.off >= send.len
                 /\ SlotTurn(e, Receiving([s EXCEPT !.sendOp = NoSend]), {Op("recv", e.op.slot, s.fd)})
              \/ /\ ~valid
                 /\ SlotTurn(e, Dropped(s), {})
  BY DEF HandleSend, Fresh
<1> DEFINE i == e.op.slot   old == slots[i]   s == [old EXCEPT !.sendInflight = FALSE]
           send == Advanced(s.sendOp, e.res)
           valid == ~shuttingDown /\ e.res > 0 /\ e.res <= s.sendOp.len - s.sendOp.off
<1>2. /\ i \in Slots /\ e.op = Op("send", i, old.fd) /\ e.op.conn = old.fd /\ e.op.conn \in Conns
      /\ old.sendInflight
  <2>1. e.op \in Outstanding
    BY DEF Outstanding
  <2> QED BY <1>1, <2>1, ClientOp DEF IInv, UnderWay
<1>3. old \in SlotRec /\ SlotGood(old) /\ (~shuttingDown => ~old.cancelInflight)
  BY <1>2, SlotTypes DEF IInv, OpsInv, SlotInv, ModeInv
<1>4. /\ s \in SlotRec /\ SlotGood(s) /\ s.fd = old.fd /\ s.generation = old.generation
      /\ s.sendOp = old.sendOp /\ ~s.recvInflight /\ ~s.sendInflight /\ s.cancelInflight = old.cancelInflight
      /\ old.fd # Free /\ ~old.recvInflight /\ old.sendOp.gen = old.generation
  BY <1>2, <1>3 DEF SlotRec, SlotGood, Busy
<1>5. /\ \/ e.res = Errno /\ e.op.conn \in failed
         \/ /\ e.res \in 1 .. old.sendOp.len - old.sendOp.off
            /\ Back(e.op.conn) = old.sendOp.start + old.sendOp.off + e.res
            /\ old.sendOp.start + old.sendOp.len = received[e.op.conn]
      /\ received[e.op.conn] \in Nat /\ Back(e.op.conn) \in Nat
      /\ old.sendOp \in [gen : 0 .. MaxGeneration, start : Nat, len : Nat, off : Nat]
  BY <1>1, <1>2, <1>3, TrafficType DEF IInv, OpsInv, FlowInv, Done, SlotRec
<1>6. e.op = Op(e.op.kind, i, old.fd)
  BY <1>1, <1>2
<1>7. CASE valid /\ send.off < send.len /\ SlotTurn(e, Sending(s, send), {Op("send", i, s.fd)})
  <2> DEFINE t == Sending(s, send)   sub == {Op("send", i, s.fd)}
  <2>1. /\ e.res \in Nat /\ Back(e.op.conn) = old.sendOp.start + old.sendOp.off + e.res
        /\ old.sendOp.start + old.sendOp.len = received[e.op.conn]
    <3>1. e.res > 0
      BY <1>7
    <3>2. e.res # Errno
      BY <3>1 DEF Errno
    <3> HIDE DEF send, s
    <3> QED BY <1>5, <3>2
  <2>2. /\ send \in [gen : 0 .. MaxGeneration, start : Nat, len : Nat, off : Nat]
        /\ send.gen = old.generation /\ send.start = old.sendOp.start
        /\ send.len = old.sendOp.len /\ send.off = old.sendOp.off + e.res
    <3>1. send = Advanced(old.sendOp, e.res) /\ old.sendOp.gen = old.generation
      BY <1>4
    <3> HIDE DEF send
    <3>2. LET a == Advanced(old.sendOp, e.res)
          IN  /\ a \in [gen : 0 .. MaxGeneration, start : Nat, len : Nat, off : Nat]
              /\ a.gen = old.sendOp.gen /\ a.start = old.sendOp.start
              /\ a.len = old.sendOp.len /\ a.off = old.sendOp.off + e.res
      BY <1>5, <2>1, AdvancedIs
    <3> QED BY <3>1, <3>2
  <2>3. send.off < send.len
    BY <1>7
  <2> HIDE DEF send, s
  <2>4. /\ t \in SlotRec /\ t.fd = old.fd /\ t.generation = old.generation /\ t.sendOp = send
        /\ ~t.recvInflight /\ t.sendInflight /\ t.cancelInflight = old.cancelInflight
        /\ t.cancelGen = s.cancelGen
    <3>1. s \in SlotRec /\ send \in [gen : 0 .. MaxGeneration, start : Nat, len : Nat, off : Nat]
      BY <1>4, <2>2
    <3> QED BY <1>4, <3>1, SendingIs
  <2>5. SlotGood(t) /\ Busy(t)
    BY <1>4, <2>2, <2>4 DEF SlotGood, Busy
  <2>6. \A k \in OpKinds : UnderWay(t, k) <=> Op(k, i, old.fd) \in sub \/ (UnderWay(old, k) /\ k # e.op.kind)
    BY <1>1, <1>4, <2>4 DEF UnderWay, Op
  <2>7. \A o \in sub : o.kind = "send" /\ o.conn = e.op.conn /\ o.slot = i /\ o = e.op
    BY <1>2, <1>4 DEF Op
  <2>8. /\ Back(e.op.conn) = t.sendOp.start + t.sendOp.off
        /\ t.sendOp.start + t.sendOp.len = received[e.op.conn]
        /\ t.sendOp.off < t.sendOp.len
    BY <1>5, <2>1, <2>2, <2>3, <2>4
  <2>9. SlotTurn(e, t, sub)
    BY <1>7
  <2>10. sub \subseteq {Op("recv", i, old.fd), Op("send", i, old.fd)}
    BY <1>4
  <2> HIDE DEF t, sub
  <2>11. SlotResult(e, t, sub)
    BY <1>1, <1>2, <1>3, <1>6, <2>4, <2>5, <2>6, <2>7, <2>8, <2>9, <2>10 DEF SlotResult
  <2> QED BY <2>9, <2>11, SlotTurnInv
<1>8. CASE /\ valid /\ send.off >= send.len
           /\ SlotTurn(e, Receiving([s EXCEPT !.sendOp = NoSend]), {Op("recv", i, s.fd)})
  <2> DEFINE u == [s EXCEPT !.sendOp = NoSend]   t == Receiving(u)   sub == {Op("recv", i, s.fd)}
  <2>1. /\ e.res \in Nat /\ Back(e.op.conn) = old.sendOp.start + old.sendOp.off + e.res
        /\ old.sendOp.start + old.sendOp.len = received[e.op.conn]
        /\ e.res <= old.sendOp.len - old.sendOp.off
    <3>1. e.res > 0
      BY <1>8
    <3>2. e.res # Errno
      BY <3>1 DEF Errno
    <3> HIDE DEF send, s
    <3> QED BY <1>5, <3>2
  <2>2. old.sendOp.off + e.res >= old.sendOp.len
    <3>1. send.off >= send.len
      BY <1>8
    <3>2. send = Advanced(old.sendOp, e.res)
      BY <1>4
    <3> HIDE DEF send
    <3>3. send.off = old.sendOp.off + e.res /\ send.len = old.sendOp.len
      BY <1>5, <2>1, <3>2, AdvancedIs
    <3> QED BY <3>1, <3>3
  <2>3. Back(e.op.conn) = received[e.op.conn]
    <3>1. old.sendOp.start \in Nat /\ old.sendOp.off \in Nat /\ old.sendOp.len \in Nat
      BY <1>5
    <3> HIDE DEF old
    <3> QED BY <2>1, <2>2, <3>1
  <2>4. NoSend \in [gen : 0 .. MaxGeneration, start : Nat, len : Nat, off : Nat]
    BY UringAssumption DEF NoSend
  <2> HIDE DEF s
  <2>5. /\ t \in SlotRec /\ t.fd = old.fd /\ t.generation = old.generation /\ t.recvGen = old.generation
        /\ t.recvInflight /\ ~t.sendInflight /\ t.cancelInflight = old.cancelInflight
        /\ t.cancelGen = s.cancelGen
    BY <1>4, <2>4 DEF Receiving, SlotRec
  <2>6. SlotGood(t) /\ Busy(t)
    BY <1>4, <2>5 DEF SlotGood, Busy
  <2>7. \A k \in OpKinds : UnderWay(t, k) <=> Op(k, i, old.fd) \in sub \/ (UnderWay(old, k) /\ k # e.op.kind)
    BY <1>1, <1>4, <2>5 DEF UnderWay, Op
  <2>8. \A o \in sub : o.kind = "recv" /\ o.conn = e.op.conn /\ o.slot = i
    BY <1>2, <1>4 DEF Op
  <2>9. \A o \in sub : ~UnderWay(old, o.kind)
    BY <1>4, <2>8 DEF UnderWay
  <2>10. SlotTurn(e, t, sub)
    BY <1>8
  <2>11. sub \subseteq {Op("recv", i, old.fd), Op("send", i, old.fd)}
    BY <1>4
  <2> HIDE DEF t, sub
  <2>12. SlotResult(e, t, sub)
    BY <1>1, <1>2, <1>3, <1>6, <2>3, <2>5, <2>6, <2>7, <2>8, <2>9, <2>10, <2>11 DEF SlotResult
  <2> QED BY <2>10, <2>12, SlotTurnInv
<1>9. CASE ~valid /\ SlotTurn(e, Dropped(s), {})
  <2> DEFINE t == Dropped(s)
  <2>1. shuttingDown \/ e.op.conn \in failed
    BY <1>4, <1>5, <1>9
  <2> HIDE DEF s
  <2>2. /\ t \in SlotRec /\ SlotGood(t) /\ t.fd = (IF Busy(s) THEN s.fd ELSE Free)
        /\ ~t.recvInflight /\ ~t.sendInflight /\ t.cancelInflight = old.cancelInflight
        /\ Busy(t) <=> Busy(s)
    BY <1>4, DroppedSlot DEF Busy
  <2>3. \A k \in OpKinds : UnderWay(t, k) <=> UnderWay(old, k) /\ k # e.op.kind
    BY <1>1, <1>4, <2>2 DEF UnderWay
  <2>4. SlotTurn(e, t, {})
    BY <1>9
  <2> HIDE DEF t
  <2>5. SlotResult(e, t, {})
    BY <1>1, <1>2, <1>3, <1>4, <1>6, <2>1, <2>2, <2>3, <2>4 DEF SlotResult
  <2> QED BY <2>4, <2>5, SlotTurnInv
<1> QED BY <1>1, <1>7, <1>8, <1>9

LEMMA HandleCancelInv == IInv /\ HandleCancel => IInv'
<1> SUFFICES ASSUME IInv, HandleCancel PROVE IInv' OBVIOUS
<1>1. PICK e \in cq :
        /\ e.op.kind = "cancel"
        /\ IF e.op.slot # Listener /\ slots[e.op.slot].cancelGen = slots[e.op.slot].generation
           THEN SlotTurn(e, Dropped([slots[e.op.slot] EXCEPT !.cancelInflight = FALSE]), {})
           ELSE Turn(e, slots, {}, acceptInflight, FALSE) /\ CloseDropped
  BY DEF HandleCancel
<1>2. e.op \in Outstanding
  BY DEF Outstanding
<1>3. CASE e.op = AcceptCancelOp /\ acceptCancelInflight
  <2>1. e.op.slot = Listener /\ e.op # AcceptOp
    BY <1>3 DEF AcceptCancelOp, AcceptOp, Op
  <2>2. Turn(e, slots, {}, acceptInflight, FALSE) /\ CloseDropped
    BY <1>1, <2>1
  <2>3. acceptInflight \in BOOLEAN /\ (~shuttingDown => acceptInflight) /\ AcceptOp \notin {}
    BY DEF IInv, OpsInv, TypeOK, ModeInv
  <2>4. Change(e, slots, {}, acceptInflight, FALSE)
    BY <1>3, <2>1, <2>3, ListenerChange DEF IInv
  <2>5. slots \in [Slots -> SlotRec] /\ \A j \in Slots : slots'[j].fd \in {slots[j].fd, Free}
    BY <2>2, <2>4, TurnSlots DEF Change
  <2>6. cq' \subseteq cq /\ UNCHANGED traffic /\ shuttingDown' = shuttingDown
    BY <2>2 DEF Turn, flags
  <2>7. ConnInv' /\ Traffic'
    BY <2>2, <2>5, <2>6, CloseConn DEF IInv
  <2>8. OpsInv'
    BY <2>2, <2>4, <2>7, TurnOps DEF IInv
  <2>9. FlowInv' /\ EchoInOrder'
    <3>1. TurnAhead(e, slots, {})
      BY DEF TurnAhead
    <3> QED BY <2>2, <2>4, <3>1, TurnFlow
  <2>10. HalfCloseFlushes'
    <3>1. shuttingDown
      BY <1>3 DEF IInv, OpsInv, ModeInv
    <3> QED BY <2>6, <3>1 DEF HalfCloseFlushes
  <2> QED BY <2>7, <2>8, <2>9, <2>10 DEF IInv
<1>4. CASE /\ e.op.slot \in Slots /\ slots[e.op.slot].cancelInflight
           /\ e.op = Op("cancel", e.op.slot, slots[e.op.slot].fd)
  <2> DEFINE i == e.op.slot   old == slots[i]   s == [old EXCEPT !.cancelInflight = FALSE]   t == Dropped(s)
  <2>1. old \in SlotRec /\ SlotGood(old) /\ shuttingDown
    BY <1>4, SlotTypes DEF IInv, OpsInv, SlotInv, ModeInv
  <2>2. SlotTurn(e, t, {}) /\ i # Listener
    BY <1>1, <1>4, <2>1, UringAssumption DEF SlotGood, Listener
  <2>3. /\ s \in SlotRec /\ SlotGood(s) /\ s.fd = old.fd
        /\ s.sendOp = old.sendOp /\ s.recvInflight = old.recvInflight /\ s.sendInflight = old.sendInflight
        /\ ~s.cancelInflight
    BY <2>1 DEF SlotRec, SlotGood, Busy
  <2> HIDE DEF s
  <2>4. /\ t \in SlotRec /\ SlotGood(t) /\ t.fd = (IF Busy(s) THEN s.fd ELSE Free)
        /\ t.recvInflight = old.recvInflight /\ t.sendInflight = old.sendInflight /\ ~t.cancelInflight
        /\ Busy(t) <=> Busy(s)
        /\ t.sendOp = old.sendOp
    BY <2>3, DroppedSlot DEF Busy
  <2>5. \A k \in OpKinds : UnderWay(t, k) <=> UnderWay(old, k) /\ k # e.op.kind
    BY <1>1, <2>4 DEF UnderWay
  <2>6. e.op = Op(e.op.kind, i, old.fd)
    BY <1>1, <1>4
  <2> HIDE DEF t
  <2>7. SlotResult(e, t, {})
    BY <1>4, <2>1, <2>2, <2>3, <2>4, <2>5, <2>6 DEF SlotResult
  <2> QED BY <2>2, <2>7, SlotTurnInv
<1> QED BY <1>1, <1>2, <1>3, <1>4, CancelOp DEF IInv

\* The generation of a slot is never 0 once it was taken.
LEMMA NextGenerationType ==
  ASSUME NEW g \in 0 .. MaxGeneration
  PROVE  NextGeneration(g) \in 1 .. MaxGeneration
BY UringAssumption DEF NextGeneration

\* A completion of the accept is the only one, and its connection is new.
LEMMA AcceptedConn ==
  ASSUME IInv, NEW e \in cq, e.op = AcceptOp, e.res # Errno
  PROVE  /\ e.res \in Conns /\ peer[e.res] = "accepted" /\ e.res # Free
         /\ \A i \in Slots : slots[i].fd # e.res
         /\ received[e.res] = 0 /\ got[e.res] = <<>> /\ Back(e.res) = 0
         /\ \A f \in cq \ {e} : f.op # AcceptOp
<1>1. e.res \in Conns /\ peer[e.res] = "accepted"
  BY DEF IInv, ConnInv
<1>2. e.res # Free
  BY <1>1, UringAssumption DEF Free
<1>3. received[e.res] = 0 /\ got[e.res] = <<>>
  BY <1>1 DEF IInv, ConnInv
<1>4. Back(e.res) = 0
  BY <1>3, EmptySeq DEF Back
<1> QED BY <1>1, <1>2, <1>3, <1>4 DEF IInv, ConnInv, OpsInv, PlaceInv

\* What is left when the listener's own completion was handled.
LEMMA ListenerTurn ==
  ASSUME IInv, NEW e \in cq, e.op = AcceptOp, NEW ns, NEW sub, NEW na, NEW nc,
         Turn(e, ns, sub, na, nc), Change(e, ns, sub, na, nc), TurnAhead(e, ns, sub),
         Traffic', ConnInv', HalfCloseFlushes'
  PROVE  IInv'
BY TurnOps, TurnFlow DEF IInv

LEMMA AcceptIntoInv ==
  ASSUME IInv, NEW e \in cq, e.op = AcceptOp, e.res # Errno, ~shuttingDown,
         NEW i \in Slots, AcceptInto(e, i)
  PROVE  IInv'
<1> DEFINE s == Receiving(Wiped(e.res, NextGeneration(slots[i].generation)))
           ns == [slots EXCEPT ![i] = s]
           sub == {AcceptOp, Op("recv", i, e.res)}
<1>1. /\ slots[i].fd = Free
      /\ Turn(e, ns, sub, TRUE, acceptCancelInflight)
      /\ peer' = [peer EXCEPT ![e.res] = "open"]
  BY DEF AcceptInto
<1>2. /\ e.res \in Conns /\ peer[e.res] = "accepted" /\ e.res # Free
      /\ \A j \in Slots : slots[j].fd # e.res
      /\ received[e.res] = 0 /\ got[e.res] = <<>> /\ Back(e.res) = 0
      /\ \A f \in cq \ {e} : f.op # AcceptOp
  BY AcceptedConn
<1>3. slots \in [Slots -> SlotRec] /\ slots[i] \in SlotRec /\ SlotGood(slots[i])
  BY SlotTypes DEF IInv, OpsInv, SlotInv
<1>4. NextGeneration(slots[i].generation) \in 1 .. MaxGeneration
  BY <1>3, NextGenerationType DEF SlotRec
<1>5. /\ s \in SlotRec /\ s.fd = e.res /\ s.recvInflight /\ ~s.sendInflight /\ ~s.cancelInflight
      /\ s.recvGen = s.generation /\ s.generation > 0
  <2> DEFINE g == NextGeneration(slots[i].generation)   w == Wiped(e.res, g)
  <2>1. g \in 0 .. MaxGeneration /\ g > 0 /\ 0 \in 0 .. MaxGeneration
    BY <1>4, UringAssumption
  <2> HIDE DEF g
  <2>2. NoSend \in [gen : 0 .. MaxGeneration, start : Nat, len : Nat, off : Nat]
    BY <2>1 DEF NoSend
  <2>3. /\ w \in SlotRec /\ w.fd = e.res /\ w.generation = g
        /\ ~w.sendInflight /\ ~w.cancelInflight
    BY <1>2, <2>1, <2>2 DEF Wiped, SlotRec
  <2>4. s = [w EXCEPT !.recvGen = w.generation, !.recvInflight = TRUE]
    BY DEF Receiving, g
  <2> HIDE DEF w, s
  <2> QED BY <2>1, <2>3, <2>4 DEF SlotRec
<1>6. SlotGood(s) /\ Busy(s)
  BY <1>2, <1>5 DEF SlotGood, Busy
<1>7. ns \in [Slots -> SlotRec] /\ ns[i] = s /\ \A j \in Slots \ {i} : ns[j] = slots[j]
  BY <1>3, <1>5
<1> HIDE DEF s, ns
<1>8. Listener \notin Slots
  BY UringAssumption DEF Listener
<1>9. \A k : ~UnderWay(slots[i], k)
  BY <1>1, <1>3 DEF SlotGood, Busy, UnderWay
<1>10. Change(e, ns, sub, TRUE, acceptCancelInflight)
  <2>1. \A j \in Slots : SlotGood(ns[j])
    BY <1>6, <1>7 DEF IInv, OpsInv, SlotInv
  <2>2. sub \subseteq Ops /\ IsFiniteSet(sub)
    <3>1. sub = {AcceptOp} \cup {Op("recv", i, e.res)}
      OBVIOUS
    <3>2. IsFiniteSet({AcceptOp} \cup {Op("recv", i, e.res)})
      BY FS_Singleton, FS_Union
    <3>3. AcceptOp \in Ops
      BY DEF Ops, OpKinds, Op, AcceptOp
    <3>4. Op("recv", i, e.res) \in Ops
      BY <1>2 DEF Ops, OpKinds, Op
    <3> QED BY <3>1, <3>2, <3>3, <3>4
  <2>3. Op("recv", i, e.res) \notin Outstanding
    <3>1. Op("recv", i, e.res).kind = "recv" /\ Op("recv", i, e.res).slot = i
      BY DEF Op
    <3> QED BY <1>9, <3>1, ClientOp DEF IInv
  <2>4. \A o \in sub : o = AcceptOp \/ (o.slot \in Slots /\ UnderWay(ns[o.slot], o.kind) /\ o.conn = ns[o.slot].fd)
    BY <1>5, <1>7 DEF Op, UnderWay
  <2>5. e.op # AcceptCancelOp /\ \A j \in Slots, k \in OpKinds, c \in Conns \cup {Free} : e.op # Op(k, j, c)
    BY <1>8 DEF AcceptOp, AcceptCancelOp, Op
  <2>6. ASSUME NEW j \in Slots, NEW k \in OpKinds
        PROVE  /\ UnderWay(ns[j], k) =>
                    \/ Op(k, j, ns[j].fd) \in sub
                    \/ UnderWay(slots[j], k) /\ ns[j].fd = slots[j].fd /\ e.op # Op(k, j, slots[j].fd)
               /\ UnderWay(slots[j], k) =>
                    e.op = Op(k, j, slots[j].fd) \/ (UnderWay(ns[j], k) /\ ns[j].fd = slots[j].fd)
    <3>1. CASE j = i
      <4>1. UnderWay(s, k) => k = "recv"
        BY <1>5 DEF UnderWay
      <4> QED BY <1>5, <1>7, <1>9, <3>1, <4>1
    <3>2. CASE j # i
      <4>1. slots[j].fd \in Conns \cup {Free}
        BY FdTypes DEF IInv, OpsInv
      <4> QED BY <1>7, <2>5, <3>2, <4>1
    <3> QED BY <3>1, <3>2
  <2>7. /\ ~acceptCancelInflight
        /\ \A j \in Slots : ~ns[j].cancelInflight /\ (ns[j].fd # Free => Busy(ns[j]))
    BY <1>5, <1>6, <1>7 DEF IInv, OpsInv, ModeInv
  <2>8. sub \cap Outstanding \subseteq {e.op}
    BY <2>3
  <2>9. acceptCancelInflight \in BOOLEAN
    BY DEF IInv, OpsInv, TypeOK
  <2> QED BY <1>7, <2>1, <2>2, <2>4, <2>5, <2>6, <2>7, <2>8, <2>9 DEF Change
<1>11. slots' = ns /\ cq' = cq \ {e} /\ UNCHANGED traffic /\ shuttingDown' = shuttingDown
  BY <1>1, <1>10, TurnSlots DEF Turn, flags
<1>12. peer \in [Conns -> {"absent", "backlog", "accepted", "open", "closed", "refused"}]
  BY DEF IInv, OpsInv, TypeOK
<1>13. Traffic'
  BY <1>1, <1>11, <1>12, TrafficType DEF IInv, OpsInv, Traffic, traffic
<1>14. ConnInv'
  <2>1. \A j, k \in Slots : slots'[j].fd = slots'[k].fd /\ slots'[j].fd # Free => j = k
    BY <1>2, <1>5, <1>7, <1>11 DEF IInv, ConnInv
  <2>2. ASSUME NEW j \in Slots, slots'[j].fd # Free PROVE peer'[slots'[j].fd] = "open"
    <3>1. CASE j = i
      BY <1>1, <1>2, <1>5, <1>7, <1>11, <1>12, <3>1
    <3>2. CASE j # i
      <4>1. slots'[j].fd \in Conns /\ peer[slots'[j].fd] = "open"
        BY <1>7, <1>11, <2>2, <3>2, FdTypes DEF IInv, OpsInv, ConnInv
      <4> QED BY <1>1, <1>12, <4>1
    <3> QED BY <3>1, <3>2
  <2>3. \A f \in cq' : f.op # AcceptOp
    BY <1>2, <1>11
  <2>4. \A c \in Conns : peer'[c] \notin {"open", "closed"} => received'[c] = 0 /\ got'[c] = <<>>
    BY <1>1, <1>11, <1>12 DEF IInv, ConnInv, traffic
  <2> QED BY <2>1, <2>2, <2>3, <2>4 DEF ConnInv
<1>15. TurnAhead(e, ns, sub)
  <2>1. ASSUME NEW o \in Outstanding \ {e.op}, o.kind = "send"
        PROVE  ns[o.slot].sendOp = slots[o.slot].sendOp
    BY <1>7, <1>9, <2>1, ClientOp DEF IInv
  <2>2. AcceptOp.kind = "accept"
    BY DEF AcceptOp, Op
  <2>3. Op("recv", i, e.res).kind = "recv" /\ Op("recv", i, e.res).conn = e.res
    BY DEF Op
  <2> QED BY <1>2, <2>1, <2>2, <2>3 DEF TurnAhead
<1>16. HalfCloseFlushes'
  BY <1>1, <1>11, <1>12 DEF IInv, HalfCloseFlushes, traffic
<1> HIDE DEF sub
<1> QED BY <1>1, <1>10, <1>13, <1>14, <1>15, <1>16, ListenerTurn

\* The slots stay as they are when a connection is refused or an accept fails.
LEMMA AcceptAgainInv ==
  ASSUME IInv, NEW e \in cq, e.op = AcceptOp,
         Turn(e, slots, IF shuttingDown THEN {} ELSE {AcceptOp}, ~shuttingDown, acceptCancelInflight),
         \/ e.res # Errno /\ peer' = [peer EXCEPT ![e.res] = "refused"]
         \/ CloseDropped
  PROVE  IInv'
<1> DEFINE sub == IF shuttingDown THEN {} ELSE {AcceptOp}   na == ~shuttingDown
<1>1. e.op # AcceptCancelOp /\ AcceptOp.kind = "accept"
  BY DEF AcceptOp, AcceptCancelOp, Op
<1>2. sub \in SUBSET {AcceptOp} /\ na \in BOOLEAN /\ acceptCancelInflight \in BOOLEAN
  BY DEF IInv, OpsInv, TypeOK
<1>3. na <=> (acceptInflight /\ e.op # AcceptOp) \/ AcceptOp \in sub
  OBVIOUS
<1>4. Change(e, slots, sub, na, acceptCancelInflight)
  <2>1. ~shuttingDown => na /\ ~acceptCancelInflight
    BY DEF IInv, OpsInv, ModeInv
  <2> HIDE DEF sub, na
  <2> QED BY <1>1, <1>2, <1>3, <2>1, ListenerChange DEF IInv
<1>5. TurnAhead(e, slots, sub)
  BY <1>1 DEF TurnAhead
<1>6. Turn(e, slots, sub, na, acceptCancelInflight)
  OBVIOUS
<1> HIDE DEF sub, na
<1>7. /\ cq' = cq \ {e} /\ UNCHANGED traffic /\ shuttingDown' = shuttingDown
      /\ \A j \in Slots : slots'[j].fd \in {slots[j].fd, Free}
      /\ ~shuttingDown => slots' = slots
  BY <1>4, <1>6, TurnSlots DEF Turn, flags
<1>8. peer \in [Conns -> {"absent", "backlog", "accepted", "open", "closed", "refused"}]
  BY DEF IInv, OpsInv, TypeOK
<1>9. CASE CloseDropped
  <2>1. ConnInv' /\ Traffic'
    BY <1>7, <1>9, CloseConn DEF IInv
  <2>2. HalfCloseFlushes'
    <3>1. ~shuttingDown => peer' = peer
      BY <1>7, <1>8, <1>9 DEF CloseDropped
    <3> QED BY <1>7, <3>1 DEF IInv, HalfCloseFlushes, traffic
  <2> QED BY <1>4, <1>5, <1>6, <2>1, <2>2, ListenerTurn
<1>10. CASE e.res # Errno /\ peer' = [peer EXCEPT ![e.res] = "refused"]
  <2>1. /\ e.res \in Conns /\ peer[e.res] = "accepted"
        /\ \A j \in Slots : slots[j].fd # e.res
        /\ received[e.res] = 0 /\ got[e.res] = <<>>
        /\ \A f \in cq \ {e} : f.op # AcceptOp
    BY <1>10, AcceptedConn
  <2>2. Traffic'
    BY <1>7, <1>8, <1>10, TrafficType DEF IInv, OpsInv, Traffic, traffic
  <2>3. ASSUME NEW j \in Slots, slots'[j].fd # Free PROVE peer'[slots'[j].fd] = "open"
    <3>1. slots'[j].fd = slots[j].fd /\ slots[j].fd \in Conns /\ peer[slots[j].fd] = "open"
      BY <1>7, <2>3, FdTypes DEF IInv, OpsInv, ConnInv
    <3> QED BY <1>8, <1>10, <2>1, <3>1
  <2>4. \A c \in Conns : peer'[c] \notin {"open", "closed"} => received'[c] = 0 /\ got'[c] = <<>>
    BY <1>7, <1>8, <1>10, <2>1 DEF IInv, ConnInv, traffic
  <2>5. \A j, k \in Slots : slots'[j].fd = slots'[k].fd /\ slots'[j].fd # Free => j = k
    BY <1>7 DEF IInv, ConnInv
  <2>6. ConnInv'
    BY <1>7, <2>1, <2>3, <2>4, <2>5 DEF ConnInv
  <2>7. HalfCloseFlushes'
    BY <1>7, <1>8, <1>10 DEF IInv, HalfCloseFlushes, traffic
  <2> QED BY <1>4, <1>5, <1>6, <2>2, <2>6, <2>7, ListenerTurn
<1> QED BY <1>9, <1>10

LEMMA HandleAcceptInv == IInv /\ HandleAccept => IInv'
BY AcceptIntoInv, AcceptAgainInv DEF HandleAccept

-----------------------------------------------------------------------------
(* The other steps.                                                        *)

\* Steps that leave operations, slots and connections alone.
LEMMA QuietInv ==
  ASSUME IInv, UNCHANGED <<pending, accept, slots, inflight, cq, peer, traffic, shuttingDown>>,
         pc' \in {"top", "waiting", "exit0", "exit70"},
         stopRequested' \in BOOLEAN, deadlinePassed' \in BOOLEAN,
         Gone => Gone'
  PROVE  IInv'
<1>1. OpsInv'
  BY DEF IInv, OpsInv, TypeOK, OpInv, PlaceInv, SlotInv, ModeInv, PendingIsOutstanding, Outstanding, accept, traffic
<1>2. ConnInv' /\ FlowInv'
  BY DEF IInv, ConnInv, FlowInv, Ahead, Done, Back, traffic
<1>3. EchoInOrder' /\ HalfCloseFlushes'
  BY DEF IInv, EchoInOrder, HalfCloseFlushes, traffic
<1> QED BY <1>1, <1>2, <1>3 DEF IInv

LEMMA QuietStepsInv ==
  ASSUME IInv, GoToWait \/ WaitTimesOut \/ SubmissionFails \/ Signal \/ DeadlinePasses \/ UNCHANGED vars
  PROVE  IInv'
<1> USE DEF IInv, OpsInv, TypeOK
<1>1. CASE GoToWait
  BY <1>1, QuietInv DEF GoToWait, flags, Gone
<1>2. CASE WaitTimesOut
  BY <1>2, QuietInv DEF WaitTimesOut, AfterTimeout, flags, Gone
<1>3. CASE SubmissionFails
  BY <1>3, QuietInv DEF SubmissionFails, flags, Gone
<1>4. CASE Signal
  BY <1>4, QuietInv DEF Signal, Gone
<1>5. CASE DeadlinePasses
  BY <1>5, QuietInv DEF DeadlinePasses, Gone
<1>6. CASE UNCHANGED vars
  BY <1>6, QuietInv DEF vars, flags, Gone
<1> QED BY <1>1, <1>2, <1>3, <1>4, <1>5, <1>6

LEMMA ConnectInv == ASSUME NEW c \in Conns PROVE IInv /\ Connect(c) => IInv'
<1> SUFFICES ASSUME IInv, Connect(c) PROVE IInv' OBVIOUS
<1>1. /\ peer[c] = "absent" /\ peer' = [peer EXCEPT ![c] = "backlog"]
      /\ UNCHANGED <<pc, flags, pending, accept, slots, inflight, cq, received, got, failed>>
  BY DEF Connect
<1>2. PICK n \in {0, MaxBytes} : total' = [total EXCEPT ![c] = n]
  BY DEF Connect
<1>3. n \in Nat
  BY UringAssumption
<1>4. /\ peer \in [Conns -> {"absent", "backlog", "accepted", "open", "closed", "refused"}]
      /\ total \in [Conns -> Nat]
  BY DEF IInv, OpsInv, TypeOK
<1>5. OpsInv'
  <2>1. TypeOK'
    BY <1>1, <1>2, <1>3, <1>4 DEF IInv, OpsInv, TypeOK, flags, accept
  <2> QED BY <1>1, <2>1 DEF IInv, OpsInv, OpInv, PlaceInv, SlotInv, ModeInv, PendingIsOutstanding, Outstanding,
                            Gone, flags, accept
<1>6. ConnInv'
  <2>1. \A i \in Slots : slots[i].fd # Free => slots[i].fd \in Conns \ {c}
    BY <1>1, FdTypes DEF IInv, OpsInv, ConnInv
  <2>2. \A i \in Slots : slots'[i].fd # Free => peer'[slots'[i].fd] = "open"
    BY <1>1, <1>4, <2>1 DEF IInv, ConnInv
  <2>3. \A e \in cq' : e.op = AcceptOp /\ e.res # Errno => e.res \in Conns /\ peer'[e.res] = "accepted"
    BY <1>1, <1>4 DEF IInv, ConnInv
  <2>4. \A d \in Conns : peer'[d] \notin {"open", "closed"} => received'[d] = 0 /\ got'[d] = <<>>
    BY <1>1, <1>4 DEF IInv, ConnInv
  <2> QED BY <1>1, <2>2, <2>3, <2>4 DEF IInv, ConnInv
<1>7. FlowInv'
  <2>1. \A o \in inflight' : Ahead(o)'
    BY <1>1 DEF IInv, FlowInv, Ahead, Back
  <2>2. ASSUME NEW e \in cq' PROVE Done(e)'
    <3>1. e \in cq /\ Done(e) /\ e.op \in Outstanding
      BY <1>1 DEF IInv, FlowInv, Outstanding
    <3>2. e.op.kind = "recv" => total'[e.op.conn] = total[e.op.conn]
      BY <1>1, <1>2, <1>4, <3>1, ClientIsOpen
    <3> QED BY <1>1, <3>1, <3>2 DEF Done, Back
  <2> QED BY <2>1, <2>2 DEF FlowInv
<1>8. EchoInOrder' /\ HalfCloseFlushes'
  BY <1>1, <1>2, <1>4 DEF IInv, EchoInOrder, HalfCloseFlushes, flags
<1> QED BY <1>5, <1>6, <1>7, <1>8 DEF IInv

LEMMA LeaveInv == IInv /\ Leave => IInv'
<1> SUFFICES ASSUME IInv, Leave PROVE IInv' OBVIOUS
<1>1. /\ pc = "top" /\ pending = 0 /\ pc' = "exit0" /\ listening' = FALSE
      /\ slots' = [i \in Slots |-> Dropped(slots[i])]
      /\ CloseDropped
      /\ UNCHANGED <<flags, pending, acceptInflight, acceptCancelInflight, inflight, cq, traffic>>
  BY DEF Leave
<1>2. /\ \A i \in Slots : slots[i] \in SlotRec /\ SlotGood(slots[i])
  BY SlotTypes DEF IInv, OpsInv, SlotInv
<1>3. /\ slots' \in [Slots -> SlotRec] /\ \A i \in Slots : SlotGood(slots'[i])
      /\ \A i \in Slots, k \in OpKinds : UnderWay(slots'[i], k) <=> UnderWay(slots[i], k)
      /\ \A i \in Slots, k \in OpKinds : UnderWay(slots[i], k) => slots'[i].fd = slots[i].fd
      /\ \A i \in Slots : slots'[i].fd \in {slots[i].fd, Free} /\ slots'[i].sendOp = slots[i].sendOp
  <2>1. \A i \in Slots : slots[i].fd \in Conns \cup {Free}
    BY FdTypes DEF IInv, OpsInv
  <2> QED BY <1>1, <1>2, <2>1, DroppedSlot
<1>4. ConnInv' /\ Traffic'
  BY <1>1, <1>3, CloseConn DEF IInv
\* Before shutdown there is an accept to wait for.
<1>5. inflight = {} /\ cq = {} /\ shuttingDown
  <2>1. Cardinality(inflight) + Cardinality(cq) = 0
    BY <1>1 DEF IInv, OpsInv, PendingIsOutstanding, Gone
  <2>2. Cardinality(inflight) \in Nat /\ Cardinality(cq) \in Nat
    BY FS_CardinalityType DEF IInv, OpsInv, PlaceInv
  <2>3. inflight = {} /\ cq = {}
    BY <2>1, <2>2, FS_EmptySet DEF IInv, OpsInv, PlaceInv
  <2> QED BY <2>3 DEF IInv, OpsInv, ModeInv, OpInv, Outstanding
<1>6. OpsInv'
  <2>1. TypeOK'
    BY <1>1, <1>3, <1>4 DEF IInv, OpsInv, TypeOK, Traffic, SlotRec, flags
  <2>2. Outstanding = {} /\ Outstanding' = {}
    BY <1>1, <1>5 DEF Outstanding
  <2>3. OpInv'
    <3>1. ~acceptInflight' /\ ~acceptCancelInflight'
      BY <1>1, <2>2 DEF IInv, OpsInv, OpInv
    <3>2. \A i \in Slots, k \in OpKinds : ~UnderWay(slots'[i], k)
      BY <1>3, <2>2 DEF IInv, OpsInv, OpInv
    <3> QED BY <2>2, <3>1, <3>2 DEF OpInv
  <2>4. PlaceInv'
    BY <1>1 DEF IInv, OpsInv, PlaceInv
  <2>5. SlotInv' /\ ModeInv' /\ PendingIsOutstanding'
    BY <1>1, <1>3, <1>5 DEF SlotInv, ModeInv, PendingIsOutstanding, Gone, flags
  <2> QED BY <2>1, <2>3, <2>4, <2>5 DEF OpsInv
<1>7. FlowInv' /\ EchoInOrder' /\ HalfCloseFlushes'
  BY <1>1, <1>5 DEF IInv, FlowInv, EchoInOrder, HalfCloseFlushes, flags, traffic
<1> QED BY <1>4, <1>6, <1>7 DEF IInv

\* What begin_shutdown makes of a slot.
LEMMA CancelingSlot ==
  ASSUME NEW s \in SlotRec, SlotGood(s), ~s.cancelInflight
  PROVE  /\ Canceling(s) \in SlotRec /\ SlotGood(Canceling(s))
         /\ Canceling(s).fd \in {s.fd, Free} /\ Canceling(s).sendOp = s.sendOp
         /\ \A k \in OpKinds : UnderWay(Canceling(s), k) => Canceling(s).fd = s.fd
         /\ \A k \in {"recv", "send"} : UnderWay(Canceling(s), k) <=> UnderWay(s, k)
         /\ UnderWay(Canceling(s), "cancel") <=> s.recvInflight \/ s.sendInflight
<1>1. CASE s.fd = Free
  <2>1. Canceling(s) = s
    BY <1>1 DEF Canceling
  <2> QED BY <1>1, <2>1 DEF SlotGood, Busy, UnderWay
<1>2. CASE s.fd # Free /\ (s.recvInflight \/ s.sendInflight)
  <2> DEFINE t == [s EXCEPT !.cancelGen = Target(s), !.cancelInflight = TRUE]
  <2>1. Canceling(s) = t
    BY <1>2 DEF Canceling
  <2>2. Target(s) = s.generation
    BY <1>2 DEF Target, SlotGood
  <2>3. /\ t \in SlotRec /\ t.fd = s.fd /\ t.sendOp = s.sendOp /\ t.generation = s.generation
        /\ t.recvGen = s.recvGen /\ t.cancelGen = s.generation
        /\ t.recvInflight = s.recvInflight /\ t.sendInflight = s.sendInflight /\ t.cancelInflight
    BY <2>2 DEF SlotRec
  <2> HIDE DEF t
  <2> QED BY <1>2, <2>1, <2>3 DEF SlotGood, Busy, UnderWay
<1>3. CASE s.fd # Free /\ ~(s.recvInflight \/ s.sendInflight)
  <2>1. Canceling(s) = Dropped(s)
    BY <1>3 DEF Canceling
  <2> QED BY <1>3, <2>1, DroppedSlot DEF UnderWay, Busy
<1> QED BY <1>1, <1>2, <1>3

LEMMA BeginShutdownInv == IInv /\ BeginShutdown => IInv'
<1> SUFFICES ASSUME IInv, BeginShutdown PROVE IInv' OBVIOUS
<1> DEFINE J == {j \in Slots : slots[j].fd # Free /\ ~slots[j].cancelInflight
                                 /\ (slots[j].recvInflight \/ slots[j].sendInflight)}
           C == {Op("cancel", i, slots[i].fd) : i \in J}
<1>1. acceptInflight /\ ~acceptCancelInflight /\ \A i \in Slots : ~slots[i].cancelInflight
  BY DEF BeginShutdown, IInv, OpsInv, ModeInv
<1>2. /\ pc' = "waiting" /\ shuttingDown' = TRUE /\ listening' = FALSE /\ acceptCancelInflight' = TRUE
      /\ slots' = [i \in Slots |-> Canceling(slots[i])]
      /\ inflight' = (inflight \cup {AcceptCancelOp}) \cup C
      /\ pending' = PendingInShutdown(acceptInflight', acceptCancelInflight', slots')
      /\ CloseDropped
      /\ UNCHANGED <<stopRequested, deadlinePassed, acceptInflight, cq, traffic>>
  BY <1>1 DEF BeginShutdown
<1>3. \A i \in Slots : slots[i] \in SlotRec /\ SlotGood(slots[i])
  BY SlotTypes DEF IInv, OpsInv, SlotInv
<1>4. /\ slots' \in [Slots -> SlotRec] /\ \A i \in Slots : SlotGood(slots'[i])
      /\ \A i \in Slots : slots'[i].fd \in {slots[i].fd, Free} /\ slots'[i].sendOp = slots[i].sendOp
      /\ \A i \in Slots, k \in OpKinds : UnderWay(slots'[i], k) => slots'[i].fd = slots[i].fd
      /\ \A i \in Slots, k \in {"recv", "send"} : UnderWay(slots'[i], k) <=> UnderWay(slots[i], k)
      /\ \A i \in Slots : UnderWay(slots'[i], "cancel") <=> slots[i].recvInflight \/ slots[i].sendInflight
  BY <1>1, <1>2, <1>3, CancelingSlot
<1>5. J = {j \in Slots : slots[j].recvInflight \/ slots[j].sendInflight}
  BY <1>1, <1>3 DEF SlotGood, Busy
<1>6. \A i \in Slots, k \in OpKinds :
        UnderWay(slots'[i], k) <=> UnderWay(slots[i], k) \/ (k = "cancel" /\ i \in J)
  BY <1>1, <1>4, <1>5 DEF UnderWay, OpKinds
<1>7. ConnInv' /\ Traffic'
  BY <1>2, <1>4, CloseConn DEF IInv
<1>8. Outstanding' = (Outstanding \cup {AcceptCancelOp}) \cup C
  BY <1>2 DEF Outstanding
<1>9. Listener \notin Slots
  BY UringAssumption DEF Listener
<1>10. \A i \in J : slots[i].fd \in Conns \cup {Free} /\ slots'[i].fd = slots[i].fd /\ i \in Slots
  BY <1>4, <1>6, FdTypes DEF IInv, OpsInv, OpKinds
<1>11. C \subseteq Ops /\ AcceptCancelOp \in Ops
  BY <1>10 DEF Ops, OpKinds, Op, AcceptCancelOp
<1>12. IsFiniteSet(C)
  <2>1. J \in SUBSET Slots
    OBVIOUS
  <2> HIDE DEF J
  <2> QED BY <2>1, CountOps
<1>13. C \cap Outstanding = {} /\ AcceptCancelOp \notin Outstanding
  <2> SUFFICES ASSUME NEW o \in Outstanding, o.kind = "cancel" PROVE FALSE
    BY DEF Op, AcceptCancelOp
  <2> QED BY <1>1, CancelOp DEF IInv
<1>14. PlaceInv'
  <2>1. IsFiniteSet(inflight')
    <3>1. IsFiniteSet(inflight \cup {AcceptCancelOp})
      BY FS_AddElement DEF IInv, OpsInv, PlaceInv
    <3> HIDE DEF C
    <3> QED BY <1>2, <1>12, <3>1, FS_Union
  <2>2. \A e \in cq : e.op \notin inflight'
    BY <1>2, <1>13 DEF IInv, OpsInv, PlaceInv, Outstanding
  <2> QED BY <1>2, <2>1, <2>2 DEF IInv, OpsInv, PlaceInv
<1>15. OpInv'
  <2>1. ASSUME NEW o \in Outstanding'
        PROVE  \/ o = AcceptOp /\ acceptInflight'
               \/ o = AcceptCancelOp /\ acceptCancelInflight'
               \/ o.slot \in Slots /\ UnderWay(slots'[o.slot], o.kind) /\ o.conn = slots'[o.slot].fd
    <3>1. CASE o = AcceptCancelOp
      BY <1>2, <3>1
    <3>2. CASE o \in C
      <4>1. PICK i \in J : o = Op("cancel", i, slots[i].fd)
        BY <3>2
      <4>2. o.slot = i /\ o.kind = "cancel" /\ o.conn = slots[i].fd
        BY <4>1 DEF Op
      <4>3. UnderWay(slots'[i], "cancel")
        BY <1>6, <1>10 DEF OpKinds
      <4> QED BY <1>10, <4>2, <4>3
    <3>3. CASE o \in Outstanding
      <4>1. CASE o = AcceptOp
        BY <1>1, <1>2, <4>1
      <4>2. CASE o.slot \in Slots /\ UnderWay(slots[o.slot], o.kind) /\ o.conn = slots[o.slot].fd
        <5>1. o.kind \in OpKinds
          BY <4>2 DEF UnderWay, OpKinds
        <5>2. UnderWay(slots'[o.slot], o.kind)
          BY <1>6, <4>2, <5>1
        <5> QED BY <1>4, <4>2, <5>1, <5>2
      <4> QED BY <1>1, <3>3, <4>1, <4>2 DEF IInv, OpsInv, OpInv
    <3> HIDE DEF C
    <3> QED BY <1>8, <3>1, <3>2, <3>3
  <2>2. ASSUME NEW i \in Slots, NEW k \in OpKinds, UnderWay(slots'[i], k)
        PROVE  Op(k, i, slots'[i].fd) \in Outstanding'
    <3>1. slots'[i].fd = slots[i].fd
      BY <1>4, <2>2
    <3>2. CASE UnderWay(slots[i], k)
      BY <1>8, <3>1, <3>2 DEF IInv, OpsInv, OpInv
    <3>3. CASE k = "cancel" /\ i \in J
      BY <1>8, <3>1, <3>3
    <3> HIDE DEF J
    <3> QED BY <1>6, <2>2, <3>2, <3>3
  <2>3. AcceptOp \in Outstanding' /\ AcceptCancelOp \in Outstanding'
    BY <1>1, <1>8 DEF IInv, OpsInv, OpInv
  <2> QED BY <2>1, <2>2, <2>3 DEF OpInv
<1>16. FlagsAgree'
  <2>1. Outstanding' \subseteq Ops
    BY <1>8, <1>11, OutstandingType DEF IInv, OpsInv
  <2> QED BY <1>14, <1>15, <2>1, FlagsCountNext
<1>17. OpsInv'
  <2>1. pending' \in Nat /\ PendingIsOutstanding'
    BY <1>2, <1>16 DEF FlagsAgree, PendingIsOutstanding
  <2>2. inflight' \subseteq Ops /\ cq' \subseteq [op : Ops, res : Int]
    BY <1>2, <1>11 DEF IInv, OpsInv, TypeOK
  <2>3. TypeOK'
    BY <1>2, <1>4, <1>7, <2>1, <2>2 DEF IInv, OpsInv, TypeOK, Traffic, SlotRec
  <2>4. SlotInv' /\ ModeInv'
    BY <1>2, <1>4 DEF SlotInv, ModeInv
  <2> QED BY <1>14, <1>15, <2>1, <2>3, <2>4 DEF OpsInv
<1>18. FlowInv'
  <2>1. ASSUME NEW o \in inflight' PROVE Ahead(o)'
    <3>1. CASE o \in inflight
      <4>1. o \in Outstanding /\ Ahead(o)
        BY <3>1 DEF IInv, FlowInv, Outstanding
      <4>2. o.kind = "send" => slots'[o.slot].sendOp = slots[o.slot].sendOp
        BY <1>4, <4>1, ClientOp DEF IInv
      <4> QED BY <1>2, <4>1, <4>2 DEF Ahead, Back, traffic
    <3>2. CASE o \in C \cup {AcceptCancelOp}
      <4>1. o.kind = "cancel"
        BY <3>2 DEF Op, AcceptCancelOp
      <4> QED BY <4>1 DEF Ahead
    <3> HIDE DEF C
    <3> QED BY <1>2, <3>1, <3>2
  <2>2. ASSUME NEW e \in cq PROVE Done(e)'
    <3>1. e.op \in Outstanding /\ Done(e)
      BY DEF IInv, FlowInv, Outstanding
    <3>2. e.op.kind = "send" => slots'[e.op.slot].sendOp = slots[e.op.slot].sendOp
      BY <1>4, <3>1, ClientOp DEF IInv
    <3> QED BY <1>2, <3>1, <3>2 DEF Done, Back, traffic
  <2> QED BY <1>2, <2>1, <2>2 DEF FlowInv
<1>19. EchoInOrder' /\ HalfCloseFlushes'
  BY <1>2 DEF IInv, EchoInOrder, HalfCloseFlushes, traffic
<1> QED BY <1>7, <1>17, <1>18, <1>19 DEF IInv

LEMMA InitInv == Init => IInv
<1> SUFFICES ASSUME Init PROVE IInv OBVIOUS
<1> USE DEF Init
<1>1. \A i \in Slots : slots[i] = Wiped(Free, 0)
  OBVIOUS
<1>2. Wiped(Free, 0) \in SlotRec
  <2>1. 0 \in 0 .. MaxGeneration
    BY UringAssumption
  <2> QED BY <2>1 DEF Wiped, SlotRec, NoSend
<1>3. /\ Wiped(Free, 0).fd = Free /\ ~Wiped(Free, 0).recvInflight
      /\ ~Wiped(Free, 0).sendInflight /\ ~Wiped(Free, 0).cancelInflight
  BY DEF Wiped
<1>4. slots \in [Slots -> SlotRec]
  BY <1>2
<1>5. AcceptOp \in Ops /\ AcceptOp.kind = "accept" /\ Outstanding = {AcceptOp}
  BY DEF AcceptOp, Op, Ops, OpKinds, Outstanding
<1> HIDE DEF AcceptOp
<1>6. <<>> \in Seq(Nat) /\ Len(<<>>) = 0
  OBVIOUS
<1>7. TypeOK
  BY <1>4, <1>5, <1>6 DEF TypeOK, SlotRec
<1>8. OpInv
  BY <1>1, <1>3, <1>5 DEF OpInv, UnderWay
<1>9. PlaceInv
  BY FS_EmptySet, FS_Singleton DEF PlaceInv
<1>10. SlotInv /\ ModeInv
  BY <1>1, <1>3 DEF SlotInv, SlotGood, ModeInv, Busy
<1>11. PendingIsOutstanding
  <2>1. Cardinality(inflight) = 1 /\ Cardinality(cq) = 0
    BY FS_EmptySet, FS_Singleton
  <2> QED BY <2>1 DEF PendingIsOutstanding
<1>12. ConnInv
  BY <1>1, <1>3 DEF ConnInv
<1>13. FlowInv
  BY <1>5 DEF FlowInv, Ahead
<1>14. EchoInOrder
  <2>1. <<>> = [k \in 1 .. Len(<<>>) |-> k]
    OBVIOUS
  <2> QED BY <2>1 DEF EchoInOrder
<1>15. HalfCloseFlushes
  BY DEF HalfCloseFlushes
<1> QED BY <1>7, <1>8, <1>9, <1>10, <1>11, <1>12, <1>13, <1>14, <1>15 DEF IInv, OpsInv

LEMMA NextInv == IInv /\ [Next]_vars => IInv'
<1>1. IInv /\ Server => IInv'
  BY BeginShutdownInv, QuietStepsInv, LeaveInv, HandleAcceptInv, HandleRecvInv, HandleSendInv, HandleCancelInv
     DEF Server
<1>2. IInv /\ Kernel => IInv'
  BY AcceptCompletesInv, RecvCompletesInv, SendCompletesInv, FailsInv, CancelCompletesInv DEF Kernel
<1> QED BY <1>1, <1>2, QuietStepsInv, ConnectInv DEF Next

-----------------------------------------------------------------------------
(* The theorems.                                                           *)

\* The invariant holds of the server, whatever order the kernel completes in.
THEOREM Invariance == Spec => []IInv
<1>1. Init => IInv
  BY InitInv
<1>2. IInv /\ [Next]_vars => IInv'
  BY NextInv
<1> QED BY <1>1, <1>2, PTL DEF Spec

\* Every variable keeps its type.
THEOREM TypeCorrect == Spec => []TypeOK
BY Invariance, PTL DEF IInv, OpsInv

\* The memory of an operation belongs to it until its completion is handled: the slot is
\* still its connection's and of its generation, however generations wrap.
THEOREM MemoryIsOwned == Spec => []OwnedUntilHandled
<1>1. IInv => OwnedUntilHandled
  <2> SUFFICES ASSUME IInv PROVE OwnedUntilHandled OBVIOUS
  <2>1. ASSUME NEW op \in Outstanding, op.slot # Listener
        PROVE  op.slot \in Slots /\ UnderWay(slots[op.slot], op.kind) /\ op.conn = slots[op.slot].fd
    BY <2>1 DEF IInv, OpsInv, OpInv, AcceptOp, AcceptCancelOp, Op
  <2>2. \A i \in Slots : SlotGood(slots[i])
    BY DEF IInv, OpsInv, SlotInv
  <2> QED BY <2>1, <2>2 DEF OwnedUntilHandled, UnderWay, SlotGood
<1> QED BY <1>1, Invariance, PTL

\* The loop's count is the number of completions still to be handled, so that it ends
\* when, and only when, there are none.
THEOREM PendingIsTrue == Spec => []PendingIsOutstanding
BY Invariance, PTL DEF IInv, OpsInv

\* Every peer gets back a prefix of what it sent.
THEOREM EchoIsInOrder == Spec => []EchoInOrder
BY Invariance, PTL DEF IInv

\* A connection the server closes with no error and no shutdown got everything back.
THEOREM HalfCloseIsFlushed == Spec => []HalfCloseFlushes
BY Invariance, PTL DEF IInv
=============================================================================
