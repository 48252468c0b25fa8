----------------------------- MODULE UringEcho -----------------------------
(***************************************************************************)
(* The io_uring echo server of examples/knowledge/linux-io-lab: one thread *)
(* that submits accept, recv, send and cancel operations and handles one   *)
(* completion per turn of its loop, a kernel that completes them in any    *)
(* order, peers, and a signal that may arrive between any two steps.       *)
(*                                                                         *)
(* An operation lives in memory of the slot of its connection, so it has   *)
(* to stay untouched from its submission until its completion is handled.  *)
(* A byte is named by its position in what the peer sends.                 *)
(***************************************************************************)
EXTENDS Integers, Sequences, FiniteSets

CONSTANTS
  Conns,          \* bound: the connections peers may open, as the fds they get
  Slots,          \* indices of clients[] (MAX_CONNECTIONS = 8 of them)
  BufferCap,      \* BUFFER_CAP: most bytes of one recv
  MaxBytes,       \* bound: bytes a peer sends, if it sends any
  MaxGeneration   \* largest generation before it wraps to 1 (2^32 - 1)

ASSUME UringAssumption ==
  /\ IsFiniteSet(Conns) /\ IsFiniteSet(Slots)
  /\ Conns \subseteq Nat /\ Slots \subseteq Nat \ {0}
  /\ BufferCap \in Nat \ {0} /\ MaxBytes \in Nat /\ MaxGeneration \in Nat \ {0}

Free == -1       \* fd of an unused slot
Errno == -1      \* any negative res
Listener == 0    \* in place of a slot, for accept_op and accept_cancel_op

VARIABLES
  pc,              \* where main stands: top of the loop, at the wait in it, or gone
  stopRequested,   \* set by the signal handler
  shuttingDown,
  deadlinePassed,  \* monotonic_ms() >= shutdown_deadline
  pending,         \* the loop's count of completions to come
  listening,       \* listener_fd >= 0
  acceptInflight, acceptCancelInflight,
  slots,           \* clients[]
  inflight,        \* kernel: operations submitted and not completed
  cq,              \* completions not handled yet
  peer,            \* state of each connection
  total,           \* bytes each peer sends
  received,        \* bytes of it the kernel has handed over
  got,             \* positions of the bytes the peer got back, in order
  failed           \* connections one of whose operations ended with an error

flags   == <<stopRequested, shuttingDown, deadlinePassed>>
accept  == <<listening, acceptInflight, acceptCancelInflight>>
traffic == <<total, received, got, failed>>
vars    == <<pc, flags, pending, accept, slots, inflight, cq, peer, traffic>>

NoSend == [gen |-> 0, start |-> 0, len |-> 0, off |-> 0]

\* A slot after memset: generation 0 in an operation means it has no owner.
Wiped(fd, generation) ==
  [fd |-> fd, generation |-> generation, recvGen |-> 0, sendOp |-> NoSend, cancelGen |-> 0,
   recvInflight |-> FALSE, sendInflight |-> FALSE, cancelInflight |-> FALSE]

Op(kind, slot, conn) == [kind |-> kind, slot |-> slot, conn |-> conn]

AcceptOp == Op("accept", Listener, Free)
AcceptCancelOp == Op("cancel", Listener, Free)

Init ==
  /\ pc = "top"
  /\ stopRequested = FALSE /\ shuttingDown = FALSE /\ deadlinePassed = FALSE
  /\ pending = 1
  /\ listening = TRUE /\ acceptInflight = TRUE /\ acceptCancelInflight = FALSE
  /\ slots = [i \in Slots |-> Wiped(Free, 0)]
  /\ inflight = {AcceptOp}
  /\ cq = {}
  /\ peer = [c \in Conns |-> "absent"]
  /\ total = [c \in Conns |-> 0]
  /\ received = [c \in Conns |-> 0]
  /\ got = [c \in Conns |-> <<>>]
  /\ failed = {}

Gone == pc \in {"exit0", "exit70"}

-----------------------------------------------------------------------------
(* The peers, the signal and the clock.                                    *)

\* Connections are numbered in the order they open.
Connect(c) ==
  /\ ~Gone
  /\ peer[c] = "absent" /\ \A d \in Conns : d < c => peer[d] # "absent"
  /\ peer' = [peer EXCEPT ![c] = "backlog"]
  /\ \E n \in {0, MaxBytes} : total' = [total EXCEPT ![c] = n]
  /\ UNCHANGED <<pc, flags, pending, accept, slots, inflight, cq, received, got, failed>>

\* on_signal.  A wait that is under way ends with EINTR; one that has yet to begin,
\* or finds a completion, does not notice.
Signal ==
  /\ ~stopRequested /\ ~Gone
  /\ stopRequested' = TRUE
  /\ \/ UNCHANGED pc
     \/ pc = "waiting" /\ cq = {} /\ pc' = "top"
  /\ UNCHANGED <<shuttingDown, deadlinePassed, pending, accept, slots, inflight, cq, peer, traffic>>

DeadlinePasses ==
  /\ shuttingDown /\ ~deadlinePassed
  /\ deadlinePassed' = TRUE
  /\ UNCHANGED <<pc, stopRequested, shuttingDown, pending, accept, slots, inflight, cq, peer, traffic>>

-----------------------------------------------------------------------------
(* The kernel.  Any operation may end with an error, canceled or not.      *)

Complete(op, res) ==
  /\ ~Gone
  /\ op \in inflight
  /\ inflight' = inflight \ {op}
  /\ cq' = cq \cup {[op |-> op, res |-> res]}
  /\ UNCHANGED <<pc, flags, pending, accept, slots>>

\* The connection is the result of an accept.
AcceptCompletes ==
  /\ \E c \in Conns :
       /\ peer[c] = "backlog"
       /\ peer' = [peer EXCEPT ![c] = "accepted"]
       /\ Complete(AcceptOp, c)
  /\ UNCHANGED traffic

\* Some bytes that the peer has sent, into the buffer of the operation, or none
\* after the peer has shut down its side and everything was received.
RecvCompletes ==
  \E op \in inflight :
    /\ op.kind = "recv"
    /\ \E n \in 0 .. BufferCap :
         /\ received[op.conn] + n <= total[op.conn]
         /\ n = 0 => received[op.conn] = total[op.conn]
         /\ Complete(op, n)
         /\ received' = [received EXCEPT ![op.conn] = @ + n]
    /\ UNCHANGED <<peer, total, got, failed>>

\* Some bytes of what the operation of the slot points at.
SendCompletes ==
  \E op \in inflight :
    /\ op.kind = "send"
    /\ LET send == slots[op.slot].sendOp IN
       \E n \in 1 .. send.len - send.off :
         /\ Complete(op, n)
         /\ got' = [got EXCEPT ![op.conn] = @ \o [k \in 1 .. n |-> send.start + send.off + k]]
    /\ UNCHANGED <<peer, total, received, failed>>

Fails ==
  \E op \in inflight :
    /\ op.kind \in {"accept", "recv", "send"}
    /\ Complete(op, Errno)
    /\ failed' = failed \cup ({op.conn} \cap Conns)
    /\ UNCHANGED <<peer, total, received, got>>

\* A cancel ends whether or not it found its target.
CancelCompletes ==
  \E op \in inflight :
    /\ op.kind = "cancel"
    /\ \E res \in {0, Errno} : Complete(op, res)
    /\ UNCHANGED <<peer, traffic>>

Kernel == AcceptCompletes \/ RecvCompletes \/ SendCompletes \/ Fails \/ CancelCompletes

-----------------------------------------------------------------------------
(* The helpers of the server.                                              *)

Busy(s) == s.recvInflight \/ s.sendInflight \/ s.cancelInflight

Fds(sl) == {sl[i].fd : i \in Slots} \ {Free}

\* Connections whose slot was given up are closed.
CloseDropped == peer' = [c \in Conns |-> IF c \in Fds(slots) \ Fds(slots') THEN "closed" ELSE peer[c]]

Bit(b) == IF b THEN 1 ELSE 0

PendingClients(sl) ==
  Cardinality({i \in Slots : sl[i].recvInflight}) + Cardinality({i \in Slots : sl[i].sendInflight})
    + Cardinality({i \in Slots : sl[i].cancelInflight})

\* -- Mutants: mistakes the properties must notice.

\* A slot is given up while one of its operations is under way.
DroppedBusy(s) == [s EXCEPT !.fd = Free]

\* The offset of a partial send is lost.
AdvancedNot(send, n) == send

\* The bytes left after a partial send are forgotten.
AdvancedToEnd(send, n) == [send EXCEPT !.off = send.len]

\* After shutdown began, completions are still counted one by one.
PendingInShutdownIgnoresAccept(ai, aci, sl) == Bit(aci) + PendingClients(sl)

\* A timed wait that expires never looks at the deadline.
AfterTimeoutWaits == "top"

\* A slot is taken without a generation of its own.
GenerationKept(g) == g

\* -- The code.

\* The generation take_client gives: never 0, which is no owner's.
NextGeneration(g) == IF g = MaxGeneration THEN 1 ELSE g + 1

\* drop_client.
Dropped(s) == IF s.fd = Free \/ Busy(s) THEN s ELSE [s EXCEPT !.fd = Free]

\* submit_recv and submit_send, and the send offset after n more bytes.
Receiving(s) == [s EXCEPT !.recvGen = s.generation, !.recvInflight = TRUE]

Sending(s, send) == [s EXCEPT !.sendOp = send, !.sendInflight = TRUE]

Advanced(send, n) == [send EXCEPT !.off = @ + n]

\* What begin_shutdown does with a slot: cancel what is under way, or drop it.
Target(s) == IF s.recvInflight THEN s.recvGen ELSE s.sendOp.gen

Canceling(s) ==
  IF s.fd = Free \/ s.cancelInflight THEN s
  ELSE IF s.recvInflight \/ s.sendInflight
       THEN [s EXCEPT !.cancelGen = Target(s), !.cancelInflight = TRUE]
       ELSE Dropped(s)

PendingInShutdown(ai, aci, sl) == Bit(ai) + Bit(aci) + PendingClients(sl)

-----------------------------------------------------------------------------
(* main.                                                                   *)

BeginShutdown ==
  /\ pc = "top" /\ pending > 0
  /\ stopRequested /\ ~shuttingDown
  /\ shuttingDown' = TRUE
  /\ listening' = FALSE
  /\ acceptCancelInflight' = (acceptCancelInflight \/ acceptInflight)
  /\ slots' = [i \in Slots |-> Canceling(slots[i])]
  /\ inflight' = inflight
       \cup (IF acceptInflight /\ ~acceptCancelInflight THEN {AcceptCancelOp} ELSE {})
       \cup {Op("cancel", i, slots[i].fd) : i \in {j \in Slots :
               slots[j].fd # Free /\ ~slots[j].cancelInflight
                 /\ (slots[j].recvInflight \/ slots[j].sendInflight)}}
  /\ pending' = PendingInShutdown(acceptInflight, acceptCancelInflight', slots')
  /\ pc' = "waiting"
  /\ CloseDropped
  /\ UNCHANGED <<stopRequested, deadlinePassed, acceptInflight, cq, traffic>>

\* stop_requested was looked at, and is not looked at again before the wait ends.
GoToWait ==
  /\ pc = "top" /\ pending > 0
  /\ stopRequested => shuttingDown
  /\ pc' = "waiting"
  /\ UNCHANGED <<flags, pending, accept, slots, inflight, cq, peer, traffic>>

AfterTimeout == IF deadlinePassed THEN "exit70" ELSE "top"

\* The wait of a server that is shutting down takes 100 ms at most.
WaitTimesOut ==
  /\ pc = "waiting" /\ shuttingDown /\ cq = {}
  /\ pc' = AfterTimeout
  /\ UNCHANGED <<flags, pending, accept, slots, inflight, cq, peer, traffic>>

\* The end of a turn that handled completion e: the slots and the accept flags as
\* it left them, and the operations it submitted.
Turn(e, newSlots, submitted, newAccept, newCancel) ==
  /\ pc = "waiting" /\ e \in cq
  /\ cq' = cq \ {e}
  /\ inflight' = inflight \cup submitted
  /\ acceptInflight' = newAccept
  /\ acceptCancelInflight' = newCancel
  /\ IF shuttingDown
     THEN /\ slots' = [i \in Slots |-> Dropped(newSlots[i])]
          /\ pending' = PendingInShutdown(newAccept, newCancel, slots')
          /\ pc' = IF pending' > 0 /\ deadlinePassed THEN "exit70" ELSE "top"
     ELSE /\ slots' = newSlots
          /\ pending' = pending - 1 + Cardinality(submitted)
          /\ pc' = "top"
  /\ UNCHANGED <<flags, listening, traffic>>

\* A turn about slot i only.
SlotTurn(e, s, submitted) ==
  /\ Turn(e, [slots EXCEPT ![e.op.slot] = s], submitted, acceptInflight, acceptCancelInflight)
  /\ CloseDropped

\* take_client, submit_recv and the next accept.
AcceptInto(e, i) ==
  LET s == Receiving(Wiped(e.res, NextGeneration(slots[i].generation))) IN
  /\ slots[i].fd = Free /\ \A j \in Slots : slots[j].fd = Free => i <= j
  /\ Turn(e, [slots EXCEPT ![i] = s], {AcceptOp, Op("recv", i, e.res)}, TRUE, acceptCancelInflight)
  /\ peer' = [peer EXCEPT ![e.res] = "open"]

HandleAccept ==
  \E e \in cq :
    /\ e.op = AcceptOp
    /\ \/ /\ e.res # Errno /\ ~shuttingDown
          /\ \E i \in Slots : AcceptInto(e, i)
       \/ /\ e.res # Errno
          /\ shuttingDown \/ \A i \in Slots : slots[i].fd # Free
          /\ Turn(e, slots, IF shuttingDown THEN {} ELSE {AcceptOp}, ~shuttingDown, acceptCancelInflight)
          /\ peer' = [peer EXCEPT ![e.res] = "refused"]
       \/ /\ e.res = Errno
          /\ Turn(e, slots, IF shuttingDown THEN {} ELSE {AcceptOp}, ~shuttingDown, acceptCancelInflight)
          /\ CloseDropped

\* The completion of a client's recv or send that the slot still knows of.
Fresh(e, kind) ==
  LET s == slots[e.op.slot] IN
  /\ e.op.kind = kind
  /\ s.generation = IF kind = "recv" THEN s.recvGen ELSE s.sendOp.gen

\* The bytes received are the last ones of received: nothing else was asked for.
HandleRecv ==
  \E e \in {f \in cq : Fresh(f, "recv")} :
    LET s == [slots[e.op.slot] EXCEPT !.recvInflight = FALSE]
        send == [gen |-> s.generation, start |-> received[e.op.conn] - e.res, len |-> e.res, off |-> 0]
    IN \/ /\ ~shuttingDown /\ e.res > 0
          /\ SlotTurn(e, Sending(s, send), {Op("send", e.op.slot, s.fd)})
       \/ /\ shuttingDown \/ e.res <= 0
          /\ SlotTurn(e, Dropped(s), {})

HandleSend ==
  \E e \in {f \in cq : Fresh(f, "send")} :
    LET s == [slots[e.op.slot] EXCEPT !.sendInflight = FALSE]
        send == Advanced(s.sendOp, e.res)
        valid == ~shuttingDown /\ e.res > 0 /\ e.res <= s.sendOp.len - s.sendOp.off
    IN \/ /\ valid /\ send.off < send.len
          /\ SlotTurn(e, Sending(s, send), {Op("send", e.op.slot, s.fd)})
       \/ /\ valid /\ send.off >= send.len
          /\ SlotTurn(e, Receiving([s EXCEPT !.sendOp = NoSend]), {Op("recv", e.op.slot, s.fd)})
       \/ /\ ~valid
          /\ SlotTurn(e, Dropped(s), {})

HandleCancel ==
  \E e \in cq :
    /\ e.op.kind = "cancel"
    /\ IF e.op.slot # Listener /\ slots[e.op.slot].cancelGen = slots[e.op.slot].generation
       THEN SlotTurn(e, Dropped([slots[e.op.slot] EXCEPT !.cancelInflight = FALSE]), {})
       ELSE Turn(e, slots, {}, acceptInflight, FALSE) /\ CloseDropped

\* io_uring_submit does not take exactly one entry: the process ends at once.
SubmissionFails ==
  /\ \/ pc = "top" /\ stopRequested /\ ~shuttingDown
     \/ pc = "waiting" /\ ~shuttingDown
          /\ \E e \in cq : e.op = AcceptOp \/ (e.op.kind \in {"recv", "send"} /\ e.res > 0)
  /\ pc' = "exit70"
  /\ UNCHANGED <<flags, pending, accept, slots, inflight, cq, peer, traffic>>

\* The loop has nothing more to wait for: the last slots are dropped and main returns.
Leave ==
  /\ pc = "top" /\ pending = 0
  /\ pc' = "exit0"
  /\ listening' = FALSE
  /\ slots' = [i \in Slots |-> Dropped(slots[i])]
  /\ CloseDropped
  /\ UNCHANGED <<flags, pending, acceptInflight, acceptCancelInflight, inflight, cq, traffic>>

Server ==
  \/ BeginShutdown \/ GoToWait \/ WaitTimesOut \/ Leave
  \/ HandleAccept \/ HandleRecv \/ HandleSend \/ HandleCancel

Next ==
  \/ Server \/ SubmissionFails \/ Kernel \/ Signal \/ DeadlinePasses
  \/ \E c \in Conns : Connect(c)

Spec == Init /\ [][Next]_vars

\* The thread runs and time passes; the kernel answers cancels.  Peers, signals
\* and errors are not fair.
FairSpec == Spec /\ WF_vars(Server) /\ WF_vars(DeadlinePasses) /\ WF_vars(CancelCompletes)

-----------------------------------------------------------------------------
(* Properties.                                                             *)

OpKinds == {"accept", "recv", "send", "cancel"}

Ops == [kind : OpKinds, slot : Slots \cup {Listener}, conn : Conns \cup {Free}]

\* The values every variable ranges over; a slot in use has a generation.
TypeOK ==
  /\ pc \in {"top", "waiting", "exit0", "exit70"}
  /\ stopRequested \in BOOLEAN /\ shuttingDown \in BOOLEAN /\ deadlinePassed \in BOOLEAN
  /\ pending \in Nat
  /\ listening \in BOOLEAN /\ acceptInflight \in BOOLEAN /\ acceptCancelInflight \in BOOLEAN
  /\ slots \in [Slots -> [fd : Conns \cup {Free}, generation : 0 .. MaxGeneration,
                          recvGen : 0 .. MaxGeneration, cancelGen : 0 .. MaxGeneration,
                          sendOp : [gen : 0 .. MaxGeneration, start : Nat, len : Nat, off : Nat],
                          recvInflight : BOOLEAN, sendInflight : BOOLEAN, cancelInflight : BOOLEAN]]
  /\ inflight \subseteq Ops
  /\ cq \subseteq [op : Ops, res : Int]
  /\ peer \in [Conns -> {"absent", "backlog", "accepted", "open", "closed", "refused"}]
  /\ total \in [Conns -> Nat] /\ received \in [Conns -> Nat]
  /\ got \in [Conns -> Seq(Nat)]
  /\ failed \subseteq Conns

\* Operations that the kernel or the completion queue still refers to.
Outstanding == inflight \cup {e.op : e \in cq}

\* An operation's memory is its own until its completion is handled: the slot still
\* belongs to the connection the operation was submitted for, has not been wiped, and
\* knows that the operation is under way; and at most one of recv and send is.  A slot
\* in use has a generation that says so, also when generations wrap.
OwnedUntilHandled ==
  /\ \A op \in Outstanding : op.slot # Listener =>
       LET s == slots[op.slot] IN
       /\ s.fd = op.conn
       /\ op.kind = "recv" => s.recvInflight /\ s.recvGen = s.generation
       /\ op.kind = "send" => s.sendInflight /\ s.sendOp.gen = s.generation
       /\ op.kind = "cancel" => s.cancelInflight /\ s.cancelGen = s.generation
  /\ \A i \in Slots : ~(slots[i].recvInflight /\ slots[i].sendInflight)
  /\ \A i \in Slots : slots[i].fd # Free => slots[i].generation > 0

\* The count that ends the loop is the number of completions still to be handled:
\* the loop neither leaves one behind nor waits for one that cannot come.
PendingIsOutstanding == ~Gone => pending = Cardinality(inflight) + Cardinality(cq)

\* What a peer gets back is a prefix of what it sent: no byte is lost, repeated or
\* moved, however the sends are split.
EchoInOrder == \A c \in Conns : got[c] = [k \in 1 .. Len(got[c]) |-> k]

\* A connection that the server closed of its own accord, with no error and no
\* shutdown, has got back everything it sent before its end of file.
HalfCloseFlushes ==
  \A c \in Conns :
    peer[c] = "closed" /\ c \notin failed /\ ~shuttingDown => Len(got[c]) = total[c]

\* Once shutdown has begun, the process ends: everything drains, or the deadline does it.
ShutdownEnds == shuttingDown ~> Gone

\* What the README's failure injection 6 says of SIGTERM: the server drains what is
\* under way or falls back to exit 70.
StopEnds == stopRequested ~> Gone
=============================================================================
