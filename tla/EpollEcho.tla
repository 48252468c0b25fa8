----------------------------- MODULE EpollEcho -----------------------------
(***************************************************************************)
(* The epoll echo server of examples/knowledge/linux-io-lab: one thread    *)
(* that asks epoll for ready descriptors, serves each within a budget of   *)
(* bytes, and keeps connections that used up their budget in a FIFO queue  *)
(* of its own, from which it serves one per pass of its loop.              *)
(*                                                                         *)
(* A byte is named by its position in what the peer sends.  The calls      *)
(* inside service_connection are one step: what arrives between them is    *)
(* reported by the EPOLL_CTL_MOD at its end, as if it had come after it.   *)
(* epoll_ctl does not fail on a descriptor that is open.                   *)
(***************************************************************************)
EXTENDS Integers, Sequences, FiniteSets, FiniteSetsExt, SequencesExt

CONSTANTS
  Conns,         \* bound: the connections peers may open, as the fds they get
  MaxConns,      \* MAX_CONNECTIONS: number of slots, and of places in the ready queue
  OutputCap,     \* OUTPUT_CAP: bytes a connection may have waiting
  IoBudget,      \* IO_BUDGET: bytes read, and bytes written, per service
  AcceptBudget,  \* ACCEPT_BUDGET: connections accepted per event of the listener
  MaxBytes       \* bound: bytes a peer sends, if it sends any

ASSUME EpollAssumption ==
  /\ IsFiniteSet(Conns) /\ Conns \subseteq Nat
  /\ MaxConns \in Nat \ {0} /\ OutputCap \in Nat \ {0} /\ IoBudget \in Nat \ {0}
  /\ AcceptBudget \in Nat \ {0} /\ MaxBytes \in Nat

Free == -1
Slots == 1 .. MaxConns
Listener == [slot |-> 0, generation |-> 0]

VARIABLES
  pc,             \* main: at the top of its loop, in the batch of events, or gone
  stopRequested,
  batch,          \* events epoll_wait returned that are still to be handled
  accepts,        \* what is left of the accept budget while accept_ready runs
  slots,          \* slots[], with the events epoll has armed for each
  readyQueue,     \* handles
  peer,           \* state of each connection
  sent,           \* bytes each peer has sent
  ended,          \* peers that shut down their side
  reset,          \* connections that were reset
  received,       \* bytes the server has read
  got,            \* positions of the bytes given back to the kernel, in order
  blocked,        \* connections whose send buffer is full
  dropped         \* connections closed because the ready queue had no place

server == <<pc, batch, accepts, slots, readyQueue>>
client == <<sent, ended, reset>>
io     == <<received, got, blocked, dropped>>
vars   == <<server, stopRequested, peer, client, io>>

\* A slot after memset, with its descriptor and generation.
NewSlot(fd, generation) ==
  [fd |-> fd, generation |-> generation, out |-> <<>>, off |-> 0,
   peerEof |-> FALSE, closing |-> FALSE, readyAgain |-> FALSE, armed |-> {}]

Init ==
  /\ pc = "top" /\ stopRequested = FALSE
  /\ batch = {} /\ accepts = 0
  /\ slots = [i \in Slots |-> NewSlot(Free, 0)]
  /\ readyQueue = <<>>
  /\ peer = [c \in Conns |-> "absent"]
  /\ sent = [c \in Conns |-> 0] /\ ended = {} /\ reset = {}
  /\ received = [c \in Conns |-> 0] /\ got = [c \in Conns |-> <<>>]
  /\ blocked = {} /\ dropped = {}

Handle(i) == [slot |-> i, generation |-> slots[i].generation]

\* connection_from_handle does not return NULL.
Live(h) == slots[h.slot].fd # Free /\ slots[h.slot].generation = h.generation

Pending(s) == SubSeq(s.out, s.off + 1, Len(s.out))

-----------------------------------------------------------------------------
(* The peers and the signal.                                               *)

\* Connections are numbered in the order they open.
Connect(c) ==
  /\ pc # "gone"
  /\ peer[c] = "absent" /\ \A d \in Conns : d < c => peer[d] # "absent"
  /\ peer' = [peer EXCEPT ![c] = "backlog"]
  /\ UNCHANGED <<server, stopRequested, client, io>>

Connected(c) == pc # "gone" /\ peer[c] \in {"backlog", "open"} /\ c \notin reset

Send(c) ==
  /\ Connected(c) /\ c \notin ended /\ sent[c] = 0
  /\ sent' = [sent EXCEPT ![c] = MaxBytes]
  /\ UNCHANGED <<server, stopRequested, peer, ended, reset, io>>

HalfClose(c) ==
  /\ Connected(c) /\ c \notin ended
  /\ ended' = ended \cup {c}
  /\ UNCHANGED <<server, stopRequested, peer, sent, reset, io>>

Reset(c) ==
  /\ Connected(c) /\ peer[c] = "open"
  /\ reset' = reset \cup {c}
  /\ UNCHANGED <<server, stopRequested, peer, sent, ended, io>>

\* The peer reads, and the send buffer has room again.
PeerReads(c) ==
  /\ pc # "gone"
  /\ c \in blocked
  /\ blocked' = blocked \ {c}
  /\ UNCHANGED <<server, stopRequested, peer, client, received, got, dropped>>

Signal ==
  /\ pc # "gone" /\ ~stopRequested
  /\ stopRequested' = TRUE
  /\ UNCHANGED <<server, peer, client, io>>

-----------------------------------------------------------------------------
(* Serving a connection.                                                   *)

\* -- Mutants: mistakes the properties must notice.

\* A short send that starts over from the beginning of the queue.
WrittenFromStart(s, n) ==
  IF s.off + n = Len(s.out) THEN [s EXCEPT !.out = <<>>, !.off = 0] ELSE s

\* The end of the input taken for the end of the connection.
FinishedAtEof(s) == [s EXCEPT !.closing = @ \/ s.peerEof]

\* A connection that waits for input only.
InterestInputOnly(s) == IF s.peerEof THEN {} ELSE {"in"}

\* A connection that is rerun and not known to have left the queue.
TakenStillQueued(s) == s

\* -- The code.

\* queue_bytes: what was sent is given up, then the data must fit.
Queued(s, data) ==
  LET pending == Pending(s) IN
  IF Len(pending) + Len(data) > OutputCap THEN [s EXCEPT !.out = pending, !.off = 0, !.closing = TRUE]
  ELSE [s EXCEPT !.out = pending \o data, !.off = 0]

\* The bytes handle_read gets, out of what is there.
ReadSize(s) ==
  Min({IoBudget, OutputCap - Len(Pending(s)), sent[s.fd] - received[s.fd]})

\* handle_read.  It sees the end if it still calls recv once everything was received.
ReadBy(s, n) ==
  LET first == received[s.fd] + 1
      data  == [k \in 1 .. n |-> first + k - 1]
      end   == /\ s.fd \in ended /\ first + n - 1 = sent[s.fd]
               /\ n < IoBudget /\ Len(Pending(s)) + n < OutputCap
      filled == IF n = 0 THEN s ELSE Queued(s, data)
  IN  [filled EXCEPT !.peerEof = @ \/ end]

\* handle_write after n bytes.
Written(s, n) ==
  IF s.off + n = Len(s.out) THEN [s EXCEPT !.out = <<>>, !.off = 0] ELSE [s EXCEPT !.off = @ + n]

\* The bytes handle_write offers.
Offer(s) == Min({IoBudget, Len(Pending(s))})

\* The bytes send may take: fewer than offered if that fills the send buffer, which then
\* stays full until the peer reads.
WriteSizes(s) ==
  IF s.closing \/ s.fd \in blocked \/ Offer(s) = 0 THEN {0} ELSE 1 .. Offer(s)

\* Everything is flushed behind the end of the input.
Finished(s) == [s EXCEPT !.closing = @ \/ (s.peerEof /\ s.off = Len(s.out))]

\* add_interest.
Interest(s) ==
  (IF ~s.peerEof /\ Len(Pending(s)) < OutputCap THEN {"in"} ELSE {})
    \cup (IF Pending(s) # <<>> THEN {"out"} ELSE {})

\* The ready_again flag of a connection that is dequeued.
Taken(s) == [s EXCEPT !.readyAgain = FALSE]

\* remove_connection: the slot keeps its generation, and the queue its handle.
Removed(s) == NewSlot(Free, s.generation)

Close(i) ==
  /\ slots' = [slots EXCEPT ![i] = Removed(@)]
  /\ peer' = [peer EXCEPT ![slots[i].fd] = "closed"]

\* What handle_read and handle_write may come to.
Outcomes(s, bits) ==
  LET n == IF "in" \in bits THEN ReadSize(s) ELSE 0
      r == IF "in" \in bits THEN ReadBy(s, n) ELSE s
  IN  {[conn |-> Finished(Written(r, k)), read |-> n,
        wrote |-> SubSeq(Pending(r), 1, k), short |-> k < Offer(r)] : k \in WriteSizes(r)}

\* A budget was used up with more to do.
Yielded(o) ==
  o.read = IoBudget \/ (Len(o.wrote) = IoBudget /\ Pending(o.conn) # <<>>)

\* service_connection on the state s of slot i, with what is left of the ready queue.
\* On a connection that was reset recv or send fails.
Service(i, s, bits, queue) ==
  \/ /\ s.fd \in reset
     /\ Close(i)
     /\ readyQueue' = queue
     /\ UNCHANGED io
  \/ /\ s.fd \notin reset
     /\ \E o \in Outcomes(s, bits) :
          LET enqueue == Yielded(o) /\ ~o.conn.readyAgain
              noPlace == enqueue /\ Len(queue) = MaxConns
          IN
          /\ received' = [received EXCEPT ![s.fd] = @ + o.read]
          /\ got' = [got EXCEPT ![s.fd] = @ \o o.wrote]
          /\ blocked' = IF o.short THEN blocked \cup {s.fd} ELSE blocked
          /\ dropped' = IF noPlace /\ ~o.conn.closing THEN dropped \cup {s.fd} ELSE dropped
          /\ IF o.conn.closing \/ noPlace
             THEN Close(i) /\ readyQueue' = queue
             ELSE /\ slots' = [slots EXCEPT ![i] =
                       [o.conn EXCEPT !.armed = Interest(o.conn), !.readyAgain = @ \/ enqueue]]
                  /\ readyQueue' = IF enqueue THEN Append(queue, Handle(i)) ELSE queue
                  /\ UNCHANGED peer

-----------------------------------------------------------------------------
(* The loop.                                                               *)

\* What epoll has to report of a connection: EPOLLRDHUP, EPOLLHUP and EPOLLERR count
\* as "in", and a reset is reported whatever is armed.
ReadyBits(s) ==
  {b \in s.armed : \/ s.fd \in reset
                   \/ b = "in" /\ (sent[s.fd] > received[s.fd] \/ s.fd \in ended)
                   \/ b = "out" /\ s.fd \notin blocked}
    \cup (IF s.fd \in reset /\ s.armed # {} THEN {"in"} ELSE {})

ReadySlots == {i \in Slots : slots[i].fd # Free /\ ReadyBits(slots[i]) # {}}

Backlog == {c \in Conns : peer[c] = "backlog"}

\* epoll_wait, which ends after 250 ms in any case.  EPOLLONESHOT disarms what it reports.
Wait ==
  /\ pc = "top" /\ ~stopRequested
  /\ batch' = {[handle |-> Handle(i), bits |-> ReadyBits(slots[i])] : i \in ReadySlots}
                \cup (IF Backlog = {} THEN {} ELSE {[handle |-> Listener, bits |-> {"in"}]})
  /\ slots' = [i \in Slots |-> IF i \in ReadySlots THEN [slots[i] EXCEPT !.armed = {}] ELSE slots[i]]
  /\ pc' = "batch"
  /\ UNCHANGED <<stopRequested, accepts, readyQueue, peer, client, io>>

HandleEvent ==
  /\ pc = "batch" /\ accepts = 0
  /\ \E e \in batch :
       /\ e.handle # Listener
       /\ batch' = batch \ {e}
       /\ IF Live(e.handle)
          THEN Service(e.handle.slot, slots[e.handle.slot], e.bits, readyQueue)
          ELSE UNCHANGED <<slots, readyQueue, peer, io>>
  /\ UNCHANGED <<pc, stopRequested, accepts, client>>

HandleListener ==
  /\ pc = "batch" /\ accepts = 0
  /\ \E e \in batch : e.handle = Listener /\ batch' = batch \ {e}
  /\ accepts' = AcceptBudget
  /\ UNCHANGED <<pc, stopRequested, slots, readyQueue, peer, client, io>>

\* One turn of accept_ready: the lowest free slot, under its next generation.
Accept ==
  /\ accepts > 0 /\ Backlog # {}
  /\ LET c    == Min(Backlog)
         free == {i \in Slots : slots[i].fd = Free}
     IN IF stopRequested \/ free = {}
        THEN peer' = [peer EXCEPT ![c] = "refused"] /\ UNCHANGED slots
        ELSE /\ peer' = [peer EXCEPT ![c] = "open"]
             /\ slots' = [slots EXCEPT ![Min(free)] =
                            [NewSlot(c, @.generation + 1) EXCEPT !.armed = {"in"}]]
  /\ accepts' = accepts - 1
  /\ UNCHANGED <<pc, stopRequested, batch, readyQueue, client, io>>

AcceptNone ==
  /\ accepts > 0 /\ Backlog = {}
  /\ accepts' = 0
  /\ UNCHANGED <<pc, stopRequested, batch, slots, readyQueue, peer, client, io>>

\* The end of a pass: one connection of the ready queue is served.
Rerun ==
  /\ pc = "batch" /\ batch = {} /\ accepts = 0
  /\ IF readyQueue = <<>> \/ ~Live(Head(readyQueue))
     THEN /\ readyQueue' = IF readyQueue = <<>> THEN <<>> ELSE Tail(readyQueue)
          /\ UNCHANGED <<slots, peer, io>>
     ELSE LET i == Head(readyQueue).slot
          IN  Service(i, Taken(slots[i]), {"in"}, Tail(readyQueue))
  /\ pc' = "top"
  /\ UNCHANGED <<stopRequested, batch, accepts, client>>

Stop ==
  /\ pc = "top" /\ stopRequested
  /\ pc' = "gone"
  /\ slots' = [i \in Slots |-> Removed(slots[i])]
  /\ peer' = [c \in Conns |-> IF peer[c] \in {"backlog", "open"} THEN "refused" ELSE peer[c]]
  /\ UNCHANGED <<stopRequested, batch, accepts, readyQueue, client, io>>

Server == Wait \/ HandleEvent \/ HandleListener \/ Accept \/ AcceptNone \/ Rerun \/ Stop

Next ==
  \/ Server \/ Signal
  \/ \E c \in Conns : Connect(c) \/ Send(c) \/ HalfClose(c) \/ Reset(c) \/ PeerReads(c)

Spec == Init /\ [][Next]_vars

\* The thread runs, and peers read.  What peers send is not fair.
FairSpec == Spec /\ WF_vars(Server) /\ \A c \in Conns : WF_vars(PeerReads(c))

-----------------------------------------------------------------------------
(* Properties.                                                             *)

Open == {i \in Slots : slots[i].fd # Free}

Handles == [slot : Slots \cup {0}, generation : Nat]

\* The values every variable ranges over; output and queue stay within their limits,
\* and a connection is in the ready queue once if it is marked so, and else not.
TypeOK ==
  /\ pc \in {"top", "batch", "gone"} /\ stopRequested \in BOOLEAN
  /\ batch \subseteq [handle : Handles, bits : SUBSET {"in", "out"}]
  /\ accepts \in 0 .. AcceptBudget
  /\ \A i \in Slots :
       /\ slots[i].fd \in Conns \cup {Free}
       /\ Len(slots[i].out) <= OutputCap /\ slots[i].off \in 0 .. Len(slots[i].out)
       /\ slots[i].armed \subseteq {"in", "out"}
  /\ \A i \in Open :
       Cardinality({k \in DOMAIN readyQueue : readyQueue[k] = Handle(i)}) =
         (IF slots[i].readyAgain THEN 1 ELSE 0)
  /\ readyQueue \in Seq(Handles) /\ Len(readyQueue) <= MaxConns
  /\ peer \in [Conns -> {"absent", "backlog", "open", "closed", "refused"}]
  /\ sent \in [Conns -> {0, MaxBytes}] /\ received \in [Conns -> 0 .. MaxBytes]
  /\ ended \subseteq Conns /\ reset \subseteq Conns
  /\ blocked \subseteq Conns /\ dropped \subseteq Conns

Upto(n) == [k \in 1 .. n |-> k]

\* What a peer got back, with what still waits for it, is what it sent, byte for byte:
\* nothing is lost, doubled or out of order over short sends and reused slots.
EchoInOrder ==
  \A i \in Open : got[slots[i].fd] \o Pending(slots[i]) = Upto(received[slots[i].fd])

\* The server closes a connection on its own only after the peer shut down its side
\* and has everything back; the ready queue without a place is the one exception.
ClosedWhenFlushed ==
  \A c \in Conns :
    peer[c] = "closed" => \/ c \in reset \/ c \in dropped
                          \/ c \in ended /\ got[c] = Upto(sent[c])

\* Who has something to expect from the server: to be accepted or refused, to get its
\* bytes back, or to be closed after it ended.
Waiting(c) ==
  /\ pc # "gone"
  /\ \/ peer[c] = "backlog"
     \/ peer[c] = "open" /\ (Len(got[c]) < sent[c] \/ c \in ended \/ c \in reset)

\* Nobody starves: whatever the others send, a connection does not wait for ever, nor
\* is the event lost that an edge reported once.
Served == \A c \in Conns : Waiting(c) ~> ~Waiting(c)

\* Whoever used up a budget is served again by way of the ready queue, and not closed.
YieldedIsKept == dropped = {}
=============================================================================
