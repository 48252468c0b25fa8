----------------------------- MODULE IocpServer -----------------------------
(***************************************************************************)
(* The overlapped server of windows-io-lab/iocp_overlapped_server.cpp: it  *)
(* receives one frame in as many pieces as the kernel likes, answers with  *)
(* one frame, and on any failure cancels what is under way and waits for   *)
(* it before it gives its memory back.                                     *)
(*                                                                         *)
(* An operation is owned by the store from its submission until its packet *)
(* was dequeued.  A byte is its position in what one side sends.  The one  *)
(* answer is never queued behind another, so the queue of the sender is    *)
(* left out: its active send is the send in the store.                     *)
(***************************************************************************)
EXTENDS Integers, Sequences, SequencesExt

CONSTANTS
  HeaderSize,    \* sizeof(uint32_t)
  PayloadSize,   \* of the frame run_server expects
  AckSize,       \* header and payload of the answer
  MaxFrame       \* kMaxFrame

\* What a module that runs a server has to assume.
IocpAssumption ==
  /\ {HeaderSize, PayloadSize, AckSize, MaxFrame} \subseteq Nat \ {0}
  /\ PayloadSize <= MaxFrame

VARIABLES
  pc,        \* "loop", "cancel" inside try, "cancel again" inside catch, "drain",
             \* "drain again", or how the process ended
  store,     \* operations the server owns
  kernel,    \* kinds of the operations submitted and not completed
  port,      \* packets of completed operations, not dequeued yet
  phase,     \* of the receiver
  received, frame,
  late,      \* the deadline of the loop, or of the drain, has passed
  claims, total, taken,   \* the client: length it announces, bytes it sends and
                          \* those of them the kernel handed over
  got        \* bytes of the answer that the client got

client == <<claims, total, taken, got>>
receiver == <<phase, received, frame>>
vars == <<pc, store, kernel, port, receiver, late, client>>

Ended == pc \in {"done", "failed", "terminated"}

\* storage holds what a receive has filled; a send has sent the first offset bytes.
Receive(size, storage) ==
  [kind |-> "receive", size |-> size, storage |-> storage, offset |-> Len(storage)]
Send(offset) == [kind |-> "send", size |-> AckSize, offset |-> offset]
Op(kind) == CHOOSE op \in store : op.kind = kind

Kinds(ops) == {op.kind : op \in ops}
Positions(from, to) == [i \in 1 .. to - from |-> from + i]

Init ==
  /\ pc = "loop"
  /\ store = {Receive(HeaderSize, <<>>)} /\ kernel = {"receive"} /\ port = {}
  /\ phase = "Header" /\ received = FALSE /\ frame = <<>>
  /\ late = FALSE
  /\ claims \in {0, 1, PayloadSize, MaxFrame + 1}
  /\ total \in 0 .. HeaderSize + PayloadSize
  /\ taken = 0 /\ got = <<>>

-----------------------------------------------------------------------------
(* The kernel, the client and the clock.  An operation completes in part,  *)
(* whole or not at all, and a canceled one no sooner than another.         *)

Completed(kind, ok, bytes) ==
  /\ ~Ended /\ kind \in kernel
  /\ kernel' = kernel \ {kind}
  /\ port' = port \cup {[kind |-> kind, ok |-> ok, bytes |-> bytes]}
  /\ UNCHANGED <<pc, store, receiver, late, claims, total>>

\* Bytes that arrived go to the memory of the operation, and none to it at the
\* end of the stream.
KernelReceives(bytes) ==
  /\ Completed("receive", TRUE, bytes)
  /\ taken + bytes <= total /\ (bytes = 0 => taken = total)
  /\ bytes <= Op("receive").size - Op("receive").offset
  /\ taken' = taken + bytes
  /\ UNCHANGED got

KernelSends(bytes) ==
  /\ Completed("send", TRUE, bytes)
  /\ LET op == Op("send") IN
     /\ op.offset + bytes <= op.size
     /\ got' = got \o Positions(op.offset, op.offset + bytes)
  /\ UNCHANGED taken

KernelFails(kind) == Completed(kind, FALSE, 0) /\ UNCHANGED <<taken, got>>

TimePasses ==
  /\ ~late /\ ~Ended /\ late' = TRUE
  /\ UNCHANGED <<pc, store, kernel, port, receiver, client>>

-----------------------------------------------------------------------------
(* run_server.                                                             *)

\* The catch clause of an exception inside the loop.
Throw == pc' = IF store' = {} THEN "failed" ELSE "cancel again"

\* WSARecv or WSASend of op, which takes the place of others in the store:
\* refused at once, it will have no packet.
Submit(op, others) ==
  \/ store' = others \cup {op} /\ kernel' = kernel \cup {op.kind} /\ UNCHANGED pc
  \/ store' = others /\ UNCHANGED kernel /\ Throw

Dequeue(packet) == packet \in port /\ port' = port \ {packet}

Fail(packet) ==
  /\ store' = store \ {Op(packet.kind)} /\ Throw
  /\ UNCHANGED <<kernel, receiver>>

\* What storage holds once bytes more have arrived, which the kernel took last.
Filled(op, bytes) == op.storage \o Positions(taken - bytes, taken)

\* FramedReceiver::complete with progress.
HandleReceive(op, bytes) ==
  LET storage == Filled(op, bytes)
      others == store \ {op}
  IN \/ /\ op.offset + bytes < op.size
        /\ Submit(Receive(op.size, storage), others)
        /\ UNCHANGED receiver
     \/ /\ op.offset + bytes = op.size /\ phase = "Header"
        /\ IF claims \in 1 .. MaxFrame
           THEN phase' = "Payload" /\ Submit(Receive(claims, <<>>), others)
           ELSE UNCHANGED <<phase, kernel>> /\ store' = others /\ Throw
        /\ UNCHANGED <<received, frame>>
     \/ /\ op.offset + bytes = op.size /\ phase = "Payload"
        /\ frame' = storage /\ received' = TRUE
        /\ Submit(Send(0), others)
        /\ UNCHANGED phase

\* BoundedSender::complete with progress, and the end of the loop.
HandleSend(op, bytes) ==
  \/ /\ op.offset + bytes < op.size
     /\ Submit(Send(op.offset + bytes), store \ {op})
  \/ /\ op.offset + bytes = op.size
     /\ store' = store \ {op} /\ UNCHANGED kernel
     /\ pc' = IF store' # {} THEN pc
              ELSE IF Len(frame) = PayloadSize THEN "done" ELSE "failed"

HandleCompletion ==
  /\ pc = "loop"
  /\ \E packet \in port :
       /\ Dequeue(packet)
       /\ IF ~packet.ok \/ packet.bytes = 0 THEN Fail(packet)
          ELSE \/ packet.kind = "receive" /\ HandleReceive(Op("receive"), packet.bytes)
               \/ packet.kind = "send" /\ HandleSend(Op("send"), packet.bytes) /\ UNCHANGED receiver
  /\ UNCHANGED <<late, client>>

\* GetQueuedCompletionStatus fails without a packet.
PortFails ==
  /\ pc \in {"loop", "drain", "drain again"}
  /\ pc' = IF pc = "drain again" THEN "terminated" ELSE "cancel again"
  /\ UNCHANGED <<store, kernel, port, receiver, late, client>>

TimesOut ==
  /\ pc = "loop" /\ late
  /\ pc' = "cancel"
  /\ UNCHANGED <<store, kernel, port, receiver, late, client>>

\* Mutant: what was canceled is released without its packet.
ReleasedOnCancel == {}

OwnedAfterCancel == store

\* CancelIoEx of everything pending, which only asks; a failure of it is an
\* exception.  The drain has a deadline of its own.
Cancel ==
  /\ pc \in {"cancel", "cancel again"}
  /\ \/ /\ pc' = IF pc = "cancel" THEN "drain" ELSE "drain again"
        /\ store' = OwnedAfterCancel /\ late' = FALSE
     \/ /\ pc' = IF pc = "cancel" THEN "cancel again" ELSE "terminated"
        /\ UNCHANGED <<store, late>>
  /\ UNCHANGED <<kernel, port, receiver, client>>

\* Mutant: the drain has no deadline.
DrainsForever == FALSE

DrainIsOver == late

\* A turn of the loop of cancel_and_drain.  The deadline is looked at after the
\* packet, so it terminates even a drain that has just been completed.
Drain ==
  /\ pc \in {"drain", "drain again"}
  /\ \/ \E packet \in port : Dequeue(packet) /\ store' = store \ {Op(packet.kind)}
     \/ port = {} /\ UNCHANGED <<store, port>>
  /\ pc' = IF DrainIsOver THEN "terminated" ELSE IF store' = {} THEN "failed" ELSE pc
  /\ UNCHANGED <<kernel, receiver, late, client>>

Server == HandleCompletion \/ TimesOut \/ Cancel \/ Drain

Next ==
  \/ \E bytes \in 0 .. HeaderSize + PayloadSize : KernelReceives(bytes)
  \/ \E bytes \in 0 .. AckSize : KernelSends(bytes)
  \/ \E kind \in {"receive", "send"} : KernelFails(kind)
  \/ TimePasses \/ PortFails \/ Server

-----------------------------------------------------------------------------
\* The kernel writes to and reads from memory only while its operation is in the
\* store, also when it was canceled, and the process ends in good order only when
\* it holds none.  The loop never waits with nothing under way.
OwnedUntilDequeued ==
  /\ pc # "terminated" => kernel \cup Kinds(port) \subseteq Kinds(store)
  /\ pc \in {"done", "failed"} => store = {}
  /\ pc = "loop" => store # {} /\ kernel \cup Kinds(port) = Kinds(store)

\* Pieces make a whole: the frame is what followed the header, all of it and in
\* its order, and the client gets every byte of the answer once.
FramesWhole ==
  /\ received => frame = Positions(HeaderSize, HeaderSize + claims)
  /\ got = Positions(0, Len(got))
  /\ pc = "done" => Len(got) = AckSize
=============================================================================
