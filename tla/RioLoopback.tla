---------------------------- MODULE RioLoopback ----------------------------
(***************************************************************************)
(* The registered I/O program windows-io-lab/rio_iocp_loopback.cpp: one    *)
(* thread sends a payload from the endpoint "client" to the endpoint       *)
(* "server", each with a completion queue of its own that tells a common   *)
(* port when it has something.                                             *)
(*                                                                         *)
(* A byte is its position in the payload.  There is no way to cancel, so   *)
(* the process either sees every completion or ends at once.               *)
(***************************************************************************)
EXTENDS Integers, Sequences

CONSTANT Payload   \* number of bytes to send

\* What a module that runs the program has to assume.
RioAssumption == Payload \in Nat \ {0}

Ends == {"client", "server"}

VARIABLES
  pc,           \* "receive", "send", "loop", or how the process ended
  rest,         \* buffer.Offset and buffer.Length of each endpoint
  outstanding,  \* the flag of each endpoint
  open,         \* the loop's count of operations that are not through
  freed,        \* endpoints whose destructor deregistered the buffer
  late,         \* the deadline has passed
  kernel,       \* endpoints with an operation submitted and not completed
  cq,           \* results in the completion queue of each endpoint
  armed,        \* completion queues that will notify
  port,         \* endpoints whose notification is to be dequeued
  wire,         \* bytes on their way
  sent,         \* bytes the present send has put there
  memory        \* bytes in the buffer of the server

sides == <<rest, outstanding, open, freed>>
transport == <<kernel, cq, armed, port, wire, sent, memory>>
vars == <<pc, sides, late, transport>>

Ended == pc \in {"passed", "failed", "terminated"}

\* After both queues were armed.
Init ==
  /\ pc = "receive"
  /\ rest = [e \in Ends |-> [offset |-> 0, length |-> Payload]]
  /\ outstanding = [e \in Ends |-> FALSE] /\ open = 2 /\ freed = {} /\ late = FALSE
  /\ kernel = {} /\ cq = [e \in Ends |-> <<>>] /\ armed = Ends /\ port = {}
  /\ wire = <<>> /\ sent = 0 /\ memory = <<>>

-----------------------------------------------------------------------------
(* The provider and the clock.                                             *)

Transmit ==
  /\ ~Ended /\ "client" \in kernel /\ sent < rest["client"].length
  /\ wire' = Append(wire, rest["client"].offset + sent + 1)
  /\ sent' = sent + 1
  /\ UNCHANGED <<pc, sides, late, kernel, cq, armed, port, memory>>

\* A result, and the notification of a queue that is armed.
Completed(e, ok, bytes) ==
  /\ ~Ended /\ e \in kernel
  /\ kernel' = kernel \ {e}
  /\ cq' = [cq EXCEPT ![e] = Append(@, [ok |-> ok, bytes |-> bytes])]
  /\ port' = IF e \in armed THEN port \cup {e} ELSE port
  /\ armed' = armed \ {e}
  /\ UNCHANGED <<pc, sides, late>>

SendCompletes ==
  /\ sent > 0 /\ Completed("client", TRUE, sent)
  /\ sent' = 0 /\ UNCHANGED <<wire, memory>>

\* What arrives is put where the buffer of the operation begins.
ReceiveCompletes(bytes) ==
  /\ bytes \in 1 .. Len(wire) /\ bytes <= rest["server"].length
  /\ Completed("server", TRUE, bytes)
  /\ memory' = SubSeq(memory, 1, rest["server"].offset) \o SubSeq(wire, 1, bytes)
  /\ wire' = SubSeq(wire, bytes + 1, Len(wire))
  /\ UNCHANGED sent

\* With a bad status, or with no byte.
CompletesBadly(e) == Completed(e, FALSE, 0) /\ UNCHANGED <<wire, sent, memory>>

\* A notification that finds nothing in the queue.
NotifiesEarly(e) ==
  /\ ~Ended /\ e \in armed /\ cq[e] = <<>>
  /\ armed' = armed \ {e} /\ port' = port \cup {e}
  /\ UNCHANGED <<pc, sides, late, kernel, cq, wire, sent, memory>>

TimePasses ==
  /\ ~late /\ ~Ended /\ late' = TRUE
  /\ UNCHANGED <<pc, sides, transport>>

-----------------------------------------------------------------------------
(* run_rio.                                                                *)

MayFree(e) == ~outstanding'[e]

\* The destructors of the client and then the server end the process when they
\* find an operation under way.
Unwind(how) ==
  \/ MayFree("client") /\ MayFree("server") /\ freed' = Ends /\ pc' = how
  \/ MayFree("client") /\ ~MayFree("server") /\ freed' = {"client"} /\ pc' = "terminated"
  \/ ~MayFree("client") /\ UNCHANGED freed /\ pc' = "terminated"

Terminate == pc' = "terminated" /\ UNCHANGED freed

\* RIONotify: an error when the queue is armed, and a notification at once when
\* it holds something.
Arm(e) ==
  /\ armed' = IF cq'[e] = <<>> THEN armed \cup {e} ELSE armed
  /\ port' = IF cq'[e] = <<>> THEN port \ {e} ELSE port

Unarmed(e) == UNCHANGED armed /\ port' = port \ {e}

SubmitReceive ==
  /\ pc = "receive"
  /\ \/ /\ pc' = "send" /\ kernel' = kernel \cup {"server"}
        /\ outstanding' = [outstanding EXCEPT !["server"] = TRUE] /\ UNCHANGED freed
     \/ UNCHANGED <<outstanding, kernel>> /\ Unwind("failed")
  /\ UNCHANGED <<rest, open, late, cq, armed, port, wire, sent, memory>>

SubmitSend ==
  /\ pc = "send"
  /\ outstanding' = [outstanding EXCEPT !["client"] = TRUE]
  /\ \/ pc' = "loop" /\ kernel' = kernel \cup {"client"} /\ UNCHANGED freed
     \/ Terminate /\ UNCHANGED kernel
  /\ UNCHANGED <<rest, open, late, cq, armed, port, wire, sent, memory>>

\* Mutant: the next operation uses the buffer from its start again.
NotAdvanced(buffer, bytes) == [buffer EXCEPT !.length = @ - bytes]

Advanced(buffer, bytes) == [offset |-> buffer.offset + bytes, length |-> buffer.length - bytes]

Whole == memory = [i \in 1 .. Payload |-> i]

\* The suffix of e is submitted once its queue is armed again.
Resubmit(e) ==
  \/ /\ Arm(e) /\ UNCHANGED outstanding
     /\ \/ kernel' = kernel \cup {e} /\ UNCHANGED <<pc, freed>>
        \/ Terminate /\ UNCHANGED kernel
  \/ /\ outstanding' = [outstanding EXCEPT ![e] = FALSE]
     /\ Unwind("failed") /\ Unarmed(e) /\ UNCHANGED kernel

\* dequeue_one found a result, which ends the operation whatever its status.
HandleResult(e, result) ==
  /\ cq' = [cq EXCEPT ![e] = Tail(@)]
  /\ IF result.ok THEN rest' = [rest EXCEPT ![e] = Advanced(@, result.bytes)] ELSE UNCHANGED rest
  /\ \/ result.ok /\ rest'[e].length > 0 /\ UNCHANGED open /\ Resubmit(e)
     \/ /\ ~result.ok \/ rest'[e].length = 0
        /\ outstanding' = [outstanding EXCEPT ![e] = FALSE]
        /\ open' = IF result.ok THEN open - 1 ELSE open
        /\ IF result.ok /\ open' > 0 THEN UNCHANGED <<pc, freed>>
           ELSE Unwind(IF result.ok /\ Whole THEN "passed" ELSE "failed")
        /\ Unarmed(e) /\ UNCHANGED kernel

HandleNotification ==
  /\ pc = "loop"
  /\ \E e \in port :
       \/ /\ cq[e] = <<>> /\ UNCHANGED <<rest, open, outstanding, kernel, cq>>
          /\ \/ Arm(e) /\ UNCHANGED <<pc, freed>>
             \/ Unarmed(e) /\ Unwind("failed")
       \/ cq[e] # <<>> /\ HandleResult(e, Head(cq[e]))
  /\ UNCHANGED <<late, wire, sent, memory>>

GiveUp ==
  /\ pc = "loop"
  /\ Terminate
  /\ UNCHANGED <<rest, outstanding, open, late, transport>>

\* The clock is read in every turn of the loop.
TimesOut == late /\ GiveUp

\* GetQueuedCompletionStatus fails.
NotificationFails == GiveUp

Program == SubmitReceive \/ SubmitSend \/ HandleNotification

Next ==
  \/ Transmit \/ SendCompletes \/ TimePasses
  \/ \E bytes \in 1 .. Payload : ReceiveCompletes(bytes)
  \/ \E e \in Ends : CompletesBadly(e) \/ NotifiesEarly(e)
  \/ Program \/ TimesOut \/ NotificationFails

-----------------------------------------------------------------------------
\* No buffer is deregistered while the provider may use it, although an endpoint
\* forgets its operation before it knows whether another will follow.
RegisteredWhileUsed ==
  /\ freed \cap kernel = {}
  /\ \A e \in Ends : e \in kernel => outstanding[e]

\* Whatever the sizes of the pieces on both sides, the memory of the server holds
\* the payload in order, and all of it once nothing is open: the comparison at the
\* end never fails.
PayloadWhole ==
  /\ \A i \in DOMAIN memory : memory[i] = i
  /\ open = 0 <=> pc = "passed"
=============================================================================
