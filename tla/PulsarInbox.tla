---------------------------- MODULE PulsarInbox ----------------------------
(***************************************************************************)
(* The consumers of examples/knowledge/pulsar-producer-consumer-lab:       *)
(* worker processes that share one ledger file behind a file lock, append  *)
(* the effect of an event to it, and then acknowledge the message.  A      *)
(* process may die anywhere; if it dies while it writes a frame, the file  *)
(* ends with part of it, which the next reader cuts off.                   *)
(*                                                                         *)
(* A frame is its entry, or Torn for a part of one; the lengths, magic and *)
(* CRC that tell them apart are not spelled out.  Of an event only its id  *)
(* and the rest of its fields as one body (the fingerprint) are kept, and  *)
(* bytes that do not decode fail like a poison event does.                 *)
(***************************************************************************)
EXTENDS Naturals, Sequences, FiniteSets, Functions

CONSTANTS
  Workers,       \* consumer processes on one subscription and one ledger
  Sent,          \* the events producers send, in order: records [id, body, poison]
  Types,         \* subscription types the consumers may be started with
  MaxRedeliver,  \* maxRedeliverCount of the dead letter policy (3 in the code)
  MaxFaults      \* bound: crashes, I/O errors, failed calls and late acknowledgements

None == "none"

ASSUME PulsarAssumption ==
  /\ IsFiniteSet(Workers) /\ None \notin Workers
  /\ Types \subseteq {"Shared", "Key_Shared"} /\ Types # {}
  /\ MaxRedeliver \in Nat /\ MaxFaults \in Nat
  /\ Sent \in Seq(Range(Sent))
  /\ \A i \in DOMAIN Sent : Sent[i].poison \in BOOLEAN /\ Sent[i].id # None

Events == Range(Sent)

VARIABLES
  type,      \* type of the subscription
  topic,     \* broker: messages of the topic and its retry topic, in the order published
  acked,     \* broker: indices of acknowledged messages
  dlq,       \* broker: events in the dead letter topic
  file,      \* the ledger: frames, in order
  lock,      \* the worker that holds the file lock
  pc,        \* where each worker stands
  held,      \* index of the message a worker is processing
  late,      \* workers whose acknowledgement timeout has expired
  faults     \* faults so far

broker == <<topic, acked, dlq>>
vars   == <<type, broker, file, lock, pc, held, late, faults>>

\* Part of a frame.
Torn == [id |-> None]

Entry(e) == [id |-> e.id, body |-> e.body]

Init ==
  /\ type \in Types
  /\ topic = <<>>
  /\ acked = {}
  /\ dlq = {}
  /\ file = <<>>
  /\ lock = None
  /\ pc = [w \in Workers |-> "down"]
  /\ held = [w \in Workers |-> 0]
  /\ late = {}
  /\ faults = 0

Fault == faults < MaxFaults /\ faults' = faults + 1

Event(w) == topic[held[w]].event

-----------------------------------------------------------------------------
(* The ledger.                                                             *)

\* -- Mutants: mistakes the properties must notice.

\* A reader that cuts a whole record off with it.
RepairedTooMuch(f) ==
  IF f # <<>> /\ f[Len(f)] = Torn THEN SubSeq(f, 1, IF Len(f) > 1 THEN Len(f) - 2 ELSE 0) ELSE f

\* A map that is cleared and not read again.
SeenNothing == {}

\* An event that was applied before is taken for a failure.
VerdictRefusesKnown(w, seen) ==
  IF Event(w).poison \/ \E n \in seen : n.id = Event(w).id THEN "failed" ELSE "append"

\* A poison event that is acknowledged like any other.
VerdictAcksPoison(w, seen) ==
  IF Event(w).poison \/ Entry(Event(w)) \in seen THEN "applied" ELSE "append"

\* A file lock that an exception leaves behind.
UnlockedNot(w) == lock

\* A message that is retried without end.
GivesUpNever(times) == FALSE

\* -- The code.

\* A partial frame that is not the last one makes reloadAndRepair throw.
Corrupt(f) == \E i \in 1 .. Len(f) - 1 : f[i] = Torn

Repaired(f) == IF f # <<>> /\ f[Len(f)] = Torn THEN SubSeq(f, 1, Len(f) - 1) ELSE f

\* InboxStore.entries, which every apply reads again from the whole file.
Seen == Range(Repaired(file))

\* apply, once the map is there: a known event is a success, a known id with another
\* fingerprint and a poison event throw.
Verdict(w, seen) ==
  IF Entry(Event(w)) \in seen THEN "applied"
  ELSE IF Event(w).poison \/ \E n \in seen : n.id = Event(w).id THEN "failed"
  ELSE "append"

\* The finally clause of apply.
Unlocked(w) == IF lock = w THEN None ELSE lock

\* The dead letter policy, asked before a message goes out for the given time again.
GivesUp(times) == times > MaxRedeliver

-----------------------------------------------------------------------------
(* The broker and the producers.                                           *)

Message(e, times) == [event |-> e, times |-> times, redelivered |-> 0]

Published == Cardinality({i \in DOMAIN topic : topic[i].times = 0})

Publish ==
  /\ Published < Len(Sent)
  /\ topic' = Append(topic, Message(Sent[Published + 1], 0))
  /\ UNCHANGED <<type, acked, dlq, file, lock, pc, held, late, faults>>

\* A message is with one consumer at a time, unless that one took too long.
Available == {i \in DOMAIN topic \ acked : \A v \in Workers \ late : held[v] # i}

\* ackTimeout: the message is delivered again while the worker still has it, or is
\* dead-lettered if that happened often enough.
AckTimeout(w) ==
  /\ Fault
  /\ held[w] \in DOMAIN topic \ acked
  /\ w \notin late
  /\ late' = late \cup {w}
  /\ IF type = "Shared" /\ GivesUp(topic[held[w]].redelivered + 1)
     THEN dlq' = dlq \cup {Event(w)} /\ acked' = acked \cup {held[w]} /\ UNCHANGED topic
     ELSE topic' = [topic EXCEPT ![held[w]].redelivered = @ + 1] /\ UNCHANGED <<dlq, acked>>
  /\ UNCHANGED <<type, file, lock, pc, held>>

-----------------------------------------------------------------------------
(* The workers.                                                            *)

Goto(w, point) == pc' = [pc EXCEPT ![w] = point]

\* A worker lets go of its message.
Drop(w) == held' = [held EXCEPT ![w] = 0] /\ late' = late \ {w}

\* new InboxStore and new Consumer; a corrupt ledger ends the process at once.
Open(w) ==
  /\ pc[w] = "down" /\ lock = None
  /\ ~Corrupt(file)
  /\ file' = Repaired(file)
  /\ Goto(w, "idle")
  /\ UNCHANGED <<type, broker, lock, held, late, faults>>

Receive(w) ==
  /\ pc[w] = "idle"
  /\ \E i \in Available : held' = [held EXCEPT ![w] = i]
  /\ Goto(w, "received")
  /\ UNCHANGED <<type, broker, file, lock, late, faults>>

\* apply up to its decision, under both locks; they are given back if it is all.
Look(w) ==
  /\ pc[w] = "received" /\ lock = None
  /\ IF Corrupt(file)
     THEN Goto(w, "failed") /\ UNCHANGED <<file, lock>>
     ELSE LET seen == Seen IN
          /\ file' = Repaired(file)
          /\ lock' = IF Verdict(w, seen) = "append" THEN w ELSE None
          /\ Goto(w, Verdict(w, seen))
  /\ UNCHANGED <<type, broker, held, late, faults>>

\* appendRecord writes the whole frame behind whatever the file holds and forces it;
\* the locks are released.
Write(w) ==
  /\ pc[w] = "append"
  /\ file' = Append(file, Entry(Event(w)))
  /\ lock' = Unlocked(w)
  /\ Goto(w, "applied")
  /\ UNCHANGED <<type, broker, held, late, faults>>

\* What an append that does not come to its end may leave behind.
Remains(w) == {file, Append(file, Torn), Append(file, Entry(Event(w)))}

\* An IOException in apply: the locks are released and the event fails.
IoError(w) ==
  /\ Fault
  /\ \/ pc[w] = "received" /\ UNCHANGED file
     \/ pc[w] = "append" /\ file' \in Remains(w)
  /\ lock' = Unlocked(w)
  /\ Goto(w, "failed")
  /\ UNCHANGED <<type, broker, held, late>>

Acknowledge(w) ==
  /\ pc[w] \in {"applied", "republished"}
  /\ acked' = acked \cup {held[w]}
  /\ Drop(w)
  /\ Goto(w, "idle")
  /\ UNCHANGED <<type, topic, dlq, file, lock, faults>>

\* reconsumeLater: the event goes to the retry topic or to the dead letter topic,
\* and only then is the message acknowledged.
Republish(w) ==
  /\ pc[w] = "failed" /\ type = "Shared"
  /\ LET times == topic[held[w]].times + 1 IN
     IF GivesUp(times)
     THEN dlq' = dlq \cup {Event(w)} /\ UNCHANGED topic
     ELSE topic' = Append(topic, Message(Event(w), times)) /\ UNCHANGED dlq
  /\ Goto(w, "republished")
  /\ UNCHANGED <<type, acked, file, lock, held, late, faults>>

\* negativeAcknowledge: the message will be delivered again.
Nack(w) ==
  /\ pc[w] = "failed" /\ type = "Key_Shared"
  /\ Drop(w)
  /\ Goto(w, "idle")
  /\ UNCHANGED <<type, broker, file, lock, faults>>

\* The process ends: killed, stopped, or by a PulsarClientException, which no handler
\* catches.  It may leave part of a frame, and an acknowledgement on its way counts
\* or does not.  The file lock goes with the process.
Crash(w) ==
  /\ Fault
  /\ pc[w] # "down"
  /\ file' \in IF pc[w] = "append" THEN Remains(w) ELSE {file}
  /\ acked' \in {acked} \cup IF pc[w] \in {"applied", "republished"} THEN {acked \cup {held[w]}} ELSE {}
  /\ lock' = IF lock = w THEN None ELSE lock
  /\ Drop(w)
  /\ Goto(w, "down")
  /\ UNCHANGED <<type, topic, dlq>>

Work(w) ==
  \/ Open(w) \/ Receive(w) \/ Look(w) \/ Write(w)
  \/ Acknowledge(w) \/ Republish(w) \/ Nack(w)

Next ==
  \/ Publish
  \/ \E w \in Workers : Work(w) \/ IoError(w) \/ AckTimeout(w) \/ Crash(w)

Spec == Init /\ [][Next]_vars

\* A worker goes on and is started again after it ended; producers and faults are
\* not fair.
FairSpec == Spec /\ \A w \in Workers : WF_vars(Work(w))

-----------------------------------------------------------------------------
(* Properties.                                                             *)

Points == {"down", "idle", "received", "append", "applied", "failed", "republished"}

Entries == {Entry(e) : e \in Events}

\* The values every variable ranges over; a message is retried as often as the
\* policy says, and a worker that writes has the lock.
TypeOK ==
  /\ type \in Types
  /\ topic \in Seq([event : Events, times : 0 .. MaxRedeliver, redelivered : Nat])
  /\ acked \subseteq DOMAIN topic
  /\ dlq \subseteq Events
  /\ file \in Seq(Entries \cup {Torn})
  /\ lock \in Workers \cup {None}
  /\ pc \in [Workers -> Points]
  /\ \A w \in Workers : pc[w] = "append" <=> lock = w
  /\ held \in [Workers -> DOMAIN topic \cup {0}]
  /\ \A w \in Workers : held[w] = 0 <=> pc[w] \in {"down", "idle"}
  /\ late \subseteq Workers
  /\ faults \in Nat

\* The effects in the ledger: no event id has two, whichever workers processed its
\* deliveries and wherever they died between the append and the acknowledgement.
OneEffect ==
  \A i, j \in DOMAIN file : file[i].id = file[j].id => i = j

\* No event is lost: a message that is acknowledged has its effect in the ledger, or
\* was sent again, or lies in the dead letter topic.
NothingLost ==
  \A i \in acked :
    LET e == topic[i].event IN
    \/ Entry(e) \in Range(file)
    \/ e \in dlq
    \/ \E j \in DOMAIN topic : topic[j].event = e /\ topic[j].times = topic[i].times + 1

\* An event goes to the dead letter topic for a reason: it cannot be applied (poison,
\* or its id taken by another payload), or more things failed than the policy allows.
DeadLettersEarned ==
  \A e \in dlq :
    \/ e.poison
    \/ \E n \in Range(file) : n.id = e.id /\ n # Entry(e)
    \/ faults > MaxRedeliver

\* Repairing the ledger never costs a whole record: every effect that was written
\* stays, in its place.
EffectsStay ==
  [][\A i \in DOMAIN file : file[i] # Torn => i \in DOMAIN file' /\ file'[i] = file[i]]_vars

\* With retry topics, if faults stop and the workers run, every message is
\* acknowledged in the end, the poisonous ones by way of the dead letter topic.
Settles == type = "Shared" => <>[](acked = DOMAIN topic)
=============================================================================
