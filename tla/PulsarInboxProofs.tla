-------------------------- MODULE PulsarInboxProofs --------------------------
(***************************************************************************)
(* Proofs about the workers over one ledger, for any number of them, any   *)
(* sequence of events, either subscription type and any number of faults.  *)
(*                                                                         *)
(* The argument: part of a frame is only ever the last thing in the file,  *)
(* and not while a worker holds the lock (TornLast), so that a reader cuts *)
(* off nothing else and never finds the file corrupt.  A worker that holds *)
(* the lock has seen that the id it is about to append is not there        *)
(* (AppendInv), and nobody else touches the file until it lets go.  What a *)
(* worker acknowledges it has applied or sent on (DoneInv).  A message in  *)
(* its n-th round has cost n faults, unless its event is rejected each     *)
(* time (FaultInv).                                                        *)
(***************************************************************************)
EXTENDS PulsarInbox, TLAPS, FiniteSetTheorems, SequenceTheorems

TornLast == \A i \in DOMAIN file : file[i] = Torn => i = Len(file) /\ lock = None

AppendInv ==
  \A w \in Workers : pc[w] = "append" =>
    ~Event(w).poison /\ \A n \in Range(file) : n.id # Event(w).id

\* The message at i went out again, or its event to the dead letter topic.
SentOn(i) ==
  \/ topic[i].event \in dlq
  \/ \E j \in DOMAIN topic : topic[j].event = topic[i].event /\ topic[j].times = topic[i].times + 1

DoneInv ==
  \A w \in Workers :
    /\ pc[w] = "applied" => Entry(Event(w)) \in Range(file)
    /\ pc[w] = "republished" => SentOn(held[w])

\* An event that apply refuses however often it is tried.
Rejected(e) == e.poison \/ \E n \in Range(file) : n.id = e.id /\ n # Entry(e)

\* The same of the state after a step, for an index or an event of the state before it.
SentOnNext(i) ==
  \/ topic'[i].event \in dlq'
  \/ \E j \in DOMAIN topic' : topic'[j].event = topic'[i].event /\ topic'[j].times = topic'[i].times + 1
RejectedNext(e) == e.poison \/ \E n \in Range(file') : n.id = e.id /\ n # Entry(e)

FaultInv ==
  /\ \A i \in DOMAIN topic :
       Rejected(topic[i].event) \/ (topic[i].times <= faults /\ topic[i].redelivered <= faults)
  /\ \A w \in Workers : pc[w] = "failed" => Rejected(Event(w)) \/ topic[held[w]].times < faults

IInv ==
  /\ TypeOK /\ TornLast /\ OneEffect /\ AppendInv
  /\ DoneInv /\ NothingLost /\ FaultInv /\ DeadLettersEarned

-----------------------------------------------------------------------------
(* Facts about events, frames and what any step leaves alone.              *)

\* An event has an id, so its entry is not a part of a frame.
LEMMA EntryIsWhole ==
  ASSUME NEW e \in Events
  PROVE  Entry(e) # Torn /\ Entry(e).id = e.id /\ e.id # None
<1>1. PICK i \in DOMAIN Sent : e = Sent[i]
  BY DEF Events, Range
<1>2. e.id # None
  BY <1>1, PulsarAssumption
<1>3. Entry(e).id = e.id /\ Torn.id = None
  BY DEF Entry, Torn
<1> QED BY <1>2, <1>3

\* A worker that is not idle has a message, and knows its event.
LEMMA HeldIsMessage ==
  ASSUME TypeOK, NEW w \in Workers, pc[w] \notin {"down", "idle"}
  PROVE  held[w] \in DOMAIN topic /\ Event(w) \in Events
<1>1. held[w] \in DOMAIN topic
  BY DEF TypeOK
<1>2. topic[held[w]] \in [event : Events, times : 0 .. MaxRedeliver, redelivered : Nat]
  <2> DEFINE M == [event : Events, times : 0 .. MaxRedeliver, redelivered : Nat]
  <2>1. topic \in Seq(M)
    BY DEF TypeOK
  <2> HIDE DEF M
  <2>2. topic[held[w]] \in M
    BY <1>1, <2>1
  <2> QED BY <2>2 DEF M
<1> QED BY <1>1, <1>2 DEF Event

LEMMA RepairedFile ==
  ASSUME TypeOK, TornLast
  PROVE  /\ Repaired(file) \in Seq(Entries \cup {Torn})
         /\ \A i \in DOMAIN Repaired(file) : i \in DOMAIN file /\ Repaired(file)[i] = file[i] /\ file[i] # Torn
         /\ \A i \in DOMAIN file : file[i] # Torn => i \in DOMAIN Repaired(file)
         /\ ~Corrupt(file)
<1> DEFINE S == Entries \cup {Torn}
<1>1. file \in Seq(S) /\ Len(file) \in Nat /\ DOMAIN file = 1 .. Len(file)
  BY LenProperties DEF TypeOK
<1>2. ~Corrupt(file)
  BY <1>1 DEF Corrupt, TornLast
<1>3. CASE file # <<>> /\ file[Len(file)] = Torn
  <2>1. Len(file) \in Nat \ {0}
    BY <1>1, <1>3, EmptySeq
  <2>2. Repaired(file) = SubSeq(file, 1, Len(file) - 1)
    BY <1>3 DEF Repaired
  <2>3. \A i \in 1 .. Len(file) - 1 : file[i] \in S
    BY <1>1, <2>1, ElementOfSeq
  <2>4. /\ Repaired(file) \in Seq(S) /\ Len(Repaired(file)) = Len(file) - 1
        /\ \A i \in 1 .. Len(file) - 1 : Repaired(file)[i] = file[i]
    <3>1. 1 \in Int /\ Len(file) - 1 \in Int
      BY <1>1
    <3>2. /\ SubSeq(file, 1, Len(file) - 1) \in Seq(S)
          /\ Len(SubSeq(file, 1, Len(file) - 1)) =
               IF 1 <= Len(file) - 1 THEN (Len(file) - 1) - 1 + 1 ELSE 0
          /\ \A i \in 1 .. (Len(file) - 1) - 1 + 1 : SubSeq(file, 1, Len(file) - 1)[i] = file[1 + i - 1]
      BY <2>3, <3>1, SubSeqProperties
    <3>3. /\ (Len(file) - 1) - 1 + 1 = Len(file) - 1
          /\ (IF 1 <= Len(file) - 1 THEN (Len(file) - 1) - 1 + 1 ELSE 0) = Len(file) - 1
          /\ \A i \in 1 .. Len(file) - 1 : 1 + i - 1 = i
      <4> DEFINE n == Len(file)
      <4>1. n \in Nat \ {0}
        BY <2>1
      <4> HIDE DEF n
      <4>2. /\ (n - 1) - 1 + 1 = n - 1
            /\ (IF 1 <= n - 1 THEN (n - 1) - 1 + 1 ELSE 0) = n - 1
            /\ \A i \in 1 .. n - 1 : 1 + i - 1 = i
        BY <4>1
      <4> QED BY <4>2, Zenon DEF n
    <3> QED BY <2>2, <3>2, <3>3, Zenon
  <2>5. DOMAIN Repaired(file) = 1 .. Len(file) - 1
    BY <2>4, LenProperties
  <2>6. \A i \in 1 .. Len(file) - 1 : file[i] # Torn
    BY <1>1, <2>1 DEF TornLast
  <2> QED BY <1>1, <1>2, <1>3, <2>1, <2>4, <2>5, <2>6
<1>4. CASE ~(file # <<>> /\ file[Len(file)] = Torn)
  <2>1. Repaired(file) = file
    BY <1>4 DEF Repaired
  <2>2. \A i \in DOMAIN file : file[i] # Torn
    BY <1>1, <1>4, EmptySeq DEF TornLast
  <2> QED BY <1>1, <1>2, <2>1, <2>2
<1> QED BY <1>3, <1>4

\* What a step may do to the file.
FileStep ==
  \/ file' = file /\ lock' \in {lock, None}
  \/ lock = None /\ file' = Repaired(file) /\ \A i \in DOMAIN file' : file'[i] # Torn
  \/ \E w \in Workers : pc[w] = "append" /\ pc'[w] # "append" /\ lock' = None /\ file' \in Remains(w)

\* No whole frame moves or goes.
FramesStay == \A i \in DOMAIN file : file[i] # Torn => i \in DOMAIN file' /\ file'[i] = file[i]

\* Messages are neither renumbered nor replaced, and nothing is forgotten.
BrokerKeeps ==
  /\ \A i \in DOMAIN topic :
       i \in DOMAIN topic' /\ topic'[i].event = topic[i].event /\ topic'[i].times = topic[i].times
  /\ dlq \subseteq dlq'
  /\ faults <= faults' /\ faults' \in Nat

LEMMA AppendedFile ==
  ASSUME TypeOK, NEW f \in Entries \cup {Torn}
  PROVE  /\ Append(file, f) \in Seq(Entries \cup {Torn})
         /\ DOMAIN Append(file, f) = DOMAIN file \cup {Len(file) + 1}
         /\ \A i \in DOMAIN file : Append(file, f)[i] = file[i]
         /\ Append(file, f)[Len(file) + 1] = f
         /\ Len(Append(file, f)) = Len(file) + 1
         /\ DOMAIN file = 1 .. Len(file) /\ Len(file) \in Nat
<1>1. file \in Seq(Entries \cup {Torn})
  BY DEF TypeOK
<1>2. DOMAIN file = 1 .. Len(file) /\ Len(file) \in Nat
  BY <1>1, LenProperties
<1>3. /\ Append(file, f) \in Seq(Entries \cup {Torn})
      /\ Len(Append(file, f)) = Len(file) + 1
      /\ \A i \in 1 .. Len(file) : Append(file, f)[i] = file[i]
      /\ Append(file, f)[Len(file) + 1] = f
  BY <1>1, AppendProperties
<1>4. DOMAIN Append(file, f) = 1 .. Len(file) + 1
  BY <1>3, LenProperties
<1> QED BY <1>2, <1>3, <1>4

LEMMA FrameOfEvent ==
  ASSUME TypeOK, NEW w \in Workers, pc[w] = "append", NEW f \in Remains(w)
  PROVE  f = file \/ \E g \in Entries \cup {Torn} : f = Append(file, g) /\ (g = Torn \/ g = Entry(Event(w)))
BY HeldIsMessage DEF Remains, Entries

\* A whole frame stays where it is through any of these steps.
LEMMA FileStepKeeps ==
  ASSUME TypeOK, TornLast, FileStep
  PROVE  FramesStay /\ file' \in Seq(Entries \cup {Torn})
<1>1. CASE file' = file
  BY <1>1 DEF FramesStay, TypeOK
<1>2. CASE file' = Repaired(file)
  BY <1>2, RepairedFile DEF FramesStay
<1>3. ASSUME NEW w \in Workers, pc[w] = "append", file' \in Remains(w)
      PROVE  FramesStay /\ file' \in Seq(Entries \cup {Torn})
  <2>1. CASE file' = file
    BY <2>1 DEF FramesStay, TypeOK
  <2>2. CASE \E g \in Entries \cup {Torn} : file' = Append(file, g)
    BY <2>2, AppendedFile DEF FramesStay
  <2> QED BY <1>3, <2>1, <2>2, FrameOfEvent
<1> QED BY <1>1, <1>2, <1>3 DEF FileStep

LEMMA EntriesStay ==
  ASSUME FramesStay
  PROVE  /\ \A n \in Range(file) : n # Torn => n \in Range(file')
         /\ \A e \in Events : Rejected(e) => RejectedNext(e)
<1>1. \A n \in Range(file) : n # Torn => n \in Range(file')
  BY DEF FramesStay, Range
<1>2. ASSUME NEW e \in Events, Rejected(e) PROVE RejectedNext(e)
  <2>1. Torn.id = None /\ e.id # None
    BY EntryIsWhole DEF Torn
  <2> QED BY <1>1, <1>2, <2>1 DEF Rejected, RejectedNext
<1> QED BY <1>1, <1>2
-----------------------------------------------------------------------------
(* What each step does, in the terms of the invariant.                     *)

Messages == [event : Events, times : 0 .. MaxRedeliver, redelivered : Nat]

\* A worker keeps its place, or begins anew, or gets ahead with its message.
WorkerStep(v) ==
  \/ pc'[v] = pc[v] /\ held'[v] = held[v]
  \/ pc'[v] \in {"down", "idle", "received"}
  \/ /\ held'[v] = held[v] /\ pc[v] \notin {"down", "idle"}
     /\ \/ pc'[v] = "append" /\ ~Event(v).poison /\ \A n \in Range(file') : n.id # Event(v).id
        \/ pc'[v] = "applied" /\ Entry(Event(v)) \in Range(file')
        \/ pc'[v] = "failed" /\ (RejectedNext(Event(v)) \/ topic[held[v]].times < faults')
        \/ pc'[v] = "republished" /\ SentOnNext(held[v])

\* A message is new, in its first round or after a failure, or delivered again.
MessageStep(i) ==
  \/ i \in DOMAIN topic /\ topic'[i].redelivered = topic[i].redelivered
  \/ i \in DOMAIN topic /\ topic'[i].redelivered = topic[i].redelivered + 1 /\ faults' = faults + 1
  \/ topic'[i].redelivered = 0 /\ topic'[i].times = 0
  \/ /\ topic'[i].redelivered = 0
     /\ \E w \in Workers : /\ pc[w] = "failed" /\ topic'[i].event = Event(w)
                           /\ topic'[i].times = topic[held[w]].times + 1

AckStep(i) ==
  /\ i \in DOMAIN topic
  /\ \/ \E w \in Workers : held[w] = i /\ pc[w] \in {"applied", "republished"}
     \/ topic[i].event \in dlq'

DeadStep(e) ==
  \E w \in Workers :
    /\ e = Event(w) /\ pc[w] \notin {"down", "idle"}
    /\ \/ pc[w] = "failed" /\ topic[held[w]].times + 1 > MaxRedeliver
       \/ topic[held[w]].redelivered + 1 > MaxRedeliver /\ faults' = faults + 1

StepFacts ==
  /\ TypeOK' /\ FileStep /\ BrokerKeeps
  /\ \A v \in Workers : WorkerStep(v)
  /\ \A i \in DOMAIN topic' : MessageStep(i)
  /\ \A i \in acked' \ acked : AckStep(i)
  /\ \A e \in dlq' \ dlq : DeadStep(e)

\* A step that leaves the topic, the acknowledgements and the dead letters alone.
LEMMA BrokerSame ==
  ASSUME TypeOK, UNCHANGED broker, faults' \in {faults, faults + 1}
  PROVE  /\ BrokerKeeps
         /\ \A i \in DOMAIN topic' : MessageStep(i)
         /\ \A i \in acked' \ acked : AckStep(i)
         /\ \A e \in dlq' \ dlq : DeadStep(e)
BY DEF TypeOK, broker, BrokerKeeps, MessageStep

LEMMA AppendedMessage ==
  ASSUME topic \in Seq(Messages), NEW m \in Messages
  PROVE  /\ Append(topic, m) \in Seq(Messages) /\ Len(Append(topic, m)) = Len(topic) + 1
         /\ \A i \in 1 .. Len(topic) : Append(topic, m)[i] = topic[i]
         /\ Append(topic, m)[Len(topic) + 1] = m
<1> DEFINE M == Messages
<1>1. topic \in Seq(M) /\ m \in M
  OBVIOUS
<1> HIDE DEF M
<1>2. /\ Append(topic, m) \in Seq(M) /\ Len(Append(topic, m)) = Len(topic) + 1
      /\ \A i \in 1 .. Len(topic) : Append(topic, m)[i] = topic[i]
      /\ Append(topic, m)[Len(topic) + 1] = m
  BY <1>1, AppendProperties
<1> QED BY <1>2 DEF M

LEMMA PublishFacts == IInv /\ Publish => StepFacts
<1> SUFFICES ASSUME IInv, Publish PROVE StepFacts OBVIOUS
<1> USE DEF IInv, Publish
<1> DEFINE n == Published + 1   m == Message(Sent[n], 0)
<1>1. topic \in Seq(Messages) /\ DOMAIN topic = 1 .. Len(topic) /\ Len(topic) \in Nat
  BY LenProperties DEF TypeOK, Messages
<1>2. m \in Messages
  <2>1. Published \in Nat
    <3>1. IsFiniteSet(1 .. Len(topic))
      BY <1>1, FS_Interval
    <3>2. IsFiniteSet({i \in DOMAIN topic : topic[i].times = 0})
      BY <1>1, <3>1, FS_Subset
    <3> QED BY <3>2, FS_CardinalityType DEF Published
  <2>2. Len(Sent) \in Nat /\ DOMAIN Sent = 1 .. Len(Sent)
    BY PulsarAssumption, LenProperties
  <2>3. n \in DOMAIN Sent
    BY <2>1, <2>2
  <2>4. Sent[n] \in Events
    BY <2>3 DEF Events, Range
  <2> QED BY <2>4, PulsarAssumption DEF Message, Messages
<1> HIDE DEF m
<1>3. /\ topic' \in Seq(Messages) /\ Len(topic') = Len(topic) + 1
      /\ \A i \in 1 .. Len(topic) : topic'[i] = topic[i]
      /\ topic'[Len(topic) + 1] = m
  <2>1. topic' = Append(topic, m)
    BY DEF m
  <2> QED BY <1>1, <1>2, <2>1, AppendProperties
<1>4. DOMAIN topic' = 1 .. Len(topic) + 1
  BY <1>3, LenProperties
<1>5. m.redelivered = 0 /\ m.times = 0
  BY DEF m, Message
<1>6. TypeOK'
  BY <1>1, <1>3, <1>4 DEF TypeOK, Messages
<1>7. BrokerKeeps
  BY <1>1, <1>3, <1>4 DEF BrokerKeeps, TypeOK
<1>8. \A i \in DOMAIN topic' : MessageStep(i)
  BY <1>1, <1>3, <1>4, <1>5 DEF MessageStep
<1> QED BY <1>6, <1>7, <1>8 DEF StepFacts, FileStep, WorkerStep

LEMMA AckTimeoutFacts == ASSUME NEW w \in Workers PROVE IInv /\ AckTimeout(w) => StepFacts
<1> SUFFICES ASSUME IInv, AckTimeout(w) PROVE StepFacts OBVIOUS
<1>0. TypeOK
  BY DEF IInv
<1>1. topic \in Seq(Messages) /\ DOMAIN topic = 1 .. Len(topic) /\ Len(topic) \in Nat
  <2>1. topic \in Seq(Messages)
    BY <1>0 DEF TypeOK, Messages
  <2> QED BY <2>1, LenProperties
<1>2. held[w] \in DOMAIN topic /\ pc[w] \notin {"down", "idle"} /\ Event(w) \in Events
  <2>1. held[w] \in DOMAIN topic
    BY DEF AckTimeout
  <2>2. held[w] # 0
    BY <1>1, <2>1
  <2>3. pc[w] \notin {"down", "idle"}
    BY <1>0, <2>2 DEF TypeOK
  <2> QED BY <1>0, <2>1, <2>3, HeldIsMessage
<1> USE DEF IInv, AckTimeout, Fault
<1>3. faults \in Nat /\ faults' = faults + 1
  BY DEF TypeOK
<1>4. late' \subseteq Workers
  BY DEF TypeOK
<1>5. CASE type = "Shared" /\ GivesUp(topic[held[w]].redelivered + 1)
  <2>1. TypeOK'
    BY <1>2, <1>3, <1>4, <1>5 DEF TypeOK
  <2>2. DeadStep(Event(w)) /\ AckStep(held[w])
    BY <1>2, <1>3, <1>5 DEF DeadStep, AckStep, GivesUp, Event
  <2> QED BY <1>3, <1>5, <2>1, <2>2 DEF StepFacts, FileStep, BrokerKeeps, WorkerStep, MessageStep
<1>6. CASE ~(type = "Shared" /\ GivesUp(topic[held[w]].redelivered + 1))
  <2> DEFINE m == [topic[held[w]] EXCEPT !.redelivered = @ + 1]
  <2>1. topic' = [topic EXCEPT ![held[w]] = m]
    BY <1>6
  <2>2. topic[held[w]] \in Messages
    BY <1>1, <1>2
  <2>3. /\ m \in Messages /\ m.event = topic[held[w]].event /\ m.times = topic[held[w]].times
        /\ m.redelivered = topic[held[w]].redelivered + 1
    BY <2>2 DEF Messages
  <2> HIDE DEF m
  <2>4. /\ topic' \in Seq(Messages) /\ DOMAIN topic' = DOMAIN topic
        /\ \A i \in DOMAIN topic : topic'[i] = IF i = held[w] THEN m ELSE topic[i]
    BY <1>1, <1>2, <2>1, <2>3, ExceptSeq
  <2>5. TypeOK'
    <3>1. UNCHANGED <<type, dlq, acked, file, lock, pc, held>>
      BY <1>6
    <3> HIDE DEF AckTimeout, Fault, IInv
    <3> QED BY <1>0, <1>3, <1>4, <2>4, <3>1 DEF TypeOK, Messages
  <2>6. BrokerKeeps
    BY <1>3, <1>6, <2>3, <2>4 DEF BrokerKeeps
  <2>7. \A i \in DOMAIN topic' : MessageStep(i)
    BY <1>3, <2>3, <2>4 DEF MessageStep
  <2> QED BY <1>6, <2>5, <2>6, <2>7 DEF StepFacts, FileStep, WorkerStep
<1> QED BY <1>5, <1>6
LEMMA OpenFacts == ASSUME NEW w \in Workers PROVE IInv /\ Open(w) => StepFacts
<1> SUFFICES ASSUME IInv, Open(w) PROVE StepFacts OBVIOUS
<1> USE DEF IInv, Open, Goto, broker
<1>1. Repaired(file) \in Seq(Entries \cup {Torn}) /\ \A i \in DOMAIN file' : file'[i] # Torn
  BY RepairedFile
<1>2. TypeOK'
  BY <1>1 DEF TypeOK, Points
<1>3. \A v \in Workers : WorkerStep(v)
  BY DEF TypeOK, WorkerStep
<1> QED BY <1>1, <1>2, <1>3, BrokerSame DEF StepFacts, FileStep

LEMMA ReceiveFacts == ASSUME NEW w \in Workers PROVE IInv /\ Receive(w) => StepFacts
<1> SUFFICES ASSUME IInv, Receive(w) PROVE StepFacts OBVIOUS
<1> USE DEF IInv, Receive, Goto, broker
<1>1. PICK i \in DOMAIN topic : held' = [held EXCEPT ![w] = i]
  BY DEF Available
<1>2. i # 0
  BY <1>1, LenProperties DEF TypeOK
<1>3. TypeOK'
  BY <1>1, <1>2 DEF TypeOK, Points
<1>4. \A v \in Workers : WorkerStep(v)
  BY <1>1 DEF TypeOK, WorkerStep
<1> QED BY <1>3, <1>4, BrokerSame DEF StepFacts, FileStep

LEMMA LookFacts == ASSUME NEW w \in Workers PROVE IInv /\ Look(w) => StepFacts
<1> SUFFICES ASSUME IInv, Look(w) PROVE StepFacts OBVIOUS
<1> USE DEF IInv, Look, Goto, broker
<1> DEFINE verdict == Verdict(w, Seen)
<1>1. /\ file' = Repaired(file) /\ lock' = IF verdict = "append" THEN w ELSE None
      /\ pc' = [pc EXCEPT ![w] = verdict]
      /\ file' \in Seq(Entries \cup {Torn}) /\ \A i \in DOMAIN file' : file'[i] # Torn
      /\ Seen = Range(file')
  BY RepairedFile DEF Seen
<1>2. held[w] \in DOMAIN topic /\ Event(w) \in Events /\ Event(w)' = Event(w)
  BY HeldIsMessage DEF Event
<1>3. verdict \in {"append", "applied", "failed"}
  BY DEF Verdict
<1>4. TypeOK'
  <2>1. w # None /\ None \notin Workers
    BY PulsarAssumption
  <2>2. pc' \in [Workers -> Points] /\ lock' \in Workers \cup {None}
    BY <1>1, <1>3 DEF TypeOK, Points
  <2>3. \A v \in Workers : pc'[v] = "append" <=> lock' = v
    BY <1>1, <2>1 DEF TypeOK
  <2>4. \A v \in Workers : held'[v] = 0 <=> pc'[v] \in {"down", "idle"}
    BY <1>1, <1>3 DEF TypeOK
  <2> QED BY <1>1, <2>2, <2>3, <2>4 DEF TypeOK
<1>5. WorkerStep(w)
  <2>1. CASE verdict = "append"
    BY <1>1, <2>1 DEF Verdict, WorkerStep, TypeOK
  <2>2. CASE verdict = "applied"
    BY <1>1, <2>2 DEF Verdict, WorkerStep, TypeOK
  <2>3. CASE verdict = "failed"
    <3>0. /\ Entry(Event(w)) \notin Seen
          /\ Event(w).poison \/ \E n \in Seen : n.id = Event(w).id
      <4>1. Entry(Event(w)) \in Seen => verdict = "applied"
        BY DEF Verdict
      <4>2. Entry(Event(w)) \notin Seen /\ ~Event(w).poison /\ ~(\E n \in Seen : n.id = Event(w).id)
              => verdict = "append"
        BY DEF Verdict
      <4> QED BY <2>3, <4>1, <4>2
    <3>1. RejectedNext(Event(w))
      BY <1>1, <3>0, Zenon DEF RejectedNext
    <3> QED BY <1>1, <2>3, <3>1 DEF WorkerStep, TypeOK
  <2> QED BY <1>3, <2>1, <2>2, <2>3
<1>6. \A v \in Workers : WorkerStep(v)
  BY <1>1, <1>5 DEF TypeOK, WorkerStep
<1> QED BY <1>1, <1>4, <1>6, BrokerSame DEF StepFacts, FileStep

\* Who holds the lock is writing, and nobody else is.
LEMMA LockIsHeld ==
  ASSUME TypeOK, NEW w \in Workers, pc[w] = "append"
  PROVE  lock = w /\ w # None /\ (\A v \in Workers : pc[v] = "append" => v = w)
BY PulsarAssumption DEF TypeOK

LEMMA WriteFacts == ASSUME NEW w \in Workers PROVE IInv /\ Write(w) => StepFacts
<1> SUFFICES ASSUME IInv, Write(w) PROVE StepFacts OBVIOUS
<1> USE DEF IInv, Write, Goto, broker
<1>1. lock = w /\ lock' = None /\ w # None /\ None \notin Workers
      /\ \A v \in Workers : pc[v] = "append" => v = w
  BY LockIsHeld, PulsarAssumption DEF Unlocked
<1>2. Entry(Event(w)) \in Entries
  BY HeldIsMessage DEF Entries
<1>3. /\ file' \in Seq(Entries \cup {Torn}) /\ Entry(Event(w)) \in Range(file')
      /\ file' \in Remains(w)
  BY <1>2, AppendedFile DEF Remains, Range
<1>4. TypeOK'
  BY <1>1, <1>3 DEF TypeOK, Points
<1>5. \A v \in Workers : WorkerStep(v)
  BY <1>3 DEF TypeOK, WorkerStep
<1>6. FileStep
  BY <1>1, <1>3 DEF TypeOK, FileStep
<1> QED BY <1>4, <1>5, <1>6, BrokerSame DEF StepFacts

\* What an append leaves behind is still a file.
LEMMA RemainsIsFile ==
  ASSUME TypeOK, NEW w \in Workers, pc[w] = "append", NEW f \in Remains(w)
  PROVE  f \in Seq(Entries \cup {Torn})
<1>1. CASE f = file
  BY <1>1 DEF TypeOK
<1>2. CASE \E g \in Entries \cup {Torn} : f = Append(file, g)
  BY <1>2, AppendedFile
<1> QED BY <1>1, <1>2, FrameOfEvent

LEMMA IoErrorFacts == ASSUME NEW w \in Workers PROVE IInv /\ IoError(w) => StepFacts
<1> SUFFICES ASSUME IInv, IoError(w) PROVE StepFacts OBVIOUS
<1> USE DEF IInv, IoError, Goto, broker, Fault
<1>1. faults \in Nat /\ faults' = faults + 1
  BY DEF TypeOK
<1>2. held[w] \in DOMAIN topic /\ Event(w) \in Events /\ Event(w)' = Event(w)
  BY HeldIsMessage DEF Event
<1>3. Rejected(Event(w)) \/ topic[held[w]].times <= faults
  BY <1>2 DEF FaultInv, Event
<1>4. CASE pc[w] = "received" /\ UNCHANGED file
  <2>1. lock # w /\ lock' = lock
    BY <1>4 DEF TypeOK, Unlocked
  <2>2. TypeOK'
    BY <1>1, <1>4, <2>1 DEF TypeOK, Points
  <2>3. RejectedNext(Event(w)) \/ topic[held[w]].times < faults'
    <3>1. topic[held[w]].times \in Nat
      <4>1. topic \in Seq(Messages)
        BY DEF TypeOK, Messages
      <4>2. topic[held[w]] \in Messages
        BY <1>2, <4>1
      <4> QED BY <4>2 DEF Messages
    <3> QED BY <1>1, <1>2, <1>3, <1>4, <3>1 DEF Rejected, RejectedNext
  <2>4. \A v \in Workers : WorkerStep(v)
    BY <1>4, <2>3 DEF TypeOK, WorkerStep
  <2> QED BY <1>1, <1>4, <2>1, <2>2, <2>4, BrokerSame DEF StepFacts, FileStep
<1>5. CASE pc[w] = "append" /\ file' \in Remains(w)
  <2>1. lock = w /\ lock' = None /\ w # None /\ None \notin Workers
        /\ \A v \in Workers : pc[v] = "append" => v = w
    BY <1>5, LockIsHeld, PulsarAssumption DEF Unlocked
  <2>2. file' \in Seq(Entries \cup {Torn})
    BY <1>5, RemainsIsFile
  <2>3. TypeOK'
    BY <1>1, <1>5, <2>1, <2>2 DEF TypeOK, Points
  <2>4. FileStep
    BY <1>5, <2>1 DEF TypeOK, FileStep
  <2>5. RejectedNext(Event(w)) \/ topic[held[w]].times < faults'
    <3>1. topic[held[w]].times \in Nat
      <4>1. topic \in Seq(Messages)
        BY DEF TypeOK, Messages
      <4>2. topic[held[w]] \in Messages
        BY <1>2, <4>1
      <4> QED BY <4>2 DEF Messages
    <3>2. Rejected(Event(w)) => RejectedNext(Event(w))
      BY <1>2, <2>4, FileStepKeeps, EntriesStay
    <3> QED BY <1>1, <1>3, <3>1, <3>2
  <2>6. \A v \in Workers : WorkerStep(v)
    BY <1>5, <2>5 DEF TypeOK, WorkerStep
  <2> QED BY <1>1, <2>3, <2>4, <2>6, BrokerSame DEF StepFacts
<1> QED BY <1>4, <1>5
LEMMA AcknowledgeFacts == ASSUME NEW w \in Workers PROVE IInv /\ Acknowledge(w) => StepFacts
<1> SUFFICES ASSUME IInv, Acknowledge(w) PROVE StepFacts OBVIOUS
<1> USE DEF IInv, Acknowledge, Goto, Drop
<1>1. held[w] \in DOMAIN topic
  BY HeldIsMessage
<1>2. TypeOK'
  BY <1>1 DEF TypeOK, Points
<1>3. BrokerKeeps /\ \A i \in DOMAIN topic' : MessageStep(i)
  BY DEF TypeOK, BrokerKeeps, MessageStep
<1>4. \A v \in Workers : WorkerStep(v)
  BY DEF TypeOK, WorkerStep
<1>5. \A i \in acked' \ acked : AckStep(i)
  BY <1>1 DEF AckStep
<1> QED BY <1>2, <1>3, <1>4, <1>5 DEF StepFacts, FileStep

LEMMA RepublishFacts == ASSUME NEW w \in Workers PROVE IInv /\ Republish(w) => StepFacts
<1> SUFFICES ASSUME IInv, Republish(w) PROVE StepFacts OBVIOUS
<1> USE DEF IInv, Republish, Goto
<1> DEFINE times == topic[held[w]].times + 1   m == Message(Event(w), times)
<1>1. topic \in Seq(Messages) /\ DOMAIN topic = 1 .. Len(topic) /\ Len(topic) \in Nat
  BY LenProperties DEF TypeOK, Messages
<1>2. held[w] \in DOMAIN topic /\ Event(w) \in Events
  BY HeldIsMessage
<1>3. topic[held[w]] \in Messages
  BY <1>1, <1>2
<1>4. topic[held[w]].times \in 0 .. MaxRedeliver /\ MaxRedeliver \in Nat
  BY <1>3, PulsarAssumption DEF Messages
<1>5. CASE GivesUp(times)
  <2>1. topic' = topic /\ dlq' = dlq \cup {Event(w)}
    BY <1>5
  <2>2. TypeOK'
    BY <1>2, <2>1 DEF TypeOK, Points
  <2>3. DeadStep(Event(w))
    BY <1>5, <1>2 DEF DeadStep, GivesUp
  <2>4. SentOnNext(held[w])
    BY <2>1 DEF SentOnNext, Event
  <2>5. \A v \in Workers : WorkerStep(v)
    BY <2>4 DEF TypeOK, WorkerStep
  <2>6. BrokerKeeps /\ \A i \in DOMAIN topic' : MessageStep(i)
    BY <2>1 DEF TypeOK, BrokerKeeps, MessageStep
  <2> QED BY <2>1, <2>2, <2>3, <2>5, <2>6 DEF StepFacts, FileStep
<1>6. CASE ~GivesUp(times)
  <2>0. /\ topic' = Append(topic, m) /\ pc' = [pc EXCEPT ![w] = "republished"]
        /\ UNCHANGED <<type, acked, dlq, file, lock, held, late, faults>>
        /\ TypeOK /\ pc[w] = "failed"
    BY <1>6
  <2>1. times \in 0 .. MaxRedeliver
    BY <1>4, <1>6 DEF GivesUp
  <2>2. m \in Messages /\ m.event = Event(w) /\ m.times = times /\ m.redelivered = 0
    BY <1>2, <2>1 DEF Messages, Message
  <2> HIDE DEF m, IInv, Republish, Goto
  <2>3. /\ topic' \in Seq(Messages) /\ Len(topic') = Len(topic) + 1
        /\ \A i \in 1 .. Len(topic) : topic'[i] = topic[i]
        /\ topic'[Len(topic) + 1] = m
    BY <1>1, <2>0, <2>2, AppendedMessage
  <2>4. DOMAIN topic' = 1 .. Len(topic) + 1
    BY <2>3, LenProperties
  <2>5. TypeOK'
    BY <1>1, <2>0, <2>3, <2>4 DEF TypeOK, Messages, Points
  <2>6. BrokerKeeps
    BY <1>1, <2>0, <2>3, <2>4 DEF TypeOK, BrokerKeeps
  <2>7. \A i \in DOMAIN topic' : MessageStep(i)
    BY <1>1, <2>0, <2>2, <2>3, <2>4 DEF MessageStep
  <2>8. SentOnNext(held[w])
    BY <1>1, <1>2, <2>0, <2>2, <2>3, <2>4 DEF SentOnNext, Event
  <2>9. \A v \in Workers : WorkerStep(v)
    BY <2>0, <2>8 DEF TypeOK, WorkerStep
  <2> QED BY <2>0, <2>5, <2>6, <2>7, <2>9 DEF StepFacts, FileStep
<1> QED BY <1>5, <1>6

LEMMA NackFacts == ASSUME NEW w \in Workers PROVE IInv /\ Nack(w) => StepFacts
<1> SUFFICES ASSUME IInv, Nack(w) PROVE StepFacts OBVIOUS
<1> USE DEF IInv, Nack, Goto, Drop, broker
<1>1. TypeOK'
  BY DEF TypeOK, Points
<1>2. \A v \in Workers : WorkerStep(v)
  BY DEF TypeOK, WorkerStep
<1> QED BY <1>1, <1>2, BrokerSame DEF StepFacts, FileStep

LEMMA CrashFacts == ASSUME NEW w \in Workers PROVE IInv /\ Crash(w) => StepFacts
<1> SUFFICES ASSUME IInv, Crash(w) PROVE StepFacts OBVIOUS
<1> USE DEF IInv, Crash, Goto, Drop, Fault
<1>1. faults' \in Nat /\ faults' = faults + 1
  BY DEF TypeOK
<1>2. /\ acked' \subseteq DOMAIN topic
      /\ \A i \in acked' \ acked : AckStep(i)
  BY HeldIsMessage DEF TypeOK, AckStep
<1>3. file' \in Seq(Entries \cup {Torn})
  BY RemainsIsFile DEF TypeOK
<1>4. lock' \in {lock, None} /\ (pc[w] = "append" => lock' = None) /\ lock' # w
  BY PulsarAssumption DEF TypeOK
<1>5. TypeOK'
  <2>1. \A v \in Workers : pc'[v] = "append" <=> lock' = v
    BY PulsarAssumption, <1>4 DEF TypeOK
  <2> QED BY <1>1, <1>2, <1>3, <1>4, <2>1 DEF TypeOK, Points
<1>6. FileStep
  BY <1>4 DEF TypeOK, FileStep
<1>7. BrokerKeeps /\ \A i \in DOMAIN topic' : MessageStep(i)
  BY <1>1 DEF TypeOK, BrokerKeeps, MessageStep
<1>8. \A v \in Workers : WorkerStep(v)
  BY DEF TypeOK, WorkerStep
<1> QED BY <1>2, <1>5, <1>6, <1>7, <1>8 DEF StepFacts

LEMMA StutterFacts == IInv /\ UNCHANGED vars => StepFacts
<1> SUFFICES ASSUME IInv, UNCHANGED vars PROVE StepFacts OBVIOUS
<1>1. TypeOK'
  BY DEF vars, broker, IInv, TypeOK
<1>2. UNCHANGED broker /\ \A v \in Workers : WorkerStep(v)
  BY DEF vars, WorkerStep
<1> QED BY <1>1, <1>2, BrokerSame DEF vars, broker, IInv, StepFacts, FileStep

LEMMA NextFacts == IInv /\ [Next]_vars => StepFacts
BY PublishFacts, OpenFacts, ReceiveFacts, LookFacts, WriteFacts, AcknowledgeFacts, RepublishFacts,
   NackFacts, IoErrorFacts, AckTimeoutFacts, CrashFacts, StutterFacts DEF Next, Work

-----------------------------------------------------------------------------
(* The invariant is inductive.                                             *)

LEMMA InitInv == Init => IInv
<1> SUFFICES ASSUME Init PROVE IInv OBVIOUS
<1> USE DEF Init
<1>1. <<>> \in Seq(Messages) /\ <<>> \in Seq(Entries \cup {Torn}) /\ DOMAIN <<>> = {} /\ Range(<<>>) = {}
  BY DEF Range
<1>2. TypeOK
  BY <1>1, PulsarAssumption DEF TypeOK, Messages, Points
<1> QED BY <1>1, <1>2 DEF IInv, TornLast, OneEffect, AppendInv, DoneInv, NothingLost, FaultInv, DeadLettersEarned

LEMMA FileInvStep ==
  ASSUME IInv, StepFacts
  PROVE  (TornLast /\ OneEffect /\ AppendInv)'
<1> USE DEF IInv, StepFacts
<1>1. file \in Seq(Entries \cup {Torn}) /\ DOMAIN file = 1 .. Len(file) /\ Len(file) \in Nat
  BY LenProperties DEF TypeOK
<1>2. CASE file' = file /\ lock' \in {lock, None}
  <2>1. TornLast' /\ OneEffect'
    BY <1>2 DEF TornLast, OneEffect
  <2>2. AppendInv'
    BY <1>2, HeldIsMessage DEF AppendInv, WorkerStep, BrokerKeeps, Event
  <2> QED BY <2>1, <2>2
<1>3. CASE lock = None /\ file' = Repaired(file) /\ \A i \in DOMAIN file' : file'[i] # Torn
  <2>1. TornLast' /\ OneEffect'
    BY <1>3, RepairedFile DEF TornLast, OneEffect
  <2>2. \A v \in Workers : pc[v] # "append"
    BY <1>3, PulsarAssumption DEF TypeOK
  <2>3. AppendInv'
    BY <1>3, <2>2, HeldIsMessage DEF AppendInv, WorkerStep, BrokerKeeps, Event
  <2> QED BY <2>1, <2>3
<1>4. ASSUME NEW w \in Workers, pc[w] = "append", lock' = None, file' \in Remains(w)
      PROVE  (TornLast /\ OneEffect /\ AppendInv)'
  <2>1. lock # None /\ Event(w) \in Events
    BY <1>4, LockIsHeld, HeldIsMessage
  <2>2. \A i \in DOMAIN file : file[i] # Torn /\ file[i] \in Entries
    BY <1>1, <2>1 DEF TornLast
  <2>3. \A i \in DOMAIN file : file[i].id # None /\ file[i].id # Event(w).id
    <3>1. \A n \in Entries : n.id # None
      BY EntryIsWhole DEF Entries
    <3> QED BY <1>4, <2>2, <3>1 DEF AppendInv, Range
  <2>4. AppendInv'
    BY <1>4, PulsarAssumption DEF AppendInv, TypeOK
  <2>5. CASE file' = file
    BY <1>4, <2>4, <2>5 DEF TornLast, OneEffect
  <2>6. ASSUME NEW g \in Entries \cup {Torn}, file' = Append(file, g), g = Torn \/ g = Entry(Event(w))
        PROVE  TornLast' /\ OneEffect'
    <3>1. g.id \in {None, Event(w).id}
      BY <2>1, <2>6, EntryIsWhole DEF Torn
    <3>2. /\ DOMAIN file' = DOMAIN file \cup {Len(file) + 1} /\ Len(file') = Len(file) + 1
          /\ \A i \in DOMAIN file : file'[i] = file[i]
          /\ file'[Len(file) + 1] = g
      BY <2>6, AppendedFile
    <3>3. TornLast'
      BY <1>4, <2>2, <3>2 DEF TornLast
    <3>4. OneEffect'
      BY <2>3, <3>1, <3>2 DEF OneEffect
    <3> QED BY <3>3, <3>4
  <2> QED BY <1>4, <2>4, <2>5, <2>6, FrameOfEvent
<1> QED BY <1>2, <1>3, <1>4 DEF FileStep

LEMMA MessageType ==
  ASSUME TypeOK, NEW i \in DOMAIN topic
  PROVE  topic[i].event \in Events /\ topic[i].times \in Nat /\ topic[i].redelivered \in Nat
<1>1. topic \in Seq(Messages)
  BY DEF TypeOK, Messages
<1>2. topic[i] \in Messages
  BY <1>1
<1> QED BY <1>2 DEF Messages

\* What was sent on stays sent on.
LEMMA SentOnStays ==
  ASSUME BrokerKeeps, NEW i \in DOMAIN topic, SentOn(i)
  PROVE  SentOnNext(i)
BY DEF BrokerKeeps, SentOn, SentOnNext

LEMMA DoneInvStep ==
  ASSUME IInv, StepFacts
  PROVE  (DoneInv /\ NothingLost)'
<1> USE DEF IInv, StepFacts
<1>1. FramesStay
  BY FileStepKeeps
<1>2. \A e \in Events : Entry(e) \in Range(file) => Entry(e) \in Range(file')
  BY <1>1, EntriesStay, EntryIsWhole
<1>3. DoneInv'
  <2> SUFFICES ASSUME NEW v \in Workers
               PROVE  /\ pc'[v] = "applied" => Entry(Event(v)') \in Range(file')
                      /\ pc'[v] = "republished" => SentOnNext(held'[v])
    BY DEF DoneInv, SentOn, SentOnNext
  <2>1. CASE pc'[v] \in {"applied", "republished"} /\ pc'[v] = pc[v] /\ held'[v] = held[v]
    <3>1. held[v] \in DOMAIN topic /\ Event(v) \in Events /\ Event(v)' = Event(v)
      BY <2>1, HeldIsMessage DEF BrokerKeeps, Event
    <3>2. SentOn(held[v]) => SentOnNext(held[v])
      BY <3>1, SentOnStays
    <3> QED BY <1>2, <2>1, <3>1, <3>2 DEF DoneInv
  <2>2. CASE held'[v] = held[v] /\ pc[v] \notin {"down", "idle"}
             /\ \/ pc'[v] = "applied" /\ Entry(Event(v)) \in Range(file')
                \/ pc'[v] = "republished" /\ SentOnNext(held[v])
    <3>1. held[v] \in DOMAIN topic /\ Event(v)' = Event(v)
      BY <2>2, HeldIsMessage DEF BrokerKeeps, Event
    <3> QED BY <2>2, <3>1
  <2> QED BY <2>1, <2>2 DEF WorkerStep
<1>4. NothingLost'
  <2> SUFFICES ASSUME NEW i \in acked'
               PROVE  Entry(topic'[i].event) \in Range(file') \/ SentOnNext(i)
    BY DEF NothingLost, SentOnNext
  <2>1. CASE i \in acked
    <3>1. i \in DOMAIN topic /\ topic[i].event \in Events /\ topic'[i].event = topic[i].event
      BY <2>1, MessageType DEF TypeOK, BrokerKeeps
    <3>2. Entry(topic[i].event) \in Range(file) \/ SentOn(i)
      BY <2>1 DEF NothingLost, SentOn
    <3> QED BY <1>2, <3>1, <3>2, SentOnStays
  <2>2. ASSUME NEW w \in Workers, held[w] = i, pc[w] \in {"applied", "republished"}
        PROVE  Entry(topic'[i].event) \in Range(file') \/ SentOnNext(i)
    <3>1. i \in DOMAIN topic /\ Event(w) \in Events /\ topic'[i].event = Event(w)
      BY <2>2, HeldIsMessage DEF BrokerKeeps, Event
    <3>2. Entry(Event(w)) \in Range(file) \/ SentOn(i)
      BY <2>2 DEF DoneInv
    <3> QED BY <1>2, <3>1, <3>2, SentOnStays
  <2>3. CASE i \notin acked /\ topic[i].event \in dlq'
    <3>1. SentOnNext(i)
      BY <2>3 DEF AckStep, BrokerKeeps, SentOnNext
    <3> QED BY <3>1
  <2> QED BY <2>1, <2>2, <2>3 DEF AckStep
<1> QED BY <1>3, <1>4

LEMMA FaultInvStep ==
  ASSUME IInv, StepFacts
  PROVE  (FaultInv /\ DeadLettersEarned)'
<1> USE DEF IInv, StepFacts
<1>1. \A e \in Events : Rejected(e) => RejectedNext(e)
  BY FileStepKeeps, EntriesStay
<1>2. faults \in Nat /\ faults' \in Nat /\ faults <= faults' /\ MaxRedeliver \in Nat
  BY PulsarAssumption DEF TypeOK, BrokerKeeps
<1>3. \A i \in DOMAIN topic :
        /\ topic[i].event \in Events /\ topic[i].times \in Nat /\ topic[i].redelivered \in Nat
        /\ topic'[i].event = topic[i].event /\ topic'[i].times = topic[i].times
        /\ Rejected(topic[i].event) \/ (topic[i].times <= faults /\ topic[i].redelivered <= faults)
  BY MessageType DEF BrokerKeeps, FaultInv
<1>4. \A w \in Workers : pc[w] \notin {"down", "idle"} =>
        /\ held[w] \in DOMAIN topic /\ Event(w) = topic[held[w]].event /\ Event(w) \in Events
        /\ held'[w] = held[w] => Event(w)' = Event(w)
  BY HeldIsMessage DEF BrokerKeeps, Event
<1>5. \A w \in Workers : pc[w] = "failed" => Rejected(Event(w)) \/ topic[held[w]].times < faults
  BY DEF FaultInv
<1>6. ASSUME NEW i \in DOMAIN topic'
      PROVE  \/ RejectedNext(topic'[i].event)
             \/ topic'[i].times <= faults' /\ topic'[i].redelivered <= faults'
  <2>1. CASE i \in DOMAIN topic /\ topic'[i].redelivered = topic[i].redelivered
    BY <1>1, <1>2, <1>3, <2>1
  <2>2. CASE i \in DOMAIN topic /\ topic'[i].redelivered = topic[i].redelivered + 1 /\ faults' = faults + 1
    BY <1>1, <1>2, <1>3, <2>2
  <2>3. CASE topic'[i].redelivered = 0 /\ topic'[i].times = 0
    BY <1>2, <2>3
  <2>4. ASSUME topic'[i].redelivered = 0, NEW w \in Workers, pc[w] = "failed",
               topic'[i].event = Event(w), topic'[i].times = topic[held[w]].times + 1
        PROVE  \/ RejectedNext(topic'[i].event)
               \/ topic'[i].times <= faults' /\ topic'[i].redelivered <= faults'
    <3>1. held[w] \in DOMAIN topic /\ Event(w) \in Events /\ topic[held[w]].times \in Nat
      BY <1>3, <1>4, <2>4
    <3>2. CASE Rejected(Event(w))
      BY <1>1, <2>4, <3>1, <3>2
    <3>3. CASE topic[held[w]].times < faults
      BY <1>2, <2>4, <3>1, <3>3
    <3> QED BY <1>5, <2>4, <3>2, <3>3
  <2> QED BY <2>1, <2>2, <2>3, <2>4 DEF MessageStep
<1>7. ASSUME NEW v \in Workers, pc'[v] = "failed"
      PROVE  RejectedNext(topic'[held'[v]].event) \/ topic'[held'[v]].times < faults'
  <2>1. pc[v] \notin {"down", "idle"} /\ held'[v] = held[v]
    BY <1>7 DEF WorkerStep
  <2>2. CASE pc[v] = "failed"
    BY <1>1, <1>2, <1>3, <1>4, <1>5, <2>1, <2>2
  <2>3. CASE RejectedNext(Event(v)) \/ topic[held[v]].times < faults'
    BY <1>3, <1>4, <2>1, <2>3
  <2> QED BY <1>7, <2>1, <2>2, <2>3 DEF WorkerStep
<1>8. FaultInv'
  BY <1>6, <1>7 DEF FaultInv, Rejected, RejectedNext, Event
<1>9. ASSUME NEW e \in dlq'
      PROVE  RejectedNext(e) \/ faults' > MaxRedeliver
  <2>1. CASE e \in dlq
    <3>1. e \in Events /\ (Rejected(e) \/ faults > MaxRedeliver)
      BY <2>1 DEF TypeOK, DeadLettersEarned, Rejected
    <3> QED BY <1>1, <1>2, <3>1
  <2>2. ASSUME NEW w \in Workers, e = Event(w), pc[w] \notin {"down", "idle"},
               \/ pc[w] = "failed" /\ topic[held[w]].times + 1 > MaxRedeliver
               \/ topic[held[w]].redelivered + 1 > MaxRedeliver /\ faults' = faults + 1
        PROVE  RejectedNext(e) \/ faults' > MaxRedeliver
    <3> DEFINE m == topic[held[w]]
    <3>1. /\ m.event = e /\ e \in Events /\ m.times \in Nat /\ m.redelivered \in Nat
          /\ Rejected(e) \/ (m.times <= faults /\ m.redelivered <= faults)
          /\ pc[w] = "failed" => Rejected(e) \/ m.times < faults
      BY <1>3, <1>4, <1>5, <2>2
    <3>2. CASE Rejected(e)
      BY <1>1, <3>1, <3>2
    <3>3. CASE ~Rejected(e) /\ pc[w] = "failed" /\ m.times + 1 > MaxRedeliver
      BY <1>2, <3>1, <3>3
    <3>4. CASE ~Rejected(e) /\ m.redelivered + 1 > MaxRedeliver /\ faults' = faults + 1
      BY <1>2, <3>1, <3>4
    <3> QED BY <2>2, <3>2, <3>3, <3>4
  <2> QED BY <2>1, <2>2 DEF DeadStep
<1>10. DeadLettersEarned'
  BY <1>9 DEF DeadLettersEarned, RejectedNext
<1> QED BY <1>8, <1>10

LEMMA NextInv == IInv /\ [Next]_vars => IInv'
BY NextFacts, FileInvStep, DoneInvStep, FaultInvStep DEF IInv, StepFacts

-----------------------------------------------------------------------------
(* The theorems.                                                           *)

\* The invariant holds of the workers, however many there are and whatever fails.
THEOREM Invariance == Spec => []IInv
<1>1. Init => IInv
  BY InitInv
<1>2. IInv /\ [Next]_vars => IInv'
  BY NextInv
<1> QED BY <1>1, <1>2, PTL DEF Spec

\* Every variable keeps its type: messages are retried as often as the policy says and
\* no more, and the one worker that writes is the one that has the file lock.
THEOREM TypeCorrect == Spec => []TypeOK
BY Invariance, PTL DEF IInv

\* No event id has two effects in the ledger, for any number of workers and deliveries
\* and wherever processes die between the append and the acknowledgement.
THEOREM OneEffectPerEvent == Spec => []OneEffect
BY Invariance, PTL DEF IInv

\* No acknowledged message is lost: its effect is there, or it went out again, or to
\* the dead letters.
THEOREM NothingIsLost == Spec => []NothingLost
BY Invariance, PTL DEF IInv

\* An event is dead-lettered only if it cannot be applied or more things failed than
\* the policy allows for.
THEOREM DeadLettersAreEarned == Spec => []DeadLettersEarned
BY Invariance, PTL DEF IInv

\* No step, a repair of the file least of all, moves or drops an effect that was
\* completely written.
THEOREM EffectsStayThere == Spec => EffectsStay
<1>1. IInv /\ [Next]_vars => FramesStay
  BY NextFacts, FileStepKeeps DEF IInv, StepFacts
<1>2. IInv /\ [Next]_vars
        => [\A i \in DOMAIN file : file[i] # Torn => i \in DOMAIN file' /\ file'[i] = file[i]]_vars
  BY <1>1 DEF FramesStay
<1> QED BY <1>2, Invariance, PTL DEF Spec, EffectsStay
=============================================================================
