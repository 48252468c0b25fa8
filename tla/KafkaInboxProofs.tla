-------------------------- MODULE KafkaInboxProofs --------------------------
(***************************************************************************)
(* Proofs about the inbox worker, for every number of events, every batch  *)
(* size, every set of foreign records and any number of faults.            *)
(*                                                                         *)
(* The argument: while a batch is handled, every record before the cursor  *)
(* has its effect in the file (BatchInv), the map is the file except for   *)
(* the record between persist and put (MemoryInv), and the checkpoint      *)
(* holds nothing but the record at the cursor (CheckpointInv), so that the *)
(* offset it offers for a commit is the cursor itself.                     *)
(***************************************************************************)
EXTENDS KafkaInbox, TLAPS, SequenceTheorems, WellFoundedInduction

\* The first n records of the log have their effects in the file.
DoneBefore(n) == \A o \in 1 .. n : log[o] \in Range(file)

InBatch == pc \in {"record", "apply", "replaced", "mark"}

\* The loop is about to poll.
Polling == pc = "loop" /\ ~closing

\* The worker has nothing more to commit and leaves, or has left.
Leaving == pc = "closed" \/ (pc = "loop" /\ closing)

MemoryInv ==
  /\ Running /\ pc # "replaced" => applied = file
  /\ pc = "replaced" => file = Append(applied, Current)

BatchInv ==
  /\ Polling => position = committed
  /\ Leaving => committed = cursor
  /\ InBatch \/ pc = "commit" => committed <= cursor /\ DoneBefore(cursor)
  /\ InBatch => cursor < position
  /\ pc = "commit" /\ ~closing => cursor = position
  /\ pc = "apply" => \A e \in Range(applied) : e.id # Current.id
  /\ pc = "mark" => Current \in Range(file)

CheckpointInv ==
  /\ Polling => checkpoint \in {NoCheckpoint, StartAt(position)}
  /\ pc = "record" => checkpoint \in {NoCheckpoint, StartAt(cursor)}
  /\ pc \in {"apply", "replaced", "mark"} => checkpoint = Delivered(StartAt(cursor), cursor)
  /\ pc = "commit" => checkpoint = StartAt(cursor)

IInv == TypeOK /\ CommittedIsApplied /\ MemoryInv /\ BatchInv /\ CheckpointInv

-----------------------------------------------------------------------------
(* Lemmas about sequences and the checkpoint.                              *)

\* Appending adds one element to the range of a sequence.
LEMMA RangeAppend ==
  ASSUME NEW S, NEW s \in Seq(S), NEW e
  PROVE  Range(Append(s, e)) = Range(s) \cup {e}
<1> DEFINE t == Append(s, e)
<1>1. /\ DOMAIN s = 1 .. Len(s) /\ DOMAIN t = 1 .. Len(s) + 1
      /\ \A i \in 1 .. Len(s) : t[i] = s[i]
      /\ t[Len(s) + 1] = e
      /\ Len(s) \in Nat
  OBVIOUS
<1> HIDE DEF t
<1>2. Range(s) \cup {e} \subseteq Range(t)
  BY <1>1 DEF Range
<1>3. Range(t) \subseteq Range(s) \cup {e}
  BY <1>1 DEF Range
<1> QED BY <1>2, <1>3 DEF t

LEMMA DeliveredOne ==
  ASSUME NEW o \in Nat
  PROVE  Delivered(StartAt(o), o) = [delivered |-> <<o>>, completed |-> {}, nextCommit |-> o]
<1>1. Append(<<>>, o) = <<o>>
  OBVIOUS
<1>2. /\ StartAt(o).delivered = <<>> /\ StartAt(o).completed = {} /\ StartAt(o).nextCommit = o
  BY DEF StartAt
<1> QED BY <1>1, <1>2, Zenon DEF Delivered

\* A checkpoint that holds one delivered offset offers the next one for a commit
\* as soon as that offset completes (CheckpointTest's contiguous case).
LEMMA CompleteOne ==
  ASSUME NEW o \in Nat
  PROVE  Completed(Delivered(StartAt(o), o), o) = StartAt(o + 1)
<1> DEFINE c == Delivered(StartAt(o), o)
           n == Max(DonePrefixes(c.delivered, c.completed \cup {o}))
<1>1. c = [delivered |-> <<o>>, completed |-> {}, nextCommit |-> o]
  BY DeliveredOne
<1>2. DonePrefixes(<<o>>, {} \cup {o}) = 0 .. 1
  BY DEF DonePrefixes
<1>3. n = 1
  BY <1>1, <1>2 DEF Max
<1> HIDE DEF c, n
<1>4. /\ n + 1 = 2 /\ Len(c.delivered) = 1 /\ c.delivered = <<o>> /\ c.completed = {}
      /\ c.delivered[n] + 1 = o + 1 /\ n # 0
  BY <1>1, <1>3
<1>7. Completed(c, o) = [delivered  |-> SubSeq(c.delivered, n + 1, Len(c.delivered)),
                         completed  |-> (c.completed \cup {o}) \ {c.delivered[i] : i \in 1 .. n},
                         nextCommit |-> IF n = 0 THEN c.nextCommit ELSE c.delivered[n] + 1]
  BY Zenon DEF Completed, n
<1>5. SubSeq(<<o>>, 2, 1) = <<>>
  OBVIOUS
<1>6. ({} \cup {o}) \ {<<o>>[i] : i \in 1 .. 1} = {}
  OBVIOUS
<1> QED BY <1>3, <1>4, <1>5, <1>6, <1>7 DEF StartAt, c

\* A checkpoint that is empty accepts the offset it starts at.
LEMMA DeliverOne ==
  ASSUME NEW o \in Nat
  PROVE  CanDeliver(StartAt(o), o)
BY DEF CanDeliver, StartAt

\* Checkpoints that hold an offset are not the absent one, and have their type.
LEMMA CheckpointTypes ==
  ASSUME NEW o \in Nat
  PROVE  /\ StartAt(o) # NoCheckpoint
         /\ StartAt(o) \in [delivered : Seq(Nat), completed : SUBSET Nat, nextCommit : Nat]
         /\ Delivered(StartAt(o), o) \in [delivered : Seq(Nat), completed : SUBSET Nat, nextCommit : Nat]
         /\ StartAt(o).nextCommit = o
<1>1. StartAt(o).nextCommit = o
  BY DEF StartAt
<1>2. NoCheckpoint.nextCommit = -1
  BY DEF NoCheckpoint
<1>3. StartAt(o) # NoCheckpoint
  BY <1>1, <1>2
<1>4. <<>> \in Seq(Nat) /\ <<o>> \in Seq(Nat)
  OBVIOUS
<1>5. StartAt(o) \in [delivered : Seq(Nat), completed : SUBSET Nat, nextCommit : Nat]
  BY <1>4 DEF StartAt
<1>6. Delivered(StartAt(o), o) \in [delivered : Seq(Nat), completed : SUBSET Nat, nextCommit : Nat]
  <2>1. \A d \in Seq(Nat) : [delivered |-> d, completed |-> {}, nextCommit |-> o]
                               \in [delivered : Seq(Nat), completed : SUBSET Nat, nextCommit : Nat]
    OBVIOUS
  <2> QED BY <1>4, <2>1, DeliveredOne, Zenon
<1> QED BY <1>1, <1>3, <1>5, <1>6

\* What a worker handles is a record of the log.
LEMMA CurrentIsRecord ==
  ASSUME TypeOK, cursor < position
  PROVE  Current \in Records
BY DEF TypeOK, Current

-----------------------------------------------------------------------------
(* The invariant is inductive.                                             *)

\* The invariant holds before the first worker is started.
LEMMA InitInv == Init => IInv
<1> SUFFICES ASSUME Init PROVE IInv OBVIOUS
<1>1. NoId \in {NoId} \cup Ids /\ {} \subseteq Ids /\ Count \in 0 .. Count
  BY KafkaAssumption
<1>2. <<>> \in Seq(Records) /\ Len(<<>>) = 0
  OBVIOUS
<1>3. /\ log \in Seq(Records) /\ file \in Seq(Records) /\ applied \in Seq(Records)
      /\ committed \in 0 .. Len(log) /\ position \in 0 .. Len(log) /\ cursor \in 0 .. position
  BY <1>2 DEF Init
<1>4. /\ producerRuns \in Nat /\ sendNext \in 0 .. Count /\ inFlight \subseteq Ids
      /\ stopAfter \in {NoId} \cup Ids /\ maxRecords \in RecordLimits \cup {0} /\ faults \in Nat
  BY <1>1 DEF Init
<1>5. pc \in {"loop", "record", "apply", "replaced", "mark", "commit", "ended", "closed"}
      /\ closing \in BOOLEAN /\ killing \in BOOLEAN /\ checkpoint = NoCheckpoint
  BY DEF Init
<1>6. TypeOK
  BY <1>3, <1>4, <1>5, Zenon DEF TypeOK
<1> QED BY <1>6 DEF Init, IInv, CommittedIsApplied, MemoryInv, BatchInv, CheckpointInv,
                    Running, InBatch, Polling, Leaving

\* A longer log disturbs nothing that speaks of its beginning.
LEMMA LogGrows ==
  ASSUME IInv, NEW r \in Records, log' = Append(log, r),
         UNCHANGED <<committed, file, pc, memory, settings, faults>>,
         producerRuns' \in Nat, sendNext' \in 0 .. Count, inFlight' \subseteq Ids
  PROVE  IInv'
<1> USE DEF IInv, memory, settings
<1>1. Len(log') = Len(log) + 1 /\ \A o \in 1 .. Len(log) : log'[o] = log[o]
  BY DEF TypeOK
<1>2. TypeOK'
  BY <1>1 DEF TypeOK
<1>3. CommittedIsApplied'
  BY <1>1 DEF TypeOK, CommittedIsApplied
<1>4. cursor < position => Current' = Current
  BY <1>1 DEF TypeOK, Current
<1>5. MemoryInv'
  <2>1. pc = "replaced" => Current' = Current
    BY <1>4 DEF BatchInv, InBatch
  <2> QED BY <2>1 DEF MemoryInv, Running
<1>6. DoneBefore(cursor) => DoneBefore(cursor)'
  BY <1>1 DEF TypeOK, DoneBefore
<1>7. BatchInv'
  BY <1>4, <1>6 DEF BatchInv, InBatch, Polling, Leaving
<1>8. CheckpointInv'
  BY DEF CheckpointInv, Polling
<1> QED BY <1>2, <1>3, <1>5, <1>7, <1>8

\* Nothing the invariant speaks of changes, but for the producer's own variables.
LEMMA ProducerOnly ==
  ASSUME IInv, UNCHANGED <<log, committed, file, pc, memory, settings, faults>>,
         producerRuns' \in Nat, sendNext' \in 0 .. Count, inFlight' \subseteq Ids
  PROVE  IInv'
BY DEF IInv, memory, settings, TypeOK, CommittedIsApplied, MemoryInv, BatchInv, CheckpointInv,
       DoneBefore, Current, Running, InBatch, Polling, Leaving

LEMMA StartInv == IInv /\ Start => IInv'
<1> SUFFICES ASSUME IInv, Start PROVE IInv' OBVIOUS
<1> USE DEF IInv, Start, broker, producer
<1>1. TypeOK'
  <2>1. faults' \in Nat
    BY DEF TypeOK, Fault
  <2>2. committed \in 0 .. Len(log) /\ committed \in 0 .. committed
    BY DEF TypeOK
  <2> QED BY <2>1, <2>2 DEF TypeOK, Load
<1>2. CommittedIsApplied'
  BY DEF CommittedIsApplied
<1>3. MemoryInv'
  BY DEF MemoryInv, Load
<1>4. BatchInv' /\ CheckpointInv'
  BY DEF BatchInv, CheckpointInv, InBatch, Polling, Leaving
<1> QED BY <1>1, <1>2, <1>3, <1>4

LEMMA PollInv == IInv /\ Poll => IInv'
<1> SUFFICES ASSUME IInv, Poll PROVE IInv' OBVIOUS
<1> USE DEF IInv, Poll, broker, producer, settings
<1>1. PICK n \in 1 .. MaxPoll : position + n <= Len(log) /\ cursor' = position /\ position' = position + n
  OBVIOUS
<1>0. position \in Nat /\ Len(log) \in Nat /\ n \in Nat
  BY KafkaAssumption DEF TypeOK
<1>2. TypeOK'
  <2>1. position' \in 0 .. Len(log) /\ cursor' \in 0 .. position'
    BY <1>0, <1>1
  <2> QED BY <2>1 DEF TypeOK
<1>3. CommittedIsApplied'
  BY DEF CommittedIsApplied
<1>4. MemoryInv'
  BY DEF MemoryInv, Running
<1>5. cursor' = committed /\ cursor' < position'
  BY <1>1, KafkaAssumption DEF TypeOK, BatchInv, Polling
<1>6. DoneBefore(cursor)'
  BY <1>5 DEF DoneBefore, CommittedIsApplied
<1>7. BatchInv'
  BY <1>5, <1>6 DEF TypeOK, BatchInv, InBatch, Polling, Leaving
<1>8. CheckpointInv'
  BY <1>1 DEF CheckpointInv, Polling
<1> QED BY <1>2, <1>3, <1>4, <1>7, <1>8

LEMMA RebalanceInv == IInv /\ Rebalance => IInv'
<1> SUFFICES ASSUME IInv, Rebalance PROVE IInv' OBVIOUS
<1> USE DEF IInv, Rebalance, broker, producer, settings
<1>1. position' = position
  BY DEF BatchInv, Polling
<1>2. TypeOK'
  BY <1>1 DEF TypeOK
<1>3. CommittedIsApplied' /\ MemoryInv'
  BY DEF CommittedIsApplied, MemoryInv, Running, Current
<1>4. BatchInv' /\ CheckpointInv'
  BY DEF BatchInv, CheckpointInv, InBatch, Polling, Leaving
<1> QED BY <1>2, <1>3, <1>4

LEMMA CloseInv == IInv /\ Close => IInv'
<1> SUFFICES ASSUME IInv, Close PROVE IInv' OBVIOUS
<1> USE DEF IInv, Close, broker, producer, memory, settings
<1>1. TypeOK' /\ CommittedIsApplied' /\ MemoryInv'
  BY DEF TypeOK, CommittedIsApplied, MemoryInv, Running
<1>2. BatchInv' /\ CheckpointInv'
  BY DEF BatchInv, CheckpointInv, InBatch, Polling, Leaving
<1> QED BY <1>1, <1>2

\* The checkpoint never refuses the record at the cursor.
LEMMA DeliverInv == IInv /\ Deliver => IInv'
<1> SUFFICES ASSUME IInv, Deliver PROVE IInv' OBVIOUS
<1> USE DEF IInv, Deliver, broker, producer, settings
<1>1. cursor \in Nat /\ position \in Nat
  BY DEF TypeOK
<1>2. CheckpointHere = StartAt(cursor)
  BY DEF CheckpointInv, CheckpointHere
<1>3. checkpoint' = Delivered(StartAt(cursor), cursor) /\ pc' = Verdict
  BY <1>1, <1>2, DeliverOne
<1>4. pc' \in {"mark", "ended", "apply"} /\ Current' = Current
  BY <1>3 DEF Verdict, Current
<1>5. TypeOK'
  BY <1>1, <1>3, <1>4, CheckpointTypes DEF TypeOK
<1>6. CommittedIsApplied' /\ MemoryInv'
  BY <1>4 DEF CommittedIsApplied, MemoryInv, Running
<1>7. pc' = "apply" => \A e \in Range(applied) : e.id # Current.id
  BY <1>3 DEF Verdict
<1>8. pc' = "mark" => Current \in Range(file)
  BY <1>3 DEF Verdict, MemoryInv, Running
<1>9. DoneBefore(cursor)' <=> DoneBefore(cursor)
  BY DEF DoneBefore
<1>10. BatchInv'
  BY <1>4, <1>7, <1>8, <1>9 DEF BatchInv, InBatch, Polling, Leaving
<1>11. CheckpointInv'
  BY <1>3, <1>4 DEF CheckpointInv, Polling
<1> QED BY <1>5, <1>6, <1>10, <1>11

LEMMA PersistInv == IInv /\ Persist => IInv'
<1> SUFFICES ASSUME IInv, Persist PROVE IInv' OBVIOUS
<1> USE DEF IInv, Persist, broker, producer, memory, settings
<1>1. applied = file /\ file \in Seq(Records) /\ Current \in Records /\ Current' = Current
  BY CurrentIsRecord DEF MemoryInv, Running, BatchInv, InBatch, TypeOK, Current
<1>2. Range(file') = Range(file) \cup {Current}
  BY <1>1, RangeAppend
<1>3. TypeOK'
  BY <1>1 DEF TypeOK
<1>4. CommittedIsApplied'
  BY <1>2 DEF CommittedIsApplied
<1>5. MemoryInv'
  BY <1>1 DEF MemoryInv, Running
<1>6. DoneBefore(cursor) => DoneBefore(cursor)'
  BY <1>2 DEF DoneBefore
<1>7. BatchInv' /\ CheckpointInv'
  BY <1>6 DEF BatchInv, CheckpointInv, InBatch, Polling, Leaving
<1> QED BY <1>3, <1>4, <1>5, <1>7

LEMMA PutInv == IInv /\ Put => IInv'
<1> SUFFICES ASSUME IInv, Put PROVE IInv' OBVIOUS
<1> USE DEF IInv, Put, broker, producer, settings
<1>1. applied \in Seq(Records) /\ Current \in Records /\ Current' = Current
  BY CurrentIsRecord DEF BatchInv, InBatch, TypeOK, Current
<1>2. applied' = file /\ Current \in Range(file)
  <2>1. file = Append(applied, Current)
    BY DEF MemoryInv
  <2> QED BY <1>1, <2>1, RangeAppend
<1>3. TypeOK'
  BY <1>1 DEF TypeOK
<1>4. CommittedIsApplied' /\ MemoryInv'
  BY <1>2 DEF CommittedIsApplied, MemoryInv, Running
<1>5. DoneBefore(cursor)' <=> DoneBefore(cursor)
  BY DEF DoneBefore
<1>6. BatchInv' /\ CheckpointInv'
  BY <1>1, <1>2, <1>5 DEF BatchInv, CheckpointInv, InBatch, Polling, Leaving
<1> QED BY <1>3, <1>4, <1>6

\* The record at the cursor is done, so the cursor moves behind it.
LEMMA MarkInv == IInv /\ Mark => IInv'
<1> SUFFICES ASSUME IInv, Mark PROVE IInv' OBVIOUS
<1> USE DEF IInv, Mark, broker, producer, settings
<1>1. cursor \in Nat /\ position \in Nat /\ cursor < position /\ committed \in Nat
  BY DEF TypeOK, BatchInv, InBatch
<1>2. checkpoint' = StartAt(cursor')
  BY <1>1, CompleteOne DEF CheckpointInv
<1>3. pc' \in {"ended", "commit", "record"}
  BY DEF AfterStop
<1>4. TypeOK'
  <2>1. closing' \in BOOLEAN
    BY DEF TypeOK
  <2>2. checkpoint' \in [delivered : Seq(Nat), completed : SUBSET Nat, nextCommit : Nat]
    BY <1>1, <1>2, CheckpointTypes
  <2> QED BY <1>1, <1>3, <2>1, <2>2 DEF TypeOK
<1>5. CommittedIsApplied' /\ MemoryInv'
  BY <1>3 DEF CommittedIsApplied, MemoryInv, Running
<1>6. DoneBefore(cursor)'
  BY <1>1 DEF DoneBefore, BatchInv, InBatch, Current
<1>7. committed' <= cursor'
  BY <1>1 DEF BatchInv, InBatch
<1>8. pc' = "record" => cursor' < position'
  BY DEF AfterStop
<1>9. pc' = "commit" /\ ~closing' => cursor' = position'
  <2>1. Current.id = stopAfter => closing'
    BY DEF TypeOK
  <2>2. Current.id # stopAfter => pc' = IF cursor + 1 < position THEN "record" ELSE "commit"
    BY Zenon
  <2>3. cursor' = cursor + 1 /\ position' = position
    OBVIOUS
  <2> HIDE DEF Mark, IInv
  <2> QED BY <1>1, <2>1, <2>2, <2>3
<1>10. BatchInv'
  BY <1>3, <1>6, <1>7, <1>8, <1>9 DEF BatchInv, InBatch, Polling, Leaving
<1>11. CheckpointInv'
  BY <1>2, <1>3 DEF CheckpointInv, Polling
<1> QED BY <1>4, <1>5, <1>10, <1>11

\* A commit, stored or not, leaves the committed offset between its old value and
\* the cursor.
LEMMA CommitStores ==
  ASSUME IInv, pc = "commit", committed' \in {committed, NextCommit},
         UNCHANGED <<log, producer, file, memory, settings>>
  PROVE  /\ NextCommit = cursor /\ committed <= cursor
         /\ committed' \in 0 .. Len(log')
         /\ CommittedIsApplied'
<1> USE DEF IInv, memory
<1>1. cursor \in Nat /\ committed \in Nat /\ cursor <= Len(log)
  BY DEF TypeOK
<1>2. NextCommit = cursor
  BY <1>1, CheckpointTypes DEF NextCommit, CheckpointInv
<1>3. committed <= cursor /\ DoneBefore(cursor)
  BY DEF BatchInv
<1> QED BY <1>1, <1>2, <1>3 DEF CommittedIsApplied, DoneBefore

LEMMA CommitInv == IInv /\ Commit => IInv'
<1> SUFFICES ASSUME IInv, Commit PROVE IInv' OBVIOUS
<1> USE DEF Commit, producer, memory, settings
<1>1. /\ committed' = cursor /\ committed' \in 0 .. Len(log') /\ CommittedIsApplied'
      /\ NextCommit = cursor
  BY CommitStores
<1>2. TypeOK'
  BY <1>1 DEF IInv, TypeOK
<1>3. MemoryInv'
  BY DEF IInv, MemoryInv, Running
<1>4. BatchInv' /\ CheckpointInv'
  BY <1>1 DEF IInv, BatchInv, CheckpointInv, InBatch, Polling, Leaving
<1> QED BY <1>1, <1>2, <1>3, <1>4 DEF IInv

LEMMA CommitFailsInv == IInv /\ CommitFails => IInv'
<1> SUFFICES ASSUME IInv, CommitFails PROVE IInv' OBVIOUS
<1> USE DEF CommitFails, producer, memory, settings
<1>1. committed' \in 0 .. Len(log') /\ CommittedIsApplied'
  BY CommitStores
<1>2. TypeOK'
  BY <1>1 DEF IInv, TypeOK, Fault
<1>3. MemoryInv'
  BY DEF IInv, MemoryInv, Running
<1>4. BatchInv'
  BY DEF IInv, BatchInv, InBatch, Polling, Leaving
<1>5. CheckpointInv'
  BY DEF IInv, CheckpointInv, Polling
<1> QED BY <1>1, <1>2, <1>3, <1>4, <1>5 DEF IInv

LEMMA CrashInv == IInv /\ Crash => IInv'
<1> SUFFICES ASSUME IInv, Crash PROVE IInv' OBVIOUS
<1> USE DEF IInv, Crash, broker, producer, memory, settings
<1>1. TypeOK' /\ CommittedIsApplied'
  BY DEF TypeOK, CommittedIsApplied, Fault
<1>2. MemoryInv' /\ BatchInv' /\ CheckpointInv'
  BY DEF MemoryInv, Running, BatchInv, CheckpointInv, InBatch, Polling, Leaving
<1> QED BY <1>1, <1>2

\* A step of a producer leaves the invariant alone, and the log as it was or longer
\* by one record.
ProducerStep == ProducerStart \/ ProducerSend \/ ProducerKilled \/ LateRecord \/ ForeignSend

LEMMA ProducerStepLog ==
  ASSUME TypeOK, ProducerStep
  PROVE  /\ UNCHANGED <<committed, file, pc, memory, settings, faults>>
         /\ producerRuns' \in Nat /\ sendNext' \in 0 .. Count /\ inFlight' \subseteq Ids
         /\ log' = log \/ \E r \in Records : log' = Append(log, r)
<1> USE KafkaAssumption DEF TypeOK, broker, producer, Ids
<1>1. CASE ProducerStart
  BY <1>1 DEF ProducerStart
<1>2. CASE ProducerSend
  <2>1. sendNext \in Ids
    BY <1>2 DEF ProducerSend
  <2>2. RecordOf(sendNext) \in Records
    BY <2>1 DEF Records
  <2> QED BY <1>2, <2>1, <2>2 DEF ProducerSend
<1>3. CASE ProducerKilled
  BY <1>3 DEF ProducerKilled
<1>4. CASE LateRecord
  <2>1. \A i \in inFlight : RecordOf(i) \in Records
    BY DEF Records
  <2> QED BY <1>4, <2>1 DEF LateRecord
<1>5. CASE ForeignSend
  <2>1. ForeignRecords \subseteq Records
    BY DEF Records
  <2> QED BY <1>5, <2>1 DEF ForeignSend
<1> QED BY <1>1, <1>2, <1>3, <1>4, <1>5 DEF ProducerStep

LEMMA StutterInv == IInv /\ UNCHANGED vars => IInv'
BY DEF vars, broker, producer, IInv, memory, settings, TypeOK, CommittedIsApplied, MemoryInv,
       BatchInv, CheckpointInv, DoneBefore, Current, Running, InBatch, Polling, Leaving

\* Every step preserves the invariant.
LEMMA NextInv == IInv /\ [Next]_vars => IInv'
<1> SUFFICES ASSUME IInv, [Next]_vars PROVE IInv' OBVIOUS
<1>1. CASE ProducerStep
  <2>1. TypeOK
    BY DEF IInv
  <2>2. CASE log' = log
    BY <1>1, <2>1, <2>2, ProducerStepLog, ProducerOnly
  <2>3. CASE \E r \in Records : log' = Append(log, r)
    BY <1>1, <2>1, <2>3, ProducerStepLog, LogGrows
  <2> QED BY <1>1, <2>1, <2>2, <2>3, ProducerStepLog
<1>2. CASE Worker
  BY <1>2, StartInv, PollInv, CloseInv, DeliverInv, PersistInv, PutInv, MarkInv, CommitInv DEF Worker
<1>3. CASE Rebalance \/ CommitFails \/ Crash
  BY <1>3, RebalanceInv, CommitFailsInv, CrashInv
<1>4. CASE UNCHANGED vars
  BY <1>4, StutterInv
<1> QED BY <1>1, <1>2, <1>3, <1>4 DEF Next, ProducerStep

-----------------------------------------------------------------------------
(* The theorems.                                                           *)

\* The inductive invariant holds of every behaviour of the worker.
THEOREM Invariance == Spec => []IInv
<1>1. Init => IInv
  BY InitInv
<1>2. IInv /\ [Next]_vars => IInv'
  BY NextInv
<1> QED BY <1>1, <1>2, PTL DEF Spec

\* Every variable has its type, and nothing is fetched or committed beyond the log.
THEOREM TypeCorrect == Spec => []TypeOK
<1>1. IInv => TypeOK
  BY DEF IInv
<1> QED BY <1>1, Invariance, PTL

\* No offset is committed before the effects of all records below it are on disk.
THEOREM CommitsFollowEffects == Spec => []CommittedIsApplied
<1>1. IInv => CommittedIsApplied
  BY DEF IInv
<1> QED BY <1>1, Invariance, PTL

\* Nothing a worker remembers as applied can be lost with its process.
THEOREM MemoryIsDurable == Spec => []MemoryNeverAhead
<1>1. ASSUME IInv PROVE MemoryNeverAhead
  <2> USE <1>1 DEF IInv
  <2>1. CASE pc = "replaced"
    <3>1. applied \in Seq(Records) /\ file = Append(applied, Current)
      BY <2>1 DEF TypeOK, MemoryInv
    <3> QED BY <3>1, RangeAppend DEF MemoryNeverAhead
  <2>2. CASE pc # "replaced"
    BY <2>2 DEF MemoryInv, MemoryNeverAhead
  <2> QED BY <2>1, <2>2
<1> QED BY <1>1, Invariance, PTL

\* A worker that ends as it was told to leaves nothing uncommitted behind.
THEOREM CleanExitsCommit == Spec => []CleanExitCommitted
<1>1. IInv => CleanExitCommitted
  BY DEF IInv, BatchInv, Leaving, CleanExitCommitted
<1> QED BY <1>1, Invariance, PTL

LEMMA CoveredIsDone == ASSUME NEW n PROVE Effects!Covered(n) <=> DoneBefore(n)
BY DEF Effects!Covered, DoneBefore, Effects!Range, Range

\* Every step of the worker and its surroundings is one InboxEffects allows.
LEMMA StepRefines == IInv /\ [Next]_vars => [Effects!Next]_(Effects!vars)
<1> SUFFICES ASSUME IInv, [Next]_vars PROVE [Effects!Next]_(Effects!vars) OBVIOUS
<1> USE DEF Effects!vars, Effects!Next
<1>1. CASE ProducerStep
  BY <1>1, ProducerStepLog DEF IInv, Effects!Publish
<1>2. CASE Persist
  <2>1. /\ applied = file /\ DoneBefore(cursor) /\ cursor \in Nat /\ cursor + 1 \in DOMAIN log
        /\ \A e \in Range(applied) : e.id # Current.id
    BY <1>2 DEF Persist, IInv, TypeOK, MemoryInv, Running, BatchInv, InBatch
  <2>2. Effects!Covered((cursor + 1) - 1) /\ ~Effects!HasEffect(log[cursor + 1].id)
    BY <2>1, CoveredIsDone DEF Effects!HasEffect, Current, Effects!Range, Range
  <2> QED BY <1>2, <2>1, <2>2 DEF Persist, broker, Effects!Take, Current
<1>3. CASE Commit \/ CommitFails
  <2>1. /\ committed' \in {committed, NextCommit} /\ pc = "commit"
        /\ UNCHANGED <<log, producer, file, memory, settings>>
    BY <1>3 DEF Commit, CommitFails
  <2>2. committed <= NextCommit /\ committed' \in 0 .. Len(log') /\ CommittedIsApplied'
    BY <2>1, CommitStores
  <2>3. committed' \in committed .. Len(log)
    BY <2>1, <2>2 DEF IInv, TypeOK
  <2>4. Effects!Covered(committed')
    BY <2>1, <2>2 DEF CommittedIsApplied, Effects!Covered, Effects!Range, Range
  <2> QED BY <2>1, <2>3, <2>4 DEF Effects!Commit
<1>4. CASE Start \/ Poll \/ Rebalance \/ Close \/ Deliver \/ Put \/ Mark \/ Crash \/ UNCHANGED vars
  BY <1>4 DEF Start, Poll, Rebalance, Close, Deliver, Put, Mark, Crash, vars, broker
<1> QED BY <1>1, <1>2, <1>3, <1>4 DEF Next, Worker, ProducerStep

\* Exactly one effect per event, in the order of the log, behind every commit: the
\* worker with its crashes, redeliveries and rebalances implements InboxEffects.
THEOREM InboxImplementsEffects == Spec => ImplementsInboxEffects
<1>1. Init => Effects!Init
  BY DEF Init, Effects!Init
<1>2. IInv /\ [Next]_vars => [Effects!Next]_(Effects!vars)
  BY StepRefines
<1> QED BY <1>1, <1>2, Invariance, PTL DEF Spec, Effects!Spec, ImplementsInboxEffects

-----------------------------------------------------------------------------
(* The checkpoint alone, under deliveries with gaps and completions in any *)
(* order, of which the worker uses one of each in turn.                    *)

Ascending(d) == \A i, j \in DOMAIN d : i < j => d[i] < d[j]

\* What holds between calls.  All before nextCommit is complete; the list has what
\* was delivered from there on, and begins with an offset that is not complete.
PrefixInv(c, delivered, completed) ==
  /\ c.delivered \in Seq(Nat) /\ c.nextCommit \in Nat
  /\ delivered \subseteq Nat /\ completed \subseteq delivered
  /\ Ascending(c.delivered)
  /\ Range(c.delivered) = {o \in delivered : o >= c.nextCommit}
  /\ c.completed = {o \in completed : o >= c.nextCommit}
  /\ {o \in delivered : o < c.nextCommit} \subseteq completed
  /\ c.delivered # <<>> => c.delivered[1] \notin completed
  /\ c.nextCommit = 0 \/ c.nextCommit - 1 \in delivered

\* A set of naturals has a least element.
LEMMA LeastOf ==
  ASSUME NEW N \in SUBSET Nat, N # {}
  PROVE  \E m \in N : \A n \in N : m <= n
<1> DEFINE Earlier == {p \in Nat \X Nat : p[1] < p[2]}
<1>1. IsWellFoundedOn(Earlier, Nat)
  <2>1. Earlier = OpToRel(<, Nat)
    BY Zenon DEF OpToRel, Earlier
  <2> QED BY <2>1, NatLessThanWellFounded, Zenon
<1>2. PICK m \in N : \A n \in N : ~(<<n, m>> \in Earlier)
  BY <1>1, WFMin, Zenon
<1>3. ASSUME NEW n \in N, n < m PROVE FALSE
  BY <1>2, <1>3
<1> QED BY <1>2, <1>3

\* A set of naturals up to a bound has a greatest element.
LEMMA MaxUpTo ==
  ASSUME NEW b \in Nat, NEW S \in SUBSET (0 .. b), 0 \in S
  PROVE  Max(S) \in S /\ \A x \in S : Max(S) >= x
<1>1. \E m \in S : \A x \in S : m >= x
  <2> DEFINE T == {n \in Nat : \A x \in S : x <= n}
  <2>1. PICK m \in T : \A n \in T : m <= n
    BY b \in T, LeastOf
  <2>2. ASSUME m \notin S PROVE FALSE
    <3>1. m # 0
      BY <2>2
    <3>2. m - 1 \in T
      BY <2>2, <3>1
    <3> QED BY <2>1, <3>2
  <2> QED BY <2>1, <2>2
<1> QED BY <1>1 DEF Max

LEMMA PrefixMeans ==
  ASSUME NEW c, NEW delivered, NEW completed, PrefixInv(c, delivered, completed)
  PROVE  CheckpointTrue(c, delivered, completed)
<1> DEFINE n == c.nextCommit
           d == c.delivered
           unfinished == delivered \ completed
           finished == {o \in delivered : \A u \in unfinished : o < u}
<1>1. /\ d \in Seq(Nat) /\ n \in Nat /\ delivered \subseteq Nat /\ completed \subseteq delivered
      /\ Ascending(d) /\ Range(d) = {o \in delivered : o >= n}
      /\ c.completed = {o \in completed : o >= n}
      /\ {o \in delivered : o < n} \subseteq completed
      /\ d # <<>> => d[1] \notin completed
      /\ n = 0 \/ n - 1 \in delivered
  BY DEF PrefixInv
<1>2. Len(d) \in Nat /\ DOMAIN d = 1 .. Len(d) /\ \A i \in DOMAIN d : d[i] \in Nat
  BY <1>1
<1> HIDE DEF d, n
<1>3. finished = {o \in delivered : o < n}
  <2>1. ASSUME NEW o \in delivered, o < n, NEW u \in unfinished PROVE o < u
    BY <1>1, <2>1
  <2>2. ASSUME NEW o \in delivered, o >= n PROVE \E u \in unfinished : u <= o
    <3>1. PICK i \in DOMAIN d : d[i] = o
      BY <1>1, <2>2 DEF Range
    <3>2. 1 \in DOMAIN d /\ d # <<>> /\ (i = 1 \/ 1 < i)
      BY <1>2, <3>1
    <3>3. d[1] <= o
      BY <1>1, <1>2, <3>1, <3>2 DEF Ascending
    <3>4. d[1] \in unfinished
      BY <1>1, <3>2 DEF Range
    <3> QED BY <3>3, <3>4
  <2>3. ASSUME NEW o \in delivered PROVE o \in Nat /\ (o < n \/ o >= n)
    BY <1>1
  <2>4. ASSUME NEW o \in delivered, NEW u \in unfinished PROVE o \in Nat /\ u \in Nat
    BY <1>1
  <2> QED BY <2>1, <2>2, <2>3, <2>4
<1>4. n = IF finished = {} THEN 0 ELSE Max(finished) + 1
  <2>1. CASE n = 0
    <3> HIDE DEF finished
    <3>1. \A o \in finished : o \in Nat /\ o < 0
      BY <1>1, <1>3, <2>1
    <3>2. finished = {}
      BY <3>1
    <3> QED BY <2>1, <3>2
  <2>2. CASE n # 0
    <3>1. n - 1 \in finished /\ \A o \in finished : o \in Nat /\ n - 1 >= o
      BY <1>1, <1>3, <2>2
    <3>2. PICK F : F = finished
      OBVIOUS
    <3>3. n - 1 \in F /\ \A o \in F : o \in Nat /\ n - 1 >= o
      BY <3>1, <3>2
    <3> HIDE DEF finished
    <3>4. Max(F) = n - 1
      BY <1>1, <2>2, <3>3 DEF Max
    <3>5. n = IF F = {} THEN 0 ELSE Max(F) + 1
      BY <1>1, <3>3, <3>4
    <3> QED BY <3>2, <3>5
  <2> QED BY <2>1, <2>2
<1>5. ToSet(d) = delivered \ finished
  <2>1. ToSet(d) = {o \in delivered : o >= n}
    BY <1>1, Zenon DEF ToSet, Range
  <2>2. \A o \in delivered : o >= n <=> ~(o < n)
    BY <1>1
  <2> QED BY <1>3, <2>1, <2>2
<1>6. {o \in delivered : CanComplete(c, o)} = unfinished
  <2>1. ASSUME NEW o \in delivered
        PROVE  CanComplete(c, o) <=> o >= n /\ o \notin completed
    <3>1. CanComplete(c, o) <=> o \in Range(d) /\ o \notin c.completed
      BY DEF CanComplete, Range, d
    <3> QED BY <1>1, <3>1
  <2>2. ASSUME NEW o \in delivered, o \notin completed PROVE o >= n
    BY <1>1, <2>2
  <2> QED BY <2>1, <2>2
<1> QED BY <1>4, <1>5, <1>6, Zenon DEF CheckpointTrue, n, d

LEMMA DeliverKeeps ==
  ASSUME NEW c, NEW delivered, NEW completed, PrefixInv(c, delivered, completed),
         NEW o \in Nat, CanDeliver(c, o)
  PROVE  PrefixInv(Delivered(c, o), delivered \cup {o}, completed)
<1>1. PICK d \in Seq(Nat), n \in Nat : d = c.delivered /\ n = c.nextCommit
  BY DEF PrefixInv
<1>2. /\ delivered \subseteq Nat /\ completed \subseteq delivered
      /\ Ascending(d) /\ Range(d) = {x \in delivered : x >= n}
      /\ c.completed = {x \in completed : x >= n}
      /\ {x \in delivered : x < n} \subseteq completed
      /\ d # <<>> => d[1] \notin completed
      /\ n = 0 \/ n - 1 \in delivered
  BY <1>1 DEF PrefixInv
<1>3. o >= n /\ (d # <<>> => o > d[Len(d)])
  BY <1>1, Zenon DEF CanDeliver, Last
<1>4. PICK l \in Nat : l = Len(d) /\ DOMAIN d = 1 .. l /\ \A i \in 1 .. l : d[i] \in Nat
  OBVIOUS
<1>5. PICK e \in Seq(Nat) : e = Append(d, o)
  BY AppendProperties
<1>6. /\ Len(e) = l + 1 /\ DOMAIN e = 1 .. l + 1 /\ e[l + 1] = o
      /\ \A i \in 1 .. l : e[i] = d[i]
  BY <1>4, <1>5
<1>7. Range(e) = Range(d) \cup {o}
  BY <1>5, RangeAppend
<1>8. l # 0 => d # <<>> /\ o > d[l]
  BY <1>3, <1>4
<1>9. ASSUME NEW i \in 1 .. l PROVE d[i] < o
  <2>1. l \in 1 .. l /\ d[l] \in Nat /\ d[i] \in Nat /\ d[l] < o /\ (i < l \/ i = l)
    BY <1>4, <1>8
  <2>2. i < l => d[i] < d[l]
    BY <1>2, <1>4, <2>1 DEF Ascending
  <2>3. i = l => d[i] = d[l]
    OBVIOUS
  <2> QED BY <2>1, <2>2, <2>3
<1>10. Ascending(e)
  <2>1. ASSUME NEW i \in 1 .. l + 1, NEW j \in 1 .. l + 1, i < j PROVE e[i] < e[j]
    <3>1. i \in 1 .. l
      BY <2>1
    <3>2. CASE j = l + 1
      BY <1>6, <1>9, <3>1, <3>2
    <3>3. CASE j \in 1 .. l
      BY <1>2, <1>4, <1>6, <2>1, <3>1, <3>3 DEF Ascending
    <3> QED BY <3>2, <3>3
  <2> QED BY <1>6, <2>1 DEF Ascending
<1>11. Range(e) = {x \in delivered \cup {o} : x >= n}
  BY <1>2, <1>3, <1>7
<1>12. e # <<>> => e[1] \notin completed
  <2>1. CASE l = 0
    <3>1. e[1] = o /\ Range(d) = {}
      BY <1>4, <1>6, <2>1 DEF Range
    <3>2. o \notin completed
      BY <1>2, <1>3, <3>1
    <3> QED BY <3>1, <3>2
  <2>2. CASE l # 0
    <3>1. 1 \in 1 .. l /\ d # <<>>
      BY <1>4, <2>2
    <3> QED BY <1>2, <1>6, <3>1
  <2> QED BY <2>1, <2>2
<1>13. {x \in delivered \cup {o} : x < n} \subseteq completed
  BY <1>2, <1>3
<1>14. /\ Delivered(c, o).delivered = e
       /\ Delivered(c, o).completed = c.completed
       /\ Delivered(c, o).nextCommit = n
  BY <1>1, <1>5 DEF Delivered
<1>15. /\ delivered \cup {o} \subseteq Nat /\ completed \subseteq delivered \cup {o}
       /\ n = 0 \/ n - 1 \in delivered \cup {o}
  BY <1>2
<1> QED BY <1>2, <1>10, <1>11, <1>12, <1>13, <1>14, <1>15, Zenon DEF PrefixInv

LEMMA CompleteKeeps ==
  ASSUME NEW c, NEW delivered, NEW completed, PrefixInv(c, delivered, completed),
         NEW o, CanComplete(c, o)
  PROVE  PrefixInv(Completed(c, o), delivered, completed \cup {o})
<1>1. PICK d \in Seq(Nat), n \in Nat : d = c.delivered /\ n = c.nextCommit
  BY DEF PrefixInv
<1>2. /\ delivered \subseteq Nat /\ completed \subseteq delivered
      /\ Ascending(d) /\ Range(d) = {x \in delivered : x >= n}
      /\ c.completed = {x \in completed : x >= n}
      /\ {x \in delivered : x < n} \subseteq completed
      /\ d # <<>> => d[1] \notin completed
      /\ n = 0 \/ n - 1 \in delivered
  BY <1>1 DEF PrefixInv
<1>3. PICK l \in Nat : l = Len(d) /\ DOMAIN d = 1 .. l /\ \A i \in 1 .. l : d[i] \in Nat
  OBVIOUS
<1>4. o \in delivered /\ o >= n
  BY <1>1, <1>2 DEF CanComplete, Range
<1>5. PICK done : done = c.completed \cup {o}
  OBVIOUS
<1>6. done = {x \in completed \cup {o} : x >= n}
  BY <1>2, <1>4, <1>5
<1>7. PICK k \in 0 .. l : /\ k = Max(DonePrefixes(d, done))
                          /\ \A i \in 1 .. k : d[i] \in done
                          /\ k < l => d[k + 1] \notin done
  <2>1. PICK P : P = DonePrefixes(d, done)
    OBVIOUS
  <2>2. P = {m \in 0 .. l : \A i \in 1 .. m : d[i] \in done}
    BY <1>3, <2>1 DEF DonePrefixes
  <2>3. P \in SUBSET (0 .. l) /\ 0 \in P
    BY <2>2
  <2>4. PICK k : k = Max(P)
    OBVIOUS
  <2>5. k \in P /\ \A x \in P : k >= x
    BY <2>3, <2>4, MaxUpTo
  <2>6. ASSUME k < l, d[k + 1] \in done PROVE FALSE
    <3>1. k + 1 \in 0 .. l /\ \A i \in 1 .. k + 1 : i \in 1 .. k \/ i = k + 1
      BY <2>2, <2>5, <2>6
    <3>2. k + 1 \in P
      BY <2>2, <2>5, <2>6, <3>1
    <3> QED BY <2>2, <2>5, <3>1, <3>2
  <2> QED BY <2>1, <2>2, <2>4, <2>5, <2>6
<1>8. PICK m : m = IF k = 0 THEN n ELSE d[k] + 1
  OBVIOUS
<1>9. PICK e : e = SubSeq(d, k + 1, Len(d))
  OBVIOUS
<1>10. PICK rest : rest = done \ {d[i] : i \in 1 .. k}
  OBVIOUS
<1>11. /\ Completed(c, o).delivered = e
       /\ Completed(c, o).completed = rest
       /\ Completed(c, o).nextCommit = m
  <2>1. Completed(c, o) =
          [delivered  |-> SubSeq(d, k + 1, Len(d)),
           completed  |-> done \ {d[i] : i \in 1 .. k},
           nextCommit |-> IF k = 0 THEN n ELSE d[k] + 1]
    BY <1>1, <1>5, <1>7, Zenon DEF Completed
  <2> QED BY <1>8, <1>9, <1>10, <2>1
\* What the prefix and the rest are.
<1>12. \A i \in 1 .. l : d[i] >= n /\ d[i] \in delivered
  BY <1>2, <1>3 DEF Range
<1>13. m \in Nat /\ \A i \in 1 .. l : d[i] >= m <=> i > k
  <2>1. CASE k = 0
    BY <1>8, <1>12, <2>1
  <2>2. CASE k # 0
    <3>1. k \in 1 .. l /\ m = d[k] + 1 /\ d[k] \in Nat
      BY <1>3, <1>7, <1>8, <2>2
    <3>2. ASSUME NEW i \in 1 .. l PROVE d[i] >= m <=> i > k
      <4>1. i < k => d[i] < d[k]
        BY <1>2, <1>3, <3>1 DEF Ascending
      <4>2. i > k => d[k] < d[i]
        BY <1>2, <1>3, <3>1 DEF Ascending
      <4>3. d[i] \in Nat /\ i \in Int /\ k \in Int /\ (i = k => d[i] = d[k])
        BY <1>3
      <4> QED BY <3>1, <4>1, <4>2, <4>3
    <3> QED BY <3>1, <3>2
  <2> QED BY <2>1, <2>2
<1>14. m >= n
  <2>1. CASE k = 0
    BY <1>8, <2>1
  <2>2. CASE k # 0
    BY <1>3, <1>7, <1>8, <1>12, <2>2
  <2> QED BY <2>1, <2>2
<1>15. e \in Seq(Nat) /\ DOMAIN e = 1 .. l - k /\ \A i \in 1 .. l - k : e[i] = d[k + i] /\ k + i \in 1 .. l
  <2>1. k + 1 \in Int /\ l \in Int /\ \A i \in k + 1 .. l : d[i] \in Nat
    BY <1>3, <1>7
  <2>2. /\ SubSeq(d, k + 1, l) \in Seq(Nat)
        /\ Len(SubSeq(d, k + 1, l)) = IF k + 1 <= l THEN l - (k + 1) + 1 ELSE 0
        /\ \A i \in 1 .. l - (k + 1) + 1 : SubSeq(d, k + 1, l)[i] = d[k + 1 + i - 1]
    BY <2>1, SubSeqProperties
  <2>3. e = SubSeq(d, k + 1, l)
    BY <1>3, <1>9
  <2>4. (IF k + 1 <= l THEN l - (k + 1) + 1 ELSE 0) = l - k /\ l - (k + 1) + 1 = l - k
    BY <1>7
  <2>5. \A i \in 1 .. l - k : k + 1 + i - 1 = k + i /\ k + i \in 1 .. l
    BY <1>7
  <2>6. e \in Seq(Nat) /\ Len(e) = l - k
    BY <2>2, <2>3, <2>4, Zenon
  <2>7. DOMAIN e = 1 .. l - k
    BY <2>6
  <2>8. \A i \in 1 .. l - k : e[i] = d[k + 1 + i - 1]
    BY <2>2, <2>3, <2>4, Zenon
  <2> QED BY <2>5, <2>6, <2>7, <2>8, Zenon
<1>16. Range(e) = {x \in delivered : x >= m}
  <2>1. ASSUME NEW i \in 1 .. l - k PROVE e[i] \in {x \in delivered : x >= m}
    <3>1. k + i \in 1 .. l /\ e[i] = d[k + i]
      BY <1>15, Zenon
    <3>2. k + i > k
      BY <1>7
    <3> QED BY <1>12, <1>13, <3>1, <3>2
  <2>2. ASSUME NEW x \in delivered, x >= m PROVE x \in Range(e)
    <3>1. x >= n
      BY <1>2, <1>13, <1>14, <2>2
    <3>2. PICK i \in 1 .. l : d[i] = x
      BY <1>2, <1>3, <3>1 DEF Range
    <3>3. i - k \in 1 .. l - k /\ k + (i - k) = i
      BY <1>7, <1>13, <2>2, <3>2
    <3> QED BY <1>15, <3>2, <3>3 DEF Range
  <2> QED BY <1>15, <2>1, <2>2 DEF Range
<1>17. Ascending(e)
  <2>1. ASSUME NEW i \in 1 .. l - k, NEW j \in 1 .. l - k, i < j PROVE e[i] < e[j]
    <3>1. k + i < k + j
      BY <1>7, <2>1
    <3> QED BY <1>2, <1>3, <1>15, <3>1 DEF Ascending
  <2> QED BY <1>15, <2>1 DEF Ascending
<1>18. rest = {x \in completed \cup {o} : x >= m}
  <2>1. ASSUME NEW x \in completed \cup {o}, x >= m PROVE x \in rest
    <3>1. x \in Nat /\ x >= n
      BY <1>2, <1>4, <1>13, <1>14, <2>1
    <3>2. \A i \in 1 .. k : d[i] # x
      BY <1>7, <1>13, <2>1
    <3> QED BY <1>6, <1>10, <3>1, <3>2
  <2>2. ASSUME NEW x \in rest PROVE x \in completed \cup {o} /\ x >= m
    <3>1. x \in done /\ x \in completed \cup {o} /\ x >= n /\ x \in delivered
      BY <1>2, <1>4, <1>6, <1>10
    <3>2. PICK i \in 1 .. l : d[i] = x
      BY <1>2, <1>3, <3>1 DEF Range
    <3>3. i > k
      BY <1>7, <1>10, <3>2
    <3> QED BY <1>13, <3>1, <3>2, <3>3
  <2> QED BY <2>1, <2>2
<1>19. {x \in delivered : x < m} \subseteq completed \cup {o}
  <2>1. ASSUME NEW x \in delivered, x < m PROVE x \in completed \cup {o}
    <3>1. CASE x < n
      BY <1>2, <3>1
    <3>2. CASE x >= n
      <4>1. PICK i \in 1 .. l : d[i] = x
        BY <1>2, <1>3, <3>2 DEF Range
      <4>2. i \in 1 .. k
        BY <1>2, <1>7, <1>13, <2>1, <4>1
      <4> QED BY <1>6, <1>7, <4>1, <4>2
    <3> QED BY <1>2, <3>1, <3>2
  <2> QED BY <2>1
<1>20. e # <<>> => e[1] \notin completed \cup {o}
  <2>1. ASSUME e # <<>> PROVE e[1] \notin completed \cup {o}
    <3>1. 1 \in 1 .. l - k /\ k < l
      BY <1>7, <1>15, <2>1
    <3>2. e[1] = d[k + 1] /\ d[k + 1] \notin done /\ d[k + 1] >= n
      BY <1>7, <1>12, <1>15, <3>1
    <3> QED BY <1>6, <3>2
  <2> QED BY <2>1
<1>21. m = 0 \/ m - 1 \in delivered
  <2>1. CASE k = 0
    BY <1>2, <1>8, <2>1
  <2>2. CASE k # 0
    BY <1>3, <1>7, <1>8, <1>12, <2>2
  <2> QED BY <2>1, <2>2
<1>22. delivered \subseteq Nat /\ completed \cup {o} \subseteq delivered
  BY <1>2, <1>4
<1> QED BY <1>11, <1>13, <1>15, <1>16, <1>17, <1>18, <1>19, <1>20, <1>21, <1>22, Zenon DEF PrefixInv

\* From an empty checkpoint, whatever is delivered in order and completed in any order,
\* Checkpoint.java offers the offset behind the longest completed prefix of what was
\* delivered, never one further, and forgets nothing that waits.
THEOREM CheckpointFollowsPrefix ==
  /\ PrefixInv(StartAt(0), {}, {})
  /\ \A c, delivered, completed : PrefixInv(c, delivered, completed) =>
       /\ CheckpointTrue(c, delivered, completed)
       /\ \A o \in Nat : CanDeliver(c, o) => PrefixInv(Delivered(c, o), delivered \cup {o}, completed)
       /\ \A o : CanComplete(c, o) => PrefixInv(Completed(c, o), delivered, completed \cup {o})
<1>1. PrefixInv(StartAt(0), {}, {})
  <2>1. /\ StartAt(0).delivered = <<>> /\ StartAt(0).completed = {} /\ StartAt(0).nextCommit = 0
    BY DEF StartAt
  <2>2. <<>> \in Seq(Nat) /\ Ascending(<<>>) /\ Range(<<>>) = {}
    <3>1. DOMAIN <<>> = {} /\ <<>> \in Seq(Nat)
      OBVIOUS
    <3> QED BY <3>1 DEF Ascending, Range
  <2>3. /\ Range(<<>>) = {o \in {} : o >= 0} /\ {} = {o \in {} : o >= 0} /\ {o \in {} : o < 0} \subseteq {}
        /\ 0 \in Nat
    BY <2>2
  <2> QED BY <2>1, <2>2, <2>3, Zenon DEF PrefixInv
<1> QED BY <1>1, PrefixMeans, DeliverKeeps, CompleteKeeps, Zenon
=============================================================================
