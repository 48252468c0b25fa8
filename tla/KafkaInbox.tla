----------------------------- MODULE KafkaInbox -----------------------------
(***************************************************************************)
(* The inbox worker of examples/knowledge/kafka-lab: one partition, one    *)
(* consumer process that is killed and started again, a file that records  *)
(* the events already applied, and commits that follow the effects.        *)
(*                                                                         *)
(* The file is replaced as a whole by an atomic rename, so a process crash *)
(* leaves the old or the new content; the temporary file it is written to  *)
(* has a fresh name and is never read back.  Two workers never run at once *)
(* (the lab's README rules it out), the topic is never trimmed, and one    *)
(* event id and payload stand for their encoded bytes, whose limits are    *)
(* not reached.                                                            *)
(***************************************************************************)
EXTENDS Integers, Sequences, FiniteSets, Functions, Checkpoint

CONSTANTS
  Count,           \* argument of ProducerMain: events evt-0 .. evt-(Count - 1)
  ForeignRecords,  \* records another producer may put into the topic
  MaxPoll,         \* MAX_POLL_RECORDS_CONFIG (10 in the code)
  RecordLimits,    \* MAX_RECORDS values a worker is started with, 0 for none
  MaxProducerRuns, \* bound: times ProducerMain is run
  MaxFaults        \* bound: crashes, failed commits and KILL_BEFORE_COMMIT runs

Ids == 0 .. Count - 1

\* The record of evt-i carries the payload amount=i+1, in every run.
RecordOf(i) == [id |-> i, payload |-> i + 1]

Records == {RecordOf(i) : i \in Ids} \cup ForeignRecords

ASSUME KafkaAssumption ==
  /\ Count \in Nat \ {0} /\ MaxPoll \in Nat \ {0}
  /\ ForeignRecords \subseteq [id : Nat, payload : Nat]
  /\ RecordLimits \subseteq Nat /\ RecordLimits # {}
  /\ MaxProducerRuns \in Nat /\ MaxFaults \in Nat

NoId == -1
NoCheckpoint == [nextCommit |-> -1]

VARIABLES
  log,            \* broker: the records of lab-events, offset o at log[o + 1]
  committed,      \* broker: committed offset of group lab-inbox, 0 for none
  producerRuns,   \* runs of ProducerMain so far
  sendNext,       \* i of the producer's loop; Count when no producer runs
  inFlight,       \* events a killed producer had sent that have not reached the log
  file,           \* INBOX_FILE: the applied records, in order
  pc,             \* where the worker's main stands, or how its process ended
  applied,        \* InboxStore.applied, the memory of the process
  position,       \* fetch position of the consumer
  cursor,         \* offset of the record the for loop is at
  checkpoint,     \* checkpoints.get(partition)
  closing,        \* the flag that ends the loop
  stopAfter,      \* STOP_AFTER_EVENT_ID of this process, NoId for none
  killing,        \* KILL_BEFORE_COMMIT of this process
  maxRecords,     \* MAX_RECORDS of this process
  faults          \* faults so far

broker   == <<log, committed>>
producer == <<producerRuns, sendNext, inFlight>>
settings == <<stopAfter, killing, maxRecords>>
memory   == <<applied, position, cursor, checkpoint, closing>>
vars     == <<broker, producer, file, pc, memory, settings, faults>>

Init ==
  /\ log = <<>>
  /\ committed = 0
  /\ producerRuns = 0
  /\ sendNext = Count
  /\ inFlight = {}
  /\ file = <<>>
  /\ pc = "ended"
  /\ applied = <<>>
  /\ position = 0
  /\ cursor = 0
  /\ checkpoint = NoCheckpoint
  /\ closing = FALSE
  /\ stopAfter = NoId
  /\ killing = FALSE
  /\ maxRecords = 0
  /\ faults = 0

Fault == faults < MaxFaults /\ faults' = faults + 1

-----------------------------------------------------------------------------
(* The producers.                                                          *)

\* ProducerMain is run, again from evt-0 if an earlier run was killed.
ProducerStart ==
  /\ sendNext = Count
  /\ producerRuns < MaxProducerRuns
  /\ producerRuns' = producerRuns + 1
  /\ sendNext' = 0
  /\ UNCHANGED <<broker, inFlight, file, pc, memory, settings, faults>>

\* send and its result.get: acks=all and idempotence put the record there once.
ProducerSend ==
  /\ sendNext < Count
  /\ log' = Append(log, RecordOf(sendNext))
  /\ sendNext' = sendNext + 1
  /\ UNCHANGED <<committed, producerRuns, inFlight, file, pc, memory, settings, faults>>

\* KILL_BEFORE_ACK, or a result that never comes: the record is lost, or on its way.
ProducerKilled ==
  /\ sendNext < Count
  /\ inFlight' \in {inFlight, inFlight \cup {sendNext}}
  /\ sendNext' = Count
  /\ UNCHANGED <<broker, producerRuns, file, pc, memory, settings, faults>>

LateRecord ==
  /\ \E i \in inFlight :
       /\ log' = Append(log, RecordOf(i))
       /\ inFlight' = inFlight \ {i}
  /\ UNCHANGED <<committed, producerRuns, sendNext, file, pc, memory, settings, faults>>

\* Somebody else's record, such as an event id with another payload.
ForeignSend ==
  /\ \E r \in ForeignRecords \ Range(log) : log' = Append(log, r)
  /\ UNCHANGED <<committed, producer, file, pc, memory, settings, faults>>

-----------------------------------------------------------------------------
(* Mutants of the worker: mistakes the properties must notice.             *)

Running == pc \notin {"ended", "closed"}

Current == log[cursor + 1]

\* A worker that starts from an empty map instead of the file.
LoadNothing == <<>>

\* An event seen before is taken for an error.
VerdictRejectsKnown ==
  IF \E e \in Range(applied) : e.id = Current.id THEN "ended" ELSE "apply"

\* A commit of what was fetched instead of what was completed.
NextCommitOfPosition == position

\* The offset after the next one.
NextCommitOffByOne == checkpoint.nextCommit + 1

\* A worker told to stop that leaves at once, before its last commit.
AfterStopNoCommit == "closed"

-----------------------------------------------------------------------------
(* The worker.                                                             *)

\* InboxStore.load: what a new process finds in the file.
Load == file

\* main starts: the inbox is loaded, and the consumer joins the group at the
\* committed offset (auto.offset.reset is earliest, for a group with none).
Start ==
  /\ ~Running
  /\ stopAfter' \in {NoId} \cup Ids
  /\ killing' \in BOOLEAN
  /\ killing' => stopAfter' # NoId
  /\ IF killing' THEN Fault ELSE UNCHANGED faults
  /\ maxRecords' \in RecordLimits
  /\ applied' = Load
  /\ position' = committed /\ cursor' = committed
  /\ checkpoint' = NoCheckpoint
  /\ closing' = FALSE
  /\ pc' = "loop"
  /\ UNCHANGED <<broker, producer, file>>

\* poll hands out the next records and moves the position behind them.
Poll ==
  /\ pc = "loop" /\ ~closing
  /\ \E n \in 1 .. MaxPoll :
       /\ position + n <= Len(log)
       /\ cursor' = position
       /\ position' = position + n
  /\ pc' = "record"
  /\ UNCHANGED <<broker, producer, file, applied, checkpoint, closing, settings, faults>>

\* A rebalance inside poll: the listener drops the checkpoint, and the partition
\* is read again from the committed offset.
Rebalance ==
  /\ pc = "loop" /\ ~closing
  /\ checkpoint' = NoCheckpoint
  /\ position' = committed
  /\ UNCHANGED <<broker, producer, file, pc, applied, cursor, closing, settings, faults>>

Close ==
  /\ pc = "loop" /\ closing
  /\ pc' = "closed"
  /\ UNCHANGED <<broker, producer, file, memory, settings, faults>>

\* The checkpoint the current record is delivered to: computeIfAbsent.
CheckpointHere == IF checkpoint = NoCheckpoint THEN StartAt(cursor) ELSE checkpoint

\* The part of applyOnce that only looks: a known event is skipped, a known id with
\* another payload throws, a new one is to be applied.
Verdict ==
  IF Current \in Range(applied) THEN "mark"
  ELSE IF \E e \in Range(applied) : e.id = Current.id THEN "ended"
  ELSE "apply"

\* delivered, which throws on an offset out of order, and the start of applyOnce.
Deliver ==
  /\ pc = "record"
  /\ IF CanDeliver(CheckpointHere, cursor)
     THEN /\ checkpoint' = Delivered(CheckpointHere, cursor)
          /\ pc' = Verdict
     ELSE pc' = "ended" /\ UNCHANGED checkpoint
  /\ UNCHANGED <<broker, producer, file, applied, position, cursor, closing, settings, faults>>

\* persist: the file is replaced by the map and the new record.
Persist ==
  /\ pc = "apply"
  /\ file' = Append(applied, Current)
  /\ pc' = "replaced"
  /\ UNCHANGED <<broker, producer, memory, settings, faults>>

\* applied.put, after persist returned.
Put ==
  /\ pc = "replaced"
  /\ applied' = Append(applied, Current)
  /\ pc' = "mark"
  /\ UNCHANGED <<broker, producer, file, position, cursor, checkpoint, closing, settings, faults>>

AfterStop == "commit"

\* markCompleted, then the two reasons to stop: enough records in the inbox (the
\* batch goes on all the same) and the event this process was told to stop after.
Mark ==
  /\ pc = "mark"
  /\ checkpoint' = Completed(checkpoint, cursor)
  /\ closing' = (closing \/ (maxRecords > 0 /\ Len(applied) >= maxRecords) \/ Current.id = stopAfter)
  /\ cursor' = cursor + 1
  /\ pc' = IF Current.id = stopAfter THEN (IF killing THEN "ended" ELSE AfterStop)
           ELSE IF cursor + 1 < position THEN "record" ELSE "commit"
  /\ UNCHANGED <<broker, producer, file, applied, position, settings, faults>>

NextCommit == checkpoint.nextCommit

\* commitSync of the contiguous next offset.
Commit ==
  /\ pc = "commit"
  /\ committed' = NextCommit
  /\ pc' = "loop"
  /\ UNCHANGED <<log, producer, file, memory, settings, faults>>

\* commitSync throws and main with it; the broker may have stored the offset.
CommitFails ==
  /\ Fault
  /\ pc = "commit"
  /\ committed' \in {committed, NextCommit}
  /\ pc' = "ended"
  /\ UNCHANGED <<log, producer, file, memory, settings>>

\* The process dies at any other point: killed, an I/O error, or an expired deadline.
Crash ==
  /\ Fault
  /\ Running
  /\ pc' = "ended"
  /\ UNCHANGED <<broker, producer, file, memory, settings>>

Worker == Start \/ Poll \/ Close \/ Deliver \/ Persist \/ Put \/ Mark \/ Commit

Next ==
  \/ ProducerStart \/ ProducerSend \/ ProducerKilled \/ LateRecord \/ ForeignSend
  \/ Worker \/ Rebalance \/ CommitFails \/ Crash

Spec == Init /\ [][Next]_vars

\* A worker that runs goes on, and one that ended is started again.  Producers,
\* rebalances and faults are not fair.
FairSpec == Spec /\ WF_vars(Worker)

-----------------------------------------------------------------------------
(* Properties.                                                             *)

\* The values every variable ranges over; in particular nothing is fetched or
\* committed beyond the end of the log.
TypeOK ==
  /\ log \in Seq(Records)
  /\ committed \in 0 .. Len(log)
  /\ producerRuns \in Nat
  /\ sendNext \in 0 .. Count
  /\ inFlight \subseteq Ids
  /\ file \in Seq(Records)
  /\ pc \in {"loop", "record", "apply", "replaced", "mark", "commit", "ended", "closed"}
  /\ applied \in Seq(Records)
  /\ position \in 0 .. Len(log)
  /\ cursor \in 0 .. position
  /\ \/ checkpoint = NoCheckpoint
     \/ checkpoint \in [delivered : Seq(Nat), completed : SUBSET Nat, nextCommit : Nat]
  /\ closing \in BOOLEAN
  /\ stopAfter \in {NoId} \cup Ids
  /\ killing \in BOOLEAN
  /\ maxRecords \in RecordLimits \cup {0}
  /\ faults \in Nat

\* An offset is committed only when the effect of every record before it is in the
\* file (the README's "then commits the contiguous next offset"): a restart, which
\* reads from the committed offset, can then skip no event.
CommittedIsApplied == \A o \in 1 .. committed : log[o] \in Range(file)

\* What a worker skips as applied is on disk: its memory is never ahead of the
\* file, wherever it is killed (applyOnce writes the file before the map).
MemoryNeverAhead == Running => Range(applied) \subseteq Range(file)

\* A worker that ended because MAX_RECORDS or STOP_AFTER told it to has committed
\* everything it handled, and nothing it fetched without handling it.
CleanExitCommitted == pc = "closed" => committed = cursor

Effects == INSTANCE InboxEffects WITH effects <- file

\* The worker implements the promise of InboxEffects: one effect per event id, in
\* the order of the log, and commits that never run ahead nor go back, across
\* every crash, redelivery and repeated run of the producer.
ImplementsInboxEffects == Effects!Spec

\* No record among the first n has an id that an earlier one uses for another payload.
Consistent(n) ==
  \A i, j \in 1 .. n : log[i].id = log[j].id => log[i] = log[j]

\* If faults stop and the worker keeps being started, every record before the
\* first one that applyOnce must refuse takes effect, and if there is none, the
\* whole log is committed.
Drains ==
  <>[]( /\ \A n \in 0 .. Len(log) : Consistent(n) => Effects!Covered(n)
        /\ Consistent(Len(log)) => committed = Len(log) )
=============================================================================
