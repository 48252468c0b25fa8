----------------------------- MODULE Checkpoint -----------------------------
(***************************************************************************)
(* Checkpoint.java of examples/knowledge/kafka-lab: offsets are delivered  *)
(* in order, may complete in any order, and the next offset to commit is   *)
(* the one after the longest completed prefix of what was delivered.  The  *)
(* Can* operators are the conditions whose failure throws.                 *)
(***************************************************************************)
EXTENDS Integers, Sequences, SequencesExt, FiniteSetsExt

StartAt(offset) == [delivered |-> <<>>, completed |-> {}, nextCommit |-> offset]

CanDeliver(c, offset) ==
  /\ offset >= c.nextCommit
  /\ c.delivered # <<>> => offset > Last(c.delivered)

Delivered(c, offset) ==
  [delivered  |-> Append(c.delivered, offset),
   completed  |-> c.completed,
   nextCommit |-> c.nextCommit]

CanComplete(c, offset) ==
  /\ \E i \in DOMAIN c.delivered : c.delivered[i] = offset
  /\ offset \notin c.completed

\* Mutant: a prefix counts as done when its last offset is.
PrefixesDoneAtTheEnd(delivered, done) == {0} \cup {n \in 1 .. Len(delivered) : delivered[n] \in done}

\* Lengths of the prefixes of a delivery that lie in a set of finished offsets.
DonePrefixes(delivered, done) ==
  {n \in 0 .. Len(delivered) : \A i \in 1 .. n : delivered[i] \in done}

\* The prefix that is done leaves both collections and moves nextCommit behind it.
Completed(c, offset) ==
  LET done == c.completed \cup {offset}
      n == Max(DonePrefixes(c.delivered, done))
  IN  [delivered  |-> SubSeq(c.delivered, n + 1, Len(c.delivered)),
       completed  |-> done \ {c.delivered[i] : i \in 1 .. n},
       nextCommit |-> IF n = 0 THEN c.nextCommit ELSE c.delivered[n] + 1]
-----------------------------------------------------------------------------
\* After these deliveries and completions from offset 0: the commit is behind
\* every finished offset before the first unfinished one, and not over that;
\* what waits is what was delivered from there on, and no more may complete.
CheckpointTrue(c, delivered, completed) ==
  LET unfinished == delivered \ completed
      finished == {o \in delivered : \A u \in unfinished : o < u}
  IN /\ c.nextCommit = (IF finished = {} THEN 0 ELSE Max(finished) + 1)
     /\ ToSet(c.delivered) = delivered \ finished
     /\ {o \in delivered : CanComplete(c, o)} = unfinished
=============================================================================
