--------------------------- MODULE OwnershipProofs ---------------------------
(***************************************************************************)
(* Proofs about the three programs of OwnershipMC: that the queue loses no *)
(* notification and, with its mutex and condition variables, implements    *)
(* ClosableQueue; and about the two of windows-io-lab, IocpServer and      *)
(* RioLoopback.                                                            *)
(*                                                                         *)
(* The argument about the queue counts.  Every push that finds a sleeping  *)
(* consumer wakes one, so while consumers sleep the items are no more than *)
(* the consumers on their way to the mutex, and each of these takes at     *)
(* most one item before it sleeps again; the same holds of the producers   *)
(* and the room.                                                           *)
(*                                                                         *)
(* The server has one operation, which is either with the kernel or has    *)
(* its packet at the port until it is handled: that is why its memory is   *)
(* always owned, and why every byte has one place.  The RIO program keeps  *)
(* a balance: what the server has, what is on the wire and what the client *)
(* has sent add up, whatever the sizes of the pieces.                      *)
(***************************************************************************)
EXTENDS OwnershipMC, TLAPS, FiniteSetTheorems, SequenceTheorems

-----------------------------------------------------------------------------
(* The queue.                                                              *)

\* The state of the queue says how far the closing thread is.
CloserInv ==
  /\ closed <=> closer \in {"notify not_empty", "notify not_full", "done"}
  /\ cancelled => closed

\* A producer that waits, or that comes back, is inside a call.
CallInv == \A p \in Producers \cap (waiting \cup woken) : pushes[p] >= 1

IInv == TypeOK /\ CloserInv /\ CallInv /\ NoLostWakeup

-----------------------------------------------------------------------------
(* Counting the threads that are awake.                                    *)

Asleep(S) == waiting \cap S # {}
AsleepNext(S) == waiting' \cap S # {}
Awake(S) == Cardinality(woken \cap S)
AwakeNext(S) == Cardinality(woken' \cap S)

\* The parts of NoLostWakeup, before the close and after it, in this state and the next.
OpenWake ==
  /\ Asleep(Consumers) => Awake(Consumers) >= Len(items)
  /\ Asleep(Producers) => Awake(Producers) >= Capacity - Len(items)
OpenWakeNext ==
  /\ AsleepNext(Consumers) => AwakeNext(Consumers) >= Len(items')
  /\ AsleepNext(Producers) => AwakeNext(Producers) >= Capacity - Len(items')
ClosedWake ==
  /\ Asleep(Consumers) => closer = "notify not_empty"
  /\ Asleep(Producers) => closer \in {"notify not_empty", "notify not_full"}
ClosedWakeNext ==
  /\ AsleepNext(Consumers) => closer' = "notify not_empty"
  /\ AsleepNext(Producers) => closer' \in {"notify not_empty", "notify not_full"}

LEMMA WakeParts ==
  /\ NoLostWakeup <=> ((~closed => OpenWake) /\ (closed => ClosedWake))
  /\ NoLostWakeup' <=> ((~closed' => OpenWakeNext) /\ (closed' => ClosedWakeNext))
BY DEF NoLostWakeup, OpenWake, OpenWakeNext, ClosedWake, ClosedWakeNext, Asleep, AsleepNext, Awake, AwakeNext

LEMMA FiniteThreads == IsFiniteSet(Threads)
BY QueueAssumption, FS_Union DEF Threads

\* More threads awake are more of each side.
LEMMA AwakeGrow ==
  ASSUME NEW W, NEW V, NEW S, W \subseteq V, IsFiniteSet(V)
  PROVE  /\ Cardinality(W \cap S) \in Nat /\ Cardinality(V \cap S) \in Nat
         /\ Cardinality(W \cap S) <= Cardinality(V \cap S)
<1>1. IsFiniteSet(V \cap S) /\ IsFiniteSet(W \cap S)
  BY FS_Subset
<1>2. W \cap S \subseteq V \cap S
  OBVIOUS
<1> QED BY <1>1, <1>2, FS_Subset, FS_CardinalityType

\* One thread that goes leaves the others.
LEMMA AwakeLeave ==
  ASSUME NEW W, IsFiniteSet(W), NEW S, NEW t
  PROVE  /\ Cardinality(W \cap S) \in Nat /\ Cardinality((W \ {t}) \cap S) \in Nat
         /\ Cardinality((W \ {t}) \cap S) >= Cardinality(W \cap S) - 1
         /\ t \notin S => Cardinality((W \ {t}) \cap S) = Cardinality(W \cap S)
<1> DEFINE X == W \cap S
<1>1. IsFiniteSet(X) /\ (W \ {t}) \cap S = X \ {t}
  BY FS_Subset
<1>2. t \notin S => X \ {t} = X
  OBVIOUS
<1> HIDE DEF X
<1>3. /\ IsFiniteSet(X \ {t})
      /\ Cardinality(X \ {t}) = IF t \in X THEN Cardinality(X) - 1 ELSE Cardinality(X)
  BY <1>1, FS_RemoveElement
<1>4. Cardinality(X) \in Nat /\ Cardinality(X \ {t}) \in Nat
  BY <1>1, <1>3, FS_CardinalityType
<1>5. /\ Cardinality(X) \in Nat /\ Cardinality((W \ {t}) \cap S) \in Nat
      /\ Cardinality((W \ {t}) \cap S) >= Cardinality(X) - 1
      /\ t \notin S => Cardinality((W \ {t}) \cap S) = Cardinality(X)
  BY <1>1, <1>2, <1>3, <1>4
<1> QED BY <1>5 DEF X

\* One thread that was asleep is one more of its side.
LEMMA AwakeJoin ==
  ASSUME NEW W, IsFiniteSet(W), NEW S, NEW x \in S, x \notin W
  PROVE  Cardinality((W \cup {x}) \cap S) = Cardinality(W \cap S) + 1
<1>1. IsFiniteSet(W \cap S) /\ x \notin W \cap S
  BY FS_Subset
<1>2. (W \cup {x}) \cap S = (W \cap S) \cup {x}
  OBVIOUS
<1> QED BY <1>1, <1>2, FS_AddElement

\* A thread of one side returns and wakes one of the other, if any sleeps there.
LEMMA AwakeReturn ==
  ASSUME TypeOK, NEW t \in Threads, t \notin waiting, NEW S, NEW O, t \in S, t \notin O,
         NEW w \in NotifyOne(O), woken' = (woken \ {t}) \cup w
  PROVE  /\ Awake(S) \in Nat /\ Awake(O) \in Nat
         /\ AwakeNext(S) \in Nat /\ AwakeNext(O) \in Nat
         /\ AwakeNext(S) >= Awake(S) - 1
         /\ Asleep(O) => AwakeNext(O) = Awake(O) + 1
<1>1. IsFiniteSet(woken) /\ IsFiniteSet(woken \ {t}) /\ IsFiniteSet(woken')
  <2>1. woken \subseteq Threads /\ woken \ {t} \subseteq Threads /\ woken' \subseteq Threads
    BY DEF TypeOK, NotifyOne
  <2> QED BY <2>1, FiniteThreads, FS_Subset
<1>2. /\ Cardinality(woken \cap S) \in Nat /\ Cardinality((woken \ {t}) \cap S) \in Nat
      /\ Cardinality((woken \ {t}) \cap S) >= Cardinality(woken \cap S) - 1
  BY <1>1, AwakeLeave
<1>3. /\ Cardinality(woken \cap O) \in Nat
      /\ Cardinality((woken \ {t}) \cap O) = Cardinality(woken \cap O)
  BY <1>1, AwakeLeave
<1>4. /\ Cardinality(woken' \cap S) \in Nat
      /\ Cardinality((woken \ {t}) \cap S) <= Cardinality(woken' \cap S)
  BY <1>1, woken \ {t} \subseteq woken', AwakeGrow
<1>5. Cardinality(woken' \cap O) \in Nat
  BY <1>1, woken \ {t} \subseteq woken', AwakeGrow
<1>6. ASSUME waiting \cap O # {}
      PROVE  Cardinality(woken' \cap O) = Cardinality(woken \cap O) + 1
  <2>1. PICK x \in waiting \cap O : w = {x}
    BY <1>6 DEF NotifyOne
  <2>2. x \in O /\ x \notin woken \ {t} /\ woken' = (woken \ {t}) \cup {x}
    BY <2>1 DEF TypeOK
  <2>3. Cardinality(((woken \ {t}) \cup {x}) \cap O) = Cardinality((woken \ {t}) \cap O) + 1
    BY <2>2, <1>1, AwakeJoin
  <2> QED BY <2>2, <2>3, <1>3
<1> QED BY <1>2, <1>3, <1>4, <1>5, <1>6 DEF Awake, AwakeNext, Asleep
-----------------------------------------------------------------------------
(* What a thread does with the mutex keeps the invariant.                  *)

\* The rest of a step of t: its call is counted, at the latch perhaps.
Counted(t) ==
  /\ pushes' \in [Producers -> 0 .. MaxPushes]
  /\ \A q \in Producers : pushes'[q] >= pushes[q]
  /\ t \in Producers => pushes'[t] >= 1
  /\ latch' \in 0 .. LatchCount
  /\ closer' = closer \/ (closer = "at latch" /\ closer' = "closing")

\* The thread is awake and where it may take the mutex.
Running(t) == t \in Threads /\ t \notin waiting /\ Counted(t)

LEMMA CloserKeeps ==
  ASSUME CloserInv, TypeOK, NEW t, Counted(t), UNCHANGED <<closed, cancelled>>
  PROVE  /\ CloserInv'
         /\ closer' \in {"start", "at latch", "closing", "notify not_empty", "notify not_full", "done"}
         /\ closed => closer' = closer
BY DEF CloserInv, TypeOK, Counted

LEMMA CallKeeps ==
  ASSUME CallInv, TypeOK, NEW t, Running(t), (waiting \cup woken)' \subseteq waiting \cup woken \cup {t}
  PROVE  CallInv'
<1> SUFFICES ASSUME NEW q \in Producers, q \in waiting' \cup woken'
             PROVE  pushes'[q] >= 1
  BY DEF CallInv
<1>1. pushes[q] \in Nat /\ pushes'[q] \in Nat /\ pushes'[q] >= pushes[q]
  <2>1. pushes \in [Producers -> 0 .. MaxPushes]
    BY DEF TypeOK
  <2>2. pushes' \in [Producers -> 0 .. MaxPushes] /\ pushes'[q] >= pushes[q]
    BY DEF Running, Counted
  <2> QED BY <2>1, <2>2, QueueAssumption
<1>2. CASE q = t
  BY <1>2 DEF Running, Counted
<1>3. CASE q # t
  BY <1>1, <1>3 DEF CallInv
<1> QED BY <1>2, <1>3

\* A thread that returns, and whom it may wake.
LEMMA ReturnKeeps ==
  ASSUME IInv, NEW t, Running(t), NEW w, w \in NotifyOne(Producers) \cup NotifyOne(Consumers) \cup {{}},
         NEW r \in Items \cup {<<o>> : o \in Outcomes}, Returns(t, r, w), UNCHANGED <<closed, cancelled>>,
         items' \in Seq(Items), Len(items') <= Capacity
  PROVE  TypeOK' /\ CloserInv' /\ CallInv'
<1>1. w \subseteq waiting /\ t \in Threads /\ t \notin waiting
  BY DEF NotifyOne, Running
<1>2. TypeOK /\ Counted(t)
  BY DEF IInv, Running
<1>3. waiting' \subseteq Threads /\ woken' \subseteq Threads /\ waiting' \cap woken' = {}
  BY <1>1, <1>2 DEF TypeOK, Returns
<1>4. result' \in [Threads -> Items \cup {<<o>> : o \in Outcomes}]
  BY <1>1, <1>2 DEF TypeOK, Returns
<1>5. CloserInv' /\ closer' \in {"start", "at latch", "closing", "notify not_empty", "notify not_full", "done"}
  BY <1>2, CloserKeeps DEF IInv
<1>6. CallInv'
  <2>1. (waiting \cup woken)' \subseteq waiting \cup woken \cup {t}
    BY <1>1 DEF Returns
  <2> QED BY <2>1, <1>2, CallKeeps DEF IInv
<1>7. pushes' \in [Producers -> 0 .. MaxPushes] /\ latch' \in 0 .. LatchCount
  BY <1>2 DEF Counted
<1>8. closed' \in BOOLEAN /\ cancelled' \in BOOLEAN
  BY <1>2 DEF TypeOK
<1> QED BY <1>3, <1>4, <1>5, <1>6, <1>7, <1>8 DEF TypeOK

LEMMA AcceptKeeps ==
  ASSUME IInv, NEW p \in Producers, Running(p), Len(items) < Capacity, ~closed, ~cancelled, Accept(p)
  PROVE  IInv'
<1>1. PICK w \in NotifyOne(Consumers) : Returns(p, <<"accepted">>, w)
  BY DEF Accept, WakesOnPush
<1>2. <<p, pushes'[p]>> \in Items /\ items' = Append(items, <<p, pushes'[p]>>)
  <2>1. pushes'[p] \in 1 .. MaxPushes
    <3>1. pushes' \in [Producers -> 0 .. MaxPushes] /\ pushes'[p] >= 1
      BY DEF Running, Counted
    <3> QED BY <3>1, QueueAssumption
  <2> QED BY <2>1 DEF Accept, Items
<1>3. items' \in Seq(Items) /\ Len(items') = Len(items) + 1 /\ Len(items) \in Nat
  BY <1>2, AppendProperties, LenProperties DEF IInv, TypeOK
<1>4. Len(items') <= Capacity
  BY <1>3, QueueAssumption
<1>5. UNCHANGED <<closed, cancelled>>
  BY DEF Accept
<1>6. TypeOK' /\ CloserInv' /\ CallInv'
  <2>1. <<"accepted">> \in {<<o>> : o \in Outcomes}
    BY DEF Outcomes
  <2> QED BY <1>1, <1>3, <1>4, <1>5, <2>1, ReturnKeeps
<1>7. /\ Awake(Producers) \in Nat /\ Awake(Consumers) \in Nat
      /\ AwakeNext(Producers) \in Nat /\ AwakeNext(Consumers) \in Nat
      /\ AwakeNext(Producers) >= Awake(Producers) - 1
      /\ Asleep(Consumers) =>
           AwakeNext(Consumers) = Awake(Consumers) + 1
  <2>1. p \in Threads /\ p \notin Consumers /\ p \notin waiting
    BY QueueAssumption DEF Threads, Running
  <2>2. woken' = (woken \ {p}) \cup w
    BY <1>1 DEF Returns
  <2> QED BY <2>1, <2>2, AwakeReturn DEF IInv
<1>8. (AsleepNext(Consumers) => Asleep(Consumers)) /\ (AsleepNext(Producers) => Asleep(Producers))
  BY <1>1 DEF Returns, Asleep, AsleepNext
<1>9. NoLostWakeup'
  <2>1. OpenWake /\ Capacity \in Nat
    BY WakeParts, QueueAssumption DEF IInv
  <2>2. OpenWakeNext
    BY <1>3, <1>7, <1>8, <2>1 DEF OpenWake, OpenWakeNext
  <2> QED BY <1>5, <2>2, WakeParts
<1> QED BY <1>6, <1>9 DEF IInv

LEMMA TakeKeeps ==
  ASSUME IInv, NEW c \in Consumers, Running(c), items # <<>>, UNCHANGED <<closed, cancelled>>,
         items' = Tail(items), NEW w \in NotifyOne(Producers), Returns(c, Head(items), w)
  PROVE  IInv'
<1>1. items \in Seq(Items) /\ Len(items) <= Capacity
  BY DEF IInv, TypeOK
<1>2. Head(items) \in Items /\ items' \in Seq(Items) /\ Len(items') = Len(items) - 1 /\ Len(items) \in Nat \ {0}
  BY <1>1, HeadTailProperties, LenProperties, EmptySeq
<1>3. Len(items') <= Capacity
  BY <1>1, <1>2, QueueAssumption
<1>4. TypeOK' /\ CloserInv' /\ CallInv'
  BY <1>2, <1>3, ReturnKeeps
<1>5. /\ Awake(Producers) \in Nat /\ Awake(Consumers) \in Nat
      /\ AwakeNext(Producers) \in Nat /\ AwakeNext(Consumers) \in Nat
      /\ AwakeNext(Consumers) >= Awake(Consumers) - 1
      /\ Asleep(Producers) =>
           AwakeNext(Producers) = Awake(Producers) + 1
  <2>1. c \in Threads /\ c \notin Producers /\ c \notin waiting
    BY QueueAssumption DEF Threads, Running
  <2>2. woken' = (woken \ {c}) \cup w
    BY DEF Returns
  <2> QED BY <2>1, <2>2, AwakeReturn DEF IInv
<1>6. (AsleepNext(Consumers) => Asleep(Consumers)) /\ (AsleepNext(Producers) => Asleep(Producers))
  BY DEF Returns, Asleep, AsleepNext
<1>7. closed => closer' = closer
  BY CloserKeeps DEF IInv, Running
<1>8. NoLostWakeup'
  <2>1. (~closed => OpenWake) /\ (closed => ClosedWake) /\ Capacity \in Nat
    BY WakeParts, QueueAssumption DEF IInv
  <2>2. OpenWake => OpenWakeNext
    BY <1>2, <1>5, <1>6, <2>1 DEF OpenWake, OpenWakeNext
  <2>3. closed /\ ClosedWake => ClosedWakeNext
    BY <1>6, <1>7 DEF ClosedWake, ClosedWakeNext
  <2> QED BY <2>1, <2>2, <2>3, WakeParts
<1> QED BY <1>4, <1>8 DEF IInv

\* A thread that gives up or is told the end leaves the queue as it is; of its own side
\* nobody may need it, because there is nothing to take, or everyone is let go.
LEMMA LeaveKeeps ==
  ASSUME IInv, NEW t, Running(t), NEW o \in Outcomes, Returns(t, <<o>>, {}), UNCHANGED queue,
         closed \/ t \notin woken
  PROVE  IInv'
<1>1. items' \in Seq(Items) /\ Len(items') <= Capacity
  BY DEF IInv, TypeOK, queue
<1>2. TypeOK' /\ CloserInv' /\ CallInv'
  BY <1>1, ReturnKeeps DEF queue
<1>3. closed => closer' = closer
  BY CloserKeeps DEF IInv, Running, queue
<1>4. /\ AsleepNext(Consumers) => Asleep(Consumers)
      /\ AsleepNext(Producers) => Asleep(Producers)
      /\ ~closed => AwakeNext(Consumers) = Awake(Consumers) /\ AwakeNext(Producers) = Awake(Producers)
  BY DEF Returns, Asleep, AsleepNext, Awake, AwakeNext
<1>5. NoLostWakeup'
  <2>1. (~closed => OpenWake) /\ (closed => ClosedWake)
    BY WakeParts DEF IInv
  <2>2. ~closed /\ OpenWake => OpenWakeNext
    BY <1>4 DEF OpenWake, OpenWakeNext, queue
  <2>3. closed /\ ClosedWake => ClosedWakeNext
    BY <1>3, <1>4 DEF ClosedWake, ClosedWakeNext
  <2> QED BY <2>1, <2>2, <2>3, WakeParts DEF queue
<1> QED BY <1>2, <1>5 DEF IInv

\* A thread goes to sleep when there is nothing for it, or no room.
LEMMA WaitKeeps ==
  ASSUME IInv, NEW t, Running(t), Waits(t), ~closed,
         t \in Producers => Len(items) = Capacity, t \in Consumers => items = <<>>
  PROVE  IInv'
<1>1. TypeOK /\ t \in Threads /\ t \notin waiting /\ Counted(t)
  BY DEF IInv, Running
<1>2. CloserInv' /\ closer' \in {"start", "at latch", "closing", "notify not_empty", "notify not_full", "done"}
  BY <1>1, CloserKeeps DEF IInv, Waits, queue
<1>3. CallInv'
  <2>1. (waiting \cup woken)' \subseteq waiting \cup woken \cup {t}
    BY DEF Waits
  <2> QED BY <2>1, <1>1, CallKeeps DEF IInv
<1>4. TypeOK'
  <2>1. waiting' \subseteq Threads /\ woken' \subseteq Threads /\ waiting' \cap woken' = {}
    BY <1>1 DEF TypeOK, Waits
  <2>2. pushes' \in [Producers -> 0 .. MaxPushes] /\ latch' \in 0 .. LatchCount
    BY <1>1 DEF Counted
  <2> QED BY <2>1, <2>2, <1>1, <1>2 DEF TypeOK, Waits, queue
<1>5. /\ Awake(Producers) \in Nat /\ AwakeNext(Producers) \in Nat
      /\ Awake(Consumers) \in Nat /\ AwakeNext(Consumers) \in Nat
      /\ t \notin Producers => AwakeNext(Producers) = Awake(Producers)
      /\ t \notin Consumers => AwakeNext(Consumers) = Awake(Consumers)
  <2>1. IsFiniteSet(woken) /\ woken' = woken \ {t}
    BY <1>1, FiniteThreads, FS_Subset DEF TypeOK, Waits
  <2> QED BY <2>1, AwakeLeave DEF Awake, AwakeNext
<1>6. Len(items) \in Nat /\ Len(<<>>) = 0
  BY <1>1, LenProperties, EmptySeq DEF TypeOK
<1>7. OpenWake /\ Capacity \in Nat /\ ~closed' /\ Len(items') = Len(items)
  BY WakeParts, QueueAssumption DEF IInv, Waits, queue
<1>8. ASSUME t \in Producers
      PROVE  OpenWakeNext
  <2>1. t \notin Consumers /\ Capacity - Len(items') = 0
    BY <1>7, <1>8, QueueAssumption
  <2>2. AsleepNext(Consumers) => Asleep(Consumers)
    BY <2>1 DEF Waits, Asleep, AsleepNext
  <2> QED BY <1>5, <1>7, <2>1, <2>2 DEF OpenWake, OpenWakeNext
<1>9. ASSUME t \notin Producers
      PROVE  OpenWakeNext
  <2>1. t \in Consumers
    BY <1>1, <1>9 DEF Threads
  <2>2. AsleepNext(Producers) => Asleep(Producers)
    BY <1>9 DEF Waits, Asleep, AsleepNext
  <2>3. Len(items') = 0
    BY <1>6, <1>7, <2>1
  <2> QED BY <1>5, <1>7, <1>9, <2>2, <2>3 DEF OpenWake, OpenWakeNext
<1>10. NoLostWakeup'
  BY <1>7, <1>8, <1>9, WakeParts
<1> QED BY <1>2, <1>3, <1>4, <1>10 DEF IInv
-----------------------------------------------------------------------------
(* The same steps, seen as those of ClosableQueue.                         *)

LEMMA ReturnPromise ==
  ASSUME IInv, NEW t, Running(t), NEW w, w \subseteq waiting, NEW r, Returns(t, r, w)
  PROVE  Promise!Returned(t, r)
<1>1. waiting \cap woken = {} /\ t \notin waiting
  BY DEF IInv, TypeOK, Running
<1>2. waiting' \cup woken' = (waiting \cup woken) \ {t}
  BY <1>1 DEF Returns
<1> QED BY <1>2 DEF Returns, Promise!Returned

LEMMA AcceptPromise ==
  ASSUME IInv, NEW p \in Producers, Running(p), Len(items) < Capacity, ~closed, ~cancelled, Accept(p)
  PROVE  Promise!Push(p)
<1>1. PICK w \in NotifyOne(Consumers) : Returns(p, <<"accepted">>, w)
  BY DEF Accept, WakesOnPush
<1>2. <<p, pushes'[p]>> \in Items
  <2>1. pushes' \in [Producers -> 0 .. MaxPushes] /\ pushes'[p] >= 1
    BY DEF Running, Counted
  <2>2. pushes'[p] \in 1 .. MaxPushes
    BY <2>1, QueueAssumption
  <2> QED BY <2>2 DEF Items
<1>3. Promise!Returned(p, <<"accepted">>)
  <2>1. w \subseteq waiting
    BY DEF NotifyOne
  <2> QED BY <1>1, <2>1, ReturnPromise
<1>4. \E i \in Items : items' = Append(items, i)
  BY <1>2 DEF Accept
<1>5. UNCHANGED <<closed, cancelled>>
  BY DEF Accept
<1> QED BY <1>3, <1>4, <1>5 DEF Promise!Push

LEMMA RefusePromise ==
  ASSUME IInv, NEW p \in Producers, Running(p), Refuse(p),
         closed \/ (p \notin woken /\ Len(items) = Capacity)
  PROVE  Promise!Refuse(p)
<1>1. Promise!Returned(p, <<"refused">>) /\ UNCHANGED queue
  BY ReturnPromise DEF Refuse
<1>2. p \notin waiting /\ (cancelled => closed)
  BY DEF Running, IInv, CloserInv
<1> QED BY <1>1, <1>2 DEF Promise!Refuse, queue

LEMMA TakePromise ==
  ASSUME IInv, NEW c \in Consumers, Running(c), items # <<>>, ~cancelled, UNCHANGED <<closed, cancelled>>,
         items' = Tail(items), NEW w \in NotifyOne(Producers), Returns(c, Head(items), w)
  PROVE  Promise!Pop(c)
<1>1. w \subseteq waiting
  BY DEF NotifyOne
<1>2. Promise!Returned(c, Head(items))
  BY <1>1, ReturnPromise
<1> QED BY <1>2 DEF Promise!Pop

LEMMA WaitPromise ==
  ASSUME IInv, NEW t, Running(t), Waits(t), ~closed, ~cancelled,
         t \in Producers => Len(items) = Capacity, t \in Consumers => items = <<>>
  PROVE  Promise!Block(t)
<1>1. waiting' \cup woken' = (waiting \cup woken) \cup {t}
  BY DEF Waits
<1>2. Len(items) = IF t \in Producers THEN Capacity ELSE 0
  BY EmptySeq DEF Running, Threads
<1> QED BY <1>1, <1>2 DEF Waits, queue, Promise!Block

-----------------------------------------------------------------------------
(* Every step keeps the invariant and is one of ClosableQueue, or none.    *)

\* What a thread does that holds the mutex and is inside push_wait.
LEMMA RoomStep ==
  ASSUME IInv, NEW p \in Producers, Running(p), WaitForRoom(p)
  PROVE  IInv' /\ Promise!Next
<1>1. cancelled => closed
  BY DEF IInv, CloserInv
<1>2. CASE ~(Len(items) < Capacity \/ closed \/ cancelled)
  <2>1. Waits(p)
    BY <1>2 DEF WaitForRoom
  <2>2. Len(items) = Capacity
    <3>1. Len(items) \in Nat /\ Len(items) <= Capacity /\ ~(Len(items) < Capacity) /\ Capacity \in Nat
      BY <1>2, LenProperties, QueueAssumption DEF IInv, TypeOK
    <3> QED BY <3>1
  <2>3. p \notin Consumers
    BY QueueAssumption
  <2> QED BY <1>2, <2>1, <2>2, <2>3, WaitKeeps, WaitPromise DEF Promise!Next
<1>3. CASE closed
  <2>1. Refuse(p)
    BY <1>3 DEF WaitForRoom, Refuses
  <2>2. IInv'
    BY <1>3, <2>1, LeaveKeeps DEF Refuse, Outcomes
  <2> QED BY <1>3, <2>1, <2>2, RefusePromise DEF Promise!Next
<1>4. CASE Len(items) < Capacity /\ ~closed
  <2>1. Accept(p)
    BY <1>1, <1>4 DEF WaitForRoom, Refuses
  <2> QED BY <1>1, <1>4, <2>1, AcceptKeeps, AcceptPromise DEF Promise!Next
<1> QED BY <1>1, <1>2, <1>3, <1>4

\* And inside pop.
LEMMA ItemStep ==
  ASSUME IInv, NEW c \in Consumers, Running(c), WaitForItem(c)
  PROVE  IInv' /\ Promise!Next
<1>1. (cancelled => closed) /\ c \notin Producers
  BY QueueAssumption DEF IInv, CloserInv
<1>2. CASE items = <<>> /\ ~closed /\ ~cancelled
  <2>1. Waits(c)
    BY <1>2 DEF WaitForItem
  <2> QED BY <1>1, <1>2, <2>1, WaitKeeps, WaitPromise DEF Promise!Next
<1>3. CASE cancelled
  <2>1. Returns(c, <<"cancelled">>, {}) /\ UNCHANGED queue
    BY <1>3 DEF WaitForItem
  <2>2. IInv'
    BY <1>1, <1>3, <2>1, LeaveKeeps DEF Outcomes
  <2>3. Promise!End(c)
    BY <1>3, <2>1, ReturnPromise DEF Promise!End, queue
  <2> QED BY <2>2, <2>3 DEF Promise!Next
<1>4. CASE items = <<>> /\ closed /\ ~cancelled
  <2>1. Returns(c, <<"closed">>, {}) /\ UNCHANGED queue
    BY <1>4 DEF WaitForItem
  <2>2. IInv'
    BY <1>4, <2>1, LeaveKeeps DEF Outcomes
  <2>3. Promise!End(c)
    BY <1>4, <2>1, ReturnPromise DEF Promise!End, queue
  <2> QED BY <2>2, <2>3 DEF Promise!Next
<1>5. CASE items # <<>> /\ ~cancelled
  <2>1. PICK w \in NotifyOne(Producers) :
          /\ items' = Tail(items) /\ Returns(c, Head(items), w) /\ UNCHANGED <<closed, cancelled>>
    BY <1>5 DEF WaitForItem, WakesOnPop
  <2> QED BY <1>5, <2>1, TakeKeeps, TakePromise DEF Promise!Next
<1> QED BY <1>2, <1>3, <1>4, <1>5

LEMMA CountOneMore ==
  ASSUME NEW n \in Nat, NEW S, NEW f \in [S -> 0 .. n], NEW x \in S, f[x] < n
  PROVE  /\ [f EXCEPT ![x] = f[x] + 1] \in [S -> 0 .. n]
         /\ [f EXCEPT ![x] = f[x] + 1][x] >= 1
         /\ \A y \in S : [f EXCEPT ![x] = f[x] + 1][y] >= f[y]
<1> DEFINE g == [f EXCEPT ![x] = f[x] + 1]
<1>1. f[x] + 1 \in 1 .. n
  OBVIOUS
<1>2. \A y \in S : f[y] >= f[y] /\ (y # x => g[y] = f[y])
  OBVIOUS
<1>3. g[x] = f[x] + 1 /\ f[x] + 1 >= 1 /\ f[x] + 1 >= f[x]
  BY <1>1
<1>4. g \in [S -> 0 .. n]
  BY <1>1
<1> HIDE DEF g
<1>5. g \in [S -> 0 .. n] /\ g[x] >= 1 /\ \A y \in S : g[y] >= f[y]
  BY <1>2, <1>3, <1>4
<1> QED BY <1>5 DEF g

LEMMA CallingCounts ==
  ASSUME IInv, NEW p \in Producers, Calling(p), latch' \in 0 .. LatchCount,
         closer' = closer \/ (closer = "at latch" /\ closer' = "closing")
  PROVE  Running(p)
<1>1. pushes \in [Producers -> 0 .. MaxPushes] /\ MaxPushes \in Nat
  BY QueueAssumption DEF IInv, TypeOK
<1>2. pushes[p] < MaxPushes /\ pushes' = [pushes EXCEPT ![p] = @ + 1]
  BY DEF Calling
<1>3. /\ pushes' \in [Producers -> 0 .. MaxPushes] /\ pushes'[p] >= 1
      /\ \A q \in Producers : pushes'[q] >= pushes[q]
  <2> DEFINE g == [pushes EXCEPT ![p] = pushes[p] + 1]
  <2>1. pushes' = g
    BY <1>2
  <2>2. g \in [Producers -> 0 .. MaxPushes] /\ g[p] >= 1 /\ \A q \in Producers : g[q] >= pushes[q]
    BY <1>1, <1>2, CountOneMore
  <2> HIDE DEF g
  <2> QED BY <2>1, <2>2
<1> QED BY <1>3 DEF Calling, Running, Counted, Threads

\* A step in which nobody calls and the latch stays.
LEMMA IdleCounts ==
  ASSUME IInv, NEW t \in Threads, t \notin waiting, t \in woken \/ t \notin Producers,
         UNCHANGED <<pushes, latch, closer>>
  PROVE  Running(t)
<1>1. pushes \in [Producers -> 0 .. MaxPushes] /\ MaxPushes \in Nat /\ latch \in 0 .. LatchCount
  BY QueueAssumption DEF IInv, TypeOK
<1>2. \A q \in Producers : pushes[q] >= pushes[q]
  BY <1>1
<1>3. t \in Producers => pushes[t] >= 1
  BY DEF IInv, CallInv
<1> QED BY <1>1, <1>2, <1>3 DEF Running, Counted

LEMMA PushStep ==
  ASSUME IInv, NEW p \in Producers, TryPush(p) \/ PushWait(p)
  PROVE  IInv' /\ Promise!Next
<1>1. p \notin woken
  BY DEF TryPush, PushWait, Calling
<1>2. ASSUME TryPush(p)
      PROVE  IInv' /\ Promise!Next
  <2>1. latch \in 0 .. LatchCount /\ UNCHANGED <<latch, closer>> /\ Calling(p)
    BY <1>2 DEF TryPush, IInv, TypeOK
  <2>2. Running(p)
    BY <2>1, CallingCounts
  <2>3. (cancelled => closed) /\ Len(items) <= Capacity /\ Len(items) \in Nat /\ Capacity \in Nat
    BY LenProperties, QueueAssumption DEF IInv, TypeOK, CloserInv
  <2>4. CASE closed \/ cancelled \/ Len(items) = Capacity
    <3>1. Refuse(p)
      BY <1>2, <2>4 DEF TryPush
    <3>2. IInv'
      BY <1>1, <2>2, <3>1, LeaveKeeps DEF Refuse, Outcomes
    <3>3. Promise!Refuse(p)
      BY <1>1, <2>2, <2>3, <2>4, <3>1, RefusePromise
    <3> QED BY <3>2, <3>3 DEF Promise!Next
  <2>5. CASE ~closed /\ ~cancelled /\ Len(items) # Capacity
    <3>1. Accept(p) /\ Len(items) < Capacity
      BY <1>2, <2>3, <2>5 DEF TryPush
    <3> QED BY <2>2, <2>5, <3>1, AcceptKeeps, AcceptPromise DEF Promise!Next
  <2> QED BY <2>4, <2>5
<1>3. ASSUME PushWait(p)
      PROVE  IInv' /\ Promise!Next
  <2>1. latch' \in 0 .. LatchCount
    <3>1. latch \in 0 .. LatchCount /\ latch > 0 /\ latch' = latch - 1 /\ LatchCount \in Nat
      BY <1>3, QueueAssumption DEF PushWait, IInv, TypeOK
    <3> QED BY <3>1
  <2>2. Running(p)
    BY <1>3, <2>1, CallingCounts DEF PushWait
  <2> QED BY <1>3, <2>2, RoomStep DEF PushWait
<1> QED BY <1>2, <1>3

LEMMA PopStep ==
  ASSUME IInv, NEW c \in Consumers, Pop(c)
  PROVE  IInv' /\ Promise!Next
<1>1. c \in Threads /\ c \notin Producers /\ c \notin waiting /\ UNCHANGED <<pushes, latch, closer>>
  BY QueueAssumption DEF Pop, Threads
<1> QED BY <1>1, IdleCounts, ItemStep DEF Pop

LEMMA ResumeStep ==
  ASSUME IInv, NEW t \in Threads, Resume(t)
  PROVE  IInv' /\ Promise!Next
<1>1. t \in woken /\ t \notin waiting /\ UNCHANGED <<pushes, latch, closer>>
  BY DEF Resume, IInv, TypeOK
<1>2. Running(t)
  BY <1>1, IdleCounts
<1> QED BY <1>2, RoomStep, ItemStep DEF Resume, Threads

\* A spurious wake-up moves a thread from the sleeping to the awake.
LEMMA SpuriousStep ==
  ASSUME IInv, NEW t \in Threads, SpuriousWakeup(t)
  PROVE  IInv' /\ UNCHANGED Promise!vars
<1>1. /\ t \in waiting /\ waiting' = waiting \ {t} /\ woken' = woken \cup {t}
      /\ UNCHANGED <<items, closed, cancelled, pushes, result, latch, closer>>
  BY DEF SpuriousWakeup, queue
<1>2. TypeOK'
  BY <1>1 DEF IInv, TypeOK
<1>3. CloserInv' /\ CallInv'
  BY <1>1 DEF IInv, CloserInv, CallInv
<1>4. /\ Awake(Producers) \in Nat /\ AwakeNext(Producers) \in Nat
      /\ Awake(Producers) <= AwakeNext(Producers)
      /\ Awake(Consumers) \in Nat /\ AwakeNext(Consumers) \in Nat
      /\ Awake(Consumers) <= AwakeNext(Consumers)
  <2>1. IsFiniteSet(woken') /\ woken \subseteq woken'
    BY <1>1, <1>2, FiniteThreads, FS_Subset DEF TypeOK
  <2> QED BY <2>1, AwakeGrow DEF Awake, AwakeNext
<1>5. (AsleepNext(Consumers) => Asleep(Consumers)) /\ (AsleepNext(Producers) => Asleep(Producers))
  BY <1>1 DEF Asleep, AsleepNext
<1>6. NoLostWakeup'
  <2>1. Len(items) \in Nat /\ Capacity \in Nat /\ Len(items') = Len(items)
    BY <1>1, LenProperties, QueueAssumption DEF IInv, TypeOK
  <2>2. OpenWake => OpenWakeNext
    BY <1>4, <1>5, <2>1 DEF OpenWake, OpenWakeNext
  <2>3. ClosedWake => ClosedWakeNext
    BY <1>1, <1>5 DEF ClosedWake, ClosedWakeNext
  <2> QED BY <1>1, <2>2, <2>3, WakeParts DEF IInv
<1>7. waiting' \cup woken' = waiting \cup woken
  BY <1>1
<1> QED BY <1>1, <1>2, <1>3, <1>6, <1>7 DEF IInv, Promise!vars

LEMMA LatchStep ==
  ASSUME IInv, AwaitLatch
  PROVE  IInv' /\ UNCHANGED Promise!vars
<1>1. /\ closer = "start" /\ closer' \in {"closing", "at latch"}
      /\ UNCHANGED <<items, closed, cancelled, waiting, woken, pushes, result, latch>>
  BY DEF AwaitLatch, queue
<1>2. TypeOK' /\ CloserInv' /\ CallInv'
  BY <1>1 DEF IInv, TypeOK, CloserInv, CallInv
<1>3. NoLostWakeup'
  BY <1>1 DEF IInv, CloserInv, NoLostWakeup
<1> QED BY <1>1, <1>2, <1>3 DEF IInv, Promise!vars

\* The close lets everyone go, but only once it has notified them.
LEMMA CloseStep ==
  ASSUME IInv, NEW cancel \in BOOLEAN, Close(cancel)
  PROVE  IInv' /\ Promise!Next
<1>1. /\ closer \in {"start", "closing"} /\ closer' = "notify not_empty"
      /\ closed' = TRUE /\ cancelled' = cancel
      /\ items' = (IF cancel THEN <<>> ELSE items)
      /\ UNCHANGED <<waiting, woken, pushes, result, latch>>
  BY DEF Close
<1>2. ~closed /\ ~cancelled
  BY <1>1 DEF IInv, CloserInv
<1>3. items' \in Seq(Items) /\ Len(items') <= Capacity
  <2>1. items \in Seq(Items) /\ Len(items) <= Capacity
    BY DEF IInv, TypeOK
  <2>2. <<>> \in Seq(Items) /\ Len(<<>>) = 0 /\ 0 <= Capacity
    BY EmptySeq, QueueAssumption
  <2>3. items' = items \/ items' = <<>>
    BY <1>1
  <2>4. CASE items' = items
    BY <2>1, <2>4
  <2>5. CASE items' = <<>>
    BY <2>2, <2>5
  <2> QED BY <2>3, <2>4, <2>5
<1>4. TypeOK' /\ CloserInv' /\ CallInv'
  BY <1>1, <1>3 DEF IInv, TypeOK, CloserInv, CallInv
<1>5. NoLostWakeup'
  <2>1. ClosedWakeNext
    BY <1>1 DEF ClosedWakeNext
  <2> QED BY <1>1, <2>1, WakeParts
<1>6. Promise!Close
  BY <1>1, <1>2 DEF Promise!Close
<1> QED BY <1>4, <1>5, <1>6 DEF IInv, Promise!Next

LEMMA NotifyStep ==
  ASSUME IInv, NotifyClosed
  PROVE  IInv' /\ UNCHANGED Promise!vars
<1>1. closed /\ UNCHANGED <<items, closed, cancelled, pushes, result, latch>>
  BY DEF NotifyClosed, queue, IInv, CloserInv
<1>2. ASSUME closer = "notify not_empty", NotifyAll(Consumers), closer' = "notify not_full"
      PROVE  IInv' /\ UNCHANGED Promise!vars
  <2>1. waiting' \cap woken' = {} /\ waiting' \cup woken' = waiting \cup woken
    BY <1>2 DEF NotifyAll, IInv, TypeOK
  <2>2. TypeOK' /\ CloserInv' /\ CallInv'
    BY <1>1, <1>2, <2>1 DEF IInv, TypeOK, CloserInv, CallInv
  <2>3. ClosedWakeNext
    BY <1>2 DEF ClosedWakeNext, AsleepNext, NotifyAll
  <2> QED BY <1>1, <2>1, <2>2, <2>3, WakeParts DEF IInv, Promise!vars
<1>3. ASSUME closer = "notify not_full", NotifyAll(Producers), closer' = "done"
      PROVE  IInv' /\ UNCHANGED Promise!vars
  <2>1. waiting' \cap woken' = {} /\ waiting' \cup woken' = waiting \cup woken
    BY <1>3 DEF NotifyAll, IInv, TypeOK
  <2>2. TypeOK' /\ CloserInv' /\ CallInv'
    BY <1>1, <1>3, <2>1 DEF IInv, TypeOK, CloserInv, CallInv
  <2>3. ~Asleep(Consumers)
    BY <1>1, <1>3, WakeParts DEF IInv, ClosedWake
  <2>4. ClosedWakeNext
    BY <1>3, <2>3 DEF ClosedWakeNext, Asleep, AsleepNext, NotifyAll
  <2> QED BY <1>1, <2>1, <2>2, <2>4, WakeParts DEF IInv, Promise!vars
<1> QED BY <1>2, <1>3 DEF NotifyClosed

LEMMA StutterStep ==
  ASSUME IInv, UNCHANGED vars
  PROVE  IInv' /\ UNCHANGED Promise!vars
<1>1. UNCHANGED <<items, closed, cancelled, waiting, woken, pushes, result, latch, closer>>
  BY DEF vars, queue
<1>2. TypeOK' /\ CloserInv' /\ CallInv' /\ NoLostWakeup'
  BY <1>1 DEF IInv, TypeOK, CloserInv, CallInv, NoLostWakeup
<1> QED BY <1>1, <1>2 DEF IInv, Promise!vars

LEMMA EveryStep ==
  ASSUME IInv, [Next]_vars
  PROVE  IInv' /\ [Promise!Next]_Promise!vars
<1>1. ASSUME NEW p \in Producers, TryPush(p) \/ PushWait(p)
      PROVE  IInv' /\ [Promise!Next]_Promise!vars
  BY <1>1, PushStep
<1>2. ASSUME NEW c \in Consumers, Pop(c)
      PROVE  IInv' /\ [Promise!Next]_Promise!vars
  BY <1>2, PopStep
<1>3. ASSUME NEW t \in Threads, SpuriousWakeup(t) \/ Resume(t)
      PROVE  IInv' /\ [Promise!Next]_Promise!vars
  BY <1>3, SpuriousStep, ResumeStep
<1>4. ASSUME AwaitLatch \/ NotifyClosed
      PROVE  IInv' /\ [Promise!Next]_Promise!vars
  BY <1>4, LatchStep, NotifyStep
<1>5. ASSUME NEW cancel \in BOOLEAN, Close(cancel)
      PROVE  IInv' /\ [Promise!Next]_Promise!vars
  BY <1>5, CloseStep
<1>6. ASSUME UNCHANGED vars
      PROVE  IInv' /\ [Promise!Next]_Promise!vars
  BY <1>6, StutterStep
<1> QED BY <1>1, <1>2, <1>3, <1>4, <1>5, <1>6 DEF Next

LEMMA InitInv ==
  ASSUME Init
  PROVE  IInv /\ Promise!Init
<1>1. TypeOK
  <2>1. items \in Seq(Items) /\ Len(items) = 0
    BY EmptySeq DEF Init
  <2>2. pushes \in [Producers -> 0 .. MaxPushes] /\ latch \in 0 .. LatchCount /\ Len(items) <= Capacity
    BY <2>1, QueueAssumption DEF Init
  <2>3. result \in [Threads -> Items \cup {<<o>> : o \in Outcomes}]
    BY DEF Init, Outcomes
  <2> QED BY <2>1, <2>2, <2>3 DEF Init, TypeOK
<1>2. CloserInv /\ CallInv /\ NoLostWakeup
  BY DEF Init, CloserInv, CallInv, NoLostWakeup
<1>3. Promise!Init
  BY DEF Init, Promise!Init, Threads
<1> QED BY <1>1, <1>2, <1>3 DEF IInv

-----------------------------------------------------------------------------
(* Theorems.                                                               *)

\* The invariant behind the others holds in every reachable state.
THEOREM QueueInvariance == Spec => []IInv
BY InitInv, EveryStep, PTL DEF Spec

\* The variables keep their types: in particular the queue is never longer than its
\* capacity, whoever is woken, and no thread both sleeps and is awake.
THEOREM QueueTypeCorrect == Spec => []TypeOK
BY QueueInvariance, PTL DEF IInv

\* No call of notify_one is lost or goes to the wrong side, and close leaves nobody
\* behind: for every capacity and every number of threads.
THEOREM NoWakeupIsLost == Spec => []NoLostWakeup
BY QueueInvariance, PTL DEF IInv

\* Whatever the threads do in between, the calls of push, try_push, pop and close look
\* as if each happened at one moment of a first in, first out queue.
THEOREM CallsAreAtomic == Spec => Promise!Spec
BY InitInv, EveryStep, QueueInvariance, PTL DEF Spec, Promise!Spec

-----------------------------------------------------------------------------
(* The server.                                                             *)

\* One operation, and one place where it is.
IocpPlaces ==
  /\ pc \in {"loop", "cancel", "cancel again", "drain", "drain again", "done", "failed", "terminated"}
  /\ \A op, other \in store : op = other
  /\ \A packet, other \in port : packet = other
  /\ kernel \cap I!Kinds(port) = {}
  /\ kernel \cup I!Kinds(port) \subseteq I!Kinds(store)
  /\ pc \in {"done", "failed"} => store = {}
  /\ pc = "loop" => store # {} /\ I!Kinds(store) \subseteq kernel \cup I!Kinds(port)

\* Where in what the client sends the storage of the receiver begins.
Base == IF phase = "Header" THEN 0 ELSE HeaderSize

ReceiveInv(op) ==
  /\ op = I!Receive(op.size, op.storage)
  /\ op.size = IF phase = "Header" THEN HeaderSize ELSE claims
  /\ op.offset \in Nat /\ op.offset < op.size
  /\ op.storage = I!Positions(Base, Base + op.offset)
  /\ got = <<>>
  /\ "receive" \in kernel => taken = Base + op.offset
  /\ \A packet \in port : packet.ok =>
       /\ op.offset + packet.bytes <= op.size
       /\ taken = Base + op.offset + packet.bytes

SendInv(op) ==
  /\ op = I!Send(op.offset) /\ op.offset \in Nat /\ op.offset < AckSize
  /\ "send" \in kernel => Len(got) = op.offset
  /\ \A packet \in port : packet.ok =>
       Len(got) = op.offset + packet.bytes /\ op.offset + packet.bytes <= AckSize

IocpFlow ==
  /\ phase \in {"Header", "Payload"}
  /\ phase = "Payload" => claims \in 1 .. MaxFrame
  /\ taken \in Nat
  /\ \A op \in store :
       \/ op.kind = "receive" /\ ReceiveInv(op)
       \/ op.kind = "send" /\ SendInv(op)
  /\ \A packet \in port : packet = [kind |-> packet.kind, ok |-> packet.ok, bytes |-> packet.bytes]
  /\ \A packet \in port : packet.kind \in {"receive", "send"} /\ packet.ok \in BOOLEAN /\ packet.bytes \in Nat

IocpInv == IocpPlaces /\ IocpFlow /\ I!FramesWhole

-----------------------------------------------------------------------------
(* The RIO program.                                                        *)

\* The result that waits in the queue of an endpoint.
Waiting(e) == IF cq[e] = <<>> THEN 0 ELSE cq[e][1].bytes

\* An endpoint has one operation, which is with the provider or has its result in the
\* queue, and it knows of it.
RioPlaces ==
  /\ pc \in {"receive", "send", "loop", "passed", "failed", "terminated"}
  /\ kernel \subseteq R!Ends /\ freed \subseteq R!Ends /\ port \subseteq R!Ends
  /\ outstanding \in [R!Ends -> BOOLEAN]
  /\ \A e \in kernel : outstanding[e] /\ cq[e] = <<>>
  /\ \A e \in R!Ends : cq[e] # <<>> => outstanding[e]
  /\ pc = "receive" => \A e \in R!Ends : ~outstanding[e]
  /\ pc = "send" => ~outstanding["client"]
  /\ ~R!Ended => freed = {}
  /\ freed \cap kernel = {}

RioResults ==
  /\ cq \in [R!Ends -> Seq([ok : BOOLEAN, bytes : Nat])]
  /\ \A e \in R!Ends : Len(cq[e]) <= 1
  /\ \A e \in R!Ends : cq[e] # <<>> => (cq[e][1].ok <=> cq[e][1].bytes > 0)

RioRest ==
  /\ rest \in [R!Ends -> [offset : Nat, length : Nat]]
  /\ \A e \in R!Ends :
       /\ rest[e].offset + rest[e].length = Payload
       /\ Waiting(e) <= rest[e].length
       /\ rest[e].length = 0 => ~outstanding[e]
       /\ pc \in {"receive", "send"} => rest[e].length = Payload
  /\ open = (IF rest["client"].length > 0 THEN 1 ELSE 0) + (IF rest["server"].length > 0 THEN 1 ELSE 0)
  /\ open = 0 <=> pc = "passed"

\* The balance.
RioFlow ==
  /\ memory \in Seq(Nat) /\ wire \in Seq(Nat) /\ sent \in Nat
  /\ sent + Waiting("client") <= rest["client"].length
  /\ Len(memory) = rest["server"].offset + Waiting("server")
  /\ Len(memory) + Len(wire) = rest["client"].offset + Waiting("client") + sent
  /\ \A i \in DOMAIN memory : memory[i] = i
  /\ \A i \in DOMAIN wire : wire[i] = Len(memory) + i

RioInv == RioPlaces /\ RioResults /\ RioRest /\ RioFlow

OwnInv ==
  /\ lab \in {"queue", "iocp", "rio"}
  /\ lab = "iocp" => IocpInv
  /\ lab = "rio" => RioInv

-----------------------------------------------------------------------------
(* Positions are consecutive numbers.                                      *)

LEMMA PositionsAre ==
  ASSUME NEW a \in Nat, NEW b \in Nat, a <= b
  PROVE  /\ I!Positions(a, b) \in Seq(Nat) /\ Len(I!Positions(a, b)) = b - a
         /\ \A i \in 1 .. b - a : I!Positions(a, b)[i] = a + i
BY DEF I!Positions

LEMMA FirstPositions ==
  ASSUME NEW n \in Nat
  PROVE  Len(I!Positions(0, n)) = n /\ I!Positions(0, n) \in Seq(Nat)
BY DEF I!Positions

LEMMA NoPositions ==
  ASSUME NEW a \in Nat
  PROVE  I!Positions(a, a) = <<>>
<1>1. I!Positions(a, a) \in Seq(Nat) /\ Len(I!Positions(a, a)) = 0
  BY PositionsAre
<1> QED BY <1>1, EmptySeq

LEMMA PositionsJoin ==
  ASSUME NEW a \in Nat, NEW b \in Nat, NEW c \in Nat, a <= b, b <= c
  PROVE  I!Positions(a, b) \o I!Positions(b, c) = I!Positions(a, c)
<1> DEFINE p == I!Positions(a, b)   q == I!Positions(b, c)   r == I!Positions(a, c)
<1>1. p \in Seq(Nat) /\ Len(p) = b - a /\ \A i \in 1 .. b - a : p[i] = a + i
  BY PositionsAre
<1>2. q \in Seq(Nat) /\ Len(q) = c - b /\ \A i \in 1 .. c - b : q[i] = b + i
  BY PositionsAre
<1>3. r \in Seq(Nat) /\ Len(r) = c - a /\ \A i \in 1 .. c - a : r[i] = a + i
  BY PositionsAre
<1> HIDE DEF p, q, r
<1>4. p \o q \in Seq(Nat) /\ Len(p \o q) = c - a
  <2>1. p \o q \in Seq(Nat) /\ Len(p \o q) = Len(p) + Len(q)
    BY <1>1, <1>2, ConcatProperties
  <2>2. (b - a) + (c - b) = c - a
    OBVIOUS
  <2> QED BY <1>1, <1>2, <2>1, <2>2
<1>5. ASSUME NEW i \in 1 .. c - a
      PROVE  (p \o q)[i] = r[i]
  <2>1. (p \o q)[i] = IF i <= Len(p) THEN p[i] ELSE q[i - Len(p)]
    <3>1. i \in 1 .. Len(p) + Len(q)
      BY <1>1, <1>2
    <3> QED BY <1>1, <1>2, <3>1, ConcatProperties
  <2>2. CASE i <= b - a
    BY <1>1, <1>3, <2>1, <2>2
  <2>3. CASE ~(i <= b - a)
    <3>1. i - (b - a) \in 1 .. c - b /\ b + (i - (b - a)) = a + i /\ ~(i <= b - a)
      BY <2>3
    <3>2. (p \o q)[i] = q[i - (b - a)]
      BY <1>1, <2>1, <3>1
    <3>3. q[i - (b - a)] = a + i
      BY <1>2, <3>1
    <3>4. r[i] = a + i
      BY <1>3
    <3> QED BY <3>2, <3>3, <3>4
  <2> QED BY <2>2, <2>3
<1> QED BY <1>3, <1>4, <1>5, SeqEqual DEF p, q, r

-----------------------------------------------------------------------------
(* Where the server's operation is.                                        *)

LEMMA InKernel ==
  ASSUME IocpPlaces, NEW kind \in kernel
  PROVE  /\ store = {I!Op(kind)} /\ I!Op(kind).kind = kind
         /\ kernel = {kind} /\ port = {}
<1>1. PICK op \in store : op.kind = kind
  BY DEF IocpPlaces, I!Kinds
<1>2. I!Op(kind) \in store /\ I!Op(kind).kind = kind
  BY <1>1 DEF I!Op
<1>3. store = {I!Op(kind)} /\ I!Kinds(store) = {kind}
  BY <1>2 DEF IocpPlaces, I!Kinds
<1>4. I!Kinds(port) = {}
  BY <1>3 DEF IocpPlaces
<1>5. port = {}
  BY <1>4 DEF I!Kinds
<1> QED BY <1>2, <1>3, <1>5 DEF IocpPlaces

LEMMA AtPort ==
  ASSUME IocpPlaces, NEW packet \in port
  PROVE  /\ store = {I!Op(packet.kind)} /\ I!Op(packet.kind).kind = packet.kind
         /\ kernel = {} /\ port = {packet}
<1>1. PICK op \in store : op.kind = packet.kind
  <2>1. packet.kind \in I!Kinds(port) /\ I!Kinds(port) \subseteq I!Kinds(store)
    BY DEF IocpPlaces, I!Kinds
  <2> QED BY <2>1 DEF I!Kinds
<1>2. I!Op(packet.kind) \in store /\ I!Op(packet.kind).kind = packet.kind
  BY <1>1 DEF I!Op
<1>3. store = {I!Op(packet.kind)} /\ I!Kinds(store) = {packet.kind}
  <2>1. store = {I!Op(packet.kind)}
    BY <1>2 DEF IocpPlaces
  <2> QED BY <1>2, <2>1 DEF I!Kinds
<1>4. port = {packet} /\ I!Kinds(port) = {packet.kind}
  <2>1. port = {packet}
    BY DEF IocpPlaces
  <2> QED BY <2>1 DEF I!Kinds
<1> QED BY <1>2, <1>3, <1>4 DEF IocpPlaces

LEMMA CompletedPlaces ==
  ASSUME IocpPlaces, NEW kind, NEW ok, NEW bytes, I!Completed(kind, ok, bytes)
  PROVE  /\ IocpPlaces'
         /\ store = {I!Op(kind)} /\ I!Op(kind).kind = kind /\ store' = store
         /\ kernel = {kind} /\ kernel' = {}
         /\ port' = {[kind |-> kind, ok |-> ok, bytes |-> bytes]}
<1>1. kind \in kernel
  BY DEF I!Completed
<1>2. store = {I!Op(kind)} /\ I!Op(kind).kind = kind /\ kernel = {kind} /\ port = {}
  BY <1>1, InKernel
<1>3. kernel' = {} /\ port' = {[kind |-> kind, ok |-> ok, bytes |-> bytes]} /\ UNCHANGED <<pc, store>>
  BY <1>2 DEF I!Completed
<1>4. I!Kinds(port') = {kind} /\ I!Kinds(store') = {kind}
  BY <1>2, <1>3 DEF I!Kinds
<1>5. IocpPlaces'
  BY <1>2, <1>3, <1>4 DEF IocpPlaces, I!Kinds
<1> QED BY <1>2, <1>3, <1>5

\* What the store is after a submission: the new operation is with the kernel, or the
\* server has failed and has nothing.
Submitted(op) ==
  /\ port' = {}
  /\ \/ store' = {op} /\ kernel' = {op.kind} /\ pc' = "loop"
     \/ store' = {} /\ kernel' = {} /\ pc' \in {"failed", "done"}

LEMMA SubmittedPlaces ==
  ASSUME NEW op, Submitted(op)
  PROVE  IocpPlaces'
<1>1. CASE store' = {op} /\ kernel' = {op.kind} /\ pc' = "loop"
  BY <1>1 DEF Submitted, IocpPlaces, I!Kinds
<1>2. CASE store' = {} /\ kernel' = {} /\ pc' \in {"failed", "done"}
  BY <1>2 DEF Submitted, IocpPlaces, I!Kinds
<1> QED BY <1>1, <1>2 DEF Submitted

-----------------------------------------------------------------------------
(* The kernel keeps the flow of the server.                                *)

LEMMA FlowOf ==
  ASSUME IocpInv, NEW op, store = {op}
  PROVE  /\ op.kind = "receive" => ReceiveInv(op)
         /\ op.kind = "send" => SendInv(op)
BY DEF IocpInv, IocpFlow

LEMMA ReceivesStep ==
  ASSUME IocpInv, NEW bytes \in Nat, I!KernelReceives(bytes)
  PROVE  IocpInv'
<1>1. /\ I!Completed("receive", TRUE, bytes) /\ taken' = taken + bytes /\ UNCHANGED got
      /\ bytes <= I!Op("receive").size - I!Op("receive").offset
      /\ UNCHANGED <<pc, phase, received, frame, claims, total>>
  BY DEF I!KernelReceives, I!Completed, I!receiver
<1> DEFINE packet == [kind |-> "receive", ok |-> TRUE, bytes |-> bytes]
<1>2. PICK op : op = I!Op("receive")
  OBVIOUS
<1>3. /\ IocpPlaces' /\ store = {op} /\ op.kind = "receive" /\ store' = store
      /\ kernel = {"receive"} /\ kernel' = {} /\ port' = {packet}
  BY <1>1, <1>2, CompletedPlaces DEF IocpInv
<1> HIDE DEF packet
<1>4. ReceiveInv(op)
  BY <1>3, FlowOf
<1>5. Base \in Nat /\ Base' = Base
  BY <1>1, OwnershipAssumption DEF Base, I!IocpAssumption
<1>6. op.size \in Nat
  BY <1>4, OwnershipAssumption DEF ReceiveInv, I!IocpAssumption, IocpInv, IocpFlow
<1>7. taken' = Base + op.offset + bytes /\ op.offset + bytes <= op.size
  BY <1>1, <1>2, <1>3, <1>4, <1>5, <1>6 DEF ReceiveInv
<1>8. packet.kind = "receive" /\ packet.ok = TRUE /\ packet.bytes = bytes
      /\ packet = [kind |-> packet.kind, ok |-> packet.ok, bytes |-> packet.bytes]
  BY DEF packet
<1>9. ReceiveInv(op)'
  BY <1>1, <1>3, <1>4, <1>5, <1>7, <1>8 DEF ReceiveInv
<1>10. IocpFlow'
  <2>1. taken' \in Nat
    BY <1>1 DEF IocpInv, IocpFlow
  <2> QED BY <1>1, <1>3, <1>8, <1>9, <2>1 DEF IocpInv, IocpFlow
<1>11. I!FramesWhole'
  BY <1>1 DEF IocpInv, I!FramesWhole
<1> QED BY <1>3, <1>10, <1>11 DEF IocpInv

LEMMA SendsStep ==
  ASSUME IocpInv, NEW bytes \in Nat, I!KernelSends(bytes)
  PROVE  IocpInv'
<1>1. /\ I!Completed("send", TRUE, bytes) /\ UNCHANGED taken
      /\ got' = got \o I!Positions(I!Op("send").offset, I!Op("send").offset + bytes)
      /\ I!Op("send").offset + bytes <= I!Op("send").size
      /\ UNCHANGED <<pc, phase, received, frame, claims, total>>
      /\ ~I!Ended
  BY DEF I!KernelSends, I!Completed, I!receiver
<1> DEFINE packet == [kind |-> "send", ok |-> TRUE, bytes |-> bytes]
<1>2. PICK op : op = I!Op("send")
  OBVIOUS
<1>3. /\ IocpPlaces' /\ store = {op} /\ op.kind = "send" /\ store' = store
      /\ kernel = {"send"} /\ kernel' = {} /\ port' = {packet}
  BY <1>1, <1>2, CompletedPlaces DEF IocpInv
<1> HIDE DEF packet
<1>4. SendInv(op)
  BY <1>3, FlowOf
<1>5. op.size = AckSize /\ op.offset \in Nat /\ Len(got) = op.offset
  BY <1>3, <1>4 DEF SendInv, I!Send
<1>6. got' = I!Positions(0, op.offset + bytes) /\ Len(got') = op.offset + bytes
  <2>1. got = I!Positions(0, op.offset)
    BY <1>5 DEF IocpInv, I!FramesWhole
  <2>2. 0 <= op.offset /\ op.offset <= op.offset + bytes /\ op.offset + bytes \in Nat
    BY <1>5
  <2>3. got' = I!Positions(0, op.offset + bytes)
    BY <1>1, <1>2, <1>5, <2>1, <2>2, PositionsJoin
  <2>4. Len(I!Positions(0, op.offset + bytes)) = op.offset + bytes
    BY <2>2, FirstPositions
  <2> QED BY <2>3, <2>4
<1>7. packet.kind = "send" /\ packet.ok = TRUE /\ packet.bytes = bytes
      /\ packet = [kind |-> packet.kind, ok |-> packet.ok, bytes |-> packet.bytes]
  BY DEF packet
<1>8. SendInv(op)'
  BY <1>1, <1>2, <1>3, <1>4, <1>5, <1>6, <1>7 DEF SendInv
<1>9. IocpFlow'
  BY <1>1, <1>3, <1>7, <1>8 DEF IocpInv, IocpFlow
<1>10. I!FramesWhole'
  BY <1>1, <1>6 DEF IocpInv, I!FramesWhole, I!Ended
<1> QED BY <1>3, <1>9, <1>10 DEF IocpInv

LEMMA FailsStep ==
  ASSUME IocpInv, NEW kind \in {"receive", "send"}, I!KernelFails(kind)
  PROVE  IocpInv'
<1>1. /\ I!Completed(kind, FALSE, 0)
      /\ UNCHANGED <<pc, phase, received, frame, claims, total, taken, got>>
  BY DEF I!KernelFails, I!Completed, I!receiver
<1> DEFINE packet == [kind |-> kind, ok |-> FALSE, bytes |-> 0]
<1>2. PICK op : op = I!Op(kind)
  OBVIOUS
<1>3. /\ IocpPlaces' /\ store = {op} /\ op.kind = kind /\ store' = store
      /\ kernel = {kind} /\ kernel' = {} /\ port' = {packet}
  <2>1. IocpPlaces
    BY DEF IocpInv
  <2>2. PICK ok, n : ok = FALSE /\ n = 0
    OBVIOUS
  <2>3. I!Completed(kind, ok, n)
    BY <1>1, <2>2
  <2> HIDE DEF packet
  <2>4. /\ IocpPlaces' /\ store = {I!Op(kind)} /\ I!Op(kind).kind = kind /\ store' = store
        /\ kernel = {kind} /\ kernel' = {}
        /\ port' = {[kind |-> kind, ok |-> ok, bytes |-> n]}
    BY <2>1, <2>3, CompletedPlaces
  <2> QED BY <1>2, <2>2, <2>4 DEF packet
<1> HIDE DEF packet
<1>4. packet.kind = kind /\ packet.ok = FALSE /\ packet.bytes = 0
      /\ packet = [kind |-> packet.kind, ok |-> packet.ok, bytes |-> packet.bytes]
  BY DEF packet
<1>5. Base' = Base
  BY <1>1 DEF Base
<1>6. kind = "receive" => ReceiveInv(op)'
  BY <1>1, <1>3, <1>4, <1>5, FlowOf DEF ReceiveInv
<1>7. kind = "send" => SendInv(op)'
  BY <1>1, <1>3, <1>4, FlowOf DEF SendInv
<1>8. IocpFlow'
  <2>1. \A other \in store' :
          \/ other.kind = "receive" /\ ReceiveInv(other)'
          \/ other.kind = "send" /\ SendInv(other)'
    BY <1>3, <1>6, <1>7
  <2>2. \A other \in port' :
          /\ other = [kind |-> other.kind, ok |-> other.ok, bytes |-> other.bytes]
          /\ other.kind \in {"receive", "send"}
          /\ other.ok \in BOOLEAN /\ other.bytes \in Nat
    <3>1. \A other \in port' : other = packet
      BY <1>3
    <3>2. packet.kind \in {"receive", "send"} /\ packet.bytes \in Nat
      BY <1>4
    <3>3. packet.ok \in BOOLEAN
      BY <1>4, Zenon
    <3> QED BY <1>4, <3>1, <3>2, <3>3, Zenon
  <2> QED BY <1>1, <2>1, <2>2 DEF IocpInv, IocpFlow
<1>9. I!FramesWhole'
  BY <1>1 DEF IocpInv, I!FramesWhole
<1> QED BY <1>3, <1>8, <1>9 DEF IocpInv

-----------------------------------------------------------------------------
(* So does the server.                                                     *)

\* Nothing changes but where the server is, which is not at an end.
LEMMA MovesStep ==
  ASSUME IocpInv, pc' \in {"cancel", "cancel again", "drain", "drain again", "terminated"} \/ pc' = pc,
         UNCHANGED <<store, kernel, port, phase, received, frame, claims, taken, got>>
  PROVE  IocpInv'
<1>1. IocpPlaces'
  BY DEF IocpInv, IocpPlaces, I!Kinds
<1>2. Base' = Base /\ \A op : (ReceiveInv(op) => ReceiveInv(op)') /\ (SendInv(op) => SendInv(op)')
  BY DEF Base, ReceiveInv, SendInv
<1>3. IocpFlow'
  BY <1>2 DEF IocpInv, IocpFlow
<1>4. I!FramesWhole'
  BY DEF IocpInv, I!FramesWhole
<1> QED BY <1>1, <1>3, <1>4 DEF IocpInv

\* The operation is gone, and with it what it had to do.
LEMMA GoneStep ==
  ASSUME IocpInv, store' = {}, kernel' = {}, port' = {}, pc' \in {"failed", "terminated"},
         UNCHANGED <<phase, received, frame, claims, taken, got>>
  PROVE  IocpInv'
<1>1. IocpPlaces'
  BY DEF IocpPlaces, I!Kinds
<1>2. IocpFlow'
  BY DEF IocpInv, IocpFlow
<1>3. I!FramesWhole'
  BY DEF IocpInv, I!FramesWhole
<1> QED BY <1>1, <1>2, <1>3 DEF IocpInv

LEMMA DrainStep ==
  ASSUME IocpInv, I!Drain
  PROVE  IocpInv'
<1>1. /\ pc \in {"drain", "drain again"}
      /\ UNCHANGED <<kernel, phase, received, frame, claims, taken, got>>
      /\ pc' = IF late THEN "terminated" ELSE IF store' = {} THEN "failed" ELSE pc
  BY DEF I!Drain, I!DrainIsOver, I!receiver, I!client
<1>2. ASSUME NEW packet \in port, I!Dequeue(packet), store' = store \ {I!Op(packet.kind)}
      PROVE  IocpInv'
  <2>1. store' = {} /\ port' = {} /\ kernel' = {}
    BY <1>1, <1>2, AtPort DEF IocpInv, I!Dequeue
  <2>2. pc' \in {"failed", "terminated"}
    BY <1>1, <2>1
  <2> QED BY <1>1, <2>1, <2>2, GoneStep
<1>3. ASSUME port = {}, UNCHANGED <<store, port>>
      PROVE  IocpInv'
  <2>1. CASE pc' = "failed"
    <3>1. store' = {} /\ store = {}
      BY <1>1, <1>3, <2>1
    <3>2. kernel' = {} /\ port' = {}
      BY <1>1, <1>3, <3>1 DEF IocpInv, IocpPlaces, I!Kinds
    <3> QED BY <1>1, <2>1, <3>1, <3>2, GoneStep
  <2>2. CASE pc' # "failed"
    BY <1>1, <1>3, <2>2, MovesStep
  <2> QED BY <2>1, <2>2
<1> QED BY <1>2, <1>3 DEF I!Drain, I!Dequeue

LEMMA SubmitIs ==
  ASSUME NEW op, I!Submit(op, {}), kernel = {}, port' = {}, pc = "loop"
  PROVE  Submitted(op) /\ pc' \in {"loop", "failed"}
BY DEF I!Submit, I!Throw, Submitted

LEMMA SubmittedStep ==
  ASSUME IocpInv, NEW op, Submitted(op), UNCHANGED <<claims, taken, got>>,
         phase' \in {"Header", "Payload"}, phase' = "Payload" => claims \in 1 .. MaxFrame,
         store' = {op} => \/ op.kind = "receive" /\ ReceiveInv(op)'
                          \/ op.kind = "send" /\ SendInv(op)',
         I!FramesWhole'
  PROVE  IocpInv'
<1>1. port' = {} /\ (store' = {op} \/ store' = {}) /\ taken \in Nat
  BY DEF Submitted, IocpInv, IocpFlow
<1>2. IocpFlow'
  BY <1>1 DEF IocpFlow
<1> QED BY <1>2, SubmittedPlaces DEF IocpInv

\* Pieces that follow each other make one piece.
LEMMA FilledIs ==
  ASSUME IocpInv, NEW packet \in port, packet.kind = "receive", packet.ok,
         NEW op, store = {op}, ReceiveInv(op)
  PROVE  /\ packet.bytes \in Nat /\ op.offset + packet.bytes <= op.size /\ op.size \in Nat
         /\ I!Filled(op, packet.bytes) = I!Positions(Base, Base + (op.offset + packet.bytes))
         /\ Len(I!Filled(op, packet.bytes)) = op.offset + packet.bytes
         /\ taken = Base + (op.offset + packet.bytes)
<1>1. packet.bytes \in Nat /\ Base \in Nat /\ op.size \in Nat /\ op.offset \in Nat
  BY OwnershipAssumption DEF IocpInv, IocpFlow, ReceiveInv, Base, I!IocpAssumption
<1>2. op.offset + packet.bytes <= op.size /\ taken = Base + op.offset + packet.bytes
  BY DEF ReceiveInv
<1> DEFINE b == Base   m == Base + op.offset   n == Base + (op.offset + packet.bytes)
<1>3. b \in Nat /\ m \in Nat /\ n \in Nat /\ b <= m /\ m <= n /\ taken - packet.bytes = m /\ taken = n
  BY <1>1, <1>2
<1>4. n - b = op.offset + packet.bytes
  BY <1>1
<1>5. op.storage = I!Positions(b, m)
  BY DEF ReceiveInv
<1> HIDE DEF b, m, n
<1>6. I!Filled(op, packet.bytes) = I!Positions(b, n)
  <2>1. I!Filled(op, packet.bytes) = I!Positions(b, m) \o I!Positions(m, n)
    BY <1>3, <1>5 DEF I!Filled
  <2>2. I!Positions(b, m) \o I!Positions(m, n) = I!Positions(b, n)
    BY <1>3, PositionsJoin
  <2> QED BY <2>1, <2>2
<1>7. Len(I!Positions(b, n)) = n - b
  BY <1>3, PositionsAre
<1>8. b <= n
  BY <1>3
<1> QED BY <1>1, <1>2, <1>3, <1>4, <1>6, <1>7 DEF b, n

LEMMA HandlesReceive ==
  ASSUME IocpInv, NEW packet \in port, packet.kind = "receive", packet.ok, packet.bytes # 0,
         pc = "loop", kernel = {}, port' = {},
         NEW op, store = {op}, ReceiveInv(op), I!HandleReceive(op, packet.bytes),
         UNCHANGED <<claims, total, taken, got>>
  PROVE  IocpInv'
<1> DEFINE n == op.offset + packet.bytes   storage == I!Filled(op, packet.bytes)
<1>1. /\ packet.bytes \in Nat /\ n <= op.size /\ op.size \in Nat /\ n \in Nat
      /\ storage = I!Positions(Base, Base + n) /\ Len(storage) = n /\ taken = Base + n
  BY FilledIs DEF ReceiveInv
<1>2. store \ {op} = {}
  OBVIOUS
<1>3. /\ op.size = IF phase = "Header" THEN HeaderSize ELSE claims
      /\ got = <<>>
      /\ phase \in {"Header", "Payload"} /\ (phase = "Payload" => claims \in 1 .. MaxFrame)
  BY DEF ReceiveInv, IocpInv, IocpFlow
<1>4. ASSUME n < op.size, I!Submit(I!Receive(op.size, storage), {}), UNCHANGED <<phase, received, frame>>
      PROVE  IocpInv'
  <2>0. PICK next : next = I!Receive(op.size, storage)
    OBVIOUS
  <2>1. /\ next = I!Receive(next.size, next.storage) /\ next.kind = "receive"
        /\ next.size = op.size /\ next.storage = storage /\ next.offset = n
    BY <1>1, <2>0 DEF I!Receive
  <2>2. I!Submit(next, {})
    BY <1>4, <2>0
  <2> HIDE DEF storage
  <2>3. Submitted(next) /\ pc' \in {"loop", "failed"}
    BY <2>2, SubmitIs
  <2>4. Base' = Base
    BY <1>4 DEF Base
  <2>5. ReceiveInv(next)'
    BY <1>1, <1>3, <1>4, <2>1, <2>3, <2>4 DEF ReceiveInv, Submitted
  <2>6. I!FramesWhole'
    BY <1>4, <2>3 DEF IocpInv, I!FramesWhole
  <2> QED BY <1>3, <1>4, <2>1, <2>3, <2>5, <2>6, SubmittedStep
<1>5. ASSUME n = op.size, phase = "Header", claims \in 1 .. MaxFrame, phase' = "Payload",
             I!Submit(I!Receive(claims, <<>>), {}), UNCHANGED <<received, frame>>
      PROVE  IocpInv'
  <2>0. PICK next : next = I!Receive(claims, <<>>)
    OBVIOUS
  <2>1. /\ next = I!Receive(next.size, next.storage) /\ next.kind = "receive"
        /\ next.size = claims /\ next.storage = <<>> /\ next.offset = 0
    BY <2>0, EmptySeq DEF I!Receive
  <2>2. I!Submit(next, {})
    BY <1>5, <2>0
  <2>3. Submitted(next) /\ pc' \in {"loop", "failed"}
    BY <2>2, SubmitIs
  <2>4. Base = 0 /\ Base' = HeaderSize /\ HeaderSize \in Nat
    BY <1>5, OwnershipAssumption DEF Base, I!IocpAssumption
  <2>5. HeaderSize + 0 = HeaderSize /\ taken = HeaderSize /\ 0 < claims
    BY <1>1, <1>3, <1>5, <2>4
  <2>6. I!Positions(HeaderSize, HeaderSize) = <<>>
    BY <2>4, NoPositions
  <2>7. ReceiveInv(next)'
    BY <1>3, <1>5, <2>1, <2>3, <2>4, <2>5, <2>6 DEF ReceiveInv, Submitted
  <2>8. I!FramesWhole'
    BY <1>5, <2>3 DEF IocpInv, I!FramesWhole
  <2> QED BY <1>5, <2>1, <2>3, <2>7, <2>8, SubmittedStep
<1>6. ASSUME store' = {}, I!Throw, UNCHANGED <<phase, kernel, received, frame>>
      PROVE  IocpInv'
  BY <1>6, GoneStep DEF I!Throw
<1>7. ASSUME n = op.size, phase = "Payload", frame' = storage, received' = TRUE, UNCHANGED phase,
             I!Submit(I!Send(0), {})
      PROVE  IocpInv'
  <2> DEFINE next == I!Send(0)
  <2>1. next = I!Send(next.offset) /\ next.kind = "send" /\ next.offset = 0
    BY DEF I!Send
  <2>2. I!Submit(next, {})
    BY <1>7
  <2> HIDE DEF next
  <2>3. Submitted(next) /\ pc' \in {"loop", "failed"}
    BY <2>2, SubmitIs
  <2>4. Len(got) = 0 /\ AckSize \in Nat /\ 0 < AckSize
    BY <1>3, EmptySeq, OwnershipAssumption DEF I!IocpAssumption
  <2>5. SendInv(next)'
    BY <2>1, <2>3, <2>4 DEF SendInv, Submitted
  <2>6. frame' = I!Positions(HeaderSize, HeaderSize + claims)
    BY <1>1, <1>3, <1>7 DEF Base
  <2>7. I!FramesWhole'
    BY <2>3, <2>6 DEF IocpInv, I!FramesWhole
  <2> QED BY <1>3, <1>7, <2>1, <2>3, <2>5, <2>7, SubmittedStep
<1>8. \/ n < op.size /\ I!Submit(I!Receive(op.size, storage), {}) /\ UNCHANGED <<phase, received, frame>>
      \/ /\ n = op.size /\ phase = "Header" /\ UNCHANGED <<received, frame>>
         /\ \/ claims \in 1 .. MaxFrame /\ phase' = "Payload" /\ I!Submit(I!Receive(claims, <<>>), {})
            \/ UNCHANGED <<phase, kernel>> /\ store' = {} /\ I!Throw
      \/ /\ n = op.size /\ phase = "Payload" /\ frame' = storage /\ received' = TRUE
         /\ I!Submit(I!Send(0), {}) /\ UNCHANGED phase
  BY <1>2 DEF I!HandleReceive, I!receiver
<1> QED BY <1>4, <1>5, <1>6, <1>7, <1>8

LEMMA HandlesSend ==
  ASSUME IocpInv, NEW packet \in port, packet.kind = "send", packet.ok,
         pc = "loop", kernel = {}, port' = {},
         NEW op, store = {op}, SendInv(op), I!HandleSend(op, packet.bytes),
         UNCHANGED <<phase, received, frame, claims, total, taken, got>>
  PROVE  IocpInv'
<1> DEFINE n == op.offset + packet.bytes
<1>1. op.size = AckSize /\ Len(got) = n /\ n \in Nat
  BY DEF SendInv, IocpInv, IocpFlow, I!Send
<1>2. store \ {op} = {}
  OBVIOUS
<1>3. phase \in {"Header", "Payload"} /\ (phase = "Payload" => claims \in 1 .. MaxFrame)
  BY DEF IocpInv, IocpFlow
<1>4. ASSUME n < op.size, I!Submit(I!Send(n), {})
      PROVE  IocpInv'
  <2> DEFINE next == I!Send(n)
  <2>1. next = I!Send(next.offset) /\ next.kind = "send" /\ next.offset = n
    BY DEF I!Send
  <2>2. I!Submit(next, {})
    BY <1>4
  <2> HIDE DEF next
  <2>3. Submitted(next) /\ pc' \in {"loop", "failed"}
    BY <2>2, SubmitIs
  <2>4. SendInv(next)'
    BY <1>1, <1>4, <2>1, <2>3 DEF SendInv, Submitted
  <2>5. I!FramesWhole'
    BY <2>3 DEF IocpInv, I!FramesWhole
  <2> QED BY <1>3, <2>1, <2>3, <2>4, <2>5, SubmittedStep
<1>5. ASSUME n = op.size, store' = {}, UNCHANGED kernel, pc' \in {"done", "failed"}
      PROVE  IocpInv'
  <2>1. Submitted(op) /\ store' # {op}
    BY <1>5 DEF Submitted
  <2>2. I!FramesWhole'
    BY <1>1, <1>5 DEF IocpInv, I!FramesWhole
  <2> QED BY <1>3, <2>1, <2>2, SubmittedStep
<1>6. \/ n < op.size /\ I!Submit(I!Send(n), {})
      \/ n = op.size /\ store' = {} /\ UNCHANGED kernel /\ pc' \in {"done", "failed"}
  BY <1>2 DEF I!HandleSend
<1> QED BY <1>4, <1>5, <1>6

LEMMA HandleStep ==
  ASSUME IocpInv, I!HandleCompletion
  PROVE  IocpInv'
<1>1. pc = "loop" /\ UNCHANGED <<claims, total, taken, got>>
  BY DEF I!HandleCompletion, I!client
<1>2. PICK packet \in port :
        /\ I!Dequeue(packet)
        /\ IF ~packet.ok \/ packet.bytes = 0 THEN I!Fail(packet)
           ELSE \/ packet.kind = "receive" /\ I!HandleReceive(I!Op("receive"), packet.bytes)
                \/ /\ packet.kind = "send" /\ I!HandleSend(I!Op("send"), packet.bytes)
                   /\ UNCHANGED <<phase, received, frame>>
  BY DEF I!HandleCompletion, I!Dequeue, I!receiver
<1>3. PICK op : op = I!Op(packet.kind)
  OBVIOUS
<1>4. store = {op} /\ op.kind = packet.kind /\ kernel = {} /\ port' = {}
  BY <1>2, <1>3, AtPort DEF IocpInv, I!Dequeue
<1>5. CASE ~packet.ok \/ packet.bytes = 0
  <2>1. I!Fail(packet)
    BY <1>2, <1>5
  <2>2. store' = {} /\ I!Throw /\ UNCHANGED <<kernel, phase, received, frame>>
    BY <1>3, <1>4, <2>1 DEF I!Fail, I!receiver
  <2>3. pc' = "failed"
    BY <2>2 DEF I!Throw
  <2> QED BY <1>1, <1>4, <2>2, <2>3, GoneStep
<1>6. CASE ~(~packet.ok \/ packet.bytes = 0) /\ packet.kind = "receive"
  <2>1. I!HandleReceive(op, packet.bytes)
    BY <1>2, <1>3, <1>6
  <2>2. ReceiveInv(op)
    BY <1>4, <1>6, FlowOf
  <2> QED BY <1>1, <1>4, <1>6, <2>1, <2>2, HandlesReceive
<1>7. CASE ~(~packet.ok \/ packet.bytes = 0) /\ packet.kind # "receive"
  <2>1. packet.kind = "send" /\ I!HandleSend(op, packet.bytes) /\ UNCHANGED <<phase, received, frame>>
    BY <1>2, <1>3, <1>7
  <2>2. SendInv(op)
    BY <1>4, <2>1, FlowOf
  <2> QED BY <1>1, <1>4, <1>7, <2>1, <2>2, HandlesSend
<1> QED BY <1>5, <1>6, <1>7

LEMMA IocpInit ==
  ASSUME I!Init
  PROVE  IocpInv
<1> DEFINE op == I!Receive(HeaderSize, <<>>)
<1>1. /\ op = I!Receive(op.size, op.storage) /\ op.kind = "receive"
      /\ op.size = HeaderSize /\ op.storage = <<>> /\ op.offset = 0
  BY EmptySeq DEF I!Receive
<1>2. /\ pc = "loop" /\ store = {op} /\ kernel = {"receive"} /\ port = {}
      /\ phase = "Header" /\ received = FALSE /\ taken = 0 /\ got = <<>>
  BY DEF I!Init
<1> HIDE DEF op
<1>3. HeaderSize \in Nat /\ 0 < HeaderSize /\ 0 + 0 = 0
  BY OwnershipAssumption DEF I!IocpAssumption
<1>4. I!Positions(0, 0) = <<>> /\ Len(<<>>) = 0
  BY NoPositions, EmptySeq
<1>5. ReceiveInv(op)
  BY <1>1, <1>2, <1>3, <1>4 DEF ReceiveInv, Base
<1>6. IocpPlaces
  BY <1>1, <1>2 DEF IocpPlaces, I!Kinds
<1>7. IocpFlow
  BY <1>1, <1>2, <1>5 DEF IocpFlow
<1>8. I!FramesWhole
  BY <1>2, <1>4 DEF I!FramesWhole
<1> QED BY <1>6, <1>7, <1>8 DEF IocpInv

LEMMA IocpNext ==
  ASSUME IocpInv, [I!Next]_<<io, iocp>>
  PROVE  IocpInv'
<1>1. ASSUME NEW bytes \in 0 .. HeaderSize + PayloadSize, I!KernelReceives(bytes)
      PROVE  IocpInv'
  <2>1. bytes \in Nat
    BY OwnershipAssumption DEF I!IocpAssumption
  <2> QED BY <1>1, <2>1, ReceivesStep
<1>2. ASSUME NEW bytes \in 0 .. AckSize, I!KernelSends(bytes)
      PROVE  IocpInv'
  <2>1. bytes \in Nat
    BY OwnershipAssumption DEF I!IocpAssumption
  <2> QED BY <1>2, <2>1, SendsStep
<1>3. ASSUME NEW kind \in {"receive", "send"}, I!KernelFails(kind)
      PROVE  IocpInv'
  BY <1>3, FailsStep
<1>4. ASSUME I!TimePasses \/ I!PortFails \/ I!TimesOut \/ I!Cancel
      PROVE  IocpInv'
  <2>1. pc' \in {"cancel", "cancel again", "drain", "drain again", "terminated"} \/ pc' = pc
    BY <1>4 DEF I!TimePasses, I!PortFails, I!TimesOut, I!Cancel
  <2>2. UNCHANGED <<store, kernel, port, phase, received, frame, claims, taken, got>>
    BY <1>4 DEF I!TimePasses, I!PortFails, I!TimesOut, I!Cancel, I!OwnedAfterCancel, I!receiver, I!client
  <2> QED BY <2>1, <2>2, MovesStep
<1>5. ASSUME UNCHANGED <<io, iocp>>
      PROVE  IocpInv'
  BY <1>5, MovesStep DEF io, iocp
<1> QED BY <1>1, <1>2, <1>3, <1>4, <1>5, HandleStep, DrainStep DEF I!Next, I!Server

-----------------------------------------------------------------------------
(* The provider keeps the balance.                                         *)

\* A queue with a result, and one without.
LEMMA WaitingIs ==
  ASSUME NEW e
  PROVE  /\ cq[e] = <<>> => Waiting(e) = 0
         /\ cq[e] # <<>> => Waiting(e) = cq[e][1].bytes
BY DEF Waiting

LEMMA WaitingNat ==
  ASSUME RioResults, NEW e \in R!Ends
  PROVE  Waiting(e) \in Nat
<1>1. CASE cq[e] = <<>>
  BY <1>1 DEF Waiting
<1>2. CASE cq[e] # <<>>
  <2>1. cq[e] \in Seq([ok : BOOLEAN, bytes : Nat])
    BY DEF RioResults
  <2>2. Len(cq[e]) \in Nat /\ Len(cq[e]) # 0
    BY <1>2, <2>1, EmptySeq, LenProperties
  <2>3. cq[e][1] \in [ok : BOOLEAN, bytes : Nat]
    <3>1. 1 \in 1 .. Len(cq[e])
      BY <2>2
    <3> QED BY <2>1, <3>1, ElementOfSeq
  <2> QED BY <1>2, <2>3 DEF Waiting
<1> QED BY <1>1, <1>2

\* A step that leaves the queues and the buffers alone.
LEMMA RestStays ==
  ASSUME RioInv, UNCHANGED <<cq, rest, open>>,
         \A e \in R!Ends : rest[e].length = 0 => ~outstanding'[e],
         pc' \in {"receive", "send"} => pc \in {"receive", "send"}, pc' = "passed" <=> pc = "passed"
  PROVE  RioResults' /\ RioRest'
<1>1. \A e : Waiting(e)' = Waiting(e)
  BY DEF Waiting
<1>2. RioResults'
  BY DEF RioInv, RioResults
<1>3. RioRest'
  BY <1>1 DEF RioInv, RioRest
<1> QED BY <1>2, <1>3

LEMMA FlowStays ==
  ASSUME RioInv, UNCHANGED <<cq, rest, wire, sent, memory>>
  PROVE  RioFlow'
<1>1. \A e : Waiting(e)' = Waiting(e)
  BY DEF Waiting
<1> QED BY <1>1 DEF RioInv, RioFlow

LEMMA TransmitStep ==
  ASSUME RioInv, R!Transmit
  PROVE  RioInv'
<1>1. /\ "client" \in kernel /\ sent < rest["client"].length
      /\ wire' = Append(wire, rest["client"].offset + sent + 1) /\ sent' = sent + 1
      /\ UNCHANGED <<pc, rest, outstanding, open, freed, kernel, cq, port, memory>>
  BY DEF R!Transmit, R!sides
<1>2. RioPlaces'
  BY <1>1 DEF RioInv, RioPlaces, R!Ended
<1>3. RioResults' /\ RioRest'
  BY <1>1, RestStays DEF RioInv, RioRest
<1>4. Waiting("client") = 0
  BY <1>1, WaitingIs DEF RioInv, RioPlaces
<1>5. \A e : Waiting(e)' = Waiting(e)
  BY <1>1 DEF Waiting
<1>6. /\ rest["client"].offset \in Nat /\ rest["client"].length \in Nat
      /\ memory \in Seq(Nat) /\ wire \in Seq(Nat) /\ sent \in Nat
      /\ Len(memory) \in Nat /\ Len(wire) \in Nat
      /\ Len(memory) + Len(wire) = rest["client"].offset + sent
  BY <1>4, LenProperties DEF RioInv, RioFlow, RioRest, R!Ends
<1> DEFINE x == rest["client"].offset + sent + 1
<1>7. x \in Nat /\ x = Len(memory) + (Len(wire) + 1)
  BY <1>6
<1> HIDE DEF x
<1>8. wire' = Append(wire, x)
  BY <1>1 DEF x
<1>9. /\ wire' \in Seq(Nat) /\ Len(wire') = Len(wire) + 1 /\ wire'[Len(wire) + 1] = x
      /\ \A i \in 1 .. Len(wire) : wire'[i] = wire[i]
      /\ DOMAIN wire' = 1 .. Len(wire) + 1 /\ DOMAIN wire = 1 .. Len(wire)
  BY <1>6, <1>7, <1>8, AppendProperties, LenProperties
<1>10. \A i \in DOMAIN wire' : wire'[i] = Len(memory) + i
  <2> SUFFICES ASSUME NEW i \in 1 .. Len(wire) + 1
               PROVE  wire'[i] = Len(memory) + i
    BY <1>9
  <2>1. CASE i \in 1 .. Len(wire)
    BY <1>9, <2>1 DEF RioInv, RioFlow
  <2>2. CASE i = Len(wire) + 1
    BY <1>7, <1>9, <2>2
  <2> QED BY <1>6, <2>1, <2>2
<1>11. /\ sent' \in Nat /\ sent' + 0 <= rest["client"].length
       /\ Len(memory) + Len(wire') = rest["client"].offset + 0 + sent'
  <2> DEFINE o == rest["client"].offset   l == rest["client"].length
             m == Len(memory)   w == Len(wire)
  <2>1. /\ o \in Nat /\ l \in Nat /\ m \in Nat /\ w \in Nat /\ sent \in Nat /\ sent < l
        /\ m + w = o + sent /\ Len(wire') = w + 1 /\ sent' = sent + 1
    BY <1>1, <1>6, <1>9
  <2> HIDE DEF o, l, m, w
  <2>2. sent + 1 \in Nat /\ (sent + 1) + 0 <= l /\ m + (w + 1) = o + 0 + (sent + 1)
    BY <2>1
  <2> QED BY <2>1, <2>2 DEF o, l, m
<1>12. RioFlow'
  BY <1>1, <1>4, <1>5, <1>9, <1>10, <1>11 DEF RioInv, RioFlow
<1> QED BY <1>2, <1>3, <1>12 DEF RioInv

\* An operation gives its place to its result.
LEMMA CompletedRio ==
  ASSUME RioInv, NEW e \in R!Ends, NEW ok \in BOOLEAN, NEW bytes \in Nat, ok <=> bytes > 0,
         bytes <= rest[e].length, R!Completed(e, ok, bytes)
  PROVE  /\ RioPlaces' /\ RioResults' /\ RioRest'
         /\ Waiting(e) = 0 /\ Waiting(e)' = bytes
         /\ \A d \in R!Ends \ {e} : Waiting(d)' = Waiting(d)
         /\ UNCHANGED <<pc, rest, outstanding, open, freed>>
<1> DEFINE r == [ok |-> ok, bytes |-> bytes]
<1>1. /\ ~R!Ended /\ e \in kernel /\ kernel' = kernel \ {e} /\ cq' = [cq EXCEPT ![e] = Append(@, r)]
      /\ port' = (IF e \in armed THEN port \cup {e} ELSE port)
      /\ UNCHANGED <<pc, rest, outstanding, open, freed>>
  BY DEF R!Completed, R!sides
<1>2. r \in [ok : BOOLEAN, bytes : Nat] /\ (r.ok <=> r.bytes > 0) /\ r.bytes = bytes
  OBVIOUS
<1> HIDE DEF r
<1>3. cq[e] = <<>> /\ cq \in [R!Ends -> Seq([ok : BOOLEAN, bytes : Nat])]
  BY <1>1 DEF RioInv, RioPlaces, RioResults
<1>4. Append(<<>>, r) = <<r>> /\ <<r>> \in Seq([ok : BOOLEAN, bytes : Nat]) /\ Len(<<r>>) = 1
      /\ <<r>>[1] = r /\ <<r>> # <<>>
  BY <1>2
<1>5. /\ cq' \in [R!Ends -> Seq([ok : BOOLEAN, bytes : Nat])]
      /\ cq'[e] = <<r>> /\ \A d \in R!Ends \ {e} : cq'[d] = cq[d]
  BY <1>1, <1>3, <1>4
<1>6. Waiting(e) = 0 /\ Waiting(e)' = bytes /\ \A d \in R!Ends \ {e} : Waiting(d)' = Waiting(d)
  BY <1>2, <1>3, <1>4, <1>5 DEF Waiting
<1>7. RioPlaces'
  BY <1>1, <1>4, <1>5 DEF RioInv, RioPlaces, R!Ended
<1>8. RioResults'
  <2>1. \A d \in R!Ends : Len(cq'[d]) <= 1
    <3>1. \A d \in R!Ends \ {e} : Len(cq'[d]) <= 1
      BY <1>5 DEF RioInv, RioResults
    <3>2. Len(cq'[e]) = 1 /\ 1 <= 1
      BY <1>4, <1>5
    <3> QED BY <3>1, <3>2
  <2>2. \A d \in R!Ends : cq'[d] # <<>> => (cq'[d][1].ok <=> cq'[d][1].bytes > 0)
    BY <1>2, <1>4, <1>5 DEF RioInv, RioResults
  <2> QED BY <1>5, <2>1, <2>2 DEF RioResults
<1>9. RioRest'
  <2>1. \A d \in R!Ends : Waiting(d)' <= rest[d].length
    BY <1>6 DEF RioInv, RioRest
  <2> QED BY <1>1, <2>1 DEF RioInv, RioRest
<1> QED BY <1>1, <1>6, <1>7, <1>8, <1>9

\* What the parts of the balance are.
LEMMA FlowTypes ==
  ASSUME RioInv
  PROVE  /\ \A e \in R!Ends : /\ rest[e].offset \in Nat /\ rest[e].length \in Nat /\ Waiting(e) \in Nat
                              /\ rest[e].offset + rest[e].length = Payload /\ Waiting(e) <= rest[e].length
         /\ memory \in Seq(Nat) /\ wire \in Seq(Nat) /\ sent \in Nat
         /\ Len(memory) \in Nat /\ Len(wire) \in Nat
         /\ DOMAIN memory = 1 .. Len(memory) /\ DOMAIN wire = 1 .. Len(wire)
         /\ Payload \in Nat /\ Payload > 0
<1>1. \A e \in R!Ends : Waiting(e) \in Nat
  BY WaitingNat DEF RioInv
<1>2. \A e \in R!Ends : rest[e].offset \in Nat /\ rest[e].length \in Nat
  BY DEF RioInv, RioRest
<1>3. Payload \in Nat /\ Payload > 0
  BY OwnershipAssumption DEF R!RioAssumption
<1>4. Len(memory) \in Nat /\ Len(wire) \in Nat /\ DOMAIN memory = 1 .. Len(memory) /\ DOMAIN wire = 1 .. Len(wire)
  BY LenProperties DEF RioInv, RioFlow
<1> QED BY <1>1, <1>2, <1>3, <1>4 DEF RioInv, RioRest, RioFlow

LEMMA WholeSubSeq ==
  ASSUME NEW s \in Seq(Nat)
  PROVE  SubSeq(s, 1, Len(s)) = s
<1> DEFINE n == Len(s)   t == SubSeq(s, 1, n)
<1>1. n \in Nat /\ \A i \in 1 .. n : s[i] \in Nat
  BY LenProperties, ElementOfSeq
<1> HIDE DEF n
<1>2. /\ t \in Seq(Nat) /\ Len(t) = IF 1 <= n THEN n - 1 + 1 ELSE 0
      /\ \A i \in 1 .. n - 1 + 1 : t[i] = s[1 + i - 1]
  BY <1>1, SubSeqProperties
<1> HIDE DEF t
<1>3. Len(t) = n /\ n - 1 + 1 = n /\ \A i \in 1 .. n : 1 + i - 1 = i
  BY <1>1, <1>2
<1>4. \A i \in 1 .. n : t[i] = s[i]
  BY <1>2, <1>3
<1> QED BY <1>2, <1>3, <1>4, SeqEqual DEF t, n

LEMMA SendCompletesStep ==
  ASSUME RioInv, R!SendCompletes
  PROVE  RioInv'
<1>1. sent > 0 /\ R!Completed("client", TRUE, sent) /\ sent' = 0 /\ UNCHANGED <<wire, memory>>
  BY DEF R!SendCompletes
<1>2. "client" \in R!Ends /\ "server" \in R!Ends \ {"client"}
  BY DEF R!Ends
<1>3. sent \in Nat /\ sent <= rest["client"].length
  <2>1. sent + Waiting("client") <= rest["client"].length
    BY DEF RioInv, RioFlow
  <2>2. sent \in Nat /\ Waiting("client") \in Nat /\ rest["client"].length \in Nat
    BY <1>2, FlowTypes
  <2> QED BY <2>1, <2>2
<1>4. /\ RioPlaces' /\ RioResults' /\ RioRest'
      /\ Waiting("client") = 0 /\ Waiting("client")' = sent
      /\ \A d \in R!Ends \ {"client"} : Waiting(d)' = Waiting(d)
      /\ UNCHANGED <<pc, rest, outstanding, open, freed>>
  BY <1>1, <1>2, <1>3, CompletedRio
<1>5. Waiting("server")' = Waiting("server")
  BY <1>2, <1>4
<1>6. RioFlow'
  <2>1. 0 + sent <= rest["client"].length /\ rest["client"].offset + sent + 0 = rest["client"].offset + 0 + sent
    BY <1>2, <1>3, FlowTypes
  <2> QED BY <1>1, <1>4, <1>5, <2>1 DEF RioInv, RioFlow
<1> QED BY <1>4, <1>6 DEF RioInv

LEMMA BadStep ==
  ASSUME RioInv, NEW e \in R!Ends, R!CompletesBadly(e)
  PROVE  RioInv'
<1>1. R!Completed(e, FALSE, 0) /\ UNCHANGED <<wire, sent, memory>>
  BY DEF R!CompletesBadly
<1>2. 0 <= rest[e].length /\ ~(0 > 0)
  BY FlowTypes
<1>3. /\ RioPlaces' /\ RioResults' /\ RioRest'
      /\ Waiting(e) = 0 /\ Waiting(e)' = 0
      /\ \A d \in R!Ends \ {e} : Waiting(d)' = Waiting(d)
      /\ UNCHANGED <<pc, rest, outstanding, open, freed>>
  BY <1>1, <1>2, CompletedRio
<1>4. Waiting("client")' = Waiting("client") /\ Waiting("server")' = Waiting("server")
  <2>1. \A d \in R!Ends : Waiting(d)' = Waiting(d)
    BY <1>3
  <2> QED BY <2>1 DEF R!Ends
<1>5. RioFlow'
  BY <1>1, <1>3, <1>4 DEF RioInv, RioFlow
<1> QED BY <1>3, <1>5 DEF RioInv

LEMMA ReceiveCompletesStep ==
  ASSUME RioInv, NEW bytes \in 1 .. Payload, R!ReceiveCompletes(bytes)
  PROVE  RioInv'
<1>1. /\ bytes \in 1 .. Len(wire) /\ bytes <= rest["server"].length
      /\ R!Completed("server", TRUE, bytes)
      /\ memory' = SubSeq(memory, 1, rest["server"].offset) \o SubSeq(wire, 1, bytes)
      /\ wire' = SubSeq(wire, bytes + 1, Len(wire)) /\ UNCHANGED sent
  BY DEF R!ReceiveCompletes
<1>2. "server" \in R!Ends /\ "client" \in R!Ends \ {"server"}
  BY DEF R!Ends
<1>3. bytes \in Nat /\ bytes > 0
  BY FlowTypes
<1>4. /\ RioPlaces' /\ RioResults' /\ RioRest'
      /\ Waiting("server") = 0 /\ Waiting("server")' = bytes
      /\ \A d \in R!Ends \ {"server"} : Waiting(d)' = Waiting(d)
      /\ UNCHANGED <<pc, rest, outstanding, open, freed>>
  BY <1>1, <1>2, <1>3, CompletedRio
<1>5. Waiting("client")' = Waiting("client")
  BY <1>2, <1>4
<1> DEFINE m == Len(memory)   w == Len(wire)   p == SubSeq(wire, 1, bytes)   q == SubSeq(wire, bytes + 1, w)
<1>6. /\ memory \in Seq(Nat) /\ wire \in Seq(Nat) /\ m \in Nat /\ w \in Nat /\ m = rest["server"].offset
      /\ \A i \in 1 .. m : memory[i] = i
      /\ \A i \in 1 .. w : wire[i] = m + i
      /\ bytes \in 1 .. w
  <2>1. /\ memory \in Seq(Nat) /\ wire \in Seq(Nat) /\ m \in Nat /\ w \in Nat
        /\ DOMAIN memory = 1 .. m /\ DOMAIN wire = 1 .. w
    BY FlowTypes
  <2>2. rest["server"].offset \in Nat /\ m = rest["server"].offset + 0
    BY <1>2, <1>4, FlowTypes DEF RioInv, RioFlow
  <2>3. (\A i \in 1 .. m : memory[i] = i) /\ (\A i \in 1 .. w : wire[i] = m + i)
    BY <2>1 DEF RioInv, RioFlow
  <2>4. m = rest["server"].offset
    BY <2>2
  <2> QED BY <1>1, <2>1, <2>3, <2>4
<1>7. memory' = memory \o p
  <2>1. SubSeq(memory, 1, m) = memory
    BY <1>6, WholeSubSeq
  <2> QED BY <1>1, <1>6, <2>1
<1>8. p \in Seq(Nat) /\ Len(p) = bytes /\ \A i \in 1 .. bytes : p[i] = m + i
  <2>1. p \in Seq(Nat) /\ Len(p) = bytes /\ \A i \in 1 .. bytes : p[i] = wire[i]
    BY <1>3, <1>6
  <2> QED BY <1>6, <2>1
<1>9. q \in Seq(Nat) /\ Len(q) = w - bytes /\ \A i \in 1 .. w - bytes : q[i] = m + (bytes + i)
  <2>1. q \in Seq(Nat) /\ Len(q) = w - bytes /\ \A i \in 1 .. w - bytes : q[i] = wire[bytes + i]
    BY <1>3, <1>6
  <2>2. \A i \in 1 .. w - bytes : bytes + i \in 1 .. w
    BY <1>3, <1>6
  <2> QED BY <1>6, <2>1, <2>2
<1>10. wire' = q
  BY <1>1
<1> HIDE DEF m, w, p, q
<1>11. memory' \in Seq(Nat) /\ Len(memory') = m + bytes /\ \A i \in 1 .. m + bytes : memory'[i] = i
  <2>1. memory \o p \in Seq(Nat) /\ Len(memory \o p) = m + bytes
    BY <1>6, <1>8, ConcatProperties DEF m
  <2>2. ASSUME NEW i \in 1 .. m + bytes
        PROVE  (memory \o p)[i] = i
    <3>1. (memory \o p)[i] = IF i <= m THEN memory[i] ELSE p[i - m]
      BY <1>6, <1>8, ConcatProperties DEF m
    <3>2. CASE i <= m
      BY <1>3, <1>6, <3>1, <3>2
    <3>3. CASE ~(i <= m)
      <4>1. i - m \in 1 .. bytes /\ m + (i - m) = i
        BY <1>3, <1>6, <3>3
      <4>2. p[i - m] = i
        BY <1>8, <4>1
      <4> QED BY <3>1, <3>3, <4>2
    <3> QED BY <3>2, <3>3
  <2> QED BY <1>7, <2>1, <2>2
<1>12. wire' \in Seq(Nat) /\ Len(wire') = w - bytes /\ \A i \in 1 .. w - bytes : wire'[i] = (m + bytes) + i
  BY <1>3, <1>6, <1>9, <1>10
<1>13. DOMAIN memory' = 1 .. m + bytes /\ DOMAIN wire' = 1 .. w - bytes
  BY <1>11, <1>12, LenProperties
<1>14. (m + bytes) + (w - bytes) = m + w
  BY <1>3, <1>6
<1>15. RioFlow'
  <2>1. \A i \in DOMAIN memory' : memory'[i] = i
    BY <1>11, <1>13
  <2>2. \A i \in DOMAIN wire' : wire'[i] = Len(memory') + i
    BY <1>11, <1>12, <1>13
  <2>3. Len(memory') = rest'["server"].offset + Waiting("server")'
    BY <1>4, <1>6, <1>11
  <2>4. Len(memory') + Len(wire') = rest'["client"].offset + Waiting("client")' + sent'
    BY <1>1, <1>4, <1>5, <1>11, <1>12, <1>14 DEF RioInv, RioFlow, m, w
  <2> QED BY <1>1, <1>4, <1>5, <1>11, <1>12, <2>1, <2>2, <2>3, <2>4 DEF RioInv, RioFlow
<1> QED BY <1>4, <1>15 DEF RioInv

-----------------------------------------------------------------------------
(* So does the program.                                                    *)

LEMMA UnwindIs ==
  ASSUME NEW how, freed = {}, kernel' \subseteq R!Ends,
         \A e \in kernel' : outstanding'[e], R!Unwind(how)
  PROVE  /\ pc' \in {how, "terminated"} /\ freed' \subseteq R!Ends /\ freed' \cap kernel' = {}
         /\ (\A e \in R!Ends : ~outstanding'[e]) => pc' = how
<1>1. CASE R!MayFree("client") /\ R!MayFree("server") /\ freed' = R!Ends /\ pc' = how
  BY <1>1 DEF R!MayFree, R!Ends
<1>2. CASE R!MayFree("client") /\ ~R!MayFree("server") /\ freed' = {"client"} /\ pc' = "terminated"
  BY <1>2 DEF R!MayFree, R!Ends
<1>3. CASE ~R!MayFree("client") /\ UNCHANGED freed /\ pc' = "terminated"
  BY <1>3 DEF R!MayFree, R!Ends
<1> QED BY <1>1, <1>2, <1>3 DEF R!Unwind

\* Nothing moves but where the program is.
LEMMA IdleStep ==
  ASSUME RioInv, UNCHANGED <<rest, outstanding, open, kernel, cq, wire, sent, memory>>,
         port' \subseteq R!Ends,
         \/ UNCHANGED <<pc, freed>>
         \/ pc = "loop" /\ R!Unwind("failed")
         \/ pc = "loop" /\ pc' = "terminated" /\ UNCHANGED freed
  PROVE  RioInv'
<1>1. /\ pc' = pc \/ (pc = "loop" /\ pc' \in {"failed", "terminated"})
      /\ pc = pc' => UNCHANGED freed
      /\ freed' \subseteq R!Ends /\ freed' \cap kernel' = {}
  <2>1. CASE UNCHANGED <<pc, freed>>
    BY <2>1 DEF RioInv, RioPlaces
  <2>2. CASE pc = "loop" /\ R!Unwind("failed")
    <3>1. freed = {} /\ kernel' \subseteq R!Ends /\ \A e \in kernel' : outstanding'[e]
      BY <2>2 DEF RioInv, RioPlaces, R!Ended
    <3> QED BY <2>2, <3>1, UnwindIs
  <2>3. CASE pc = "loop" /\ pc' = "terminated" /\ UNCHANGED freed
    BY <2>3 DEF RioInv, RioPlaces
  <2> QED BY <2>1, <2>2, <2>3
<1>2. RioPlaces'
  BY <1>1 DEF RioInv, RioPlaces, R!Ended
<1>3. RioResults' /\ RioRest'
  <2>1. \A e \in R!Ends : rest[e].length = 0 => ~outstanding'[e]
    BY DEF RioInv, RioRest
  <2> QED BY <1>1, <2>1, RestStays
<1> QED BY <1>2, <1>3, FlowStays DEF RioInv

LEMMA SubmitReceiveStep ==
  ASSUME RioInv, R!SubmitReceive
  PROVE  RioInv'
<1>1. pc = "receive" /\ UNCHANGED <<rest, open, cq, port, wire, sent, memory>>
  BY DEF R!SubmitReceive
<1>2. /\ kernel = {} /\ freed = {} /\ port \subseteq R!Ends
      /\ outstanding \in [R!Ends -> BOOLEAN] /\ \A e \in R!Ends : ~outstanding[e] /\ cq[e] = <<>>
  BY <1>1 DEF RioInv, RioPlaces, R!Ended
<1>3. \A e \in R!Ends : rest[e].length # 0
  BY <1>1, FlowTypes DEF RioInv, RioRest
<1>4. ASSUME pc' = "send", kernel' = kernel \cup {"server"}, UNCHANGED freed,
             outstanding' = [outstanding EXCEPT !["server"] = TRUE]
      PROVE  RioInv'
  <2>1. /\ outstanding' \in [R!Ends -> BOOLEAN] /\ outstanding'["server"] /\ ~outstanding'["client"]
        /\ kernel' = {"server"}
    BY <1>2, <1>4 DEF R!Ends
  <2>2. RioPlaces'
    BY <1>1, <1>2, <1>4, <2>1 DEF RioPlaces, R!Ends, R!Ended
  <2>3. RioResults' /\ RioRest'
    BY <1>1, <1>3, <1>4, RestStays
  <2> QED BY <1>1, <2>2, <2>3, FlowStays DEF RioInv
<1>5. ASSUME UNCHANGED <<outstanding, kernel>>, R!Unwind("failed")
      PROVE  RioInv'
  <2>1. pc' \in {"failed", "terminated"} /\ freed' \subseteq R!Ends
    BY <1>2, <1>5, UnwindIs
  <2>2. RioPlaces'
    BY <1>1, <1>2, <1>5, <2>1 DEF RioPlaces, R!Ended
  <2>3. RioResults' /\ RioRest'
    BY <1>1, <1>3, <2>1, RestStays
  <2> QED BY <1>1, <2>2, <2>3, FlowStays DEF RioInv
<1> QED BY <1>4, <1>5 DEF R!SubmitReceive

LEMMA SubmitSendStep ==
  ASSUME RioInv, R!SubmitSend
  PROVE  RioInv'
<1>1. /\ pc = "send" /\ UNCHANGED <<rest, open, cq, port, wire, sent, memory, freed>>
      /\ outstanding' = [outstanding EXCEPT !["client"] = TRUE]
      /\ \/ pc' = "loop" /\ kernel' = kernel \cup {"client"}
         \/ pc' = "terminated" /\ UNCHANGED kernel
  BY DEF R!SubmitSend, R!Terminate
<1>2. /\ freed = {} /\ port \subseteq R!Ends /\ kernel \subseteq R!Ends
      /\ outstanding \in [R!Ends -> BOOLEAN] /\ ~outstanding["client"] /\ cq["client"] = <<>>
  BY <1>1 DEF RioInv, RioPlaces, R!Ended, R!Ends
<1>3. \A e \in R!Ends : rest[e].length # 0
  BY <1>1, FlowTypes DEF RioInv, RioRest
<1>4. outstanding' \in [R!Ends -> BOOLEAN] /\ outstanding'["client"]
      /\ \A e \in R!Ends \ {"client"} : outstanding'[e] = outstanding[e]
  BY <1>1, <1>2 DEF R!Ends
<1>5. kernel' \subseteq kernel \cup {"client"} /\ "client" \in R!Ends
  BY <1>1 DEF R!Ends
<1>6. /\ \A e \in kernel' : outstanding'[e] /\ cq'[e] = <<>>
      /\ \A e \in R!Ends : cq'[e] # <<>> => outstanding'[e]
  BY <1>1, <1>2, <1>4, <1>5 DEF RioInv, RioPlaces
<1>7. RioPlaces'
  BY <1>1, <1>2, <1>4, <1>5, <1>6 DEF RioPlaces, R!Ended
<1>8. RioResults' /\ RioRest'
  BY <1>1, <1>3, RestStays
<1> QED BY <1>1, <1>7, <1>8, FlowStays DEF RioInv

\* What dequeue_one makes of a result: the bytes move from the queue to the buffer.
LEMMA ResultIs ==
  ASSUME RioInv, NEW e \in R!Ends, cq[e] # <<>>, pc = "loop", R!HandleResult(e, Head(cq[e]))
  PROVE  /\ Waiting(e)' = 0 /\ \A d \in R!Ends \ {e} : Waiting(d)' = Waiting(d)
         /\ rest' \in [R!Ends -> [offset : Nat, length : Nat]]
         /\ rest'[e].offset = rest[e].offset + Waiting(e) /\ rest'[e].length = rest[e].length - Waiting(e)
         /\ \A d \in R!Ends \ {e} : rest'[d] = rest[d]
         /\ RioResults' /\ cq'[e] = <<>> /\ \A d \in R!Ends \ {e} : cq'[d] = cq[d]
         /\ Head(cq[e]).ok <=> Waiting(e) > 0
<1> DEFINE r == cq[e][1]
<1>1. cq \in [R!Ends -> Seq([ok : BOOLEAN, bytes : Nat])] /\ Len(cq[e]) <= 1
  BY DEF RioInv, RioResults
<1>2. cq[e] \in Seq([ok : BOOLEAN, bytes : Nat]) /\ Len(cq[e]) = 1
  <2>1. cq[e] \in Seq([ok : BOOLEAN, bytes : Nat])
    BY <1>1
  <2>2. Len(cq[e]) \in Nat /\ Len(cq[e]) # 0
    BY <2>1, LenProperties, EmptySeq
  <2>3. Len(cq[e]) = 1
    <3> DEFINE n == Len(cq[e])
    <3>1. n \in Nat /\ n # 0 /\ n <= 1
      BY <1>1, <2>2
    <3> HIDE DEF n
    <3>2. n = 1
      BY <3>1
    <3> QED BY <3>2 DEF n
  <2> QED BY <2>1, <2>3
<1>3. Head(cq[e]) = r /\ Tail(cq[e]) = <<>> /\ Waiting(e) = r.bytes /\ r \in [ok : BOOLEAN, bytes : Nat]
  <2>1. Tail(cq[e]) \in Seq([ok : BOOLEAN, bytes : Nat]) /\ Len(Tail(cq[e])) = 0
    <3>1. /\ Tail(cq[e]) \in Seq([ok : BOOLEAN, bytes : Nat])
          /\ Len(Tail(cq[e])) = Len(cq[e]) - 1
      BY <1>2, HeadTailProperties
    <3> QED BY <1>2, <3>1
  <2>2. Head(cq[e]) = r
    BY <1>2
  <2>3. r \in [ok : BOOLEAN, bytes : Nat]
    <3>1. 1 \in 1 .. Len(cq[e])
      BY <1>2
    <3> QED BY <1>2, <3>1, ElementOfSeq
  <2> QED BY <2>1, <2>2, <2>3, EmptySeq DEF Waiting
<1>4. r.ok <=> r.bytes > 0
  BY DEF RioInv, RioResults
<1>5. /\ cq' = [cq EXCEPT ![e] = <<>>]
      /\ IF r.ok THEN rest' = [rest EXCEPT ![e] = R!Advanced(@, r.bytes)] ELSE UNCHANGED rest
  BY <1>3 DEF R!HandleResult
<1>6. cq' \in [R!Ends -> Seq([ok : BOOLEAN, bytes : Nat])] /\ cq'[e] = <<>> /\ \A d \in R!Ends \ {e} : cq'[d] = cq[d]
  BY <1>1, <1>5, EmptySeq
<1>7. Waiting(e)' = 0 /\ \A d \in R!Ends \ {e} : Waiting(d)' = Waiting(d)
  BY <1>6 DEF Waiting
<1>8. RioResults'
  <2>1. Len(<<>>) = 0 /\ 0 <= 1
    BY EmptySeq
  <2>2. \A d \in R!Ends \ {e} : Len(cq[d]) <= 1
    BY DEF RioInv, RioResults
  <2>3. \A d \in R!Ends : Len(cq'[d]) <= 1
    BY <1>6, <2>1, <2>2
  <2>4. \A d \in R!Ends : cq'[d] # <<>> => (cq'[d][1].ok <=> cq'[d][1].bytes > 0)
    BY <1>6 DEF RioInv, RioResults
  <2> QED BY <1>6, <2>3, <2>4 DEF RioResults
<1> HIDE DEF r
<1>9. /\ rest' \in [R!Ends -> [offset : Nat, length : Nat]]
      /\ rest'[e].offset = rest[e].offset + r.bytes /\ rest'[e].length = rest[e].length - r.bytes
      /\ \A d \in R!Ends \ {e} : rest'[d] = rest[d]
  <2>1. /\ rest \in [R!Ends -> [offset : Nat, length : Nat]]
        /\ rest[e].offset \in Nat /\ rest[e].length \in Nat /\ r.bytes \in Nat /\ r.bytes <= rest[e].length
    BY <1>3, FlowTypes DEF RioInv, RioRest
  <2>2. CASE r.ok
    <3> DEFINE b == [offset |-> rest[e].offset + r.bytes, length |-> rest[e].length - r.bytes]
    <3>1. b \in [offset : Nat, length : Nat]
      BY <2>1
    <3>2. rest' = [rest EXCEPT ![e] = b]
      BY <1>5, <2>2 DEF R!Advanced
    <3>3. b.offset = rest[e].offset + r.bytes /\ b.length = rest[e].length - r.bytes
      OBVIOUS
    <3> HIDE DEF b
    <3> QED BY <2>1, <3>1, <3>2, <3>3
  <2>3. CASE ~r.ok
    <3>1. r.bytes = 0 /\ rest' = rest
      BY <1>4, <1>5, <2>1, <2>3
    <3> QED BY <2>1, <3>1
  <2> QED BY <2>2, <2>3
<1> QED BY <1>3, <1>4, <1>6, <1>7, <1>8, <1>9

\* The balance, after the bytes of a result moved to the buffer.
LEMMA ResultFlow ==
  ASSUME RioInv, NEW e \in R!Ends, cq[e] # <<>>, pc = "loop", R!HandleResult(e, Head(cq[e])),
         UNCHANGED <<wire, sent, memory>>
  PROVE  RioFlow'
<1>1. /\ Waiting(e)' = 0 /\ \A d \in R!Ends \ {e} : Waiting(d)' = Waiting(d)
      /\ rest'[e].offset = rest[e].offset + Waiting(e) /\ rest'[e].length = rest[e].length - Waiting(e)
      /\ \A d \in R!Ends \ {e} : rest'[d] = rest[d]
  BY ResultIs
<1>2. \A d \in R!Ends : /\ rest'[d].offset + Waiting(d)' = rest[d].offset + Waiting(d)
                        /\ rest'[d].length - Waiting(d)' = rest[d].length - Waiting(d)
                        /\ Waiting(d)' \in Nat /\ rest'[d].length \in Int
  <2>1. \A d \in R!Ends \ {e} : Waiting(d) \in Nat /\ rest[d].length \in Int
    BY FlowTypes
  <2>2. rest[e].offset \in Nat /\ rest[e].length \in Nat /\ Waiting(e) \in Nat
    BY FlowTypes
  <2>3. /\ rest[e].offset + Waiting(e) + 0 = rest[e].offset + Waiting(e)
        /\ rest[e].length - Waiting(e) - 0 = rest[e].length - Waiting(e)
        /\ rest[e].length - Waiting(e) \in Int
    BY <2>2
  <2> QED BY <1>1, <2>1, <2>3
<1>3. "client" \in R!Ends /\ "server" \in R!Ends
  BY DEF R!Ends
<1>4. Len(memory) = rest'["server"].offset + Waiting("server")'
  BY <1>2, <1>3 DEF RioInv, RioFlow
<1>5. Len(memory) + Len(wire) = rest'["client"].offset + Waiting("client")' + sent
  BY <1>2, <1>3 DEF RioInv, RioFlow
<1>6. sent + Waiting("client")' <= rest'["client"].length
  <2> DEFINE l == rest["client"].length   m == rest'["client"].length
             v == Waiting("client")   w == Waiting("client")'
  <2>1. l \in Int /\ v \in Nat /\ sent \in Nat
    BY <1>3, FlowTypes
  <2>3. m \in Int /\ w \in Nat /\ m - w = l - v
    BY <1>2, <1>3
  <2>4. sent + v <= l
    BY <1>3 DEF RioInv, RioFlow
  <2> HIDE DEF l, m, v, w
  <2>2. sent + w <= m
    BY <2>1, <2>3, <2>4
  <2> QED BY <2>2 DEF m, w
<1> QED BY <1>4, <1>5, <1>6 DEF RioInv, RioFlow

\* What is still to come, and where the program goes.
LEMMA ResultStep ==
  ASSUME RioInv, NEW e \in R!Ends, e \in port, cq[e] # <<>>, pc = "loop",
         R!HandleResult(e, Head(cq[e])), UNCHANGED <<late, wire, sent, memory>>
  PROVE  RioInv'
<1> DEFINE ok == Head(cq[e]).ok
<1>1. /\ Waiting(e)' = 0 /\ \A d \in R!Ends \ {e} : Waiting(d)' = Waiting(d)
      /\ rest' \in [R!Ends -> [offset : Nat, length : Nat]]
      /\ rest'[e].offset = rest[e].offset + Waiting(e) /\ rest'[e].length = rest[e].length - Waiting(e)
      /\ \A d \in R!Ends \ {e} : rest'[d] = rest[d]
      /\ RioResults' /\ cq'[e] = <<>> /\ \A d \in R!Ends \ {e} : cq'[d] = cq[d]
      /\ ok <=> Waiting(e) > 0
  BY ResultIs
<1>2. /\ outstanding \in [R!Ends -> BOOLEAN] /\ outstanding[e] /\ e \notin kernel /\ freed = {}
      /\ kernel \subseteq R!Ends /\ port \subseteq R!Ends /\ open # 0
      /\ \A d \in kernel : outstanding[d] /\ cq[d] = <<>>
  BY DEF RioInv, RioPlaces, RioRest, R!Ended
<1>3. \A d \in R!Ends : rest'[d].offset + rest'[d].length = Payload /\ Waiting(d)' <= rest'[d].length
  <2>1. \A d \in R!Ends \ {e} : rest[d].offset + rest[d].length = Payload /\ Waiting(d) <= rest[d].length
    BY FlowTypes
  <2>2. /\ rest[e].offset \in Nat /\ rest[e].length \in Nat /\ Waiting(e) \in Nat
        /\ rest[e].offset + rest[e].length = Payload /\ Waiting(e) <= rest[e].length
    BY FlowTypes
  <2>3. /\ (rest[e].offset + Waiting(e)) + (rest[e].length - Waiting(e)) = Payload
        /\ 0 <= rest[e].length - Waiting(e)
    BY <2>2
  <2> QED BY <1>1, <2>1, <2>3
<1> HIDE DEF ok
\* Another operation follows, or it could not be submitted.
<1>4. ASSUME ok, rest'[e].length > 0, UNCHANGED open, R!Resubmit(e)
      PROVE  RioInv'
  <2>1. rest[e].length > 0 /\ rest[e].length # 0
    BY <1>1, <1>4, FlowTypes
  <2>2. open' = (IF rest'["client"].length > 0 THEN 1 ELSE 0) + (IF rest'["server"].length > 0 THEN 1 ELSE 0)
    BY <1>1, <1>4, <2>1 DEF RioInv, RioRest, R!Ends
  <2>3. /\ \A d \in R!Ends : outstanding'[d] => outstanding[d]
        /\ outstanding' \in [R!Ends -> BOOLEAN]
    BY <1>2, <1>4 DEF R!Resubmit
  <2>4. /\ pc' \in {"loop", "failed", "terminated"} /\ kernel' \subseteq R!Ends /\ port' \subseteq R!Ends
        /\ \A d \in kernel' : outstanding'[d] /\ cq'[d] = <<>>
        /\ \A d \in R!Ends : cq'[d] # <<>> => outstanding'[d]
        /\ freed' \subseteq R!Ends /\ freed' \cap kernel' = {} /\ (pc' = "loop" => freed' = {})
    <3>1. \A d \in R!Ends \ {e} : cq'[d] # <<>> => outstanding[d]
      BY <1>1 DEF RioInv, RioPlaces
    <3>2. CASE R!Arm(e) /\ UNCHANGED outstanding /\ kernel' = kernel \cup {e} /\ UNCHANGED <<pc, freed>>
      <4>1. port' \subseteq R!Ends
        BY <1>2, <3>2 DEF R!Arm
      <4> QED BY <1>1, <1>2, <3>1, <3>2, <4>1
    <3>3. CASE R!Arm(e) /\ UNCHANGED outstanding /\ R!Terminate /\ UNCHANGED kernel
      <4>1. port' \subseteq R!Ends
        BY <1>2, <3>3 DEF R!Arm
      <4> QED BY <1>1, <1>2, <3>1, <3>3, <4>1 DEF R!Terminate
    <3>4. CASE /\ outstanding' = [outstanding EXCEPT ![e] = FALSE]
               /\ R!Unwind("failed") /\ R!Unarmed(e) /\ UNCHANGED kernel
      <4>1. \A d \in R!Ends \ {e} : outstanding'[d] = outstanding[d]
        BY <1>2, <3>4
      <4>2. \A d \in kernel' : outstanding'[d] /\ cq'[d] = <<>>
        BY <1>1, <1>2, <3>4, <4>1
      <4>3. pc' \in {"failed", "terminated"} /\ freed' \subseteq R!Ends /\ freed' \cap kernel' = {}
        BY <1>2, <3>4, <4>2, UnwindIs
      <4>4. port' \subseteq R!Ends
        BY <1>2, <3>4 DEF R!Unarmed
      <4> QED BY <1>1, <1>2, <3>1, <3>4, <4>1, <4>2, <4>3, <4>4
    <3> QED BY <1>4, <3>2, <3>3, <3>4 DEF R!Resubmit
  <2>5. RioPlaces'
    BY <2>3, <2>4 DEF RioPlaces, R!Ended
  <2>6. \A d \in R!Ends : rest'[d].length = 0 => ~outstanding'[d]
    <3> TAKE d \in R!Ends
    <3> HAVE rest'[d].length = 0
    <3>1. d # e /\ rest'[d] = rest[d]
      BY <1>1, <1>4
    <3>2. rest[d].length = 0 => ~outstanding[d]
      BY DEF RioInv, RioRest
    <3>3. rest[d].length = 0
      BY <3>1
    <3>4. ~outstanding[d]
      BY <3>2, <3>3
    <3> QED BY <2>3, <3>4, Zenon
  <2>7. RioRest'
    BY <1>1, <1>2, <1>3, <1>4, <2>2, <2>4, <2>6 DEF RioRest
  <2> QED BY <1>1, <2>5, <2>7, ResultFlow DEF RioInv
\* The endpoint is through, or its operation failed.
<1>5. ASSUME ~ok \/ rest'[e].length = 0, outstanding' = [outstanding EXCEPT ![e] = FALSE],
             open' = (IF ok THEN open - 1 ELSE open),
             IF ok /\ open' > 0 THEN UNCHANGED <<pc, freed>>
             ELSE R!Unwind(IF ok /\ R!Whole THEN "passed" ELSE "failed"),
             R!Unarmed(e), UNCHANGED kernel
      PROVE  RioInv'
  <2>1. /\ outstanding' \in [R!Ends -> BOOLEAN] /\ ~outstanding'[e]
        /\ \A d \in R!Ends \ {e} : outstanding'[d] = outstanding[d]
    BY <1>2, <1>5
  <2>2. open' = (IF rest'["client"].length > 0 THEN 1 ELSE 0) + (IF rest'["server"].length > 0 THEN 1 ELSE 0)
    <3>1. /\ rest[e].length \in Nat /\ Waiting(e) \in Nat /\ Waiting(e) <= rest[e].length
      BY FlowTypes
    <3>2. open = (IF rest["client"].length > 0 THEN 1 ELSE 0) + (IF rest["server"].length > 0 THEN 1 ELSE 0)
      BY DEF RioInv, RioRest
    <3>3. CASE ok
      <4>1. rest[e].length > 0 /\ rest'[e].length = 0 /\ open' = open - 1
        BY <1>1, <1>5, <3>1, <3>3
      <4>2. CASE e = "client"
        <5>1. rest'["server"] = rest["server"]
          BY <1>1, <4>2 DEF R!Ends
        <5> QED BY <3>2, <4>1, <4>2, <5>1
      <4>3. CASE e = "server"
        <5>1. rest'["client"] = rest["client"]
          BY <1>1, <4>3 DEF R!Ends
        <5> QED BY <3>2, <4>1, <4>3, <5>1
      <4> QED BY <4>2, <4>3 DEF R!Ends
    <3>4. CASE ~ok
      <4>1. Waiting(e) = 0
        BY <1>1, <3>1, <3>4
      <4>2. rest'[e].length = rest[e].length /\ open' = open
        BY <1>1, <1>5, <3>1, <3>4, <4>1
      <4> QED BY <1>1, <3>2, <4>2 DEF R!Ends
    <3> QED BY <3>3, <3>4
  <2>3. \A d \in R!Ends : rest'[d].length = 0 => ~outstanding'[d]
    <3>1. \A d \in R!Ends \ {e} : rest'[d].length = 0 => ~outstanding'[d]
      BY <1>1, <2>1 DEF RioInv, RioRest
    <3> QED BY <2>1, <3>1
  <2>4. \A d \in kernel' : outstanding'[d] /\ cq'[d] = <<>>
    BY <1>1, <1>2, <1>5, <2>1
  <2>5. port' \subseteq R!Ends
    BY <1>2, <1>5 DEF R!Unarmed
  <2>6. \A d \in R!Ends : cq'[d] # <<>> => outstanding'[d]
    BY <1>1, <2>1 DEF RioInv, RioPlaces
  <2>7. /\ pc' \in {"loop", "passed", "failed", "terminated"} /\ (pc' = "passed" <=> open' = 0)
        /\ freed' \subseteq R!Ends /\ freed' \cap kernel' = {} /\ (pc' = "loop" => freed' = {})
    <3>1. CASE ok /\ open' > 0
      BY <1>2, <1>5, <3>1
    <3>2. CASE ~ok
      <4>1. open' # 0 /\ R!Unwind("failed")
        BY <1>2, <1>5, <3>2
      <4>2. pc' \in {"failed", "terminated"} /\ freed' \subseteq R!Ends /\ freed' \cap kernel' = {}
        BY <1>2, <1>5, <2>4, <4>1, UnwindIs
      <4> QED BY <4>1, <4>2
    <3>3. CASE ok /\ ~(open' > 0)
      <4>1. open' = 0 /\ rest'["client"].length = 0 /\ rest'["server"].length = 0
        <5>1. rest'["client"].length \in Nat /\ rest'["server"].length \in Nat
          BY <1>1 DEF R!Ends
        <5> QED BY <2>2, <3>3, <5>1
      <4>2. R!Whole
        <5>1. RioFlow' /\ memory' = memory
          BY ResultFlow
        <5>2. Waiting("server")' \in Nat /\ Waiting("server")' <= 0 /\ rest'["server"].offset + 0 = Payload
              /\ rest'["server"].offset \in Nat
          <6>1. Waiting("server")' \in Nat
            <7>1. \A d \in R!Ends : Waiting(d) \in Nat
              BY FlowTypes
            <7> QED BY <1>1, <7>1 DEF R!Ends
          <6> QED BY <1>1, <1>3, <4>1, <6>1 DEF R!Ends
        <5>3. Len(memory) = Payload
          BY <5>1, <5>2 DEF RioFlow
        <5>4. memory \in Seq(Nat) /\ \A i \in 1 .. Payload : memory[i] = i
          BY <5>3, FlowTypes DEF RioInv, RioFlow
        <5>5. DOMAIN memory = 1 .. Payload /\ memory = [i \in DOMAIN memory |-> memory[i]]
          BY <5>3, <5>4, LenProperties
        <5> QED BY <5>4, <5>5 DEF R!Whole
      <4>3. R!Unwind("passed")
        BY <1>5, <3>3, <4>2
      <4>4. \A d \in R!Ends : ~outstanding'[d]
        BY <2>3, <4>1 DEF R!Ends
      <4>5. pc' = "passed" /\ freed' \subseteq R!Ends /\ freed' \cap kernel' = {}
        BY <1>2, <1>5, <2>4, <4>3, <4>4, UnwindIs
      <4> QED BY <4>1, <4>5
    <3> QED BY <3>1, <3>2, <3>3
  <2>8. RioPlaces'
    BY <1>2, <1>5, <2>1, <2>4, <2>5, <2>6, <2>7 DEF RioPlaces, R!Ended
  <2>9. RioRest'
    BY <1>1, <1>3, <2>2, <2>3, <2>7 DEF RioRest
  <2> QED BY <1>1, <2>8, <2>9, ResultFlow DEF RioInv
<1> QED BY <1>4, <1>5 DEF R!HandleResult, ok

LEMMA NotificationStep ==
  ASSUME RioInv, R!HandleNotification
  PROVE  RioInv'
<1>1. pc = "loop" /\ UNCHANGED <<late, wire, sent, memory>>
  BY DEF R!HandleNotification
<1>2. PICK e \in port :
        \/ /\ cq[e] = <<>> /\ UNCHANGED <<rest, open, outstanding, kernel, cq>>
           /\ \/ R!Arm(e) /\ UNCHANGED <<pc, freed>>
              \/ R!Unarmed(e) /\ R!Unwind("failed")
        \/ cq[e] # <<>> /\ R!HandleResult(e, Head(cq[e]))
  BY DEF R!HandleNotification
<1>3. e \in R!Ends /\ port \subseteq R!Ends
  BY DEF RioInv, RioPlaces
<1>4. ASSUME R!Arm(e) \/ R!Unarmed(e), UNCHANGED <<rest, open, outstanding, kernel, cq>>,
             UNCHANGED <<pc, freed>> \/ R!Unwind("failed")
      PROVE  RioInv'
  <2>1. port' \subseteq R!Ends
    BY <1>3, <1>4 DEF R!Arm, R!Unarmed
  <2> QED BY <1>1, <1>4, <2>1, IdleStep
<1> QED BY <1>1, <1>2, <1>3, <1>4, ResultStep

LEMMA RioInit ==
  ASSUME R!Init
  PROVE  RioInv
<1>1. Payload \in Nat /\ Payload > 0
  BY OwnershipAssumption DEF R!RioAssumption
<1>2. /\ pc = "receive" /\ rest = [e \in R!Ends |-> [offset |-> 0, length |-> Payload]]
      /\ outstanding = [e \in R!Ends |-> FALSE] /\ open = 2 /\ freed = {}
      /\ kernel = {} /\ cq = [e \in R!Ends |-> <<>>] /\ port = {}
      /\ wire = <<>> /\ sent = 0 /\ memory = <<>>
  BY DEF R!Init
<1>3. \A e \in R!Ends : cq[e] = <<>> /\ rest[e].length = Payload /\ rest[e].offset = 0 /\ ~outstanding[e]
  BY <1>2
<1>4. \A e \in R!Ends : Waiting(e) = 0
  BY <1>3 DEF Waiting
<1>5. RioPlaces
  BY <1>2 DEF RioPlaces, R!Ended
<1>6. RioResults
  BY <1>2, EmptySeq DEF RioResults
<1>7. RioRest
  <2>1. rest \in [R!Ends -> [offset : Nat, length : Nat]]
    BY <1>1, <1>2
  <2>2. open = (IF rest["client"].length > 0 THEN 1 ELSE 0) + (IF rest["server"].length > 0 THEN 1 ELSE 0)
    BY <1>1, <1>2, <1>3 DEF R!Ends
  <2> QED BY <1>1, <1>2, <1>3, <1>4, <2>1, <2>2 DEF RioRest
<1>8. RioFlow
  <2>1. <<>> \in Seq(Nat) /\ Len(<<>>) = 0 /\ DOMAIN <<>> = {}
    BY EmptySeq
  <2> QED BY <1>1, <1>2, <1>3, <1>4, <2>1 DEF RioFlow, R!Ends
<1> QED BY <1>5, <1>6, <1>7, <1>8 DEF RioInv

LEMMA RioNext ==
  ASSUME RioInv, [R!Next]_<<io, rio>>
  PROVE  RioInv'
<1>1. port \subseteq R!Ends
  BY DEF RioInv, RioPlaces
<1>2. ASSUME R!TimePasses \/ R!TimesOut \/ R!NotificationFails \/ UNCHANGED <<io, rio>>
             \/ \E e \in R!Ends : R!NotifiesEarly(e)
      PROVE  RioInv'
  <2>1. UNCHANGED <<rest, outstanding, open, kernel, cq, wire, sent, memory>>
    BY <1>2 DEF R!TimePasses, R!TimesOut, R!NotificationFails, R!GiveUp, R!NotifiesEarly,
                R!sides, R!transport, io, rio
  <2>2. port' \subseteq R!Ends
    BY <1>1, <1>2 DEF R!TimePasses, R!TimesOut, R!NotificationFails, R!GiveUp, R!NotifiesEarly,
                R!sides, R!transport, io, rio
  <2>3. UNCHANGED <<pc, freed>> \/ (pc = "loop" /\ pc' = "terminated" /\ UNCHANGED freed)
    BY <1>2 DEF R!TimePasses, R!TimesOut, R!NotificationFails, R!GiveUp, R!NotifiesEarly, R!Terminate,
                R!sides, R!transport, io, rio
  <2> QED BY <2>1, <2>2, <2>3, IdleStep
<1>3. ASSUME R!Transmit \/ R!SendCompletes \/ R!Program
      PROVE  RioInv'
  BY <1>3, TransmitStep, SendCompletesStep, SubmitReceiveStep, SubmitSendStep, NotificationStep DEF R!Program
<1>4. ASSUME NEW bytes \in 1 .. Payload, R!ReceiveCompletes(bytes)
      PROVE  RioInv'
  BY <1>4, ReceiveCompletesStep
<1>5. ASSUME NEW e \in R!Ends, R!CompletesBadly(e)
      PROVE  RioInv'
  BY <1>5, BadStep
<1> QED BY <1>2, <1>3, <1>4, <1>5 DEF R!Next

-----------------------------------------------------------------------------
(* The composition, and the theorems.                                      *)

LEMMA OwnInit ==
  ASSUME InitLab
  PROVE  OwnInv
BY IocpInit, RioInit DEF InitLab, OwnInv

LEMMA OwnNext ==
  ASSUME OwnInv, [NextLab]_allVars
  PROVE  OwnInv'
<1>1. lab' = lab
  BY DEF NextLab, InQueue, InIocp, InRio, allVars
<1>2. lab = "iocp" => [I!Next]_<<io, iocp>>
  BY DEF NextLab, InQueue, InIocp, InRio, allVars
<1>3. lab = "rio" => [R!Next]_<<io, rio>>
  BY DEF NextLab, InQueue, InIocp, InRio, allVars
<1> QED BY <1>1, <1>2, <1>3, IocpNext, RioNext DEF OwnInv

\* The invariant behind the others, of whichever program runs.
THEOREM OwnInvariance == FairLab => []OwnInv
BY OwnInit, OwnNext, PTL DEF FairLab

\* Neither program gives memory back that the kernel may still use, whatever completes,
\* fails, is canceled or times out, and in whatever order.
THEOREM MemoryIsOwned == FairLab => []MemoryOwned
<1>1. OwnInv => MemoryOwned
  <2>1. IocpInv => I!OwnedUntilDequeued
    BY DEF IocpInv, IocpPlaces, I!OwnedUntilDequeued
  <2>2. RioInv => R!RegisteredWhileUsed
    BY DEF RioInv, RioPlaces, R!RegisteredWhileUsed
  <2> QED BY <2>1, <2>2 DEF OwnInv, MemoryOwned
<1> QED BY <1>1, OwnInvariance, PTL

\* A frame and a payload of any size arrive whole and in order, in pieces of any size.
THEOREM BytesAreWhole == FairLab => []BytesWhole
<1>1. OwnInv => BytesWhole
  <2>1. RioInv => R!PayloadWhole
    BY DEF RioInv, RioRest, RioFlow, R!PayloadWhole
  <2> QED BY <2>1 DEF OwnInv, IocpInv, BytesWhole
<1> QED BY <1>1, OwnInvariance, PTL

\* The queue runs in this composition as it runs alone, so what is proved of it holds
\* here too.
THEOREM QueueRunsAlone == FairLab => Spec
<1>1. InitLab => Init
  BY DEF InitLab
<1>2. [NextLab]_allVars => [Next]_vars
  BY DEF NextLab, InQueue, InIocp, InRio, allVars
<1> QED BY <1>1, <1>2, PTL DEF FairLab, Spec
=============================================================================
