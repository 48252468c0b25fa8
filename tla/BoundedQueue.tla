---------------------------- MODULE BoundedQueue ----------------------------
(***************************************************************************)
(* BoundedQueue and CountDownLatch of ownership-sync-lab/main.cpp, with    *)
(* producers that push, consumers that pop until they are told the end,    *)
(* and one thread that closes the queue, which may first wait for the      *)
(* latch as the test does.                                                 *)
(*                                                                         *)
(* One step is what a thread does under the mutex, up to the unlock or the *)
(* wait.  A waiting thread is in the set of its condition variable, and    *)
(* leaves it by a notification or spuriously; it then has to get the mutex *)
(* before it looks at its condition, and others may come first.            *)
(***************************************************************************)
EXTENDS Integers, Sequences, FiniteSets

CONSTANTS
  Producers, Consumers, Capacity,
  MaxPushes,     \* bound: calls of each producer
  LatchCount     \* count the latch is made with: calls of push_wait

ASSUME QueueAssumption ==
  /\ IsFiniteSet(Producers) /\ IsFiniteSet(Consumers) /\ Producers \cap Consumers = {}
  /\ Capacity \in Nat \ {0} /\ MaxPushes \in Nat /\ LatchCount \in Nat

Threads == Producers \cup Consumers
Items == Producers \X (1 .. MaxPushes)
Outcomes == {"none", "accepted", "refused", "closed", "cancelled"}

VARIABLES
  items, closed, cancelled,
  waiting,      \* threads in the set of not_full or not_empty
  woken,        \* threads on their way from there back to the mutex
  pushes,       \* calls made by each producer
  result,       \* what the last call of each thread returned: an item, or <<outcome>>
  latch,        \* count_ of the latch
  closer        \* where the closing thread is

queue == <<items, closed, cancelled>>
vars == <<queue, waiting, woken, pushes, result, latch, closer>>

Init ==
  /\ items = <<>> /\ closed = FALSE /\ cancelled = FALSE
  /\ waiting = {} /\ woken = {}
  /\ pushes = [p \in Producers |-> 0] /\ result = [t \in Threads |-> <<"none">>]
  /\ latch = LatchCount /\ closer = "start"

\* The sets of threads that notify_one may wake.
NotifyOne(side) ==
  IF waiting \cap side = {} THEN {{}} ELSE {{t} : t \in waiting \cap side}

\* Mutant: a push into a queue that holds something wakes nobody.
WakesIfEmpty == IF items = <<>> THEN NotifyOne(Consumers) ELSE {{}}

WakesOnPush == NotifyOne(Consumers)
WakesOnPop == NotifyOne(Producers)

\* Thread t returns r, and wakes the threads of w.
Returns(t, r, w) ==
  /\ result' = [result EXCEPT ![t] = r]
  /\ waiting' = waiting \ w
  /\ woken' = (woken \ {t}) \cup w

Waits(t) ==
  /\ waiting' = waiting \cup {t} /\ woken' = woken \ {t}
  /\ UNCHANGED <<queue, result>>

\* Mutant: a drain refuses only those who have not called yet.
RefusesCancelled == cancelled
Refuses == closed \/ cancelled

Accept(p) ==
  /\ items' = Append(items, <<p, pushes'[p]>>)
  /\ \E w \in WakesOnPush : Returns(p, <<"accepted">>, w)
  /\ UNCHANGED <<closed, cancelled>>
Refuse(p) == Returns(p, <<"refused">>, {}) /\ UNCHANGED queue

Calling(p) ==
  /\ p \notin waiting \cup woken /\ pushes[p] < MaxPushes
  /\ pushes' = [pushes EXCEPT ![p] = @ + 1]

TryPush(p) ==
  /\ Calling(p)
  /\ IF closed \/ cancelled \/ Len(items) = Capacity THEN Refuse(p) ELSE Accept(p)
  /\ UNCHANGED <<latch, closer>>

\* What follows when not_full's condition is looked at with the mutex held.
WaitForRoom(p) ==
  IF ~(Len(items) < Capacity \/ closed \/ cancelled) THEN Waits(p)
  ELSE IF Refuses THEN Refuse(p) ELSE Accept(p)

\* The closing thread waits at the latch until its count is 0.
PushWait(p) ==
  /\ Calling(p)
  /\ latch > 0 /\ latch' = latch - 1
  /\ closer' = IF closer = "at latch" /\ latch' = 0 THEN "closing" ELSE closer
  /\ WaitForRoom(p)

WaitForItem(c) ==
  CASE items = <<>> /\ ~closed /\ ~cancelled -> Waits(c)
    [] cancelled -> Returns(c, <<"cancelled">>, {}) /\ UNCHANGED queue
    [] items = <<>> /\ closed /\ ~cancelled -> Returns(c, <<"closed">>, {}) /\ UNCHANGED queue
    [] OTHER ->
         /\ items' = Tail(items)
         /\ \E w \in WakesOnPop : Returns(c, Head(items), w)
         /\ UNCHANGED <<closed, cancelled>>

Pop(c) ==
  /\ c \notin waiting \cup woken /\ result[c] \notin {<<"closed">>, <<"cancelled">>}
  /\ WaitForItem(c)
  /\ UNCHANGED <<pushes, latch, closer>>

SpuriousWakeup(t) ==
  /\ t \in waiting
  /\ waiting' = waiting \ {t} /\ woken' = woken \cup {t}
  /\ UNCHANGED <<queue, pushes, result, latch, closer>>

Resume(t) ==
  /\ t \in woken
  /\ UNCHANGED pushes
  /\ IF t \in Producers THEN WaitForRoom(t) ELSE WaitForItem(t)
  /\ UNCHANGED <<latch, closer>>

AwaitLatch ==
  /\ closer = "start" /\ closer' = IF latch = 0 THEN "closing" ELSE "at latch"
  /\ UNCHANGED <<queue, waiting, woken, pushes, result, latch>>

\* close, of a thread that may not have waited for the latch.
Close(cancel) ==
  /\ closer \in {"start", "closing"} /\ closer' = "notify not_empty"
  /\ closed' = TRUE
  /\ cancelled' = cancel
  /\ items' = IF cancel THEN <<>> ELSE items
  /\ UNCHANGED <<waiting, woken, pushes, result, latch>>

NotifyAll(side) == waiting' = waiting \ side /\ woken' = woken \cup (waiting \cap side)

\* After the unlock.
NotifyClosed ==
  /\ \/ closer = "notify not_empty" /\ NotifyAll(Consumers) /\ closer' = "notify not_full"
     \/ closer = "notify not_full" /\ NotifyAll(Producers) /\ closer' = "done"
  /\ UNCHANGED <<queue, pushes, result, latch>>

Next ==
  \/ \E p \in Producers : TryPush(p) \/ PushWait(p)
  \/ \E c \in Consumers : Pop(c)
  \/ \E t \in Threads : SpuriousWakeup(t) \/ Resume(t)
  \/ AwaitLatch \/ (\E cancel \in BOOLEAN : Close(cancel)) \/ NotifyClosed

Spec == Init /\ [][Next]_vars
\* A thread that may run runs, and gets the mutex; nothing makes a spurious
\* wake-up, a call or the decision to close come.
FairSpec == Spec /\ WF_vars(NotifyClosed) /\ \A t \in Threads : WF_vars(Resume(t))
-----------------------------------------------------------------------------
TypeOK ==
  /\ items \in Seq(Items) /\ Len(items) <= Capacity
  /\ closed \in BOOLEAN /\ cancelled \in BOOLEAN
  /\ waiting \subseteq Threads /\ woken \subseteq Threads /\ waiting \cap woken = {}
  /\ pushes \in [Producers -> 0 .. MaxPushes]
  /\ result \in [Threads -> Items \cup {<<o>> : o \in Outcomes}]
  /\ latch \in 0 .. LatchCount
  /\ closer \in {"start", "at latch", "closing", "notify not_empty", "notify not_full", "done"}

\* No wake-up is lost: while threads wait for a condition that holds, as many
\* others are awake for it as it can satisfy; and after the close those that
\* wait are about to be notified.
NoLostWakeup ==
  LET asleep(side) == waiting \cap side # {}
      awake(side) == Cardinality(woken \cap side)
  IN /\ asleep(Consumers) /\ ~closed => awake(Consumers) >= Len(items)
     /\ asleep(Producers) /\ ~closed => awake(Producers) >= Capacity - Len(items)
     /\ asleep(Consumers) /\ closed => closer = "notify not_empty"
     /\ asleep(Producers) /\ closed => closer \in {"notify not_empty", "notify not_full"}

Promise == INSTANCE ClosableQueue WITH
  mode <- IF cancelled THEN "cancel" ELSE IF closed THEN "drain" ELSE "open",
  blocked <- waiting \cup woken

\* The calls behave as those of a queue without threads, mutex and condition
\* variables, which lets everyone go once it is closed.
ImplementsClosableQueue == Promise!ReleasingSpec
=============================================================================
