----------------------------- MODULE Scheduler -----------------------------
(***************************************************************************)
(* simulate of examples/knowledge/os-foundations-lab/scheduler_lab.py: one *)
(* processor, finitely many jobs, five policies.  One step is one turn of  *)
(* its loop.  Jobs are numbered in the order they are passed in.           *)
(***************************************************************************)
EXTENDS Integers, Sequences, FiniteSets, SequencesExt, FiniteSetsExt, Functions

CONSTANTS
  Jobs,      \* 1 .. the number of jobs
  Inputs     \* arguments of simulate: [arrival, burst, priority, policy, quantum, aging]

\* validate_jobs, without its upper limits.
InputsAssumption ==
  /\ IsFiniteSet(Jobs) /\ Jobs = 1 .. Cardinality(Jobs) /\ Jobs # {}
  /\ \A i \in Inputs :
       /\ i.arrival \in [Jobs -> Nat] /\ i.burst \in [Jobs -> Nat \ {0}]
       /\ i.priority \in [Jobs -> Int]
       /\ i.policy \in {"fcfs", "sjf", "srtf", "rr", "priority"}
       /\ i.quantum \in Nat \ {0} /\ i.aging \in BOOLEAN

VARIABLES
  input,
  time, remaining,
  arrived,
  ready,         \* the list of ready jobs, in the order they were put there
  segments,      \* the timeline; job Idle for an idle segment
  firstStart, completion    \* None until set

vars == <<input, time, remaining, arrived, ready, segments, firstStart, completion>>

Idle == 0
None == -1

Init ==
  /\ input \in Inputs
  /\ time = 0 /\ remaining = input.burst
  /\ arrived = {} /\ ready = <<>> /\ segments = <<>>
  /\ firstStart = [j \in Jobs |-> None] /\ completion = [j \in Jobs |-> None]

\* Ranks compared from left to right; the last part is the job's own number.
Before(r, s) ==
  \E n \in DOMAIN r : r[n] < s[n] /\ \A m \in 1 .. n - 1 : r[m] = s[m]

\* The order of sorted in admit, and the list of some jobs in that order.
Sooner(i, j) == Before(<<input.arrival[i], i>>, <<input.arrival[j], j>>)
InOrder(jobs) ==
  CHOOSE s \in [1 .. Cardinality(jobs) -> jobs] :
    ToSet(s) = jobs /\ \A m, n \in DOMAIN s : m < n => Sooner(s[m], s[n])

\* admit at time t: jobs not known yet join the list, by arrival.
Arrivals(known, t) == {j \in Jobs \ known : input.arrival[j] <= t}
Admitted(queue, known, t) == queue \o InOrder(Arrivals(known, t))

\* Mutant: a preempted job goes ahead of the jobs that arrived while it ran.
RequeuedAhead(queue, known, t, j) == Admitted(Append(queue, j), known, t)

\* The list after job j has stopped at t with work left.
Requeued(queue, known, t, j) == Append(Admitted(queue, known, t), j)

\* Mutant: segments are joined without a look at the job.
AppendedBlindly(start, end, job) ==
  IF segments # <<>> THEN [segments EXCEPT ![Len(segments)].end = end]
  ELSE <<[start |-> start, end |-> end, job |-> job]>>

\* _append
Appended(start, end, job) ==
  LET n == Len(segments) IN
  IF n > 0 /\ segments[n].job = job /\ segments[n].end = start
  THEN [segments EXCEPT ![n].end = end]
  ELSE Append(segments, [start |-> start, end |-> end, job |-> job])

Rank(j) ==
  LET aged == IF input.aging THEN (time - input.arrival[j]) \div 3 ELSE 0 IN
  CASE input.policy = "fcfs" -> <<input.arrival[j], j>>
    [] input.policy = "sjf"  -> <<input.burst[j], input.arrival[j], j>>
    [] input.policy = "srtf" -> <<remaining[j], input.arrival[j], j>>
    [] input.policy = "priority" -> <<input.priority[j] - aged, input.arrival[j], j>>

\* choose
Choice(queue) ==
  IF input.policy = "rr" THEN queue[1]
  ELSE CHOOSE j \in ToSet(queue) : \A k \in ToSet(queue) \ {j} : Before(Rank(j), Rank(k))

\* ready.remove
Without(queue, j) == RemoveAt(queue, Min({n \in DOMAIN queue : queue[n] = j}))

\* How long job j runs before the next decision.
RunFor(j, known) ==
  LET next == {input.arrival[k] : k \in Arrivals(known, time + remaining[j] - 1)} IN
  CASE input.policy = "rr" -> Min({remaining[j], input.quantum})
    [] input.policy = "srtf" /\ next # {} -> Min(next) - time
    [] OTHER -> remaining[j]

Unfinished == \E j \in Jobs : completion[j] = None

\* Nothing is ready: the clock goes on to the next arrival.
Wait ==
  /\ Unfinished /\ Admitted(ready, arrived, time) = <<>>
  /\ time' = Min({input.arrival[j] : j \in Jobs \ arrived})
  /\ segments' = Appended(time, time', Idle)
  /\ UNCHANGED <<input, remaining, arrived, ready, firstStart, completion>>

\* The chosen job j runs until end.
Run(queue, known, j, end) ==
  /\ time' = end
  /\ segments' = Appended(time, end, j)
  /\ firstStart' = [firstStart EXCEPT ![j] = IF @ = None THEN time ELSE @]
  /\ remaining' = [remaining EXCEPT ![j] = @ - (end - time)]
  /\ arrived' = known \cup Arrivals(known, end)
  /\ IF remaining'[j] = 0
     THEN completion' = [completion EXCEPT ![j] = end] /\ ready' = Admitted(queue, known, end)
     ELSE ready' = Requeued(queue, known, end, j) /\ UNCHANGED completion
  /\ UNCHANGED input

Dispatch ==
  /\ Unfinished
  /\ LET queue == Admitted(ready, arrived, time)
         known == arrived \cup Arrivals(arrived, time)
     IN /\ queue # <<>>
        /\ LET j == Choice(queue)
           IN Run(Without(queue, j), known, j, time + RunFor(j, known))

\* simulate returns.
Finished == ~Unfinished /\ UNCHANGED vars

Next == Wait \/ Dispatch \/ Finished
Spec == Init /\ [][Next]_vars

Turnaround(j) == completion[j] - input.arrival[j]
Waiting(j) == Turnaround(j) - input.burst[j]
Response(j) == firstStart[j] - input.arrival[j]
-----------------------------------------------------------------------------
TypeOK ==
  /\ input \in Inputs /\ time \in Nat
  /\ remaining \in [Jobs -> Nat] /\ arrived \subseteq Jobs /\ ready \in Seq(Jobs)
  /\ segments \in Seq([start : Nat, end : Nat, job : Jobs \cup {Idle}])
  /\ firstStart \in [Jobs -> Nat \cup {None}] /\ completion \in [Jobs -> Nat \cup {None}]

\* The job that runs in the unit of time after t, and the units job j ran in.
RunsAt(t) == (CHOOSE s \in ToSet(segments) : s.start <= t /\ t < s.end).job
Units(j) == {t \in 0 .. time - 1 : RunsAt(t) = j}

\* The timeline is a partition of the time so far that leaves no processor
\* idle while a job could run, lets no job run before it arrives or longer
\* than its burst, and from which the reported metrics can be counted.
TimelineSound ==
  /\ \A n \in DOMAIN segments :
       /\ segments[n].start = IF n = 1 THEN 0 ELSE segments[n - 1].end
       /\ segments[n].start < segments[n].end
       /\ n > 1 => segments[n].job # segments[n - 1].job
  /\ time = IF segments = <<>> THEN 0 ELSE Last(segments).end
  /\ \A j \in Jobs :
       /\ Cardinality(Units(j)) = input.burst[j] - remaining[j]
       /\ \A t \in Units(j) : t >= input.arrival[j]
       /\ \A t \in Units(Idle) : t < input.arrival[j] \/ (completion[j] # None /\ completion[j] <= t)
       /\ completion[j] # None =>
            /\ Waiting(j) = Cardinality((input.arrival[j] .. completion[j] - 1) \ Units(j))
            /\ Response(j) = Min(Units(j)) - input.arrival[j]

\* Reference: the least sum of completion times over all preemptive schedules.
LeastTotal ==
  LET best[t \in Nat, left \in [Jobs -> Nat]] ==
        LET open == {j \in Jobs : left[j] > 0}
            able == {j \in open : input.arrival[j] <= t}
        IN IF open = {} THEN 0
           ELSE IF able = {} THEN best[t + 1, left]
           ELSE Min({(IF left[j] = 1 THEN t + 1 ELSE 0)
                     + best[t + 1, [left EXCEPT ![j] = @ - 1]] : j \in able})
  IN best[0, input.burst]

\* Shortest remaining time first makes the sum of the completion times, and with
\* it the mean wait, minimal.
LeastTotalReached ==
  input.policy = "srtf" /\ ~Unfinished => FoldFunction(+, 0, completion) = LeastTotal

\* Units job j has been ready at without running, up to its unit t.
WaitBefore(j, t) ==
  t - Max({input.arrival[j]} \cup {u + 1 : u \in {v \in Units(j) : v < t}})

\* Job j may not be passed by job k: it came sooner, and its rank is no worse.  Under
\* aging it may have a worse priority, by up to a third of how much sooner it came.
Ahead(j, k) ==
  /\ Sooner(j, k)
  /\ input.policy = "sjf" => input.burst[j] <= input.burst[k]
  /\ input.policy = "priority" =>
       input.priority[j] - input.priority[k]
         <= IF input.aging THEN (input.arrival[k] - input.arrival[j]) \div 3 ELSE 0

\* Round robin keeps nobody waiting longer than one quantum of each other job.
RoundIsFair ==
  \A j \in Jobs : \A t \in Units(j) : WaitBefore(j, t) <= (Cardinality(Jobs) - 1) * input.quantum

\* A job that started keeps the processor until it is done.
NeverPreempts ==
  \A j \in Jobs : Units(j) # {} => Units(j) = Min(Units(j)) .. Max(Units(j))

\* No job is passed by one it is ahead of.
NeverPassed ==
  \A j, k \in Jobs : Ahead(j, k) =>
    firstStart[k] = None \/ (firstStart[j] # None /\ firstStart[j] < firstStart[k])

\* What round robin, and the policies that never preempt, are chosen for.
PolicyPromises ==
  /\ input.policy = "rr" => RoundIsFair
  /\ input.policy \in {"fcfs", "sjf", "priority"} => NeverPreempts /\ NeverPassed
=============================================================================
