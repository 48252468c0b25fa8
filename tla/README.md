# Verification of the labs of c86j224s/tech-interview

The repository is a site of computer-science interview notes with about sixteen
runnable labs under `src/examples/knowledge/`. The site's own code is small; the
programs with state, concurrency and failure are the labs, and they are what this
project models. TLC checks the models on small instances; TLAPS proves the safety part of
every state machine among them for every value of its constants, as far as no induction over
data is needed.

There are three kinds of model. The labs about failure and concurrency (`MsaSaga`,
`KafkaInbox`, `PulsarInbox`, `UringEcho`, `EpollEcho`, `BoundedQueue`, `IocpServer`,
`RioLoopback`, `QuestionDeck`) are state machines composed with everything around them:
kernel, broker, browser, peers, faults. The labs that keep state between calls of one
caller (`LPAStar`, `DStarLite`, `Scheduler`, `VoxelWorld`) are state machines driven by
every short sequence of calls. The pure algorithms (`StaticSearch`, `Sorting`,
`StudyStructures`, `StudyTables`, `Refcount`, `Balancer`, `Checkpoint`) are operators that are
compared with reference definitions over every small input or sequence of calls.

## Inventory

Paths are relative to `src/examples/knowledge/` unless they start with `src/`.

| Component | State | Operations | Interaction | What is hard | Correct means |
|---|---|---|---|---|---|
| Order saga services (`msa-lab/service.py`, `common.py`) | one SQLite file each: `commands`, `effects`, provider ledgers, outbox | `order`, `inventory`, `release`, `payment`, `payment_reconcile`, `refund`, `shipping` | HTTP from the coordinator, one request at a time | a request executed after its caller gave up, replays, crash before or after the commit | one effect per identity, stored results agree with effects, stock adds up |
| Saga coordinator (`msa-lab/coordinator.py`, `run_demo.py`) | `workflow_state` row | `run_flow` with `reconcile_unknown` and `resume_compensation` | calls the services, is killed and run again | unknown answers, resuming a compensation | never both shipped and undone, what is reported is true, it settles |
| Kafka inbox worker (`kafka-lab/.../InboxWorker`, `InboxStore`, `Checkpoint`) | inbox file, its map in memory, checkpoint, committed offset | poll, apply, mark, commit, rebalance callbacks | broker (log, group offset), the file system | crash between effect and commit, redelivery, failed write | one effect per event id, commits never ahead of effects, the log drains |
| Kafka producer (`ProducerMain`) | loop index | send, wait for the acknowledgement | broker | killed before the acknowledgement and run again | as above |
| io_uring echo server (`linux-io-lab/uring_echo.c`) | slots, operations in flight, pending count, shutdown flags | accept, recv, send, cancel, drain | kernel, peers, signals | completion order, reuse of operation memory, partial sends, drain deadline | memory is owned until completion, bytes in order, clean end |
| epoll echo server (`linux-io-lab/epoll_echo.c`) | slots with generations, output queues, ready queue | accept, read, write, budgeted service | kernel, peers | edge-triggered readiness, stale handles, a full ready queue | nobody is starved or dropped, bytes in order |
| Pulsar consumer and inbox (`pulsar-producer-consumer-lab`) | ledger file, index in memory, redelivery counts | apply, acknowledge, reconsume later, negative acknowledgement | broker, dead letter topic, several processes over a file lock | torn append, crash between effect and acknowledgement | one effect per event, healthy events are not dead-lettered |
| Bounded queue, latch, reference counts (`ownership-sync-lab/main.cpp`) | deque, flags, waiting threads, counts | push, pop, close, arrive, lock, release | threads | lost wake-ups, a close that races waiters, promotion after the last release | no thread waits for good, the calls are those of a queue, no use after destruction |
| IOCP server (`windows-io-lab/iocp_overlapped_server.cpp`) | operation store, receiver phase, active send | receive, send, dequeue, cancel and drain | kernel, client, clock | partial completions, cancellation that only asks, buffers in use while freed | buffers outlive operations, frames whole, it ends |
| RIO loopback (`windows-io-lab/rio_iocp_loopback.cpp`) | flag and buffer of each endpoint, count of open operations | submit, notify, dequeue, resubmit, give up | provider, clock | notification without result, failure between two operations, no cancellation | a buffer stays registered while used, payload in order, it ends |
| Question deck and paper turn (`src/src/lib/random-questions.mjs`, `src/src/scripts/paper-turn.ts`) | remaining questions in memory and session storage, busy flag | visit, draw, page swap, failed fetch, popstate, pageshow | browser: history, kept documents, fetch, navigation | deck moves on before the page comes, restored documents, new versions of the site | memory and storage agree, no repeats within a round |
| Incremental planners and searches (`pathfinding-lab/pathfinding_lab.py`) | `g`, `rhs`, heap, `km` | compute, notify of changed edges, move the start, path | owner of the graph | stale heap keys, several changes before a notification, ties | the answer of a fresh search, and every call returns |
| Scheduler (`os-foundations-lab/scheduler_lab.py`) | ready list, remaining work, timeline | one turn of `simulate` | none | arrivals at the end of a slice, preemption, aging | the timeline accounts for all work, each policy keeps its promise |
| Voxel world (`recast-voxel-lab/voxel_reference.py`) | chunks, generations, dirty set | put, set, snapshot, mesh, query | mesh builder | borders of chunks, negative positions, stale snapshots | meshes cover their faces, versions tell changes |
| Sorting lab, study scripts (`sorting-lab`, `src/scripts/verify-*.py`) | the structure or table at work | sorts, disjoint sets, lazy sums, scans, tables | none | rollbacks, deferred work, writes in place, comparators that are no orders | agree with a reference definition |
| DNS and balancing lab (`dns-balancing-lab/src/lab.mjs`) | cached answer, connections, active counts, cursor | one request of `simulate` | clock | expiry, requests that end in between, ids already taken | no stale answer, counts tell what runs, each strategy spreads as promised |
| Auth protocol lab (`auth-protocol-lab/src/lab.mjs`) | codes, tokens, keys | protocol endpoints | client, provider | | not modelled: its claims are about an adversary |
| Other labs (`ios`, `java-access`, `python-runtime`, `web-platform`), clients, admin tools, site library and pages | little or none | demonstrations, build-time checks | platform | none that a model would add to | not modelled, see PROJECT.json |

The components do not call each other: each lab is a program of its own. What
interacts is inside a lab, and each model composes all its parties (services,
coordinator and network; producer, broker, worker and file; server, kernel and
peers; page script, storage and browser).

## Modules

| Module | Models | Used by |
|---|---|---|
| `OrderOutcome` | abstract: what the saga promises of one order | `MsaSaga` |
| `MsaSaga` | `service.py`, `common.py`, `coordinator.py`, the restarts of `run_demo.py` | `msa_saga`, `msa_gate` |
| `MsaSagaProofs` | inductive invariant, safety theorems, refinement of `OrderOutcome` | |
| `Checkpoint` | `Checkpoint.java` as operators | `KafkaInbox` |
| `InboxEffects` | abstract: what an inbox consumer promises | `KafkaInbox` |
| `KafkaInbox`, `KafkaInboxMC` | `InboxWorker.java`, `InboxStore.java`, `ProducerMain.java`, the broker they use | `kafka_inbox` |
| `KafkaInboxProofs` | inductive invariant, safety theorems, refinement of `InboxEffects` | |
| `UringEcho` | `uring_echo.c`, its kernel and peers | `uring_echo`, `uring_stop` |
| `UringEchoProofs` | inductive invariant and safety theorems of it | |
| `PulsarInbox`, `PulsarInboxMC` | `Consumer.java`, `InboxStore.java`, `Producer.java`, `App.java` of the Pulsar lab, and the broker they use | `pulsar_inbox` |
| `PulsarInboxProofs` | inductive invariant and safety theorems of it | |
| `EpollEcho` | `epoll_echo.c`, its kernel and peers | `epoll_echo`, `epoll_full` |
| `EpollEchoProofs` | inductive invariant and safety theorems of it | |
| `ClosableQueue` | abstract: a closable queue without threads | `BoundedQueue` |
| `BoundedQueue` | the queue and the latch of `ownership-sync-lab`, mutex, condition variables and threads | `ownership` |
| `IocpServer` | `iocp_overlapped_server.cpp`, kernel, client and clock | `ownership` |
| `RioLoopback` | `rio_iocp_loopback.cpp`, provider and clock | `ownership` |
| `OwnershipMC` | queue, server and loopback as one union of state spaces | `ownership` |
| `OwnershipProofs` | inductive invariants and safety theorems of the three, refinement of `ClosableQueue` | |
| `QuestionDeck`, `QuestionDeckMC` | `random-questions.mjs`, `paper-turn.ts`, the browser around them | `labs`, `question_deck` |
| `PathGraph` | graph, distances and route reconstruction of `pathfinding_lab.py` | planners and searches |
| `PathGraphProofs` | distances and paths in any graph, and what a settled search knows | |
| `StaticSearch` | BFS, Dijkstra and A* | `labs` |
| `Planner`, `LPAStar`, `DStarLite`, `PlannersMC` | what the incremental planners share, and each of them | `labs` |
| `Scheduler` | `simulate` of `scheduler_lab.py` | `labs` |
| `Balancer` | `simulate` of `dns-balancing-lab` | `labs` |
| `VoxelWorld`, `VoxelWorldMC` | `World`, greedy meshing and the collision query of `voxel_reference.py` | `labs`, `voxel_version` |
| `Sorting` | the five sorts and the comparator check of `sorting_lab.py` | `labs` |
| `StudyStructures` | disjoint sets, lazy sums, scans, topological order of `verify-algorithm-study.py` | `labs` |
| `StudyTables` | coins, knapsack, counting sort, segmented sieve, 0-1 search of `verify-remaining-structures.py` | `labs` |
| `Refcount` | `RefcountModel` of `ownership-sync-lab` | `labs` |
| `LabPrograms` | planners, scheduler, voxel world and deck as one union of state spaces | `labs` |
| `LabProgramsProofs` | inductive invariant and safety theorems of these | |
| `LabsMC` | `LabPrograms`, the structures under short sequences of calls, and the pure algorithms | `labs` |

In each module the operators that follow the comment "Mutants" are wrong versions
of definitions below them. They are used by no specification; they exist to show
that a property fails when the code is changed in that way.

### MsaSaga

`commands`, `stock`, `hold`, `charges`, `refunds`, `shipment` are the rows of the
services' databases; `req`, `rsp` the call of the coordinator under way; `late` the
requests it gave up on that a service may still execute; `pc` the place in
`run_flow`, one value per call and per `_save_step`; `status` the saved row. A
service transaction runs under `BEGIN IMMEDIATE` in a single-threaded server and is
one step (`HoldTxn` ... `ReleaseTxn`), guarded by `Prior` as `_prior` does. `Crash`
ends a service process with its backlog and loses or keeps an answer already on its
way, which covers the failpoints before and after the effect. `OtherHold` and
`OtherRelease` are another customer of the same stock. The mode of `run_flow`
without a database directory is not modelled; it saves nothing and is the same
calls. Rows that are written and never read (outbox, step) and the collision
checks, which compare constants of the one order, are left out.

### KafkaInbox

`log` and `committed` belong to the broker, `file` is the inbox file, the other
variables are the worker process. The batch loop is cut at each place where a crash
makes a difference: `Deliver` (checkpoint, and the look at the map), `Persist` (the
atomic rename), `Put` (the map), `Mark`, `Commit`. `Rebalance` is the listener run
inside `poll`. It brings no offset back: a batch is committed before the next `poll`, one
that is left half-way sets `closing` or ends the process, as a failed commit does, so
inside `poll` the position is the committed offset. An offset comes again only to a
process that was started again. A crash keeps the file and the broker. Two workers at
once are ruled out by the lab's README and are not modelled. `ForeignSend` lets someone
else put a record with a known id and another payload into the topic.

### UringEcho

One action per completion kind handled (`HandleAccept`, `HandleRecv`, `HandleSend`,
`HandleCancel`), and one per way a turn of the loop can go before it
(`BeginShutdown`, `GoToWait`, `WaitTimesOut`, `Leave`). `inflight` is what the kernel
holds and `cq` what it has posted. An operation does not carry its data: it refers to
the memory of its slot, as in the code, so a slot reused too early shows.
Completions whose generation is stale are skipped in the code by a `continue`; the
model has no such step because `OwnedUntilHandled`, checked, says that they do not
occur. A byte is its position in what the peer sends.

### PulsarInbox

`topic`, `acked` and `dlq` belong to the broker, `file` and `lock` are shared by the
worker processes, `pc`, `held` and `late` say where each of them is. `apply` is cut at
the append, the one place where a crash leaves part of something behind: `Look` is
`reloadAndRepair` and the decision, `Write` the append. The lock is held in between, so
no other process sees the file there. The map is not a variable: every `apply` reads the
whole file again, which is what `Seen` does. A frame is its entry or `Torn`; bytes,
lengths and CRC are left out. A retried message is a new message of the retry topic with
its count of times, as `reconsumeLater` publishes it before it acknowledges the old one.

### EpollEcho

One action per thing the loop does: `Wait`, `HandleEvent`, `HandleListener` with `Accept`
for every turn of `accept_ready`, `Rerun` for the ready queue at the end of a pass, `Stop`.
`Service` is `service_connection` in one step: input that arrives between its `recv` and
its `EPOLL_CTL_MOD` is reported by the `MOD`, as if it had arrived after it. `armed` is the
interest of a one-shot registration, empty once it was reported. `blocked` stands for a
full send buffer. A failed `recv` or `send` is one on a connection in `reset`. Generations
do not wrap: a handle leaves the queue within as many passes as there are slots.

### BoundedQueue

One step is what a thread does while it holds the mutex. `waiting` holds the threads
inside `wait`, `woken` those on their way back to the mutex, so another call may come
between the notification and the second look at the condition. `Close` sets the flags,
and the two `notify_all` that follow the unlock are steps of their own. A wake-up may be
spurious. `ClosableQueue` has neither threads nor notifications: its calls happen at one
moment, and once it is closed nobody stays inside one. The latch is the one that the
test uses to let the closing thread wait for its producers.

### IocpServer and RioLoopback

`store` holds the operations of the server, `kernel` the ones that the kernel still has,
`port` the packets that were not dequeued. `Submit` either starts an operation or removes
it again and throws, as `submit` does; `Throw` is the `catch` clause of `run_server`.
A cancellation changes nothing but who waits for what: the packet may still be a good one
and may never come. A failed `CancelIoEx` inside the `try` leads to a second attempt
inside the `catch`, and a failure there ends the process. `run_server` answers one frame,
so the queue behind the active send is empty throughout and is not a variable.

In `RioLoopback` a completion queue notifies at most once for each `RIONotify`, and a
notification may find the queue empty. `Unwind` runs the destructors of the client and
then the server with the flags as they are. The provider may put bytes on the wire before
the send completes. `dequeue_one` clears `outstanding` before it looks at the status: the
model shows that no buffer is deregistered too early because of it.

### QuestionDeck

`saved` is the item in session storage, or `Blocked` if storage cannot be used; `page` the
live document with its deck and flags; `history` and `at` the entries of the tab; `kept`
the documents a browser may restore as they were left. `going` is a navigation under way:
until it commits the old page still takes clicks, which is what makes `busy`, `reload` and
`assign` interesting. The deck is shuffled and its order is never seen before a draw, so
`remaining` is a set. `seen` is a ghost: what the round has shown. `Deploy` publishes a
catalog that lost a question and gained others.

### Planners

`Planner` holds the graph, the search state and the calls that change edges; several may
change before the planner is told of the first (`unnotified`). A heap is the set of its
entries with the count of pushes. One step of `Compute` is one turn of the loop of
`compute_shortest_path`, with `_top` and its removal of stale entries. `DStarLite` adds the
moves of the start and `km`. `Distances` is the reference, by Bellman and Ford; `Solves` says
without an algorithm that given values solve the equations of Bellman, and `DistanceKnown`
compares a planner that has returned with such a solution. `PathsShortest` compares it with
`Distances`, and the routes read back out of its search with the distance. The loops that read a
route back are `Iterated` steps: as many turns as there are nodes.
`Repairable` is the invariant the algorithms live by: `rhs` is what the neighbours say, and
every inconsistent vertex has an entry no later than its key. `StaticSearch` has the three
searches as operators with the heap order of the source; `SearchesAgree`, a part of
`AlgorithmsTrue`, compares them with `Distances`.

### Scheduler, Balancer, VoxelWorld, Sorting, study scripts

A step of `Scheduler` is a turn of `simulate`: idle until the next arrival, or run one
slice, admit those who arrived meanwhile and queue the job again. `PolicyPromises` compares
the timeline with what a policy is chosen for: the bounded wait for `rr`; for `fcfs`, `sjf` and
`priority` that no job loses the processor before it is done, and that none is overtaken by one
that came later and has no better claim. What `srtf` is chosen for, the least total of completion
times, is a matter of whole schedules: `LeastTotalReached`, a part of `AlgorithmsTrue`. `Balancer`
has a turn of its `simulate` as an operator on its state; `RoutingTrue`, a part of
`StructuresTrue`, compares the rows it reports with
the counters, with what DNS would have answered, and with the weights. `VoxelWorld` has
every method of `World` that changes state as an action. The mesh and the collision query
are operators that `GeometryTrue` compares with the voxels themselves. `Sorting` runs the
sorts under every comparator, orders and others: all must keep the items, and those that
promise it must sort stably whenever `validate_order` accepts the comparator.
`StudyStructures` and `StudyTables` keep the in-place order of their writes, which is what
could be wrong. `Checkpoint`, which its worker only drives in order, is driven here with
gaps and out of order.

## Runs

| Run | Expects | Instance | Shows |
|---|---|---|---|
| `msa_saga` | pass | one unit of stock, both values of each argument, 2 faults | the databases stay consistent through replays, late requests, crashes and another customer; `COMPLETED` and `CANCELLED` are true; the saga refines `OrderOutcome` and settles |
| `msa_gate` | violation | restarts as `run_demo.py` makes them | the release can overtake the refund when a compensation is retried (finding 1) |
| `kafka_inbox` | pass | 2 events, batches up to 3, 2 producer runs, one conflicting record, 2 faults | one effect per event id in log order, commits never ahead, clean exits commit what they handled, everything drains |
| `uring_echo` | pass | 2 connections over 1 slot, 2-byte buffers, generation wraps at 2 | memory ownership, exact pending count, bytes in order, half-close flushes, shutdown ends |
| `uring_stop` | violation | 1 connection, 1 slot | a signal between the look at the flag and the wait is not acted upon (finding 2) |
| `pulsar_inbox` | pass | 2 workers, 3 events of which one is poisonous and reuses an id, 2 faults, both subscription types | one effect per event, the ledger loses no record, nothing acknowledged is lost, dead letters have a cause, retried messages settle |
| `epoll_echo` | pass | 2 connections over 2 slots, 3 bytes each, budget and output queue of 2 | bytes in order, nobody closed early, nobody starved |
| `epoll_full` | violation | 3 connections over 2 slots, budget of 1 | a connection that used up its budget is closed because of a stale handle (finding 3) |
| `labs` | pass | see the bounds | planners and searches find shortest paths and return; timelines are sound, policies and balancing strategies keep their promises; meshes and queries are exact and mutations invalidate; the deck agrees with its storage; structures, sorts and tables agree with their definitions |
| `ownership` | pass | 2 producers, 2 consumers, 2 places; frames of 2 + 2 bytes and an answer of 3; a payload of 3 | no wake-up is lost and the queue refines `ClosableQueue`; no memory is given back while the kernel may use it, no byte is lost or moved, both programs end |
| `voxel_version` | violation | one chunk with its six neighbours | a chunk put again keeps its version while its mesh changes (finding 4) |
| `question_deck` | violation | 3 questions, 2 catalogs, 2 draws, 2 navigations | a restored page draws a question that the round has shown (finding 5) |

Bounds. `MaxFaults` = 2 lets one fault hit the call and another its retry or the
coordinator itself, which is the shortest way to every combination of lost answer,
late request and resumed run; more faults repeat these. One unit of stock is the
boundary at which a unit taken or returned twice shows at once. Two events with two
producer runs give duplicates of each, and a batch of 3 holds both and a duplicate.
Two connections over one slot force reuse of the slot and a refused connection; two
bytes over a two-byte buffer force a partial send; a largest generation of 2 forces
the wrap past 0. A peer sends nothing or everything, as what lies between adds no
new split. In `PulsarInbox` a message is retried once instead of three times, so that two
faults are enough to exceed it. In `EpollEcho` an output queue of 2 for 3 bytes gets full,
a budget of 2 is used up or not, and a second connection takes a slot whose old handle is
still queued.

`LabPrograms`, with `LabsMC`, and `OwnershipMC` put programs that do not interact into one run:
`lab` names the program of a behaviour, so the states are the sum and not the product. In `Labs.cfg` four
nodes are the fewest with two routes of different length that share a detour; three changes
(two for D* Lite, with two moves) let an edge be raised, lowered and removed with one
notification late. Three jobs let one arrive while another is preempted. Four requests go
once around weights 2, 1 and 1, and an answer that is replaced after half its time to live is
seen before, at and after its expiry. Chunks of 2 voxels
have a border on each side of every voxel; two mutations reach a neighbour of the first; boxes,
flat ones among them, lie on both sides of loaded chunks and within five voxels (`Reach`).
Arrays of up to 4 records with 3 keys, 4 elements with 4 calls of the disjoint sets and 3
values under the lazy sums give duplicates, a rollback over two unions and two additions
that are pending on one path. Intervals up to 30 have base primes 2, 3 and 5. The catalogs
`{1}` and `{2, 3}` of the deck make a removal, an addition, a round of nothing and the start
of a new round with two draws; two navigations are a step back and one away. In
`Ownership.cfg` two pushes for each of two producers fill two places twice, and frames of
two and three bytes complete in up to three parts on either side of the boundary between
header and payload.

`UringEcho` and `EpollEcho` run with CHECK_DEADLOCK FALSE because the process exits,
`PulsarInbox` because nothing is left to do once every message is acknowledged, `labs` and
`ownership` because the programs end, and a pure algorithm is a single state; the other
passing runs check deadlock. That nobody is stuck in the bounded queue is `NoLostWakeup` and
the liveness of `ClosableQueue`.

## Fairness

- `MsaSaga`: a service that runs answers (its loop is `serve_forever`), a refused
  connection is noticed, a dead service is started again and `run_flow` is run again
  by its operator, and a run goes on. Faults, late requests and the other customer
  are not fair. `Settles` says that under these the workflow ends.
- `KafkaInbox`: the worker's process goes on and is started again when it ended.
  Producers, rebalances and faults are not fair.
- `UringEcho`: the thread runs, time passes, and the kernel answers a cancel. Peers,
  signals, and completions of recv or send are not fair, since a peer may stay silent:
  the deadline has to end a shutdown without them.
- `PulsarInbox`: each worker goes on and is started again after it ended. Producers,
  timeouts and faults are not fair. `Settles` speaks of `Shared` subscriptions, the only
  ones with a dead letter policy: with `Key_Shared` a poisonous message is refused for ever.
- `labs`: a call of a planner, once begun, runs on until it returns. `Returns` says that it
  does, which is not obvious with keys that are pushed again. Callers are not fair.
- `ownership`: a thread that was woken gets the mutex, and the closing thread goes on to its
  notifications; spurious wake-ups, calls and the decision to close are not fair, so a lost
  wake-up cannot be made good by luck. The two I/O programs run, time passes, and the clock
  is read in every turn of their loops; no operation has to complete.
- `EpollEcho`: the thread runs and peers read what is sent to them. What they send, and
  when they end, is not fair.

## Proofs

`MsaSagaProofs` proves the safety properties of `msa_saga` for any stock, any sets of
arguments and any number of faults, assuming only `SagaAssumption` (their types).
The properties are not inductive: a refund executed late is harmless only because no
run can have sent it before the shipment was rejected. The invariant `IInv` therefore
adds `MaySend` (which commands may be on their way or late, given what the databases
hold), `Grows` facts about rows that are never taken back, `DbInv` (stored results
against effects) and `FlowInv` (what each `pc` of `run_flow` knows: for instance at
`refund` the shipment is `FAILED`). `Invariance` is the usual induction, with one step
per action; the properties and the refinement `SagaImplementsOutcome` follow from it.

`KafkaInboxProofs` does the same for any number of events, batch size, foreign records
and crashes, from `KafkaAssumption`. The invariant has a part for the batch in
progress (`BatchInv`: the checkpoint ends where the cursor is), one for memory against
the file (`MemoryInv`) and one for the checkpoint against both (`CheckpointInv`: every
record below `nextCommit` has its effect). `InboxImplementsEffects` maps every step to
a step of `InboxEffects` or a stutter. The worker drives the checkpoint in order; what
`Checkpoint.java` promises beyond that, for offsets with gaps and completions in any order,
is `CheckpointFollowsPrefix`: `PrefixInv` says which delivered offsets are still queued and
which completed ones still wait for an earlier one, and both calls keep it.

`PulsarInboxProofs` needs `PulsarAssumption`: a finite number of workers, events of the types
the code gives them, a policy of at least one retry. Part of a frame is only ever the last
thing in the file, and not while a worker is between its look and its append (`TornLast`), so
no repair cuts off a whole frame; a worker about to append has seen that its id is not there
(`AppendInv`), which is what makes `OneEffect` inductive although the map is rebuilt by every
process for itself. `DoneInv` says what a worker has done of what it is about to acknowledge,
and `FaultInv` counts: a message in its n-th round has cost n faults or is rejected each time.

`UringEchoProofs`, from `UringAssumption` (positive numbers of slots, bytes and generations),
has three layers. `OpsInv`: the flags of the slots say which operations are outstanding,
none of them is in two places, and `pending` counts them; that a completion meets the slot and
the generation it was submitted for follows, and is why the model may leave out the `continue`
for stale ones. `ConnInv`: open slots have different peers. `FlowInv`: what a peer got, what a
send still points at, and what was received last make up what it sent, wherever the operation
of its slot stands; `EchoInOrder` and `HalfCloseFlushes` are conjuncts of the invariant.

`EpollEchoProofs`, from `EpollAssumption`, has `SlotInv` and `ConnInv` for the same purpose.
What is special is `QueueInv`: `ready_again` is set exactly for the handles in the ready queue,
each is there once, and the handles left behind by connections that are gone have older
generations, so that no later connection of the slot is taken for one that has yielded. One
lemma (`OutcomeIs`) speaks of everything a service may do with its budget.

`OwnershipProofs` is about three programs. For the queue it counts, from `QueueAssumption`: while
consumers sleep, there are no more items than consumers on their way to the mutex, and each of
these takes one at most before it sleeps again; likewise for producers and room. `NoLostWakeup`
with `CloserInv` and `CallInv` is inductive. `CallsAreAtomic` is the safety part of the refinement
of `ClosableQueue`, one case for every critical section.

For the two Windows programs it starts from the assumptions of both. In
`IocpInv` the one operation is in one place, with the kernel or at the port, until it is
handled, also after a cancellation. In `RioInv` what the server has, what is on the wire and
what the client still has to send add up to the payload; `PayloadWhole` follows, and that a
buffer stays registered while used follows from `outstanding` being told exactly.

`LabProgramsProofs` is about the four programs of `LabPrograms`, from the assumptions of their
modules; nothing is assumed of the program that is not at work. What it needs of graphs is in
`PathGraphProofs`, which knows nothing of planners.

- Planners, with any heuristic that the assumptions call consistent (LPA\*) or a metric below
  the costs (D\* Lite). `Repairable` with the types is inductive: a step that changes a `g` or a
  cost looks up again the nodes whose `rhs` reads it, and what it leaves inconsistent is pushed
  with its present key. A move of the start makes the present keys smaller by at most what `km`
  grows, which is the triangle inequality (`MoveKeepsKeys`).
- What a planner has found when its call returns (`DistanceIsKnown`), for any graph and without
  an induction over routes. `SettledL` and `SettledD` hold whenever the search is idle: the vertex
  it ends at is consistent, and no inconsistent one has a key before its own. Take any `d` that
  solves the equations of Bellman, and of the vertices before the end by key whose `g` is below
  `d` one with the least `g`: the neighbour it owes that value to has a smaller one, is before the
  end as well and therefore consistent, and is right, so this one is (`NotTooLow`). In the same
  way none is too high (`NotTooHigh`). A least element takes the place of the induction; costs
  above zero make it strict. `EdgesKnown` says that every cost is one the instance allows, of
  which the heuristic is assumed to be consistent. Nothing is assumed of how `d` was found.
- The route of a planner that has returned (`RoutesAreShortest`). `Iterated` is a recursive function,
  shown to exist like the one of the meshes below (`IteratedIs`). The rounds of `Distances` settle
  (`RoundsSettle`): a value changes in a round because a smaller one changed in the round before
  (`ChangeHasCause`), so a change after as many rounds as there are nodes would rest on a chain in
  which some node comes twice, with a value above its own, and values only sink. So `Distances`
  solves the equations (`DistancesSolve`) and is the `d` of `DistanceIsKnown`. A route is a path
  along which `g` grows by the cost of each edge (`Climbs`): no node comes twice, so that it has no
  more nodes than the graph (`ClimbIsShort`), and it costs the difference of its ends
  (`ClimbCosts`). What lies in front of the end of the search is consistent, so each value there is
  owed to a neighbour in front (`TightIsInFront`), down to the start (`ClimbExists`). For LPA\*,
  the search of `reconstruct_backtracking_path` finds these paths and no others (`BacktracksAll`,
  `BacktracksUp`). For D\* Lite, the best successor outside what was seen is always such a neighbour
  (`PolicyD`), and the walk, which repeats nothing, has arrived before it runs out of turns
  (`WalkArrives`).
- Scheduler, for any jobs. `ReadyInv`: at every turn the list holds each job that has come and is
  not done, once; so `Wait` waits only for jobs to come, and what `choose` picks, under any
  policy, has come and has work left. The three keys of `choose` are total orders of the jobs, so
  that it picks something (`Lexicographic`, `FirstExists`). `Timeline` says that the segments
  follow each other without gap or overlap, `UnitsGrow` that a turn gives its units to one job, and
  `JobInv` counts them; `MetricsAre` draws the waiting and response times from it.
- What the policies promise (`PromisesAreKept`). For `rr`, `RoundInv` relates each job's place
  in the list to the clock: of `n` jobs the one at place `p` has waited at most `n - p` quanta
  (`LateBy`). A turn of at most one quantum moves everybody up one place (`MovedUp`); behind them
  come those who arrived meanwhile, with less than a quantum of waiting, and last the job that
  ran, with none, all within `n` places (`ListIsShort`). For the others `WholeInv` says that a job
  that started was done in one piece, and `NeverPassed` follows from the order of `choose`: who is
  ahead is of better rank whenever both are in the list (`AheadFirst`). With aging the ranks
  change, but both by the same clock, so a claim once better stays better (`ThirdsAdd`).
- Voxel world, for any size of chunk. A face looks at voxels of its chunk or of the six next to
  it (`FacesLookNear`, a fact about division that rounds down), and next to is symmetric, so the
  chunks `invalidate` marks are all whose mesh may change. `GeometryIsTrue` is about what is read
  from the world. The loop of `greedy_rectangles` is a recursive function, which means nothing
  until it is shown to exist: `MergesExists` builds it for planes of at most `n` cells, one `n`
  after the other, `MergesAgree` says that these functions do not contradict each other, and
  `RectanglesAre` puts them together. Each block lies in what is left and is not empty (`BlockIs`),
  so that a smallest plane that is not covered cannot exist (`RectanglesCover`). For the queries,
  `ScanReaches` shows that the ranges of the loops hold every voxel a box touches;
  `QueriesAreExact` says it of any box and the whole space, `GeometryIsTrue` of the run's own.
- Question deck. `PageInv`: while a page waits it takes no click, and what it shows or fetches
  has left its deck. `RoundRepeatsNothing` is what remains of the README's promise: where no
  restored page was used, no draw repeats a question of the round, which makes the exception of
  finding 5 the only one.

Two proofs found something about a model. `Verdict` of `PulsarInbox` and of `KafkaInbox`, `Mark`
of `KafkaInbox` and `HoldTxn` of `MsaSaga` were CASE expressions with overlapping guards, of
which TLC takes the first and TLA+ any: they are nested IFs now, in the order of the code.
The others came through with their models as they were, but for what a prover cannot read:
the list of `admit` is a CHOOSE over its order instead of a sort by the library, `ready.remove`
drops the least index, the loops over a path are `Iterated` steps instead of folds, and the planes of
a mesh are filled by a recursive function, whose domain had to become the finite sets of cells: of
infinitely many no least cell need exist.

Only model-checked are the liveness properties (`Settles`, `Drains`, `ShutdownEnds`, `Served`,
`Returns`, `ProgramsEnd`, the release of blocked callers in `ImplementsClosableQueue`), which are
beyond the prover, and what is computed by RECURSIVE operators or by the folds of a library:

- `StructuresTrue`, whose definitions are partitions, sums and counts over lists; of its parts the
  checkpoint's is proved, as `CheckpointFollowsPrefix`;
- `AlgorithmsTrue`, with the minimum over all schedules in `LeastTotalReached` and the three
  searches in `SearchesAgree`.

`StaticSearch`, `Sorting`, `StudyStructures` and `StudyTables` have RECURSIVE operators, which keep
a prover out altogether. A type invariant is a property of a run where a theorem states it alone;
elsewhere it is part of the inductive invariant.

## Findings

1. `coordinator.py:94`: with `resume_compensation`, the release is asked for again when
   its status is `UNKNOWN`, also when that only records that the refund was not
   confirmed. The note of the lab promises a release only after a confirmed refund.
   `ReleaseAfterRefund` shows that this branch is the only exception.
2. `uring_echo.c:235`: a `SIGTERM` that arrives after the flag was read and before the
   untimed wait began is noticed only with the next completion.
3. `epoll_echo.c:199`: the ready queue has as many places as there are slots, but also
   holds handles of connections that were closed; a live connection that used up its
   budget may find it full and is closed with its input unread.
4. `voxel_reference.py:56`: `put_chunk` replaces a loaded chunk with the generation the
   caller gives, 0 by default, and invalidates nobody: faces change, the version does not.
5. `paper-turn.ts:131`: a page restored on Back holds its old deck until its reload commits; a
   click in that time repeats a question of the round and saves the old deck.

Noted while modelling, without a run of their own:

- An order whose hold is rejected is reported `CANCELLED` while its row stays `RUNNING`
  (`coordinator.py:70`).
- A record that reuses an id with another payload stops the Kafka worker on every start
  (`InboxStore.java:43`).
- After a failed fetch `finally` clears `busy` while `location.assign` is under way, so a second
  click may pass over the question just drawn (`paper-turn.ts:119`).
- A supplied connection without `maxStreams` passes `validateInput`, which takes the default for
  it, and is never reused, since the default is not stored (`lab.mjs:56`, `lab.mjs:91`). The
  instances supply the field.
- A drain of the IOCP server that takes its last packet at the deadline still ends the process
  as unsafe, with nothing outstanding (`iocp_overlapped_server.cpp:316`).
- The README of `windows-io-lab` says that exceptions do not unwind through the destructors of
  the endpoints once an operation was admitted. A bad status in `dequeue_one`
  (`rio_iocp_loopback.cpp:197`) does exactly that. It is harmless, as `RegisteredWhileUsed` shows:
  each destructor looks at its own flag.

## Not modelled

The auth protocol lab, because its claims are about an adversary. The sender
queue of the IOCP server beyond the one frame its program sends. The second mode of the voxel
queries for unknown cells, the limit on the size of a box, beyond which no answer is given, and the
C++ harness over the Recast library. Scripts that only replay
examples against fixed answers, test clients, admin tools, markup. PROJECT.json gives the
reason for each.

Smaller gaps inside what is modelled:

- `MsaSaga`: `Settles` does not cover an order whose hold is rejected (see the note above), and
  `ReleaseAfterRefund` says nothing once a run has retried its compensation;
  `ReleaseWaitsForRefund` does.
- `PulsarInbox`: an exception during the delay before the acknowledgement is not a step of its own,
  and whether an event is poisonous belongs to what identifies its payload.
- `IocpServer`: a receive that is refused right at the start of the program.
- `QuestionDeck`: a document is kept for Back only when no click handler waits; storage that is
  corrupt, or that fails after the page has begun to use it, does not occur.
- `Balancer`: the instances supply connections with a limit and without active streams, and the
  backends come in the order of their ids.
- `Planners`: there are no parallel edges.

## Plan

Every safety invariant and action property of the runs has its theorem, but for the two that
are computed by RECURSIVE operators or folds. What is left is what the prover cannot do: the optimum of
`srtf`, the sorts, structures and tables, and liveness. Should a later prover take recursive
operators, the first to try are the three searches: `NotTooLow` and `NotTooHigh` say what a
search that stops at its goal knows, whatever its order.
