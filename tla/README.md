# A formal model of PowerLyra

This directory holds TLA+ modules for the distributed protocols of PowerLyra /
GraphLab, TLC configurations that check them on small instances, and proofs
for TLAPS.  Paths are relative to the repository's root; the library is in
`src/graphlab`.

## 1. The system

A PowerLyra program runs as `numprocs()` processes connected by TCP.  The
graph is cut along its *vertices*: an edge lives on one machine, a vertex has a
replica wherever one of its edges lives, and one replica is its master.  The
asynchronous engine (`engine/async_consistent_engine.hpp`) runs vertex programs
on fibers.  A vertex program may run only while its vertex holds the locks of
`distributed_chandy_misra`, and the run ends when `async_consensus` finds that
no machine has work and none is on its way.  Everything travels by one-way RPC
calls.  Some carry a *sequentialization key*, but the default build stripes
calls over the handler threads (`dc.cpp:257`) and ignores it: they run in any
order.  PowerLyra's own engine
(`engine/powerlyra_sync_engine.hpp`) is synchronous: all machines go through the
same phases between barriers, on a graph whose *hybrid cut* treats vertices of
high and of low in-degree differently.

```
 vertex program --signal--> message_array + scheduler --get_next--> engine fiber
       ^                                                              |
       |  gather/apply/scatter                make_philosopher_hungry |
       +------------- lock_ready <----- distributed_chandy_misra <----+
                                              |  rpc_*
 engine fiber --begin/end_done_critical_section--> async_consensus
                                              |  receive_the_token, force_done
                     distributed_control: dispatch, handler queues, counters
                                              |
                          buffered streams over TCP

 start(): clear | exchange | receive | reduce | gather | apply | scatter | ...
            each phase: fibers visit vertices --send--> exchange --recv--> replicas
            its end:    flush() = full_barrier(), then barrier() / all_gather()
```

### Components

State, operations and difficulty of each part.  The last column says what
makes the part correct, and where it is treated here.

| Component | State | Operations | What is hard | Correct when |
|---|---|---|---|---|
| asynchronous consensus (`rpc/async_consensus.*`) | per machine: `numactive`, `done`, `trying_to_sleep`, `critical[]`, `sleeping[]`, token, call counters, mutex, one condition per worker | `begin/cancel/end_done_critical_section`, `cancel`, `cancel_one`, `force_done`, `receive_the_token`, `pass_the_token`, `reset` | unlocked tests before the mutex, spurious wakeups, calls overtaking the token | no wakeup is lost, one token, done only when nothing is left, every run ends: **modelled** |
| distributed locks (`engine/distributed_chandy_misra.hpp`) | per replica: state, counter, lock id, forks, spinlock; per edge: owner, dirty bit, requests | hungry, grab forks, ready, eat, cancel, accept, stop | lock backing off inside loops, cancellation racing the ready signal, unordered calls | neighbours exclude each other, the hungry eat, counts stay exact: **modelled** |
| asynchronous engine (`engine/async_consistent_engine.hpp`) | `program_running`, `hasnext`, vertex locks, `force_stop`, `endgame_mode` | `internal_signal`, `rpc_signal`, `eval_sched_task`, `perform_gather/scatter`, `try_to_quit`, `thread_start` | messages arriving at a running vertex, forwarding to the master, time-out on one machine only | every signal reaches one run, a vertex runs on one fiber at a time, replicas agree between runs, no early end: **modelled** for one `start()` |
| PowerLyra synchronous engine (`engine/powerlyra_sync_engine.hpp`) | per replica: data, program, message, accumulator, gather cache and a bit for each; iteration counter, `force_abort` | `exchange_messages`, `receive_messages`, `execute_gathers`, `execute_applys`, `execute_scatters`, their exchanges, `signal`, `signal_vid`, `post_delta`, `clear_gather_cache`, `stop` | which mirrors take part, what a phase leaves behind for the next, machines that decide for themselves | the super-steps are those of the uncut graph, mirrors and caches are current: **modelled** for one `start()` |
| barriers (`rpc/dc_dist_object.hpp`, `rpc/dc_services.hpp`) | sense, child counters and data, calls sent, received and expected | `barrier`, `all_gather`, `full_barrier`, `inc_calls_received` | sense reversal between consecutive barriers, counting without locks, by handlers that may be held up | nobody leaves early; no call of before is outstanding: **modelled** |
| fiber scheduler (`parallel/fiber_control.*`, `util/inplace_lf_queue2.hpp`) | fibers, lock-free queues, idle workers | `launch`, `yield`, `deschedule_self`, `schedule_tid`, `join`, destructor | a fiber woken while it deschedules itself; the idle worker's flag; deleting queues in use | no fiber lost or run twice: **modelled** with full affinity |
| schedulers (`scheduler/*.cpp`) | scheduled bits, queues | `schedule`, `get_next` | bit set before the vertex is queued; EMPTY with work elsewhere | what is scheduled is popped once, and nobody sleeps over it: **modelled**, all four |
| message array (`engine/message_array.hpp`) | message and lock per vertex | `add`, `get`, `peek` | combining under concurrent take | every message is delivered once, combined: in `AsyncEngine` |
| RPC dispatch (`rpc/dc.*`, `rpc/thread_local_send_buffer.*`) | handler queues, call counters per source, thread-local send buffers | split calls, defer blocks, run calls, count | calls run in any order, several at a time; counting after the run | every call runs once, counts are exact: as far as the protocols need it |
| fiber consensus (`rpc/fiber_async_consensus.*`) | as the consensus, fibers for threads | the same | the same, with fiber handles | in `AsyncEngine` as the engine uses it; counters and token as in the consensus |
| buffered exchange (`rpc/fiber_buffered_exchange.hpp`) | buffers per worker and machine | `send`, `recv`, `flush` | records that arrive before and after the flush | nothing is left behind after `flush()`: in `PowerLyraSyncEngine` |
| graph and hybrid ingress (`graph/*`) | vertex records, mirrors, degrees | `finalize`, `set_degree_type` | the engine relies on where edges are | in-edges of a vertex of low degree are with its master: the cut in `PowerLyraSyncEngine` |
| warp engine (`engine/warp_engine.hpp`) | as the asynchronous engine | update functions under the locks | its call to stop is broadcast and nobody waits for it | neighbours exclude each other: its use of the locks, as a client of `DistributedChandyMisra` |
| the other synchronous engines, PowerLyra's asynchronous engine | as the modelled ones | super-steps; or locks, consensus and fibers | the above in other arrangements | not modelled |
| aggregator, hash tables, transport, thread library, ZooKeeper discovery, event log, serialization, toolkits | see `PROJECT.json` | | | not modelled; the reason is in `PROJECT.json` |

## 2. Modules

| Module | What it is |
|---|---|
| `TerminationDetection` | what the consensus promises: a machine is told only when nobody is busy and nothing is on its way |
| `AsyncConsensus` | `async_consensus` with the client loop of its header |
| `AsyncConsensusProofs` | type correctness; exact counter, no lost wakeup, one token, and that what it declares is true |
| `NeighbourExclusion` | what the locks promise: adjacent vertices do not run together |
| `DistributedChandyMisra` | the locks, their RPC calls and three clients |
| `DistributedChandyMisraInvariant`, `DistributedChandyMisraProofs` | the inductive invariant of the locks and what follows from it: neighbours exclude each other, forks are counted, masters wait for all |
| `VertexExecution` | what the asynchronous engine promises a vertex program: every signal reaches exactly one run, a vertex has one run at a time, the end comes when no signal is left |
| `AsyncEngine` | message array, fifo scheduler, fibers and signal calls of the asynchronous engine |
| `AsyncEngineProofs` | what its steps do to threads; that no message is stranded and that replicas agree between runs |
| `CallBarrier` | what `full_barrier()` gives: nobody leaves before all are in and every call issued before has been run, but for the calls a late handler may make it miss |
| `FullBarrier` | tree barrier, `all_gather()`, `full_barrier()` and the counting of calls |
| `FullBarrierProofs` | that it implements `CallBarrier`, on every tree |
| `FiberScheduling` | what the fiber scheduler promises: a fiber runs on at most one worker, sleeps only when it asked to, ends once |
| `FiberControl`, `FiberControlProofs` | the fiber scheduler over its lock-free queues; that no waker meets a fiber half descheduled, no worker sleeps over work, no queue is deleted in use, and the refinement |
| `Schedulers`, `SchedulersProofs` | fifo, queued fifo, priority and sweep scheduler under the engine's loop; that a scheduled vertex is in one place and that the fibers do not all sleep over one |
| `GasPrograms` | vertex programs as the synchronous engine can tell them apart |
| `BulkSynchronous` | what the synchronous engine promises: super-steps on a graph that is not cut |
| `PowerLyraSyncEngine`, `PowerLyraSyncEngineProofs` | the engine on a hybrid cut; that mirrors and caches are current, only masters apply, and the machines together make super-steps |
| `MC...` | constants of the runs |

Each group stands for what is below it by what that promises:
`DistributedChandyMisra` has the engine's use of the locks as its client;
`AsyncEngine` takes the end of the run (`Consensus`) from the promise of
`TerminationDetection`, which `AsyncConsensus` implements, and its scheduler is
the plainest of those in `Schedulers`; the fibers of `FiberControl` wait and are
woken as the engine's fibers are by `lock_ready`; `PowerLyraSyncEngine` takes a
barrier to let its machines go when all have come, which is what `CallBarrier`
says of it and `FullBarrier` implements.

### AsyncConsensus

The variables `numactive` ... `last_calls` are the fields of the class, one
copy per machine; `m` is the holder of the mutex while it is held over several
steps (only the critical section does that); `pc` is the program counter of
every worker and RPC handler; `calls`, `tasks_in_flight`, `token_in_flight` and
`force_in_flight` are the RPC layer; `queue` is the client's task queue.

A step is what a thread does between two points where others can see or change
what it uses.  The body of a function under the mutex is one step
(`EndDone`, `Cancel`, `ReceiveTheToken`, `ForceDone`); the tests of `cancel()`
and `cancel_one()` before the mutex are steps of their own (`CancelTest`,
`CancelOneTest`), and so are the assignments before and after the mutex in
`begin_done_critical_section`, `cancel_critical_section` and
`end_done_critical_section`.  `cond.wait` is the label `wait`; a signal or a
spurious wakeup moves the thread to `woken`, where it has to take the mutex
again.

`calls_sent()` rises when a call is made and `calls_received()` when its handler
has returned (`CallReturns`), as in `dc.cpp`; control calls, which carry the
token and `force_done`, are not counted.  The client takes a task, may create
others here or on another machine while it runs, and follows the loop of
`async_consensus.hpp` when it finds no task.  `Restart` is `reset()` on all the
machines, between the barriers of the engine, followed by another run.

### DistributedChandyMisra

`phil` is `philosopherset`, `fork` is `forkset` (`requests` is the set of the
two request bits), `lock` the spinlocks, `stack` the functions every thread is
in.  The loops over the edges of a vertex (`local_philosopher_grabs_forks`,
`cancellation_accept_unlocked`, `local_philosopher_stops_eating`) are frames
that remember the edges still to visit; the order inside one direction is left
open.  Each edge visited is one step that needs both locks.  Where the code
releases a lock inside a loop, the model does: `Backoff`/`LockOther` for
`try_acquire_edge_with_backoff`, `AskBack`/`RelockLower`/`RelockHigher` for the
cancellation issued from within the loop.  `FinishLoop` is the code after the
loop.  A loop remembers in `ready` whom it has made ready (`retval` in the code);
when its locks are free the thread signals them one after another (`ToTell`,
`Return`), and what it signals may be out of date by then.

`down[r]` and `up[r]` hold the calls between a vertex's master and the mirror
`r`, and `scatter` the engine's `perform_scatter` requests.  An idle handler takes
any of them, and several handlers of a machine are at work at the same time: that is
what block striping does (`dc.cpp:254-261`), whatever the key.

There are three clients.  `"replica"` is the asynchronous engines, where each
machine's scatter ends with `philosopher_stops_eating_per_replica` and the master
waits for all of them.  `"master"` is `warp_engine`, which calls
`philosopher_stops_eating`; that tells the mirrors to stop by calls nobody waits for.
`"threads"` is the repository's test of the locks, which calls it from any thread.

The constants are finite, and every vertex has fewer than 255 mirrors
(`MirrorsAssumption`): `counter` is an unsigned char and starts at the number of
mirrors plus one.  The code takes that for granted and does not check it.

### AsyncEngine

`box` is the message array (a message is a number, combined messages are a set),
`scheduled` and `queue` are the bits and queues of `fifo_scheduler`,
`program_running` and `hasnext` the two bitsets of the engine, `data` the vertex
data of every replica, counted in applications.  `signals`, `scatters` and
`endgames` are the calls on their way.  `thread` says where each fiber and RPC
handler is.

`schedule()` is two steps (bit, queue) between the `add` of the message and the
unlocked test of `cancel()`; `get_next_sched_task` is one step per queue visited,
one for the pop and one for the fetch of the message.  So a signal can fall
anywhere between a fiber's look at the scheduler and its sleep.  `try_to_quit` is
`TimeOut`, `BeginDone`, `LockDone`, a second scan under the mutex, then
`Found`, `FoundTooLate` or `EndDone`.  `get_exclusive_access_to_vertex` is
`SomeoneElseRunning` or `ExclusiveAccess`; `release_exclusive_access_to_vertex`
keeps the vertex lock while it schedules and cancels (`Reschedule`, then the
steps of `schedule()` and `cancel()`, then `Release`).  Init, gather and apply are
one step, because they change nothing that the modelled state shows before the
scatter.  While a program scatters, on the master or on a mirror, it may
signal vertices of its machine.

Cancelling is guarded by who is in the critical section (`Critical`) rather than
by the counters: `numactive` counts the others, as `CounterExact` proves.

### FullBarrier

Each machine has a main thread (`pc`) that issues calls and enters
`full_barrier()`, and RPC threads (`handler`) that run calls and count them in
`inc_calls_received()`, one step for each access to a shared field: the test of
`full_barrier_in_effect`, the increment, the second test, the comparison,
`set_bit()`, the decrease with the signal.  The main thread's pass over the
counters is a step per machine.  `tree_vars` are the two trees (`"ab"` of
`all_gather()`, `"bar"` of `barrier()`); their control calls are a bag, and any
of them may arrive next.  `HeapOrder` is the walk by which `all_gather()` unpacks the
strings; `UnpacksInOrder` compares it with a recursive definition of the order in
which they were packed, on every tree of up to 40 machines with up to 6 children.

A handler may be held up between any two of its steps, and its machine may be in
a later full barrier when it goes on.  `late[p]` is a history variable, without effect on
any step: the sources of which a handler of `p` had counted a call and not yet
finished with it (`CountedLate`) when `p` began its last full barrier.
`CallBarrier` says the same in its own terms: a call is run and later settled
(`Settle`), and who enters before may miss the source of a call not settled
(`missed`).  Without an exception of that kind the code does not keep what `dc.hpp`
promises (`CompletedBeforeReturn`, finding 6).

### FiberControl

`next`, `tail` and `popped` are the lock-free queues with the list a worker has
taken out of them; insertion is `Swap`, `Link` and the look at `waiting` (`CheckWaiting`,
`Signal`), removal follows `dequeue_all` including the cut list between
a swap and its link.  `pc` and `job` are what each thread is doing: a worker looks for
a fiber, runs it, switches away, gives up the mutex of the fiber it left, and
may take an incoming call (`"client"`).  A fiber waits as the engine's fibers do for
`philosopher_ready`: lock, test, deschedule under the lock.  The main thread
launches, joins and deletes.  Affinity masks are full; memory is sequentially consistent.

### Schedulers

`vertex_is_scheduled`, `queues`, `master_queue`, `out_queues` and `next_index` are the
fields of the four schedulers (`kind` picks one at the start), `box` the message
array with priorities for messages.  `get_next()` of fifo and priority visits the
queues of a cpu one step each, queued fifo swaps or steals a whole queue, sweep
looks at one index a step.  `FiberStep` is the engine's loop: look, look again under
the mutex of the consensus, sleep; `Signal` is `rpc_signal()` with `schedule()` and `cancel()`
step by step.

### GasPrograms, BulkSynchronous and PowerLyraSyncEngine

A vertex program is a record of what the engine can observe (`mode`): the edges
it gathers from and scatters along, whether it signals with a message, by vertex
id or not at all, how it keeps caches right, whether it calls `stop()`.  Vertex
data counts applies, a gather is a vector with a component per edge, a message names the
edge it came along: contributions can be neither lost, doubled nor exchanged
without a trace.

The variables per replica have the names of the engine's vectors and bitsets
(`data` stands for the graph's).  `InDegree`, `High`, `Place` and `Master` are the
hybrid cut: an edge is with its target, or with its source if the target is of high
degree.  `phase`, `arrived` and `passed` say where a machine is in `start()`, and
`todo` which replicas its threads have not visited in this phase.  A visit is
one action (`ExchangeMessage`, `ReceiveMessage`, `ExecuteGather`, `ExecuteApply`,
`ExecuteScatter`), so is the receipt of a record (`RecvMessage`, `RecvActiv`,
`RecvAccum`, `RecvUpdate`), and they interleave within a phase; `Arrive` is the
flush and the way to the barrier, the `Start...` actions are what `start()` does
between two phases.  `update_exchange` holds the records of both exchanges of the apply phase.

`internal_signal_rpc` and `rpc_stop` are calls that run whenever they arrive, in
this phase or a later one: neither the exchanges nor `rmi.barrier()` wait for them.
One that arrives during `receive_messages` finds the word of its vertex read already or
not (`SeenLate`).

The mapping to `BulkSynchronous` puts the replicas together: a vertex is
signalled while any of its replicas, a record or a call holds a message for it;
it is active while its master is to gather or apply; the edges it is still to
signal along are those of the replicas still to scatter, or still to be told.
The stage of the uncut system is that of the machine that is furthest.

## 3. Runs

`pass` runs finish without error; `violation` runs show a disagreement between
the code and what a comment or assertion of the repository says (section 6).

| Run | Instance | Shows |
|---|---|---|
| `consensus` | 2 machines, 2 workers, 1 task created in the run, woken by `cancel` or `cancel_one` | types, exact counter, one token, no lost wakeup; implements `TerminationDetection`; every run ends |
| `consensus_ring` | 3 machines, 1 worker, 2 tasks, 2 runs | done only when no work is left, with a machine between the two that have counted calls, and across `reset()` |
| `consensus_fresh` | 2 machines, no call counted before the run | violation: finding 1 |
| `forks_triangle` | 1 machine, 3 mutual neighbours, client threads, 2 rounds | types; forks and their counts agree; the consistency check of the code holds at rest; implements `NeighbourExclusion`; no deadlock |
| `forks_live` | 1 machine, 3 vertices on a path, the engine's client, 2 threads, 2 rounds | without a network cancellations and stops find the state they expect; the hungry eat |
| `forks_cut` | 2 machines with a master and an edge each, the engine's client, one vertex eats twice | the ready have their forks; masters wait for all; only who has been served stops; implements the exclusion |
| `forks_engine` | 2 machines, both masters on one and the edge on the other, 2 handlers, the engine's client, 2 rounds | neighbours never run together |
| `forks_return` | as `forks_cut`, 1 round | every thread comes out of the loops over edges |
| `forks_client` | as `forks_engine`, 1 handler, the warp engine's client | forks counted; masters wait for all, whoever stops late |
| `forks_scatter` | as `forks_cut`, 1 round | violation: finding 2 |
| `forks_late` | as `forks_cut` | violation: finding 3 |
| `forks_warp` | as `forks_client` | violation: finding 4 |
| `forks_rounds` | 1 machine, 1 edge, 3 client threads, 3 rounds | violation: finding 5 |
| `engine` | 1 vertex on 2 machines that signals itself from both, 2 fibers at its master and 1 at the mirror, 1 queue, 3 messages, time-out | types; no message stranded in the array; replicas agree between runs; implements `VertexExecution`; no deadlock |
| `full_barrier` | 3 machines in a chain, 2 handlers, 3 full barriers, calls from the last machine to the first | count of incomplete machines; the gathered counts are those sent; complete before return but for what a late handler hides; nobody sleeps when complete; strings unpacked in order; implements `CallBarrier`; no deadlock |
| `full_barrier_late` | 2 machines, 1 handler, 2 full barriers | violation: finding 6 |
| `fibers` | 2 workers, 1 outside waker, 2 fibers that wait once | types; no worker sleeps over work; no half descheduled fiber is woken; no queue deleted in use; implements `FiberScheduling`; everything ends |
| `schedulers` | each scheduler, sweep in its mode that is not strict, with 5 vertices, 2 cpus, 2 fibers, 3 signals for 2 of the vertices | types and each scheduled vertex in one place; all asleep means nothing scheduled; every signal is taken |
| `sweep_strict` | sweep in strict order, 5 vertices, 2 cpus, 3 fibers, 1 signal | violation: finding 7 |
| `sync_engine` | 3 vertices, one of high degree, 4 edges on 2 machines, 3 iterations, 5 programs | only masters receive and apply; mirrors and caches current where they are read; implements `BulkSynchronous`; no deadlock |
| `sync_calls` | the same graph, 2 programs that signal by vertex id, one of which calls `stop()` | whenever the calls arrive, only masters receive and apply and mirrors are current |
| `sync_by_id` | the same graph, signals by vertex id | violation: finding 8 |
| `sync_stop` | the same graph, a program that calls `stop()` | violation: finding 9 |
| `sync_timeout` | the same graph, a time-out | violation: finding 10 |

**Why these bounds.**  The token algorithm differs for the first, a middle and
the last machine, hence three in `consensus_ring`; two workers are needed for a
machine that is half asleep, two runs for what one leaves to the next.
One or two tasks in a run let a call be on its way before, behind and across
the token.  For the locks, one edge with two rounds exercises requesting,
asking back, refusing and giving away; three mutual neighbours exercise backing
off in both directions and a break in the middle of a loop.  The smallest cut
with an edge on each machine makes both masters wait for a mirror; with both masters on one
machine and the edge on the other all that decides about the fork happens among mirrors,
far from both counters.  A second round of one vertex lets its late calls meet it again, and a
second handler lets two calls to one mirror run at once.  The lock id
has one bit: two rounds can be told apart, three cannot (finding 5).

For the engine, one vertex makes all signals, scheduling and runs collide.  Two
fibers at the master let a second one find the program
running, put its message back, and look again while the first releases; the
fiber at the mirror forwards, or finds the endgame.  Three messages are one
that starts the run, one made while it runs and one for the run that follows.
Fibers of one machine are interchangeable, hence the symmetry; the run has no
liveness property.

A chain of three machines has one that is neither root nor leaf; two full barriers are what
the reversal of sense must keep apart, and a third shows that what a late handler has left
behind does not last; two handlers are needed for one that is late while another counts.  That a
tree with several branches unpacks its strings in order is what `UnpacksInOrder` checks on
trees alone.  Two workers can migrate a fiber and wake each
other's; one wait of each fiber exercises all of descheduling and waking.  Five
vertices and two cpus make the sweep's strides uneven; three signals are more than
the two vertices, so that one is signalled while scheduled, queued, taken or
running.

In the graph of the synchronous engine vertex 1 is of high degree with an in-edge on
each machine, vertices 2 and 3 are of low degree, and 2 and 1 have mirrors.
Two iterations let a message, a cache and a stale bit of one iteration meet
the next, the third what has been cleared in between.  The five programs are: gather in and scatter out
without and with delta caching, the latter also with `sched_allv` and signals
without message; both directions with cleared caches; out and in with a gather
that depends on the message.  In `sync_calls` the first and one with delta caching, out and in,
signal by id instead; the first also calls `stop()`.

`MaxTasks`, `MaxRuns`, `MaxMeals`, `MaxMessages`, `MaxRounds`, `MaxCalls`,
`MaxWaits`, `MaxSignals` bound how much the environment asks for, never what the
protocols do; `max_iterations` is an option of the engine.  `PriorCalls` gives the
calls counted before the run; the passing runs use those of a loaded graph, where the first and the
last machine have counted one, and `consensus_fresh` none.

**Deadlock** is checked in every run but these: the runs of the locks with two machines,
where a mirror that was made to eat too late can leave a vertex waiting for ever (finding 3);
`forks_live`, where such a vertex is to show as a violation of `HungryEats`;
`fibers`, which ends when all fibers have; `schedulers` and `sweep_strict`, where the signals
come to an end and the fibers sleep; `sync_calls`, where machines that learn of `stop()` at
different times wait for each other (finding 9).  Elsewhere a run that has ended is a stuttering
step (`Terminated`), so that a deadlock is a wait that never ends.

**Fairness.**  Liveness is checked in `consensus`, `forks_live`, `forks_return`,
`fibers` and `schedulers`, under weak fairness of every thread's own
steps (the operating system schedules threads, and a lock that is free is
eventually given), and of the RPC handlers (TCP delivers, and a handler takes
what is in its queue).  Creating tasks, becoming hungry, spurious wakeups and restarts
have no fairness.  In `FiberControl` an incoming call is taken by one of the
threads that can (`TakeCall` of the wakers).  In `Schedulers` a thread that has added a message goes on to
schedule the vertex and to cancel (`Signal`); nobody has to add one (`Add`).
`HungryEats` also needs the programs of vertices to end (`StopEating`).  Across machines it does
not hold (finding 3); there `EveryThreadReturns` says that the spinning for two locks ends.
`AsyncEngine`, `FullBarrier` and `PowerLyraSyncEngine` state none; that
nobody waits for ever there is the deadlock check.

**Abstract specifications.**  The properties `Implements...` are refinements:
every step of the detailed system is a step of the abstract specification, or
leaves its variables alone.

## 4. Proofs

The theorems hold for all values of the constants, from the assumptions on
constants that the modules name and TLC evaluates in their runs.

* `TypeCorrect` (`AsyncConsensusProofs`): `Spec => []TypeOK`.
* `CounterExact` (`AsyncConsensusProofs`): `numactive` plus the number of
  sleepers is `ncpus`.  It needs that a worker that goes to sleep is not flagged
  already, which is `AsleepInside`: a flagged worker is inside `cond.wait`, or
  on its way out after `done`.
* `WakeupNotLost` (`AsyncConsensusProofs`): `Spec => []NoLostWakeup`.  The
  property is not inductive.  `SleepInv` adds to it: where the flags `critical[]`
  and the mutex stand for each label (`Labelled`), that `trying_to_sleep` counts
  the workers flagged as critical (`TryingCountsCritical`), and `Wakeup`: if a
  task is queued and every worker is asleep or inside the critical section past
  its second look at the queue, then a handler is about to cancel, and its
  unlocked test cannot fail.  This is the argument for the unlocked tests
  of `cancel()` and `cancel_one()`: a worker announces itself (`trying_to_sleep`,
  `critical[]`) before it looks, a waker adds the task before it tests.
* `TokenIsUnique` (`AsyncConsensusProofs`): `Spec => []OneToken`, across
  restarts.  A restart may begin only when all workers have left, which with
  `OutMeansDone` means that `done` is set everywhere, so that the last token is
  with the machine that declared and no `force_done` is left (`ToldByHolder`,
  `ToldOnce`).
* `ConsensusIsSound` and `ConsensusDetectsTermination` (`AsyncConsensusProofs`):
  `LoadedBefore /\ Spec => []DoneMeansNoWork`, and the same for the refinement of
  `TerminationDetection`, for any number of machines, workers, handlers, tasks and
  runs.  `LoadedBefore` is about the calls that were counted before the run: as many were
  received as sent, and, if there are two machines or more, one other than the last
  had some.  A graph that was loaded on several machines leaves it so, the passing runs use such
  values, and without it the theorem is false (finding 1): the first token names the last machine,
  and only a report of another one in the first round keeps that round from counting.

  The invariant `ConsensusWhole` adds to `SleepInv` and the single token what its numbers mean.
  `Balanced`: the calls sent are those received, those on their way and those
  being run.  `Totals`: the token holds the sums of what each machine has told it.
  `RoundCounts` is the argument of the algorithm, for every place the token may be:
  if its two sums agree and no machine that it has still to visit, up to the
  one that signed it last, has calls it has not told (`Ahead`), then all machines it has
  visited since have nothing to do and nothing more to tell (`Settled`).  A machine that gets
  work again has received a call, and whoever sent it either is ahead with a call to tell or was
  not settled.  When the token is back at the machine that signed it, nobody is ahead: all
  calls have been told, the sums agree, hence by `Balanced` none is
  moving (`EqualMeansStill`).  That the machine which declares has no work itself is
  `WakeupNotLost` (`IdleWhenStill`): all its workers sleep or have looked again, and no handler is
  about to wake them.

* `AssertionHolds` (`FiberControlProofs`): `Spec => []WokenOnlyWhenDescheduled`,
  the assertion of `fiber_control.cpp:500`, for any number of workers, wakers
  and fibers.  The inductive invariant is `Shape /\ AtWork /\ Held`: besides
  types, a thread in a queue knows which (`AtWork`), and the mutex a fiber waits
  under is the waker's between `lock_ready()` and the end of its insertion
  (`WakerHolds`), the fiber's own while it tests (`TesterHolds`) and until it has
  left its worker (`LeaverHolds`).  So a waker and a half descheduled fiber would
  hold the same mutex.
* `NobodySleepsOverWork`, `QueuesOutliveTheirUsers` and `SchedulesFibers`
  (`FiberControlProofs`): `NoWorkerSleepsOverWork` (with `TypeOK`), `NoUseAfterDelete` and
  the refinement of `FiberScheduling`, for any number of workers and wakers and
  any finite set of fibers.  The invariant `FInv` adds to the one above what the mutex says
  nothing of: where the fibers are.

  *Fibers* (`Placed`, `Alive`).  Each fiber is in one place: in one queue, current on
  one worker, left by it and not yet settled, in the hands of one thread
  that inserts or has removed it, or nowhere.  Whoever names a fiber
  (`cur_fiber`, `prev_fiber`, `job`) agrees with its place, so that two cannot name the
  same; only a fiber that is nowhere is unborn, asleep or ended.

  *Lists* (`Lists`).  In the middle of an insertion or a removal a list is in
  pieces, and a fiber may be reached only from a thread's hands.  Two functions
  say what is the case without induction along the list: `ref` is the one thing that leads
  to a fiber (a node's `next`, the queue's `popped` or a thread), `out` the one thing that
  a node leads to or that ends with it (its `next`, the queue's `tail` or a thread
  that will link it).  A step changes `ref` and `out` at one or two nodes.

  *Sleep and end* (`Sleeping`, `Ending`).  If a queue of a sleeping worker has a fiber that
  can be reached, some thread is between its link and its signal to that
  worker: the worker set `waiting` before it looked, the thread looks at `waiting` after
  it linked.  `fibers_active` counts the fibers that have begun and not ended, and
  `stop_workers` is set only at 0.

  For the refinement each action is a step of `FiberScheduling` or stutters.
* `GatherDelivers`, `ReturnsAfterCalls`, `SleepsOnlyForCalls`, `CountIsExact` and
  `FullBarrierIsCallBarrier` (`FullBarrierProofs`): `GatherAgrees`,
  `CompletedUnlessLate`, `WakesWhenComplete`, `IncompleteCounted` (with `TypeOK`) and
  the refinement of `CallBarrier`, for any number of machines, branch factor,
  handlers, rounds and calls, and however long a handler is held up.  The invariant
  `Inductive` has three parts.

  *Trees* (`TreeInv`).  `Entered` and `Freed` count how often a machine has gone
  into a tree barrier and been let out of it.  A control call stands for one
  unit of difference along an edge of the tree (`Edge`): a child is at most one barrier
  ahead of its parent, and is let out once less or as often.  Sense,
  counter and release flag are functions of these counts (`Machine`), which is
  what the reversal of sense has to achieve; no two calls on their way are about
  the same edge (`Unique`).  `OutsideMeans` draws the conclusion across both
  trees: while one machine is between two full barriers, nobody is more
  than that far ahead or behind.

  *Strings* (`Gathered`, `Told`).  A trigger carries the strings of the subtree below its
  sender, a release all of them, each at the place at which the walk will
  look for it, and no string of an earlier round is among them.
  The places need that the walk visits the machines in the order of the
  concatenation, on every tree: `StringsInTreeOrder`, by induction down the
  tree on `Position`, the number of machines above and to the left.

  *Calls* (`CallsConserved`, `MineIsSent`, `Waits`, ...).  A call issued is
  on its way, with a handler, or counted.  On each machine the count of
  incomplete machines is `N` less the bits set plus the handlers that have set
  one and not decreased it, those of an earlier barrier included; a bit means that all calls
  of that machine have been counted, unless the machine is in `late`; and what a handler that is
  not late has read is still good.  A machine that leaves has found the count at zero,
  and with `Told` and the trees the calls of everybody who is not in `late` have been run.
* `TypeCorrect`, `NoMessageStranded` and `ReplicasAgreeBetweenRuns`
  (`AsyncEngineProofs`): `Spec => []TypeOK`, `Spec => []NothingStranded` and
  `Spec => []ReplicasAgree`, for any numbers of machines, replicas, fibers,
  handlers and queues, any graph and any signals.  None is inductive; `IInv` is
  `TypeOK /\ Placed /\ Exclusive /\ Requested /\ Queued /\ Followed`.  `Placed`
  says what a thread may hold where it is: a vertex with a replica on its machine,
  and where it goes on after `internal_signal()`.  `Exclusive`: a vertex is inside one
  fiber, on its master's machine, with `program_running` set.  `Requested`: a
  mirror whose data is behind has one scatter request on its way, or a handler
  at work on it, and the fiber that runs the vertex waits for it; this gives
  `ReplicasAgree`.  `Queued`: the bit of `fifo_scheduler` stands for one place in
  one queue, or for one thread between `schedule_bit` and the push.  `Followed`: a
  message in the array has the bit, a thread that will set it, a fiber that
  popped the vertex and has not looked yet, or a running program with
  `hasnext` that sets it again at release.  With `Queued` it gives
  `NothingStranded`.  The first part of the module proves once what each step does to the
  record of the thread that takes it (`LoopEffects`, `WorkEffects`,
  `ConsensusEffects`); the other proofs see threads through these lemmas only.
* `EveryMessageIsRun` (`AsyncEngineProofs`): the engine implements `VertexExecution`,
  again for all values of the constants.  `PInv` adds five parts to `IInv`.  `Hands`: a fiber
  has a message exactly between `get_next_sched_task()` and the application, so that a
  program never begins without one.  `Runs`: a vertex marked as running is run by a
  fiber.  `OnePlace`: a message is in one array, one hand, one call or with a
  program, and never in two; with it a run takes from what waits exactly what
  its fiber holds, and a new message is one that nobody has.  `Watched`: while a vertex is in
  a queue of a machine, a fiber there will look at that queue before it sleeps, or a
  handler is at `cancel()` and will wake the sleepers.  A fiber that announces
  itself counts as one that will look, which is what makes the unlocked test of
  `cancel()` enough.  `Over`: until the first machine is told nobody has left, and then nothing
  happens but that the others are told.  When the consensus holds, nobody will look and nobody
  will wake, so with `Watched`, `Queued`, `Followed` and `Runs` no array has a
  message (`QuietIsEmpty`): that is the step to `VE!End`.  The application maps to
  `Run`, the release to `Finish`, a dropped task and an ignored call to
  `Lose`, and all other steps but signals and the time-out change nothing the programmer sees.
* `NeighboursNeverEatTogether`, `LocksImplementExclusion`, `ReadyOnesHaveForks` and
  `OnlyTheServedStop` (`DistributedChandyMisraProofs`): `NeighboursExclude`, the refinement of
  `NeighbourExclusion`, `ReadyHaveForks` and `StopsOnlyTheServed`; `MastersWaitForAll`,
  `ForksAreCounted` and `TypeCorrect`: `CounterCovers`, `ForksCounted` and `TypeOK`.  All are for any
  graph, cut, number of machines and threads, and for calls that run in any order and overtake
  each other by any number of rounds.

  The last three are for every client.  The first four are for the asynchronous engines, whose replicas
  stop after their own scatter, and for every client on a single machine (`Reaped`); with the
  warp engine's client neighbours do meet (finding 4).  All have the hypothesis
  `[][NoWrap]_vars`: the counter of a vertex, an unsigned char, does not overflow.  It is
  about behaviours and not about constants, because the lock id has one bit: a cancellation
  that is two rounds late is granted (finding 5), each such one adds a signal the master waits
  for, and nothing bounds how many a master may collect.  On a handful of machines it takes hundreds for one
  vertex; no run of section 3 comes near.

  The argument is a count.  A vertex runs only when its master's counter has reached zero, and
  the counter covers (`Counted`) the replicas that are hungry, the calls that will make one
  hungry, the signals on their way or about to be given, and the cancellations granted and not
  yet carried out.  It does not equal their number: a late `rpc_set_eating` makes a replica eat
  without its forks, the master never hears from it in that round, and the vertex waits for ever.
  Such a replica (`Lost`) is counted with the hungry ones.  So at zero every
  replica is ready or eats and owns the forks of its machine (`HasAll`), which `ForksFine` and
  `AcquiredCounts` tie to the fork set; a fork is given away only by a replica that is neither
  ready nor eating.  `Held` carries that on until the program of the vertex has ended and the replica
  is told to stop.  That nobody stops a replica at another time is a matter of who works for
  whom: which thread ends the program of a vertex, which scatter request or reply belongs to
  it (`Tasks`), and what functions a thread can be in (`Stacks`).
* `MirrorsSynchronized` and `OnlyMastersApply` (`PowerLyraSyncEngineProofs`):
  `Spec => []MirrorsCurrent` and `Spec => []MastersOnly`, for any graph,
  placement, threshold, number of machines and vertex programs, whenever calls arrive,
  with or without time-out and `stop()`.  The invariant is
  `Shape /\ InStep /\ Quiet /\ Masters /\ Carried /\ Copied`: machines are never
  more than one barrier apart, and their phases fit together (`InStep`); an
  exchange holds records only during its own phase (`Quiet`); bits that must be
  those of masters are (`Masters`); a record goes to a mirror and carries what its
  master holds (`Carried`); and a mirror holds its master's data unless a
  record for it is on its way (`Copied`).  `InStep` is the part that needs most care: it
  has to allow that one machine leaves the loop while another stays in it
  (findings 9 and 10), and still exclude that one gathers while another applies.
* `CachesStayExact` (`PowerLyraSyncEngineProofs`): `Spec => []CachesExact`, for
  programs that scatter along every edge along which a neighbour gathers from
  them, if they keep caches at all (`CachingAssumption`: the documentation of
  `use_cache`, `powerlyra_sync_engine.hpp:190-194`, asks for it).  `CachesExact`
  speaks of the head of the loop only, and most is about what happens between
  two visits to it.  `CInv` adds to `InStep` and `Copied` that between apply and
  scatter the data of a vertex is exactly one apply ahead (`OneAhead`), that a
  vertex applies once in a super-step (`AppliedOnce`), and `CachesBehind`: as
  long as a replica has still to scatter what it applied, the caches of its
  neighbours on that machine lack exactly that one step, which its delta adds or
  its clearing makes void.
* `MachinesMakeSuperSteps` (`PowerLyraSyncEngineProofs`):
  `ByVertex /\ AlwaysGathers /\ Spec => ImplementsBulkSynchronous`, for any graph,
  placement, threshold, number of machines, set of programs and start, with caches or
  without, and although machines may part at the end (findings 9 and 10).  `ByVertex`: programs
  signal their neighbours and not by vertex id; those that do lose signals (finding 8).
  `AlwaysGathers`: under `sched_allv` no program decides by its message whether it
  gathers; without it the theorem is false as well (end of section 6).  Programs that call `stop()`
  are included.

  `BInv` adds ten parts to `IInv` and `CInv`.  Who is visited: a replica in `todo` has the
  bit that brought it there (`Due`), and the bits that an iteration starts without are
  clear (`Blank`, `Cleared`).  When: a record reaches its machine in the
  phase in which it was sent, or waits for it at the barrier before (`Delivered`), and
  all machines find the same when they look whether anyone is active
  (`Counted`).  What is gathered: only replicas of active vertices gather, in the direction
  their master decided (`Activated`), and every replica with an edge to gather from
  is told to or does so anyway (`Covered`).  Each edge contributes once: what the master has
  added up along an edge is the value at its other end if the replica there has gathered and its
  record has come, and 0 otherwise (`Summed`); no two records of a replica are on their
  way and nothing is left of an old sum (`Fresh`).  So when the first machine
  goes from gather to apply, every master holds the sum over all edges of the uncut
  graph, and that step is `Gather`.  A step of the main loop is a step between two stages when its
  machine is the furthest, and a stutter otherwise; `ReceiveMessage` is `Receive`, since
  then no replica or record has anything else for the vertex; `ExecuteApply` is
  `Apply`, whose outgoing edges are those of the replicas that are told to scatter;
  `ExecuteScatter` is `Scatter` for the edges of that machine; records only
  move what is already accounted for.

* `TypesKept`, `VerticesQueuedOnce` and `NobodySleepsOverWork` (`SchedulersProofs`):
  `Spec => []TypeOK`, `Spec => []QueuedOnce` and `Reliable /\ Spec => []IdleMeansEmpty`, for
  any number of vertices, cpus, queues, fibers, handlers and signals.  `Reliable` leaves
  out the strict order of sweep, for which the last is false (finding 7), and
  a `min_priority` above 1, the least priority of a signal: below it the priority scheduler keeps
  a vertex, and the fibers sleep over it as they should.

  *Places* (`Base`, `OutLock`, `QueueInv`).  `Kept` says of each vertex that it has at most one
  holder (a queue of the array, of the master queue or of a cpu, or a thread between bit and push), and
  one exactly if its bit is set; `AllOnce` that no queue has it twice.  A step of queued fifo moves
  a whole queue, so that holders change place and none is added: that a fiber stealing for its
  cpu finds that cpu's queue still empty, or it would overwrite it, is the mutex of
  `OutLock`.

  *Sleep* (`WatchInv`).  A message in the array has its vertex's bit, or a thread that will
  set it (`Followed`).  Whatever is in a queue is watched (`QueuesWatched`): by a thread
  that is making a signal, whose `cancel()` will leave all awake; by a fiber that is
  not in the critical section and so will look all over again before it sleeps; or by the
  fiber in it (there is one, `Mutex`) if the queue is among those it has still
  to visit (`Ahead`).  A queue of a cpu is seen by that cpu's fibers only: the fiber that
  filled it pops before it sleeps.  For sweep (`IndicesWatched`) the fiber
  in the critical section has enough draws left to come to the index of each scheduled vertex of
  its residue class: `Distance`, the number of draws until then, goes down by one with each, or the
  fiber has found another vertex and will look again.  When all sleep nobody watches.

Each invariant was checked with TLC on the instances of the runs before it was
proved; `IInv` and `PInv` of the asynchronous engine also with two vertices whose masters are apart, two
handlers and two queues, that of the locks on cuts with one and two edges and
all clients, that of the full barrier on two and three machines with handlers that are late.

Only model-checked: of the locks `ConsistentAtRest`, `CancelsOnlyTheReady` and
`StopsOnlyTheEating` (the last two are false across machines or over three rounds, findings 2 and 5:
they stand for the instances of the runs); `UnpacksInOrder`
(it compares with a recursive definition; `StringsInTreeOrder` proves the same order from the
subtrees); and all liveness, which with `ENABLED` is out of the prover's reach.

## 5. Left out of the models

* Bytes, sockets and buffers: the network is reliable and keeps its connections
  open, as TCP does.  Builds without block striping, where keys do keep an order, have
  fewer behaviours than the model.
* In the locks: `hors_doeuvre_callback` (null in the engine), `clean_fork_count`
  (a statistic), arguments used only by commented-out assertions,
  `make_philosopher_hungry_per_replica` (without a caller) and printing.
* In the asynchronous engine: the strict consistency mode (it is the locks' client),
  `context.stop()` (the same flag as the time-out, set by a call), the gather
  cache and `post_delta`, the aggregator, `signal()` between runs and a second
  `start()`.  A time-out is noticed at most once on each machine.
* In the synchronous engine: signals made in `init()`, the aggregator,
  snapshots, a second `start()`, the pre- and post-gather hooks of a program.  Threads and
  words of a bitset are abstracted to the set `todo`.  `synchronous_engine` and
  `powerlyra_sync_ec_engine` are not modelled.
* In the fiber scheduler: affinity masks, fiber-local storage, the flush timer.
  In the schedulers: `max_iterations` of sweep, vertices added after `start()`.
* Integers: `counter` of the locks has its eight bits; the call counters are `size_t` and are
  not expected to wrap.

**Not modelled** at all: PowerLyra's asynchronous engine and the warp engine's
scheduling (other arrangements of the same locks, consensus and fibers), the single-machine
locks (used by a unit test only), the aggregator (wall-clock periods), hash
tables, transport and start-up service (around an external system), and the
sequential support code and applications, which keep no protocol state.

## 6. Findings

Each is shown by a `violation` run; lines and quotations are in `PROJECT.json`.

1. **Completion is declared on the first pass when nothing was counted**
   (`consensus_fresh`): `pass_the_token` tests the token before adding the
   machine's own calls, and the initial token already names the last machine.  After a
   graph was loaded from several machines this does not happen.
2. **A scatter request overtakes `rpc_set_eating`** (`forks_scatter`): a mirror is told to
   stop eating before it eats; the code prints `FAILED!! Cannot Stop Eating!`.
3. **The call that comes too late makes a mirror eat** (`forks_late`): `set_eating` does not look
   at the state.  The mirror eats for a round that is over, without its forks, or keeps them
   from a neighbour; a vertex may wait for ever.  Exclusion survives
   (`forks_engine`, `NeighboursNeverEatTogether`).
4. **The warp engine's neighbours run together** (`forks_warp`): nobody waits for the calls of
   `philosopher_stops_eating`.  One that is late by a round takes the forks of a mirror whose
   vertex runs again.  The run has both masters on one machine and the edge on the other; the asynchronous
   engine passes on the same instance, because it waits for its scatter.
5. **The lock id has one bit** (`forks_rounds`): a cancellation delayed for two
   rounds is granted to a replica that is not ready, and the master waits for one signal too many.
6. **A late handler completes a later full barrier** (`full_barrier_late`): a thread delayed in
   `inc_calls_received()` before `procs_complete.set_bit()` marks its source complete in
   the next round, which then returns before that source's calls are run.  `CompletedUnlessLate` is what
   is left of the promise.
7. **The strict sweep skips vertices** (`sweep_strict`): `get_next()` draws one index more than it
   looks at each time it gives up; in strict order, the default, all
   cpus share the index, and when `n/ncpus + 3` divides `n` the same vertices are skipped
   by every call.
8. **A signal by vertex id may be lost** (`sync_by_id`): nothing in the synchronous loop waits for
   the calls of `signal_vid()`.  One that arrives between the visit of its vertex in
   `receive_messages` and `has_message.clear()` is dropped; one that
   arrives when the machines have found nobody active is left over at the end.
9. **Machines part at `stop()`** (`sync_stop`): `force_abort` is set by a call on each machine and
   tested at the head of the loop.  A machine that knows goes to the reduction
   after the loop, one that does not to the barrier in it, and both wait for ever.
10. **Machines part at a time-out** (`sync_timeout`) in the same way: every machine tests its own
    clock.

Seen with other constants, and not kept as runs:

* **With `sched_allv` mirrors gather for programs that do not**: masters then send
  no program to their mirrors before the gather phase, so that a mirror asks a fresh
  program for `gather_edges()`, and its contribution is added even when the
  program of the master, which has the message, gathers nothing.  `PowerLyraSyncEngine`
  with a program that is `lazy` and `sched_allv` violates `ImplementsBulkSynchronous`.
* **The priority of a scheduled vertex never rises**: `priority_scheduler` ignores
  a second `schedule()` although the messages add up, so that with
  `min_priority` set a vertex whose sum exceeds it may never be popped.  `Schedulers` counts
  such a vertex as not poppable.

## 7. Plan

In this order:

1. the asynchronous engine after a stop: `context.stop()`, a second `start()` and the signals
   between (`force_stop` is reset late); two vertices and two queues on a machine;
2. `synchronous_engine`, and signals in `init()` and between two runs of the
   synchronous engines;
3. the locks' `ConsistentAtRest` as a theorem; the warp engine's scheduling;
4. PowerLyra's asynchronous engine.
