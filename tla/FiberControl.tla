---------------------------- MODULE FiberControl ----------------------------
(***************************************************************************)
(* The fiber scheduler (parallel/fiber_control.cpp) over its lock-free     *)
(* queues (util/inplace_lf_queue2.hpp).                                    *)
(*                                                                         *)
(* Each worker thread owns two queues, from which only it removes; every   *)
(* thread inserts.  A worker without fibers sleeps on a condition.  A      *)
(* fiber that waits for something deschedules itself while it holds a      *)
(* mutex, which whoever switches away from it gives up; the waker takes    *)
(* the same mutex and calls schedule_tid().  The fibers of this model wait *)
(* as async_consistent_engine does for philosopher_ready, and wakers run   *)
(* its lock_ready(): threads outside the scheduler, and workers that run   *)
(* incoming calls after a switch.  The main thread launches the fibers and *)
(* then runs the destructor.                                               *)
(*                                                                         *)
(* Memory is sequentially consistent: an exchange or a locked increment    *)
(* stands between the accesses whose order matters.                        *)
(***************************************************************************)
EXTENDS Naturals, FiniteSets

CONSTANTS
  Worker, Waker, Main,     \* threads
  Fiber,
  Null,
  MaxWaits                 \* bound: how often each fiber waits

Thread == Worker \cup Waker \cup {Main}
Kind == {"priority", "affinity"}
Queue == Worker \X Kind              \* a queue also stands for its sentinel
Node == Fiber \cup Queue

ASSUME ConstantsAssumption ==
  /\ Worker \cap Waker = {} /\ Main \notin Worker \cup Waker
  /\ Null \notin Node \cup Thread
  /\ Fiber \cap Thread = {} /\ Fiber \cap Queue = {}
  /\ IsFiniteSet(Fiber)
  /\ MaxWaits \in Nat

VARIABLES
  \* inplace_lf_queue2, and the lists taken out of it
  next, tail, popped,
  \* workers
  waiting, cur_fiber, prev_fiber, stop_workers, deleted,
  \* fibers
  descheduled, scheduleable, terminate, priority, fibers_active,
  \* the user's side
  step, waits,       \* where each fiber is, and how often it has waited
  mutex,             \* who holds the mutex each fiber waits under
  ready, asked,      \* philosopher_ready, and the wake-ups still to be made
  \* threads
  pc, job            \* label, and the insertion or removal at work

queue_vars  == <<next, tail, popped>>
worker_vars == <<waiting, cur_fiber, prev_fiber>>
fiber_vars  == <<descheduled, scheduleable, terminate, priority>>
user_vars   == <<step, waits, mutex, ready, asked>>
end_vars    == <<stop_workers, deleted, fibers_active>>
vars == <<queue_vars, worker_vars, fiber_vars, user_vars, end_vars, pc, job>>

-----------------------------------------------------------------------------
NoJob == [fiber |-> Null, queue |-> Null, pred |-> Null]

Init ==
  /\ next = [n \in Node |-> Null]
  /\ tail = [q \in Queue |-> q]
  /\ popped = [q \in Queue |-> Null]
  /\ waiting = [w \in Worker |-> FALSE]
  /\ cur_fiber = [w \in Worker |-> Null]
  /\ prev_fiber = [w \in Worker |-> Null]
  /\ stop_workers = FALSE
  /\ deleted = {}
  /\ descheduled = [f \in Fiber |-> FALSE]
  /\ scheduleable = [f \in Fiber |-> TRUE]
  /\ terminate = [f \in Fiber |-> FALSE]
  /\ priority = [f \in Fiber |-> FALSE]
  /\ fibers_active = 0
  /\ step = [f \in Fiber |-> "unborn"]
  /\ waits = [f \in Fiber |-> 0]
  /\ mutex = [f \in Fiber |-> Null]
  /\ ready = [f \in Fiber |-> FALSE]
  /\ asked = {}
  /\ pc = [t \in Thread |-> CASE t \in Worker -> "begin" [] t \in Waker -> "idle"
                              [] t = Main -> "launch"]
  /\ job = [t \in Thread |-> NoJob]

Goto(t, label) == pc' = [pc EXCEPT ![t] = label]

\* A worker's base stack, from which it sleeps, holds active_lock while it looks
\* for a fiber; a fiber that yields looks without it.
Looking(w) == pc[w] \in {"look", "link_sentinel", "take", "found"}
InBase(w) == cur_fiber[w] = Null
ActiveLockFree(w) == ~(InBase(w) /\ Looking(w))

-----------------------------------------------------------------------------
(* Inserting: active_queue_insert_head() and _tail() over enqueue().       *)

Inserting(t) == pc[t] \in {"swap", "link", "check", "signal"}

\* Where t goes on once the fiber is in.
AfterInsert(t) ==
  CASE t = Main -> "launch"
    [] t \in Worker /\ prev_fiber[t] # Null -> "settled"
    [] OTHER -> "unlock"

\* Exchange the tail.  Until Link the list is cut before the fiber.
Swap(t) ==
  LET f == job[t].fiber
      q == job[t].queue
  IN
  /\ pc[t] = "swap"
  /\ next' = [next EXCEPT ![f] = Null]
  /\ tail' = [tail EXCEPT ![q] = f]
  /\ job' = [job EXCEPT ![t].pred = tail[q]]
  /\ Goto(t, "link")
  /\ UNCHANGED <<popped, worker_vars, fiber_vars, user_vars, end_vars>>

Link(t) ==
  /\ pc[t] = "link"
  /\ next' = [next EXCEPT ![job[t].pred] = job[t].fiber]
  /\ Goto(t, "check")
  /\ UNCHANGED <<tail, popped, worker_vars, fiber_vars, user_vars, end_vars, job>>

\* The insertion is over: the fiber's own worker has nothing left of it.
Inserted(t, woken) ==
  /\ pc' = [u \in Thread |-> IF u = t THEN AfterInsert(t)
                             ELSE IF u \in woken THEN "lock" ELSE pc[u]]
  /\ prev_fiber' = IF t \in Worker THEN [prev_fiber EXCEPT ![t] = Null] ELSE prev_fiber
  /\ job' = [job EXCEPT ![t] = IF AfterInsert(t) = "unlock"
                               THEN [NoJob EXCEPT !.fiber = job[t].fiber] ELSE NoJob]

\* The waiting flag is read without the worker's lock.
CheckWaiting(t) ==
  /\ pc[t] = "check"
  /\ IF waiting[job[t].queue[1]]
     THEN Goto(t, "signal") /\ UNCHANGED <<prev_fiber, job>>
     ELSE Inserted(t, {})
  /\ UNCHANGED <<queue_vars, waiting, cur_fiber, fiber_vars, user_vars, end_vars>>

Signal(t) ==
  LET w == job[t].queue[1] IN
  /\ pc[t] = "signal"
  /\ ActiveLockFree(w)
  /\ Inserted(t, {u \in {w} : pc[u] = "asleep"})
  /\ UNCHANGED <<queue_vars, waiting, cur_fiber, fiber_vars, user_vars, end_vars>>

Insert(t) == Swap(t) \/ Link(t) \/ CheckWaiting(t) \/ Signal(t)

-----------------------------------------------------------------------------
(* Removing: active_queue_remove() over try_pop_queue() and dequeue_all(). *)

StartLooking(w) ==
  /\ Goto(w, "look")
  /\ job' = [job EXCEPT ![w] = [NoJob EXCEPT !.queue = <<w, "priority">>]]

\* What was taken out before comes first.
LookPopped(w) ==
  LET q == job[w].queue IN
  /\ pc[w] = "look"
  /\ popped[q] # Null
  /\ job' = [job EXCEPT ![w].fiber = popped[q]]
  /\ Goto(w, "take")
  /\ UNCHANGED <<queue_vars, worker_vars, fiber_vars, user_vars, end_vars>>

\* Nothing hangs on the sentinel: the other queue, or nothing to run.
LookEmpty(w) ==
  LET q == job[w].queue IN
  /\ pc[w] = "look"
  /\ popped[q] = Null /\ next[q] = Null
  /\ IF q[2] = "priority"
     THEN job' = [job EXCEPT ![w].queue = <<w, "affinity">>] /\ UNCHANGED pc
     ELSE job' = [job EXCEPT ![w] = NoJob] /\ Goto(w, IF InBase(w) THEN "asleep" ELSE "found")
  /\ UNCHANGED <<queue_vars, worker_vars, fiber_vars, user_vars, end_vars>>

\* Take everything: the sentinel is enqueued behind it.
DequeueAll(w) ==
  LET q == job[w].queue IN
  /\ pc[w] = "look"
  /\ popped[q] = Null /\ next[q] # Null
  /\ job' = [job EXCEPT ![w].fiber = next[q], ![w].pred = tail[q]]
  /\ next' = [next EXCEPT ![q] = Null]
  /\ tail' = [tail EXCEPT ![q] = q]
  /\ Goto(w, "link_sentinel")
  /\ UNCHANGED <<popped, worker_vars, fiber_vars, user_vars, end_vars>>

LinkSentinel(w) ==
  LET q == job[w].queue IN
  /\ pc[w] = "link_sentinel"
  /\ next' = [next EXCEPT ![job[w].pred] = q]
  /\ popped' = [popped EXCEPT ![q] = job[w].fiber]
  /\ Goto(w, "take")
  /\ UNCHANGED <<tail, worker_vars, fiber_vars, user_vars, end_vars, job>>

\* Spin until the fiber's successor is linked, then take the fiber off the list.
Take(w) ==
  LET q == job[w].queue
      f == job[w].fiber
  IN
  /\ pc[w] = "take"
  /\ next[f] # Null
  /\ popped' = [popped EXCEPT ![q] = IF next[f] = q THEN Null ELSE next[f]]
  /\ Goto(w, "found")
  /\ UNCHANGED <<next, tail, worker_vars, fiber_vars, user_vars, end_vars, job>>

Remove(w) == LookPopped(w) \/ LookEmpty(w) \/ DequeueAll(w) \/ LinkSentinel(w) \/ Take(w)

-----------------------------------------------------------------------------
(* The worker: worker_init(), yield_to() and reschedule_fiber().           *)

\* Done with the switch and with the fiber switched away from.
Settled(w) == pc[w] = "settled" \/ (pc[w] = "switched" /\ prev_fiber[w] = Null)

\* Mutant: waiting is not set again when a fiber has switched back.
BeginOnce(w) ==
  /\ pc[w] = "begin" \/ (Settled(w) /\ InBase(w))
  /\ waiting' = [waiting EXCEPT ![w] = pc[w] = "begin"]
  /\ Goto(w, "lock")
  /\ UNCHANGED <<queue_vars, cur_fiber, prev_fiber, fiber_vars, user_vars, end_vars, job>>

\* At the start, and each time a fiber has switched back to the base stack.
Begin(w) ==
  /\ pc[w] = "begin" \/ (Settled(w) /\ InBase(w))
  /\ waiting' = [waiting EXCEPT ![w] = TRUE]
  /\ Goto(w, "lock")
  /\ UNCHANGED <<queue_vars, cur_fiber, prev_fiber, fiber_vars, user_vars, end_vars, job>>

\* With active_lock, at first or back from the wait.
Loop(w) ==
  /\ pc[w] = "lock"
  /\ IF stop_workers THEN Goto(w, "exited") /\ UNCHANGED job ELSE StartLooking(w)
  /\ UNCHANGED <<queue_vars, worker_vars, fiber_vars, user_vars, end_vars>>

\* yield_to() a fiber, from the base stack or from another fiber.
SwitchToFiber(w) ==
  LET f == job[w].fiber IN
  /\ pc[w] = "found"
  /\ f # Null
  /\ waiting' = [waiting EXCEPT ![w] = FALSE]
  /\ priority' = [priority EXCEPT ![f] = FALSE]
  /\ prev_fiber' = [prev_fiber EXCEPT ![w] = cur_fiber[w]]
  /\ cur_fiber' = [cur_fiber EXCEPT ![w] = f]
  /\ job' = [job EXCEPT ![w] = NoJob]
  /\ Goto(w, "switched")
  /\ UNCHANGED <<queue_vars, descheduled, scheduleable, terminate, user_vars, end_vars>>

\* yield_to() with no other fiber: back to the base stack, or go on.
SwitchToBase(w) ==
  LET f == cur_fiber[w] IN
  /\ pc[w] = "found"
  /\ job[w].fiber = Null
  /\ IF terminate[f] \/ descheduled[f]
     THEN /\ prev_fiber' = [prev_fiber EXCEPT ![w] = f]
          /\ cur_fiber' = [cur_fiber EXCEPT ![w] = Null]
          /\ Goto(w, "switched")
     ELSE Goto(w, "client") /\ UNCHANGED <<prev_fiber, cur_fiber>>
  /\ UNCHANGED <<queue_vars, waiting, fiber_vars, user_vars, end_vars, job>>

\* The insertion of f into a queue of w by t, if f may be scheduled at all.
StartInsert(t, w, f) ==
  IF scheduleable[f]
  THEN /\ Goto(t, "swap")
       /\ job' = [job EXCEPT ![t] = [fiber |-> f, pred |-> Null,
                    queue |-> <<w, IF priority[f] THEN "priority" ELSE "affinity">>]]
       /\ UNCHANGED prev_fiber
  ELSE Inserted(t, {})

\* reschedule_fiber() by thread t on worker w: reinsert f, ...
Reinsert(t, w, f) ==
  /\ ~terminate[f] /\ ~descheduled[f]
  /\ StartInsert(t, w, f)
  /\ UNCHANGED <<descheduled, scheduleable, step, mutex, fibers_active>>

\* Mutant: the mutex stays locked.
DescheduleLocked(t, f) ==
  /\ descheduled[f]
  /\ descheduled' = [descheduled EXCEPT ![f] = FALSE]
  /\ scheduleable' = [scheduleable EXCEPT ![f] = FALSE]
  /\ Inserted(t, {})
  /\ UNCHANGED <<step, mutex, fibers_active>>

\* ... or put it to sleep and give up its mutex, ...
Deschedule(t, f) ==
  /\ descheduled[f]
  /\ descheduled' = [descheduled EXCEPT ![f] = FALSE]
  /\ scheduleable' = [scheduleable EXCEPT ![f] = FALSE]
  /\ mutex' = [mutex EXCEPT ![f] = Null]
  /\ Inserted(t, {})
  /\ UNCHANGED <<step, fibers_active>>

\* ... or delete it, and tell join() when it was the last.
Destroy(t, f) ==
  /\ terminate[f] /\ ~descheduled[f]
  /\ step' = [step EXCEPT ![f] = "dead"]
  /\ fibers_active' = fibers_active - 1
  /\ prev_fiber' = [prev_fiber EXCEPT ![t] = Null]
  /\ Goto(t, IF fibers_active = 1 THEN "signal_join" ELSE "settled")
  /\ UNCHANGED <<descheduled, scheduleable, mutex, job>>

reschedule_fiber(t, w, f) ==
  /\ Reinsert(t, w, f) \/ Deschedule(t, f) \/ Destroy(t, f)
  /\ UNCHANGED <<queue_vars, waiting, cur_fiber, terminate, priority,
                 waits, ready, asked, stop_workers, deleted>>

\* The first thing after a switch: the fiber switched away from.
Bookkeep(w) ==
  /\ pc[w] = "switched"
  /\ prev_fiber[w] # Null
  /\ reschedule_fiber(w, w, prev_fiber[w])

SignalJoin(w) ==
  /\ pc[w] = "signal_join"
  /\ pc' = [pc EXCEPT ![w] = "settled", ![Main] = IF @ = "joining" THEN "join" ELSE @]
  /\ UNCHANGED <<queue_vars, worker_vars, fiber_vars, user_vars, end_vars, job>>

\* On with the fiber.
Resume(w) ==
  /\ Settled(w) /\ ~InBase(w)
  /\ Goto(w, "client")
  /\ UNCHANGED <<queue_vars, worker_vars, fiber_vars, user_vars, end_vars, job>>

-----------------------------------------------------------------------------
(* A fiber, as async_consistent_engine runs it.                            *)

\* make_philosopher_hungry(), from which a call to lock_ready() comes back.
Ask(w) ==
  LET f == cur_fiber[w] IN
  /\ pc[w] = "client" /\ step[f] \in {"start", "run"}
  /\ waits[f] < MaxWaits
  /\ ready' = [ready EXCEPT ![f] = FALSE]
  /\ asked' = asked \cup {f}
  /\ waits' = [waits EXCEPT ![f] = @ + 1]
  /\ step' = [step EXCEPT ![f] = "lock"]
  /\ UNCHANGED <<queue_vars, worker_vars, fiber_vars, mutex, end_vars, pc, job>>

LockMutex(w) ==
  LET f == cur_fiber[w] IN
  /\ pc[w] = "client" /\ step[f] = "lock"
  /\ mutex[f] = Null
  /\ mutex' = [mutex EXCEPT ![f] = f]
  /\ step' = [step EXCEPT ![f] = "test"]
  /\ UNCHANGED <<queue_vars, worker_vars, fiber_vars, waits, ready, asked, end_vars, pc, job>>

\* Still not ready: deschedule_self(), and lock again when it comes back.
deschedule_self(w) ==
  LET f == cur_fiber[w] IN
  /\ pc[w] = "client" /\ step[f] = "test"
  /\ ~ready[f]
  /\ descheduled' = [descheduled EXCEPT ![f] = TRUE]
  /\ step' = [step EXCEPT ![f] = "lock"]
  /\ StartLooking(w)
  /\ UNCHANGED <<queue_vars, worker_vars, scheduleable, terminate, priority,
                 waits, mutex, ready, asked, end_vars>>

\* Ready: the fiber does its work and yields.
Proceed(w) ==
  LET f == cur_fiber[w] IN
  /\ pc[w] = "client" /\ step[f] = "test"
  /\ ready[f]
  /\ mutex' = [mutex EXCEPT ![f] = Null]
  /\ step' = [step EXCEPT ![f] = "run"]
  /\ StartLooking(w)
  /\ UNCHANGED <<queue_vars, worker_vars, fiber_vars, waits, ready, asked, end_vars>>

exit(w) ==
  LET f == cur_fiber[w] IN
  /\ pc[w] = "client" /\ step[f] \in {"start", "run"}
  /\ waits[f] = MaxWaits
  /\ terminate' = [terminate EXCEPT ![f] = TRUE]
  /\ StartLooking(w)
  /\ UNCHANGED <<queue_vars, worker_vars, descheduled, scheduleable, priority, user_vars, end_vars>>

Client(w) == Ask(w) \/ LockMutex(w) \/ deschedule_self(w) \/ Proceed(w) \/ exit(w)

-----------------------------------------------------------------------------
(* Waking a fiber: lock_ready() and schedule_tid().                        *)

\* A worker runs incoming calls after a switch, unless it has just jumped into
\* the trampoline of a new fiber.
MayTakeCalls(t) ==
  \/ pc[t] = "idle"
  \/ /\ t \in Worker /\ Settled(t)
     /\ cur_fiber[t] \notin {f \in Fiber : step[f] = "start"}

TakeCall(t) ==
  /\ MayTakeCalls(t)
  /\ \E f \in asked :
       /\ asked' = asked \ {f}
       /\ job' = [job EXCEPT ![t].fiber = f]
  /\ Goto(t, "lock_ready")
  /\ UNCHANGED <<queue_vars, worker_vars, fiber_vars, step, waits, mutex, ready, end_vars>>

\* Mutant: the waker does not take the mutex.
LockReadyUnlocked(t) ==
  LET f == job[t].fiber IN
  /\ pc[t] = "lock_ready"
  /\ ready' = [ready EXCEPT ![f] = TRUE]
  /\ Goto(t, "schedule_tid")
  /\ UNCHANGED <<queue_vars, worker_vars, fiber_vars, step, waits, mutex, asked, end_vars, job>>


LockReady(t) ==
  LET f == job[t].fiber IN
  /\ pc[t] = "lock_ready"
  /\ mutex[f] = Null
  /\ mutex' = [mutex EXCEPT ![f] = t]
  /\ ready' = [ready EXCEPT ![f] = TRUE]
  /\ Goto(t, "schedule_tid")
  /\ UNCHANGED <<queue_vars, worker_vars, fiber_vars, step, waits, asked, end_vars, job>>

\* Mutant: a fiber that never slept is scheduled too.
ScheduleTidAlways(t) ==
  LET f == job[t].fiber IN
  /\ pc[t] = "schedule_tid"
  /\ descheduled' = [descheduled EXCEPT ![f] = FALSE]
  /\ scheduleable' = [scheduleable EXCEPT ![f] = TRUE]
  /\ priority' = [priority EXCEPT ![f] = TRUE]
  /\ Goto(t, "pick")
  /\ UNCHANGED <<queue_vars, worker_vars, terminate, user_vars, end_vars, job>>

\* The section under the fiber's own spinlock; one that runs is left alone.
schedule_tid(t) ==
  LET f == job[t].fiber IN
  /\ pc[t] = "schedule_tid"
  /\ descheduled' = [descheduled EXCEPT ![f] = FALSE]
  /\ IF scheduleable[f]
     THEN Goto(t, "unlock") /\ UNCHANGED <<scheduleable, priority>>
     ELSE /\ scheduleable' = [scheduleable EXCEPT ![f] = TRUE]
          /\ priority' = [priority EXCEPT ![f] = TRUE]
          /\ Goto(t, "pick")
  /\ UNCHANGED <<queue_vars, worker_vars, terminate, user_vars, end_vars, job>>

\* pick_fiber_worker(): a worker keeps the fiber, another thread takes any.
PickableWorkers(t) == IF t \in Worker THEN {t} ELSE Worker

PickWorker(t) ==
  /\ pc[t] = "pick"
  /\ \E w \in PickableWorkers(t) : reschedule_fiber(t, w, job[t].fiber)

Unlock(t) ==
  /\ pc[t] = "unlock"
  /\ mutex' = [mutex EXCEPT ![job[t].fiber] = Null]
  /\ job' = [job EXCEPT ![t] = NoJob]
  /\ Goto(t, IF t \in Worker THEN "settled" ELSE "idle")
  /\ UNCHANGED <<queue_vars, worker_vars, fiber_vars, step, waits, ready, asked, end_vars>>

Wake(t) == LockReady(t) \/ schedule_tid(t) \/ PickWorker(t) \/ Unlock(t)

-----------------------------------------------------------------------------
(* The main thread: launch(), join() and the destructor.                   *)

launch ==
  /\ pc[Main] = "launch"
  /\ \E f \in Fiber, w \in Worker :
       /\ step[f] = "unborn"
       /\ step' = [step EXCEPT ![f] = "start"]
       /\ StartInsert(Main, w, f)
  /\ fibers_active' = fibers_active + 1
  /\ UNCHANGED <<queue_vars, waiting, cur_fiber, fiber_vars, waits, mutex, ready, asked,
                 stop_workers, deleted>>

join ==
  /\ \/ pc[Main] = "launch" /\ \A f \in Fiber : step[f] # "unborn"
     \/ pc[Main] = "join"
  /\ IF fibers_active > 0
     THEN Goto(Main, "joining") /\ UNCHANGED stop_workers
     ELSE Goto(Main, "delete") /\ stop_workers' = TRUE
  /\ UNCHANGED <<queue_vars, worker_vars, fiber_vars, user_vars, deleted, fibers_active, job>>

\* Mutant: the worker's lock is not taken.
DeleteUnlocked ==
  /\ pc[Main] = "delete"
  /\ \E w \in Worker \ deleted :
       /\ deleted' = deleted \cup {w}
       /\ pc' = [pc EXCEPT ![w] = IF @ = "asleep" THEN "lock" ELSE @]
  /\ UNCHANGED <<queue_vars, worker_vars, fiber_vars, user_vars, stop_workers, fibers_active, job>>

\* Wake one worker and delete its queues, before the worker has left.
Delete ==
  /\ pc[Main] = "delete"
  /\ \E w \in Worker \ deleted :
       /\ ActiveLockFree(w)
       /\ deleted' = deleted \cup {w}
       /\ pc' = [pc EXCEPT ![w] = IF @ = "asleep" THEN "lock" ELSE @]
  /\ UNCHANGED <<queue_vars, worker_vars, fiber_vars, user_vars, stop_workers, fibers_active, job>>

JoinWorkers ==
  /\ pc[Main] = "delete" /\ deleted = Worker
  /\ \A w \in Worker : pc[w] = "exited"
  /\ Goto(Main, "done")
  /\ UNCHANGED <<queue_vars, worker_vars, fiber_vars, user_vars, end_vars, job>>

-----------------------------------------------------------------------------
WorkerStep(w) ==
  \/ Begin(w) \/ Loop(w) \/ Remove(w)
  \/ SwitchToFiber(w) \/ SwitchToBase(w) \/ Bookkeep(w) \/ SignalJoin(w) \/ Resume(w)
  \/ Client(w)
MainStep == launch \/ join \/ Delete \/ JoinWorkers

Next ==
  \/ \E t \in Thread : Insert(t)
  \/ \E t \in Worker \cup Waker : TakeCall(t) \/ Wake(t)
  \/ \E w \in Worker : WorkerStep(w)
  \/ MainStep

Spec == Init /\ [][Next]_vars

\* Every thread runs on, and an incoming call is taken by one that can take it.
Fairness ==
  /\ \A t \in Thread : WF_vars(Insert(t))
  /\ \A t \in Worker \cup Waker : WF_vars(Wake(t))
  /\ \A t \in Waker : WF_vars(TakeCall(t))
  /\ \A w \in Worker : WF_vars(WorkerStep(w))
  /\ WF_vars(MainStep)

FairSpec == Spec /\ Fairness

-----------------------------------------------------------------------------
(* Properties.                                                             *)

\* Every variable has its type.
TypeOK ==
  /\ next \in [Node -> Node \cup {Null}]
  /\ tail \in [Queue -> Node]
  /\ popped \in [Queue -> Fiber \cup {Null}]
  /\ waiting \in [Worker -> BOOLEAN]
  /\ cur_fiber \in [Worker -> Fiber \cup {Null}]
  /\ prev_fiber \in [Worker -> Fiber \cup {Null}]
  /\ stop_workers \in BOOLEAN
  /\ deleted \subseteq Worker
  /\ descheduled \in [Fiber -> BOOLEAN]
  /\ scheduleable \in [Fiber -> BOOLEAN]
  /\ terminate \in [Fiber -> BOOLEAN]
  /\ priority \in [Fiber -> BOOLEAN]
  /\ fibers_active \in 0 .. Cardinality(Fiber)
  /\ step \in [Fiber -> {"unborn", "start", "run", "lock", "test", "dead"}]
  /\ waits \in [Fiber -> 0 .. MaxWaits]
  /\ mutex \in [Fiber -> Fiber \cup Thread \cup {Null}]
  /\ ready \in [Fiber -> BOOLEAN]
  /\ asked \subseteq Fiber
  /\ pc \in [Thread -> {"idle", "launch", "join", "joining", "delete", "done",
                        "begin", "lock", "look", "link_sentinel", "take", "found", "asleep",
                        "exited", "switched", "signal_join", "settled", "client",
                        "swap", "link", "check", "signal",
                        "lock_ready", "schedule_tid", "pick", "unlock"}]
  /\ job \in [Thread -> [fiber : Fiber \cup {Null}, queue : Queue \cup {Null},
                         pred : Node \cup {Null}]]

\* Every variable has its type, and no worker sleeps over a fiber in one of its
\* queues (fiber_control.cpp:216-236 against 116-141): whoever linked it is still
\* on its way to signal the worker.
NoWorkerSleepsOverWork ==
  /\ TypeOK
  /\ \A w \in Worker, k \in Kind :
       pc[w] = "asleep" /\ (popped[<<w, k>>] # Null \/ next[<<w, k>>] # Null)
       => \E t \in Thread : pc[t] \in {"check", "signal"} /\ job[t].queue[1] = w

\* schedule_tid() never meets a fiber between deschedule_self() and the switch
\* away from it: assert(fib->descheduled == false), fiber_control.cpp:500.
WokenOnlyWhenDescheduled ==
  \A f \in Fiber, t \in Thread :
    pc[t] \in {"schedule_tid", "pick"} /\ job[t].fiber = f => ~descheduled[f]

\* The destructor deletes a worker's queues (fiber_control.cpp:77-82) when no
\* thread is in them any more, although the workers have not been joined.
NoUseAfterDelete ==
  \A w \in deleted :
    /\ ~Looking(w)
    /\ \A t \in Thread : ~(Inserting(t) /\ job[t].queue[1] = w)

\* What FiberScheduling sees of a fiber.
on == [f \in Fiber |-> {w \in Worker : f \in {cur_fiber[w], prev_fiber[w]}}]
status ==
  [f \in Fiber |-> CASE step[f] \in {"unborn", "dead"} -> step[f]
                     [] OTHER -> IF on[f] # {} THEN "running"
                                 ELSE IF scheduleable[f] THEN "runnable" ELSE "asleep"]

Promise == INSTANCE FiberScheduling

\* A fiber runs on at most one worker at a time, is woken only after it has left
\* its worker, and ends once (what fiber_control.hpp:38-73 says of its flags).
ImplementsFiberScheduling == Promise!Spec

\* Every launched fiber runs to its end, every worker leaves its loop and the
\* destructor returns: no wake-up is lost and nobody waits for a mutex for ever.
EverythingEnds == <>(pc[Main] = "done")
=============================================================================
