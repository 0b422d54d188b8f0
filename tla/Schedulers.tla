----------------------------- MODULE Schedulers -----------------------------
(***************************************************************************)
(* The schedulers of graphlab/scheduler, each under the loop with which    *)
(* the fibers of async_consistent_engine take vertices out of it on one    *)
(* machine: look, look again in the critical section of the consensus,     *)
(* sleep until a signal wakes everyone.  AsyncEngine models that loop      *)
(* with everything around it over one of the schedulers, and abstracts     *)
(* its queues to sets; here are the queues.                                *)
(*                                                                         *)
(* Messages are their priorities, which add up in the message array.  All  *)
(* vertices are below num_vertices, and sweep's max_iterations is left at  *)
(* its default, no limit.                                                  *)
(***************************************************************************)
EXTENDS Integers, Sequences, FiniteSets

CONSTANTS
  Kinds,             \* the schedulers to look at
  num_vertices,
  ncpus,
  multi,             \* queues per cpu
  sub_queue_size,    \* queued_fifo: beyond it a queue goes to the master queue
  min_priority,      \* priority: less is not popped
  randomizer,        \* sweep: the order of the vertices
  nfibers,
  Handlers,          \* threads that run rpc_signal()
  Signallable,       \* the vertices that are signalled at all
  MaxSignals         \* bound: signals made

Vertex == 0 .. num_vertices - 1
Cpu == 0 .. ncpus - 1
Fiber == 0 .. nfibers - 1
CpuOf(f) == f % ncpus
Thread == Fiber \cup Handlers
Queue == 0 .. multi * ncpus - 1

\* Every cpu has a fiber: by default there are 10000.
ASSUME ConstantsAssumption ==
  /\ Kinds \subseteq {"fifo", "priority", "queued_fifo", "sweep", "sweep_strict"}
  /\ num_vertices \in Nat \ {0} /\ ncpus \in Nat \ {0} /\ multi \in Nat \ {0}
  /\ sub_queue_size \in Nat /\ min_priority \in Nat /\ MaxSignals \in Nat
  /\ randomizer \in Nat
  /\ {(v * randomizer) % num_vertices : v \in Vertex} = Vertex
  /\ nfibers \in Nat /\ nfibers >= ncpus
  /\ Handlers \cap Fiber = {}
  /\ Signallable \subseteq Vertex

VARIABLES
  kind,                  \* which scheduler it is
  vertex_is_scheduled,   \* the vertices whose bit is set
  queues,                \* queues of fifo and priority, in_queues of queued_fifo
  master_queue, out_queues,    \* queued_fifo
  next_index,            \* sweep: rr_index and cpu2index
  box,                   \* the message array
  thread,                \* what each thread is doing
  signals                \* how much of MaxSignals is used

sched_vars == <<vertex_is_scheduled, queues, master_queue, out_queues, next_index>>
vars == <<kind, sched_vars, box, thread, signals>>

-----------------------------------------------------------------------------
(* v is the vertex a thread was given or schedules, i counts the steps of  *)
(* a loop of get_next(), which starts at first; quitting is set while the  *)
(* fiber holds the mutex of the consensus.                                 *)

State(place, quitting) ==
  [at |-> place, v |-> 0, priority |-> 0, first |-> 0, i |-> 0, quitting |-> quitting]
Idle(t) == State(IF t \in Fiber THEN "next" ELSE "idle", FALSE)

Init ==
  /\ kind \in Kinds
  /\ vertex_is_scheduled = {}
  /\ queues = [q \in Queue |-> <<>>]
  /\ master_queue = <<>>
  /\ out_queues = [c \in Cpu |-> <<>>]
  /\ next_index = [c \in Cpu |-> IF kind = "sweep" THEN c ELSE 0]
  /\ box = [v \in Vertex |-> 0]
  /\ thread = [t \in Thread |-> Idle(t)]
  /\ signals = 0

At(t, place) == thread[t].at = place
Become(t, state) == thread' = [thread EXCEPT ![t] = state]
Goto(t, place) == Become(t, [thread[t] EXCEPT !.at = place])

\* What get_next() returns: a vertex, ...
NewTask(f, v) == Become(f, [State("take", thread[f].quitting) EXCEPT !.v = v])
\* ... or EMPTY, after which the fiber tries to quit or, in the critical section, sleeps.
Empty(f) ==
  Become(f, IF thread[f].quitting THEN State("asleep", FALSE) ELSE State("quit", FALSE))

Remove(s, i) == SubSeq(s, 1, i - 1) \o SubSeq(s, i + 1, Len(s))
Entry(v, priority) == [v |-> v, priority |-> priority]

-----------------------------------------------------------------------------
(* fifo_scheduler and priority_scheduler.                                  *)

\* The positions of a queue that may be popped; of several with the highest
\* priority the heap decides.
Poppable(s) ==
  IF kind = "fifo" THEN DOMAIN s \cap {1}
  ELSE {i \in DOMAIN s : s[i].priority >= min_priority
                         /\ \A j \in DOMAIN s : s[j].priority <= s[i].priority}

QueueScheduler == kind \in {"fifo", "priority"}

\* get_next() begins at one of the cpu's own queues; current_queue only tells which.
BeginVisits(f) ==
  /\ QueueScheduler
  /\ At(f, "next")
  /\ \E offset \in 0 .. multi - 1 :
       Become(f, [State("visit", thread[f].quitting) EXCEPT !.first = CpuOf(f) * multi + offset])
  /\ UNCHANGED <<kind, sched_vars, box, signals>>

\* The loop over all queues, each under its lock.
Visit(f) ==
  LET n == multi * ncpus
      q == (thread[f].first + thread[f].i) % n
  IN
  /\ At(f, "visit")
  /\ \/ /\ Poppable(queues[q]) = {}
        /\ IF thread[f].i = n - 1 THEN Empty(f)
           ELSE Become(f, [thread[f] EXCEPT !.i = @ + 1])
        /\ UNCHANGED <<vertex_is_scheduled, queues>>
     \/ \E i \in Poppable(queues[q]) :
          LET v == queues[q][i].v IN
          /\ queues' = [queues EXCEPT ![q] = Remove(@, i)]
          /\ vertex_is_scheduled' = vertex_is_scheduled \ {v}
          /\ IF v \in vertex_is_scheduled THEN NewTask(f, v) ELSE UNCHANGED thread
  /\ UNCHANGED <<kind, master_queue, out_queues, next_index, box, signals>>

-----------------------------------------------------------------------------
(* queued_fifo_scheduler.  out_queue_locks is held from one end of         *)
(* get_next() to the other.                                                *)

OutLockFree(c) == \A f \in Fiber : CpuOf(f) = c => ~(At(f, "steal") \/ At(f, "pop"))

\* An empty out queue is filled from the master queue, or else by stealing.
TakeOutQueue(f) ==
  LET c == CpuOf(f) IN
  /\ kind = "queued_fifo"
  /\ At(f, "next")
  /\ OutLockFree(c)
  /\ IF out_queues[c] = <<>> /\ master_queue # <<>>
     THEN /\ out_queues' = [out_queues EXCEPT ![c] = Head(master_queue)]
          /\ master_queue' = Tail(master_queue)
     ELSE UNCHANGED <<out_queues, master_queue>>
  /\ Become(f, State(IF out_queues'[c] = <<>> THEN "steal" ELSE "pop", thread[f].quitting))
  /\ UNCHANGED <<kind, vertex_is_scheduled, queues, next_index, box, signals>>

\* One in queue after the other, from the cpu's own on; the first that has
\* something is taken as a whole.
Steal(f) ==
  LET c == CpuOf(f)
      n == multi * ncpus
      q == (thread[f].i + multi * c) % n
  IN
  /\ At(f, "steal")
  /\ IF queues[q] # <<>>
     THEN /\ out_queues' = [out_queues EXCEPT ![c] = queues[q]]
          /\ queues' = [queues EXCEPT ![q] = <<>>]
          /\ Become(f, State("pop", thread[f].quitting))
     ELSE /\ Become(f, IF thread[f].i = n - 1 THEN State("pop", thread[f].quitting)
                       ELSE [thread[f] EXCEPT !.i = @ + 1])
          /\ UNCHANGED <<out_queues, queues>>
  /\ UNCHANGED <<kind, vertex_is_scheduled, master_queue, next_index, box, signals>>

PopOutQueue(f) ==
  LET c == CpuOf(f) IN
  /\ At(f, "pop")
  /\ IF out_queues[c] = <<>>
     THEN Empty(f) /\ UNCHANGED <<out_queues, vertex_is_scheduled>>
     ELSE LET v == Head(out_queues[c]).v IN
          /\ out_queues' = [out_queues EXCEPT ![c] = Tail(@)]
          /\ vertex_is_scheduled' = vertex_is_scheduled \ {v}
          /\ IF v \in vertex_is_scheduled THEN NewTask(f, v) ELSE UNCHANGED thread
  /\ UNCHANGED <<kind, queues, master_queue, next_index, box, signals>>

-----------------------------------------------------------------------------
(* sweep_scheduler.                                                        *)

\* The strict order has one index for all cpus, kept in place of the first's.
IndexOf(c) == IF kind = "sweep_strict" THEN 0 ELSE c

\* get_and_inc_index(): the next vertex of all, or of the cpu's own.
Incremented(i, c) ==
  IF kind = "sweep_strict" THEN (i + 1) % num_vertices
  ELSE IF i + ncpus >= num_vertices THEN c ELSE i + ncpus

\* Mutant: one fruitless index is enough.
MaxFailsNone == 0


max_fails == num_vertices \div ncpus + 1

BeginSweep(f) ==
  /\ kind \in {"sweep", "sweep_strict"}
  /\ At(f, "next")
  /\ Become(f, State("sweep", thread[f].quitting))
  /\ UNCHANGED <<kind, sched_vars, box, signals>>

\* One index.  After max_fails + 1 fruitless ones get_next() gives up, with an index
\* it does not look at.
Sweep(f) ==
  LET c   == CpuOf(f)
      idx == next_index[IndexOf(c)]
      v   == (idx * randomizer) % num_vertices
  IN
  /\ At(f, "sweep")
  /\ next_index' = [next_index EXCEPT ![IndexOf(c)] = Incremented(@, c)]
  /\ IF thread[f].i > max_fails \/ idx >= num_vertices
     THEN Empty(f) /\ UNCHANGED vertex_is_scheduled
     ELSE /\ vertex_is_scheduled' = vertex_is_scheduled \ {v}
          /\ IF v \in vertex_is_scheduled THEN NewTask(f, v)
             ELSE Become(f, [thread[f] EXCEPT !.i = @ + 1])
  /\ UNCHANGED <<kind, queues, master_queue, out_queues, box, signals>>

get_next(f) ==
  \/ BeginVisits(f) \/ Visit(f)
  \/ TakeOutQueue(f) \/ Steal(f) \/ PopOutQueue(f)
  \/ BeginSweep(f) \/ Sweep(f)

-----------------------------------------------------------------------------
(* The engine: get_next_sched_task(), try_to_quit() and the program.       *)

\* message_array::get(): nothing if somebody else has fetched the message.
TakeMessage(f) ==
  /\ At(f, "take")
  /\ box' = [box EXCEPT ![thread[f].v] = 0]
  /\ Become(f, IF box[thread[f].v] = 0 THEN State("next", thread[f].quitting)
               ELSE State("run", FALSE))
  /\ UNCHANGED <<kind, sched_vars, signals>>

RunProgram(f) ==
  /\ At(f, "run")
  /\ Become(f, Idle(f))
  /\ UNCHANGED <<kind, sched_vars, box, signals>>

\* begin_done_critical_section() announces the fiber, and then locks.
MutexFree == \A f \in Fiber : ~thread[f].quitting

\* Mutant: only fibers that already sleep are worth waking.
CriticalAsleep == {f \in Fiber : At(f, "asleep")}

Critical == {f \in Fiber : thread[f].quitting \/ thread[f].at \in {"begin", "asleep", "woken"}}

BeginDone(f) ==
  /\ At(f, "quit")
  /\ Goto(f, "begin")
  /\ UNCHANGED <<kind, sched_vars, box, signals>>

LockDone(f) ==
  /\ At(f, "begin")
  /\ MutexFree
  /\ Become(f, State("next", TRUE))
  /\ UNCHANGED <<kind, sched_vars, box, signals>>

LeaveDone(f) ==
  /\ At(f, "woken")
  /\ MutexFree
  /\ Become(f, Idle(f))
  /\ UNCHANGED <<kind, sched_vars, box, signals>>

-----------------------------------------------------------------------------
(* A signal, of a program or from another machine: add the message,        *)
(* schedule() the vertex, cancel() the consensus.                          *)

\* The priority is that of all messages the vertex has now.
Add(t) ==
  /\ At(t, "idle") \/ At(t, "run")
  /\ signals < MaxSignals
  /\ signals' = signals + 1
  /\ \E v \in Signallable :
       /\ box' = [box EXCEPT ![v] = @ + 1]
       /\ Become(t, [State("schedule", FALSE) EXCEPT !.v = v, !.priority = box[v] + 1])
  /\ UNCHANGED <<kind, sched_vars>>

\* Mutant: a vertex that is scheduled already is pushed again.
ScheduleAgain(t) ==
  LET v == thread[t].v IN
  /\ At(t, "schedule")
  /\ vertex_is_scheduled' = vertex_is_scheduled \cup {v}
  /\ Goto(t, IF kind \in {"sweep", "sweep_strict"} THEN "cancel" ELSE "push")
  /\ UNCHANGED <<kind, queues, master_queue, out_queues, next_index, box, signals>>

\* A vertex whose bit is set is left where it is.
Schedule(t) ==
  LET v == thread[t].v IN
  /\ At(t, "schedule")
  /\ vertex_is_scheduled' = vertex_is_scheduled \cup {v}
  /\ Goto(t, IF v \in vertex_is_scheduled \/ kind \in {"sweep", "sweep_strict"}
             THEN "cancel" ELSE "push")
  /\ UNCHANGED <<kind, queues, master_queue, out_queues, next_index, box, signals>>

\* The queue is drawn at random (the shorter of two, or any).
Push(t) ==
  /\ At(t, "push")
  /\ \E q \in Queue :
       LET longer == Append(queues[q], Entry(thread[t].v, thread[t].priority)) IN
       IF kind = "queued_fifo" /\ Len(longer) > sub_queue_size
       THEN /\ queues' = [queues EXCEPT ![q] = <<>>]
            /\ master_queue' = Append(master_queue, longer)
       ELSE /\ queues' = [queues EXCEPT ![q] = longer]
            /\ UNCHANGED master_queue
  /\ Goto(t, "cancel")
  /\ UNCHANGED <<kind, vertex_is_scheduled, out_queues, next_index, box, signals>>

\* cancel() without the mutex: nobody is in the consensus.
CancelNobody(t) ==
  /\ At(t, "cancel")
  /\ Critical = {}
  /\ Become(t, Idle(t))
  /\ UNCHANGED <<kind, sched_vars, box, signals>>

Cancel(t) ==
  /\ At(t, "cancel")
  /\ Critical # {}
  /\ Goto(t, "wake")
  /\ UNCHANGED <<kind, sched_vars, box, signals>>

Wake(t) ==
  /\ At(t, "wake")
  /\ MutexFree
  /\ thread' = [u \in Thread |-> IF u = t THEN Idle(t)
                                 ELSE IF At(u, "asleep") THEN State("woken", FALSE)
                                 ELSE thread[u]]
  /\ UNCHANGED <<kind, sched_vars, box, signals>>

Signal(t) == Schedule(t) \/ Push(t) \/ CancelNobody(t) \/ Cancel(t) \/ Wake(t)

FiberStep(f) ==
  get_next(f) \/ TakeMessage(f) \/ RunProgram(f) \/ BeginDone(f) \/ LockDone(f) \/ LeaveDone(f)

Next ==
  \/ \E f \in Fiber : FiberStep(f)
  \/ \E t \in Thread : Add(t) \/ Signal(t)

Spec == Init /\ [][Next]_vars

\* Every thread runs on; no program has to signal.
FairSpec ==
  /\ Spec
  /\ \A f \in Fiber : WF_vars(FiberStep(f))
  /\ \A t \in Thread : WF_vars(Signal(t))

-----------------------------------------------------------------------------
(* Properties.                                                             *)

EntrySeq == Seq([v : Vertex, priority : 1 .. MaxSignals])

ThreadState ==
  [at : {"idle", "next", "visit", "steal", "pop", "sweep", "take", "run", "quit", "begin",
         "asleep", "woken", "schedule", "push", "cancel", "wake"},
   v : Vertex, priority : 0 .. MaxSignals, first : Queue,
   i : 0 .. num_vertices + multi * ncpus + 2, quitting : BOOLEAN]

\* Every variable has its type.
TypeOK ==
  /\ kind \in Kinds
  /\ vertex_is_scheduled \subseteq Vertex
  /\ queues \in [Queue -> EntrySeq]
  /\ master_queue \in Seq(EntrySeq)
  /\ out_queues \in [Cpu -> EntrySeq]
  /\ next_index \in [Cpu -> 0 .. num_vertices + ncpus]
  /\ box \in [Vertex -> 0 .. MaxSignals]
  /\ thread \in [Thread -> ThreadState]
  /\ signals \in 0 .. MaxSignals

Positions(v, s) == {i \in DOMAIN s : s[i].v = v}

\* Where v is: the queue and the position in it, or the thread that is about to push it.
Places(v) ==
  (UNION {{<<"queue", q, i>> : i \in Positions(v, queues[q])} : q \in Queue})
  \cup (UNION {{<<"out", c, i>> : i \in Positions(v, out_queues[c])} : c \in Cpu})
  \cup (UNION {{<<"master", j, i>> : i \in Positions(v, master_queue[j])} : j \in DOMAIN master_queue})
  \cup {<<"push", t, 0>> : t \in {u \in Thread : At(u, "push") /\ thread[u].v = v}}

\* Every variable has its type; a vertex is queued once if its bit is set, and not at all
\* otherwise, wherever queues are swapped and stolen (fifo_scheduler.cpp:69,111;
\* queued_fifo_scheduler.cpp:76-90,104-134).
QueuedOnce ==
  /\ TypeOK
  /\ kind \in {"fifo", "priority", "queued_fifo"} =>
       \A v \in Vertex : Cardinality(Places(v)) = IF v \in vertex_is_scheduled THEN 1 ELSE 0

\* When the fibers all sleep and no signal is being made, nothing is scheduled and
\* no message lies in the array: ASSERT_TRUE(scheduler_ptr->empty()),
\* async_consistent_engine.hpp:1283.
IdleMeansEmpty ==
  (\A t \in Thread : At(t, "asleep") \/ At(t, "idle"))
  => vertex_is_scheduled = {} /\ \A v \in Vertex : box[v] = 0

\* A vertex that is signalled is popped and its message taken (ischeduler.hpp:66-68:
\* "if a vertex is scheduled, the vertex will be popped at some point in the future").
EverySignalTaken == \A v \in Signallable : box[v] > 0 ~> box[v] = 0
=============================================================================
