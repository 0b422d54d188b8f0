---------------------------- MODULE AsyncEngine ----------------------------
(***************************************************************************)
(* graphlab::async_consistent_engine (engine/async_consistent_engine.hpp): *)
(* how a message signalled to a vertex finds its run of the vertex         *)
(* program, through the message array, the scheduler's bits and queues,    *)
(* and the fibers of the machines.  Consistency is "factorized", the       *)
(* default: DistributedChandyMisra models the other one.                   *)
(*                                                                         *)
(* A vertex has replicas on several machines, its program runs on the      *)
(* master's.  A signal made on a machine goes into the local message array *)
(* and scheduler, and a fiber there forwards it; in "endgame" it goes to   *)
(* the master at once.  A fiber that finds nothing to do enters the        *)
(* consensus (fiber_async_consensus), looks again, and sleeps.             *)
(*                                                                         *)
(* The token that finds the end of the run is modelled in AsyncConsensus.  *)
(* Here the run may end once all fibers sleep and no call is on its way;   *)
(* the counters of the consensus are left out, since numactive counts the  *)
(* fibers awake and trying_to_sleep those inside the critical section.     *)
(***************************************************************************)
EXTENDS Integers, Sequences, FiniteSets

CONSTANTS
  Machine, Vertex,
  Owner,            \* the machine of each vertex's master
  ReplicasOf,       \* the machines that hold a replica of each vertex
  Targets,          \* the vertices that the program of each vertex may signal
  FibersOf,         \* the engine fibers of each machine
  Handlers,         \* threads of each machine that run incoming RPC calls
  Queue,            \* the queues of a machine's fifo scheduler
  Start,            \* the vertices signalled before start(), as a sequence
  TimedTermination, \* whether the time of the engine may run out
  MaxMessages       \* bound: messages signalled, the ones in Start included

Replica == {r \in Machine \X Vertex : r[1] \in ReplicasOf[r[2]]}
Master(v) == <<Owner[v], v>>
Mirrors(v) == {r \in Replica : r[2] = v /\ r # Master(v)}
Mirror == UNION {Mirrors(v) : v \in Vertex}
Message == 1 .. MaxMessages

Fiber == UNION {{k} \X FibersOf[k] : k \in Machine}
Handler == Machine \X Handlers
Thread == Fiber \cup Handler

Nobody == -1        \* instead of a vertex

ASSUME ConstantsAssumption ==
  /\ Nobody \notin Vertex
  /\ Owner \in [Vertex -> Machine]
  /\ ReplicasOf \in [Vertex -> SUBSET Machine]
  /\ \A v \in Vertex : Owner[v] \in ReplicasOf[v]
  /\ Targets \in [Vertex -> SUBSET Vertex]
  /\ \A k \in Machine : FibersOf[k] # {} /\ FibersOf[k] \cap Handlers = {}
  /\ Queue # {}
  /\ MaxMessages \in Nat
  /\ Start \in Seq(Vertex) /\ Len(Start) <= MaxMessages
  /\ TimedTermination \in BOOLEAN

VARIABLES
  box,              \* messages: the message array of every machine
  scheduled,        \* vertex_is_scheduled of the scheduler
  queue,            \* queues of the scheduler
  program_running, hasnext,
  data,             \* the vertex data of each replica: how often it was applied
  force_stop, endgame_mode,
  done,             \* the consensus has told the machine
  thread,           \* what each fiber and handler is doing
  signals,          \* rpc_signal calls on their way
  scatters,         \* perform_scatter requests on their way
  awaited,          \* mirrors whose scatter a fiber waits for
  endgames,         \* machines that set_endgame_mode calls are on their way to
  executed,         \* the messages that programs were given
  created           \* how much of MaxMessages is used

sched_vars == <<scheduled, queue>>
vertex_vars == <<program_running, hasnext, data>>
mode_vars == <<force_stop, endgame_mode, done, endgames>>
rpc_vars == <<signals, scatters, awaited>>
count_vars == <<executed, created>>
vars == <<box, sched_vars, vertex_vars, mode_vars, thread, rpc_vars, count_vars>>

-----------------------------------------------------------------------------
(* A thread is at some place of the code.  v is the vertex it was given,   *)
(* msg the message; to is the vertex it signals or reschedules, and back   *)
(* the place where it goes on afterwards; left are the queues that         *)
(* get_next() has not visited; quitting is set in the critical section.    *)

Looking(quitting) ==
  [at |-> "scan", v |-> Nobody, msg |-> {}, to |-> Nobody, back |-> "scan",
   left |-> Queue, quitting |-> quitting]
Resting == [Looking(FALSE) EXCEPT !.at = "idle", !.left = {}]

SignalledAtStart(r) ==
  IF r = Master(r[2]) THEN {m \in DOMAIN Start : Start[m] = r[2]} ELSE {}

\* start() has been called on every machine after signal_all() or signal_vset().
Init ==
  /\ box = [r \in Replica |-> SignalledAtStart(r)]
  /\ scheduled = [r \in Replica |-> SignalledAtStart(r) # {}]
  /\ \E q \in [Replica -> Queue] :
       queue = [k \in Machine |-> [i \in Queue |->
                  {r[2] : r \in {s \in Replica : s[1] = k /\ q[s] = i /\ scheduled[s]}}]]
  /\ program_running = [v \in Vertex |-> FALSE]
  /\ hasnext = [v \in Vertex |-> FALSE]
  /\ data = [r \in Replica |-> 0]
  /\ force_stop = [k \in Machine |-> FALSE]
  /\ endgame_mode = [k \in Machine |-> FALSE]
  /\ done = [k \in Machine |-> FALSE]
  /\ thread = [t \in Thread |-> IF t \in Fiber THEN Looking(FALSE) ELSE Resting]
  /\ signals = {}
  /\ scatters = {}
  /\ awaited = {}
  /\ endgames = {}
  /\ executed = {}
  /\ created = Len(Start)

At(t, place) == thread[t].at = place
Here(t) == <<t[1], thread[t].v>>
There(t) == <<t[1], thread[t].to>>
Become(t, state) == thread' = [thread EXCEPT ![t] = state]
Goto(t, place) == Become(t, [thread[t] EXCEPT !.at = place])

\* The consensus mutex is held while a fiber looks again, and decides.
MutexFree(k) == \A f \in Fiber : f[1] = k => ~thread[f].quitting
\* The fibers between begin_done_critical_section() and their return.
Critical(k) ==
  {f \in Fiber : f[1] = k /\ (thread[f].quitting \/
                              thread[f].at \in {"begin", "asleep", "woken"})}
Asleep(k) == {f \in Fiber : f[1] = k /\ At(f, "asleep")}

\* release_exclusive_access_to_vertex() keeps the vertex lock to its end.
VertexFree(v) == \A f \in Fiber : thread[f].v = v => thread[f].back # "unlock"

-----------------------------------------------------------------------------
(* get_next_sched_task(): fifo_scheduler::get_next() visits the queues one *)
(* after the other, and the message is fetched in a step of its own.       *)

\* After the last queue get_next() returns EMPTY: to the main loop, which tries to
\* quit, or in the critical section, which the fiber now ends.
ScanQueue(t) ==
  \E q \in thread[t].left :
    LET others == thread[t].left \ {q} IN
    /\ At(t, "scan")
    /\ queue[t[1]][q] = {}
    /\ Become(t, [thread[t] EXCEPT !.left = others,
                   !.at = IF others # {} THEN "scan"
                          ELSE IF thread[t].quitting THEN "end" ELSE "quit"])
    /\ UNCHANGED <<box, sched_vars, vertex_vars, mode_vars, rpc_vars, count_vars>>

PopQueue(t) ==
  \E q \in thread[t].left : \E v \in queue[t[1]][q] :
    /\ At(t, "scan")
    /\ queue' = [queue EXCEPT ![t[1]][q] = @ \ {v}]
    /\ scheduled' = [scheduled EXCEPT ![<<t[1], v>>] = FALSE]
    /\ IF scheduled[<<t[1], v>>]
       THEN Become(t, [thread[t] EXCEPT !.at = "take", !.v = v, !.left = {}])
       ELSE UNCHANGED thread
    /\ UNCHANGED <<box, vertex_vars, mode_vars, rpc_vars, count_vars>>

TakeMessage(t) ==
  /\ At(t, "take")
  /\ box[Here(t)] # {}
  /\ Become(t, [thread[t] EXCEPT !.at = IF thread[t].quitting THEN "found" ELSE "eval",
                                 !.msg = box[Here(t)]])
  /\ box' = [box EXCEPT ![Here(t)] = {}]
  /\ UNCHANGED <<sched_vars, vertex_vars, mode_vars, rpc_vars, count_vars>>

TakeNothing(t) ==
  /\ At(t, "take")
  /\ box[Here(t)] = {}
  /\ Become(t, Looking(thread[t].quitting))
  /\ UNCHANGED <<box, sched_vars, vertex_vars, mode_vars, rpc_vars, count_vars>>

-----------------------------------------------------------------------------
(* try_to_quit().                                                          *)

TimeOut(t) ==
  /\ At(t, "quit")
  /\ TimedTermination
  /\ ~force_stop[t[1]]
  /\ force_stop' = [force_stop EXCEPT ![t[1]] = TRUE]
  /\ UNCHANGED <<box, sched_vars, vertex_vars, endgame_mode, done, endgames, thread,
                 rpc_vars, count_vars>>

\* The fiber announces itself before it has the mutex.
BeginDone(t) ==
  /\ At(t, "quit")
  /\ Goto(t, "begin")
  /\ UNCHANGED <<box, sched_vars, vertex_vars, mode_vars, rpc_vars, count_vars>>

LockDone(t) ==
  /\ At(t, "begin")
  /\ MutexFree(t[1])
  /\ Become(t, Looking(TRUE))
  /\ UNCHANGED <<box, sched_vars, vertex_vars, mode_vars, rpc_vars, count_vars>>

\* A task after all: cancel_critical_section(), and the main loop runs it.
Found(t) ==
  /\ At(t, "found")
  /\ ~force_stop[t[1]]
  /\ Become(t, [thread[t] EXCEPT !.at = "eval", !.quitting = FALSE])
  /\ UNCHANGED <<box, sched_vars, vertex_vars, mode_vars, rpc_vars, count_vars>>

\* On a machine that has been stopped the task is dropped.
FoundTooLate(t) ==
  /\ At(t, "found")
  /\ force_stop[t[1]]
  /\ Become(t, [Looking(TRUE) EXCEPT !.at = "end", !.left = {}])
  /\ UNCHANGED <<box, sched_vars, vertex_vars, mode_vars, rpc_vars, count_vars>>

\* Everybody is put in endgame; calls that would change nothing are left out.
EndDone(t) ==
  /\ At(t, "end")
  /\ endgame_mode' = [endgame_mode EXCEPT ![t[1]] = TRUE]
  /\ endgames' = endgames \cup {k \in Machine : ~endgame_mode'[k]}
  /\ Become(t, [Looking(FALSE) EXCEPT !.at = IF done[t[1]] THEN "exit" ELSE "asleep",
                                      !.left = {}])
  /\ UNCHANGED <<box, sched_vars, vertex_vars, force_stop, done, rpc_vars, count_vars>>

\* A fiber that has been woken takes the mutex again and returns done.
LeaveDone(t) ==
  /\ At(t, "woken")
  /\ MutexFree(t[1])
  /\ IF done[t[1]] THEN Goto(t, "exit") ELSE Become(t, Looking(FALSE))
  /\ UNCHANGED <<box, sched_vars, vertex_vars, mode_vars, rpc_vars, count_vars>>

-----------------------------------------------------------------------------
(* eval_sched_task(), on a fiber.                                          *)

Forward(t) ==
  /\ At(t, "eval")
  /\ Owner[thread[t].v] # t[1]
  /\ signals' = signals \cup {[v |-> thread[t].v, msg |-> thread[t].msg]}
  /\ Become(t, Looking(FALSE))
  /\ UNCHANGED <<box, sched_vars, vertex_vars, mode_vars, scatters, awaited, count_vars>>

\* Mutant: the message is left to the running program without a word.
SomeoneElseRunningSilent(t) ==
  /\ At(t, "eval") /\ Owner[thread[t].v] = t[1] /\ VertexFree(thread[t].v)
  /\ program_running[thread[t].v]
  /\ box' = [box EXCEPT ![Here(t)] = @ \cup thread[t].msg]
  /\ Become(t, Looking(FALSE))
  /\ UNCHANGED <<sched_vars, vertex_vars, mode_vars, rpc_vars, count_vars>>

\* get_exclusive_access_to_vertex() fails: the message goes back in the array.
SomeoneElseRunning(t) ==
  /\ At(t, "eval") /\ Owner[thread[t].v] = t[1] /\ VertexFree(thread[t].v)
  /\ program_running[thread[t].v]
  /\ box' = [box EXCEPT ![Here(t)] = @ \cup thread[t].msg]
  /\ hasnext' = [hasnext EXCEPT ![thread[t].v] = TRUE]
  /\ Become(t, Looking(FALSE))
  /\ UNCHANGED <<sched_vars, program_running, data, mode_vars, rpc_vars, count_vars>>

ExclusiveAccess(t) ==
  /\ At(t, "eval") /\ Owner[thread[t].v] = t[1] /\ VertexFree(thread[t].v)
  /\ ~program_running[thread[t].v]
  /\ program_running' = [program_running EXCEPT ![thread[t].v] = TRUE]
  /\ Goto(t, "apply")
  /\ UNCHANGED <<box, sched_vars, hasnext, data, mode_vars, rpc_vars, count_vars>>

\* Mutant: the master, too, is sent a request.
ScatterRequestsAll(v) == {[to |-> r, data |-> data[Master(v)] + 1] :
                            r \in {s \in Replica : s[2] = v}}

\* The requests that carry the new vertex data to the mirrors.
ScatterRequests(v) == {[to |-> r, data |-> data[Master(v)] + 1] : r \in Mirrors(v)}

\* init, gather and apply; then the mirrors are asked to scatter.
Apply(t) ==
  LET v == thread[t].v IN
  /\ At(t, "apply")
  /\ executed' = executed \cup thread[t].msg
  /\ data' = [data EXCEPT ![Master(v)] = @ + 1]
  /\ scatters' = scatters \cup ScatterRequests(v)
  /\ awaited' = awaited \cup {c.to : c \in ScatterRequests(v)}
  /\ Become(t, [thread[t] EXCEPT !.at = "scatter", !.msg = {}])
  /\ UNCHANGED <<box, sched_vars, program_running, hasnext, mode_vars, signals, created>>

\* Mutant: "should I wait for the scatter? nah".
ScatteredEverywhereNah(t) == t \in Fiber /\ At(t, "scatter")

\* The program has scattered here, and the futures of the requests are there.
ScatteredEverywhere(t) ==
  /\ t \in Fiber
  /\ At(t, "scatter")
  /\ awaited \cap Mirrors(thread[t].v) = {}

\* release_exclusive_access_to_vertex(): someone left a message, and the vertex is
\* scheduled again under its lock ...
Reschedule(t) ==
  /\ ScatteredEverywhere(t)
  /\ hasnext[thread[t].v]
  /\ Become(t, [thread[t] EXCEPT !.at = "schedule", !.to = thread[t].v, !.back = "unlock"])
  /\ UNCHANGED <<box, sched_vars, vertex_vars, mode_vars, rpc_vars, count_vars>>

\* ... or nobody has; at the end the vertex is free.
Release(t) ==
  /\ At(t, "unlock") \/ (ScatteredEverywhere(t) /\ ~hasnext[thread[t].v])
  /\ hasnext' = [hasnext EXCEPT ![thread[t].v] = FALSE]
  /\ program_running' = [program_running EXCEPT ![thread[t].v] = FALSE]
  /\ Become(t, Looking(FALSE))
  /\ UNCHANGED <<box, sched_vars, data, mode_vars, rpc_vars, count_vars>>

-----------------------------------------------------------------------------
(* internal_signal(): add, schedule, cancel.                               *)

\* A program that scatters signals a vertex with a replica on this machine.
Signal(t) ==
  \E u \in Vertex :
    /\ At(t, "scatter")
    /\ u \in Targets[thread[t].v]
    /\ t[1] \in ReplicasOf[u]
    /\ ~force_stop[t[1]]
    /\ created < MaxMessages
    /\ created' = created + 1
    /\ \/ /\ endgame_mode[t[1]] /\ Owner[u] # t[1]
          /\ signals' = signals \cup {[v |-> u, msg |-> {created'}]}
          /\ UNCHANGED <<box, thread>>
       \/ /\ ~endgame_mode[t[1]] \/ Owner[u] = t[1]
          /\ box' = [box EXCEPT ![<<t[1], u>>] = @ \cup {created'}]
          /\ Become(t, [thread[t] EXCEPT !.at = "schedule", !.to = u, !.back = "scatter"])
          /\ UNCHANGED signals
    /\ UNCHANGED <<sched_vars, vertex_vars, mode_vars, scatters, awaited, executed>>

Schedule(t) ==
  /\ At(t, "schedule")
  /\ Goto(t, IF scheduled[There(t)] THEN "cancel" ELSE "push")
  /\ scheduled' = [scheduled EXCEPT ![There(t)] = TRUE]
  /\ UNCHANGED <<box, queue, vertex_vars, mode_vars, rpc_vars, count_vars>>

Push(t) ==
  /\ At(t, "push")
  /\ \E q \in Queue : queue' = [queue EXCEPT ![t[1]][q] = @ \cup {thread[t].to}]
  /\ Goto(t, "cancel")
  /\ UNCHANGED <<box, scheduled, vertex_vars, mode_vars, rpc_vars, count_vars>>

Return(t) == IF thread[t].back = "idle" THEN Resting
             ELSE [thread[t] EXCEPT !.at = thread[t].back, !.to = Nobody]

\* Mutant: only fibers that already sleep are worth waking.
CancelTestAsleep(t) ==
  /\ At(t, "cancel")
  /\ Become(t, IF Asleep(t[1]) # {} THEN [thread[t] EXCEPT !.at = "wake"] ELSE Return(t))
  /\ UNCHANGED <<box, sched_vars, vertex_vars, mode_vars, rpc_vars, count_vars>>

\* The test of cancel() without the mutex.
CancelTest(t) ==
  /\ At(t, "cancel")
  /\ Become(t, IF Critical(t[1]) # {} THEN [thread[t] EXCEPT !.at = "wake"] ELSE Return(t))
  /\ UNCHANGED <<box, sched_vars, vertex_vars, mode_vars, rpc_vars, count_vars>>

Wake(t) ==
  /\ At(t, "wake")
  /\ MutexFree(t[1])
  /\ thread' = [u \in Thread |->
                  IF u = t THEN Return(t)
                  ELSE IF u \in Asleep(t[1]) THEN [thread[u] EXCEPT !.at = "woken"]
                  ELSE thread[u]]
  /\ UNCHANGED <<box, sched_vars, vertex_vars, mode_vars, rpc_vars, count_vars>>

\* A replica of the program has nothing more to signal, and replies.
Scattered(h) ==
  /\ h \in Handler
  /\ At(h, "scatter")
  /\ Become(h, Resting)
  /\ awaited' = awaited \ {Here(h)}
  /\ UNCHANGED <<box, sched_vars, vertex_vars, mode_vars, signals, scatters, count_vars>>

-----------------------------------------------------------------------------
(* RPC handlers.                                                           *)

\* rpc_signal(): a machine that has been stopped ignores it.
ReceiveSignal(h) ==
  \E c \in signals :
    /\ At(h, "idle")
    /\ h[1] = Owner[c.v]
    /\ signals' = signals \ {c}
    /\ IF force_stop[h[1]]
       THEN UNCHANGED <<box, thread>>
       ELSE /\ box' = [box EXCEPT ![Master(c.v)] = @ \cup c.msg]
            /\ Become(h, [Resting EXCEPT !.at = "schedule", !.to = c.v, !.back = "idle"])
    /\ UNCHANGED <<sched_vars, vertex_vars, mode_vars, scatters, awaited, count_vars>>

\* perform_scatter() on a mirror.
PerformScatter(h) ==
  \E c \in scatters :
    /\ At(h, "idle")
    /\ h[1] = c.to[1]
    /\ scatters' = scatters \ {c}
    /\ data' = [data EXCEPT ![c.to] = c.data]
    /\ Become(h, [Resting EXCEPT !.at = "scatter", !.v = c.to[2]])
    /\ UNCHANGED <<box, sched_vars, program_running, hasnext, mode_vars, signals, awaited,
                   count_vars>>

\* set_endgame_mode().
ReceiveEndgame(h) ==
  /\ At(h, "idle")
  /\ h[1] \in endgames
  /\ endgames' = endgames \ {h[1]}
  /\ endgame_mode' = [endgame_mode EXCEPT ![h[1]] = TRUE]
  /\ UNCHANGED <<box, sched_vars, vertex_vars, force_stop, done, thread, rpc_vars,
                 count_vars>>

\* All fibers sleep and no call is on its way, on machines not told already.
Quiet ==
  /\ signals = {} /\ scatters = {} /\ endgames = {}
  /\ \A h \in Handler : At(h, "idle")
  /\ \A k \in Machine : done[k] \/ \A f \in Fiber : f[1] = k => At(f, "asleep")

\* The token has come round, or force_done() has arrived: the fibers wake up.
Consensus(k) ==
  /\ Quiet
  /\ ~done[k]
  /\ done' = [done EXCEPT ![k] = TRUE]
  /\ thread' = [t \in Thread |-> IF t \in Asleep(k) THEN [thread[t] EXCEPT !.at = "woken"]
                                 ELSE thread[t]]
  /\ UNCHANGED <<box, sched_vars, vertex_vars, force_stop, endgame_mode, endgames, rpc_vars,
                 count_vars>>

Terminated ==
  /\ \A f \in Fiber : At(f, "exit")
  /\ UNCHANGED vars

-----------------------------------------------------------------------------
FiberStep(t) ==
  \/ ScanQueue(t) \/ PopQueue(t) \/ TakeMessage(t) \/ TakeNothing(t)
  \/ BeginDone(t) \/ LockDone(t) \/ Found(t) \/ FoundTooLate(t)
  \/ EndDone(t) \/ LeaveDone(t)
  \/ Forward(t) \/ SomeoneElseRunning(t) \/ ExclusiveAccess(t) \/ Apply(t)
  \/ Reschedule(t) \/ Release(t)

SignalStep(t) ==
  Signal(t) \/ Schedule(t) \/ Push(t) \/ CancelTest(t) \/ Wake(t)

HandlerStep(h) ==
  ReceiveSignal(h) \/ PerformScatter(h) \/ Scattered(h) \/ ReceiveEndgame(h)

Next ==
  \/ \E f \in Fiber : FiberStep(f) \/ TimeOut(f)
  \/ \E t \in Thread : SignalStep(t)
  \/ \E h \in Handler : HandlerStep(h)
  \/ \E k \in Machine : Consensus(k)
  \/ Terminated

Spec == Init /\ [][Next]_vars

-----------------------------------------------------------------------------
Places == {"scan", "take", "eval", "quit", "begin", "found", "end", "asleep",
           "woken", "exit", "apply", "scatter", "schedule", "push",
           "cancel", "wake", "unlock", "idle"}

TypeOK ==
  /\ box \in [Replica -> SUBSET Message]
  /\ scheduled \in [Replica -> BOOLEAN]
  /\ queue \in [Machine -> [Queue -> SUBSET Vertex]]
  /\ program_running \in [Vertex -> BOOLEAN]
  /\ hasnext \in [Vertex -> BOOLEAN]
  /\ data \in [Replica -> Nat]
  /\ force_stop \in [Machine -> BOOLEAN]
  /\ endgame_mode \in [Machine -> BOOLEAN]
  /\ done \in [Machine -> BOOLEAN]
  /\ thread \in [Thread -> [at : Places, v : Vertex \cup {Nobody}, msg : SUBSET Message,
                            to : Vertex \cup {Nobody}, back : {"scan", "scatter", "unlock", "idle"},
                            left : SUBSET Queue, quitting : BOOLEAN]]
  /\ signals \subseteq [v : Vertex, msg : SUBSET Message]
  /\ scatters \subseteq [to : Mirror, data : Nat]
  /\ awaited \subseteq Mirror
  /\ endgames \subseteq Machine
  /\ executed \subseteq Message
  /\ created \in 0 .. MaxMessages

-----------------------------------------------------------------------------
(* Properties.                                                             *)

\* A scheduled vertex is in one queue of its machine, or a thread that set the bit
\* is about to put it there: get_next() can neither miss it nor return it twice.
QueuedOnce(r) ==
  Cardinality({q \in Queue : r[2] \in queue[r[1]][q]})
    + Cardinality({t \in Thread : At(t, "push") /\ There(t) = r})
  = IF scheduled[r] THEN 1 ELSE 0

\* A message in the message array will be looked at: its vertex is scheduled, or
\* about to be, or a fiber is about to look, or the running program has been told.
\* The order add, schedule here and pop, fetch there keeps this without a lock.
NothingStranded ==
  \A r \in Replica :
    /\ QueuedOnce(r)
    /\ box[r] # {} =>
         \/ scheduled[r]
         \/ \E t \in Thread : At(t, "schedule") /\ There(t) = r
         \/ \E f \in Fiber : At(f, "take") /\ Here(f) = r
         \/ r = Master(r[2]) /\ hasnext[r[2]] /\ program_running[r[2]]

\* All replicas of a vertex whose program does not run have the same data: the run
\* waits for its scatter requests, and the next one cannot start before.
ReplicasAgree ==
  \A v \in Vertex : ~program_running[v] =>
    \A r \in Mirrors(v) : data[r] = data[Master(v)]

\* Messages in the array, in a fiber's hand or in a call.
Pending(v) ==
  UNION ({box[r] : r \in {s \in Replica : s[2] = v}}
         \cup {thread[f].msg : f \in {g \in Fiber : thread[g].v = v}}
         \cup {c.msg : c \in {d \in signals : d.v = v}})

\* The vertices whose program has been given its message and has not returned.
Running ==
  {thread[f].v : f \in {g \in Fiber : \/ thread[g].at \in {"scatter", "unlock"}
                                      \/ thread[g].back \in {"scatter", "unlock"}}}

VE == INSTANCE VertexExecution
        WITH pending <- [v \in Vertex |-> Pending(v)],
             running <- Running,
             stopped <- (\E k \in Machine : force_stop[k]),
             ended   <- {k \in Machine : done[k]}

\* Every signal reaches exactly one run of its vertex, runs of a vertex exclude
\* each other, and the engine ends only when no message is left, unless stopped.
ImplementsVertexExecution == VE!Spec

=============================================================================
