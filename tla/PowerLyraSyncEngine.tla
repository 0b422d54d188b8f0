------------------------ MODULE PowerLyraSyncEngine ------------------------
(***************************************************************************)
(* powerlyra_sync_engine (engine/powerlyra_sync_engine.hpp) on a graph cut *)
(* by distributed_hybrid_ingress.                                          *)
(*                                                                         *)
(* Every machine runs the same sequence of phases.  In a phase its threads *)
(* visit the vertices whose bit was set when it began, each vertex once,   *)
(* in any order; what they send through an exchange is received by the     *)
(* threads of the other machine in the same phase, before or after they    *)
(* have visited everything.  flush() and the barriers keep the machines    *)
(* together.  A visit is one step: what it changes for other vertices it   *)
(* changes under their locks, and nobody reads it in that phase.           *)
(***************************************************************************)
EXTENDS GasPrograms, FiniteSets

CONSTANTS
  Machine,
  Hash,              \* hash_vertex(vid) % numprocs
  threshold,         \* in-degree beyond which a vertex is HIGH
  max_iterations,
  Modes,             \* programs and options to look at
  StartSets,         \* the vertices signalled before start()
  TimedTermination   \* whether the option timeout is set

ASSUME EngineAssumption ==
  /\ IsFiniteSet(Machine) /\ Machine # {}
  /\ Hash \in [Vertex -> Machine]
  /\ threshold \in Nat /\ max_iterations \in Nat
  /\ Modes \subseteq Mode
  /\ StartSets \subseteq SUBSET Vertex
  /\ TimedTermination \in BOOLEAN

\* The option use_cache: "the vertex program must either clear or update the cache
\* values of neighboring vertices during the scatter phase", so that a program that
\* keeps caches scatters along every edge its neighbours gather from.
ASSUME CachingAssumption ==
  \A m \in Modes : m.cache # "no" =>
    /\ "in" \in m.gather => "out" \in m.scatter
    /\ "out" \in m.gather => "in" \in m.scatter

-----------------------------------------------------------------------------
(* The hybrid cut: the edges of a vertex of low degree are with their      *)
(* target, those of a vertex of high degree with their sources.            *)

InDegree(v) == Cardinality({e \in Edge : e[2] = v})
High(v) == InDegree(v) > threshold
Place(e) == Hash[IF InDegree(e[2]) > threshold THEN e[1] ELSE e[2]]

Local(k) == {e \in Edge : Place(e) = k}
Machines(v) == {Hash[v]} \cup {Place(e) : e \in Along(v, {"in", "out"})}
Mirrors(v) == Machines(v) \ {Hash[v]}
Replica == {r \in Machine \X Vertex : r[1] \in Machines(r[2])}
Master(v) == <<Hash[v], v>>
IsMaster(r) == r = Master(r[2])

VARIABLES
  mode,
  data, vertex_programs, messages, gather_accum, gather_cache,   \* per replica
  has_message, has_gather_accum, has_cache,                      \* bitsets
  active_superstep, active_minorstep,
  num_active_vertices, iteration_counter, force_abort,           \* per machine
  phase,        \* what each machine is doing,
  arrived,      \* whether it is in the barrier or the reduction that ends it,
  passed,       \* and how many of them it has passed
  todo,         \* replicas still to be visited in this phase
  message_exchange, activ_exchange, accum_exchange,   \* records on their way;
  update_exchange,    \* also those of update_activ_exchange
  signal_calls,       \* calls of internal_signal_rpc() on their way,
  stop_calls          \* and the machines to which rpc_stop() is

step_vars == <<phase, arrived, passed>>
message_vars == <<messages, has_message>>
gather_vars == <<gather_accum, has_gather_accum>>
cache_vars == <<gather_cache, has_cache>>
active_vars == <<active_superstep, active_minorstep, num_active_vertices>>
run_vars == <<iteration_counter, force_abort>>
exchanges_but_message == <<activ_exchange, accum_exchange, update_exchange>>
exchanges_but_activ == <<message_exchange, accum_exchange, update_exchange>>
exchanges_but_accum == <<message_exchange, activ_exchange, update_exchange>>
exchanges_but_update == <<message_exchange, activ_exchange, accum_exchange>>
exchange_vars == <<message_exchange, activ_exchange, accum_exchange, update_exchange>>
calls == <<signal_calls, stop_calls>>
vars == <<mode, data, vertex_programs, message_vars, gather_vars, cache_vars,
          active_vars, run_vars, step_vars, todo, exchange_vars, calls>>

On(k) == {r \in Replica : r[1] = k}
PerReplica(x) == [r \in Replica |-> x]
PerMachine(x) == [k \in Machine |-> x]

\* signal() or signal_all(), then start().
Init ==
  /\ mode \in Modes
  /\ data = PerReplica(InitialData)
  /\ vertex_programs = PerReplica(DefaultProgram)
  /\ \E S \in StartSets :
       /\ has_message = {Master(v) : v \in S}
       /\ messages = [r \in Replica |->
                        IF r \in has_message /\ ~mode.plain THEN {Start} ELSE {}]
  /\ gather_accum = PerReplica(Zero) /\ has_gather_accum = {}
  /\ gather_cache = PerReplica(Zero) /\ has_cache = {}
  /\ active_superstep = {} /\ active_minorstep = {}
  /\ num_active_vertices = PerMachine(0)
  /\ iteration_counter = PerMachine(0) /\ force_abort = PerMachine(FALSE)
  /\ phase = PerMachine("test") /\ arrived = PerMachine(FALSE) /\ passed = PerMachine(0)
  /\ todo = {} /\ signal_calls = {} /\ stop_calls = {}
  /\ message_exchange = {} /\ activ_exchange = {}
  /\ accum_exchange = {} /\ update_exchange = {}

-----------------------------------------------------------------------------
(* The main loop.                                                          *)

\* A machine leaves a barrier or a reduction when all have come to it.
AllArrived(k) ==
  \A j \in Machine : \/ passed[j] > passed[k]
                     \/ passed[j] = passed[k] /\ phase[j] = phase[k] /\ arrived[j]

Go(k, p, waits) ==
  /\ phase' = [phase EXCEPT ![k] = p]
  /\ arrived' = [arrived EXCEPT ![k] = waits]

Leave(k, p) ==
  /\ phase[k] = p /\ arrived[k] /\ AllArrived(k)
  /\ passed' = [passed EXCEPT ![k] = @ + 1]

\* Once more: clear the bits, and wait for the others.
NextIteration(k) ==
  /\ phase[k] = "test"
  /\ iteration_counter[k] < max_iterations /\ ~force_abort[k]
  /\ active_superstep' = active_superstep \ On(k)
  /\ active_minorstep' = active_minorstep \ On(k)
  /\ has_gather_accum' = has_gather_accum \ On(k)
  /\ num_active_vertices' = [num_active_vertices EXCEPT ![k] = 0]
  /\ Go(k, "clear", TRUE)
  /\ UNCHANGED <<mode, data, vertex_programs, message_vars, gather_accum, cache_vars,
                 run_vars, passed, todo, exchange_vars, calls>>

\* Out of the loop, to the barrier at the end: each machine decides for itself.
Quit(k) ==
  /\ phase[k] = "test"
  /\ iteration_counter[k] >= max_iterations \/ force_abort[k] \/ TimedTermination
  /\ Go(k, "exit", TRUE)
  /\ UNCHANGED <<mode, data, vertex_programs, message_vars, gather_vars, cache_vars,
                 active_vars, run_vars, passed, todo, exchange_vars, calls>>

\* Into a phase with the replicas whose bits are set.
Begin(k, p, bits) ==
  /\ Go(k, p, FALSE)
  /\ todo' = todo \cup (bits \cap On(k))

StartExchange(k) ==
  /\ Leave(k, "clear")
  /\ Begin(k, "exchange", {r \in has_message : ~IsMaster(r)})
  /\ UNCHANGED <<mode, data, vertex_programs, message_vars, gather_vars, cache_vars,
                 active_vars, run_vars, exchange_vars, calls>>

StartReceive(k) ==
  /\ Leave(k, "exchange")
  /\ Begin(k, "receive", has_message)
  /\ UNCHANGED <<mode, data, vertex_programs, message_vars, gather_vars, cache_vars,
                 active_vars, run_vars, exchange_vars, calls>>

\* After the phase: the messages are gone, and everyone counts.
Reduce(k) ==
  /\ Leave(k, "receive")
  /\ Go(k, "reduce", TRUE)
  /\ active_minorstep' = active_minorstep \cup (IF mode.sched_allv THEN On(k) ELSE {})
  /\ has_message' = has_message \ On(k)
  /\ UNCHANGED <<mode, data, vertex_programs, messages, gather_vars, cache_vars,
                 active_superstep, num_active_vertices, run_vars, todo, exchange_vars, calls>>

\* The all_reduce() of num_active_vertices, a sum of counts, is 0.
NoneActive == \A k \in Machine : num_active_vertices[k] = 0

StartGather(k) ==
  /\ Leave(k, "reduce")
  /\ IF NoneActive THEN Go(k, "exit", TRUE) /\ UNCHANGED todo
                   ELSE Begin(k, "gather", active_minorstep)
  /\ UNCHANGED <<mode, data, vertex_programs, message_vars, gather_vars, cache_vars,
                 active_vars, run_vars, exchange_vars, calls>>

StartApply(k) ==
  /\ Leave(k, "gather")
  /\ Begin(k, "apply", active_superstep)
  /\ active_minorstep' = active_minorstep \ On(k)
  /\ UNCHANGED <<mode, data, vertex_programs, message_vars, gather_vars, cache_vars,
                 active_superstep, num_active_vertices, run_vars, exchange_vars, calls>>

StartScatter(k) ==
  /\ Leave(k, "apply")
  /\ Begin(k, "scatter", active_minorstep)
  /\ UNCHANGED <<mode, data, vertex_programs, message_vars, gather_vars, cache_vars,
                 active_vars, run_vars, exchange_vars, calls>>

EndIteration(k) ==
  /\ Leave(k, "scatter")
  /\ Go(k, "test", FALSE)
  /\ iteration_counter' = [iteration_counter EXCEPT ![k] = @ + 1]
  /\ UNCHANGED <<mode, data, vertex_programs, message_vars, gather_vars, cache_vars,
                 active_vars, force_abort, todo, exchange_vars, calls>>

End(k) ==
  /\ Leave(k, "exit")
  /\ Go(k, "ended", FALSE)
  /\ UNCHANGED <<mode, data, vertex_programs, message_vars, gather_vars, cache_vars,
                 active_vars, run_vars, todo, exchange_vars, calls>>

\* Everything is visited; flush() waits until everyone has sent, and the rest
\* is received.
Visited(k) == todo \cap On(k) = {}
Flushed(k) ==
  /\ \A j \in Machine : phase[j] = phase[k] /\ passed[j] = passed[k] /\ Visited(j)
  /\ \A x \in message_exchange \cup activ_exchange \cup accum_exchange \cup update_exchange :
       x.to # k

Arrive(k) ==
  /\ phase[k] \in {"exchange", "receive", "gather", "apply", "scatter"}
  /\ ~arrived[k]
  /\ IF phase[k] = "scatter" THEN Visited(k) ELSE Flushed(k)
  /\ arrived' = [arrived EXCEPT ![k] = TRUE]
  /\ UNCHANGED <<mode, data, vertex_programs, message_vars, gather_vars, cache_vars,
                 active_vars, run_vars, phase, passed, todo, exchange_vars, calls>>

MainLoop(k) ==
  \/ NextIteration(k) \/ Quit(k) \/ StartExchange(k) \/ StartReceive(k) \/ Reduce(k)
  \/ StartGather(k) \/ StartApply(k) \/ StartScatter(k) \/ EndIteration(k) \/ End(k)
  \/ Arrive(k)

-----------------------------------------------------------------------------
(* Messages: exchange_messages() and receive_messages().                   *)

Visit(r, p) == phase[r[1]] = p /\ r \in todo /\ todo' = todo \ {r}

\* Mutant: the bit of a message that has been sent stays set.
ExchangeMessageTwice(r) ==
  /\ Visit(r, "exchange")
  /\ message_exchange' = message_exchange \cup
       {[to |-> Hash[r[2]], from |-> r[1], vertex |-> r[2], message |-> messages[r]]}
  /\ messages' = [messages EXCEPT ![r] = {}]
  /\ UNCHANGED <<mode, data, has_message, vertex_programs, gather_vars, cache_vars, active_vars,
                 run_vars, step_vars, exchanges_but_message, calls>>

\* A mirror sends what its machine has signalled to the master.
ExchangeMessage(r) ==
  /\ Visit(r, "exchange")
  /\ message_exchange' = message_exchange \cup
       {[to |-> Hash[r[2]], from |-> r[1], vertex |-> r[2], message |-> messages[r]]}
  /\ has_message' = has_message \ {r}
  /\ messages' = [messages EXCEPT ![r] = {}]
  /\ UNCHANGED <<mode, data, vertex_programs, gather_vars, cache_vars, active_vars,
                 run_vars, step_vars,
                 exchanges_but_message, calls>>

\* Messages for the same vertex add up.
Signalled(r, message) ==
  /\ has_message' = has_message \cup {r}
  /\ messages' = [messages EXCEPT ![r] = IF r \in has_message THEN @ \cup message
                                                              ELSE message]

RecvMessage(k) ==
  /\ phase[k] = "exchange"
  /\ \E x \in message_exchange :
       /\ x.to = k
       /\ message_exchange' = message_exchange \ {x}
       /\ Signalled(<<k, x.vertex>>, x.message)
  /\ UNCHANGED <<mode, data, vertex_programs, gather_vars, cache_vars, active_vars,
                 run_vars, step_vars, todo,
                 exchanges_but_message, calls>>

\* Mutant: as if in-edges were always with the master.
GatherMirrorsForOut(v, program) ==
  IF "out" \in gather_edges(mode, program) THEN Mirrors(v) ELSE {}

\* Which mirrors take part in the gather: none of a vertex of low degree that
\* gathers along in-edges, they are all with its master.
GatherMirrors(v, program) ==
  LET direction == gather_edges(mode, program) IN
  IF direction # {} /\ (High(v) \/ "out" \in direction) THEN Mirrors(v) ELSE {}

\* A master is given its messages, and activates its mirrors.
ReceiveMessage(r) ==
  LET v == r[2]
      program == [vertex_programs[r] EXCEPT !.message = messages[r]]
  IN
  /\ Visit(r, "receive")
  /\ active_superstep' = active_superstep \cup {r}
  /\ num_active_vertices' = [num_active_vertices EXCEPT ![r[1]] = @ + 1]
  /\ vertex_programs' = [vertex_programs EXCEPT ![r] = program]
  /\ messages' = [messages EXCEPT ![r] = {}]
  /\ IF mode.sched_allv THEN UNCHANGED <<active_minorstep, activ_exchange>>
     ELSE /\ active_minorstep' =
               active_minorstep \cup (IF gather_edges(mode, program) # {} THEN {r} ELSE {})
          /\ activ_exchange' = activ_exchange \cup
               {[to |-> j, vertex |-> v, program |-> program] : j \in GatherMirrors(v, program)}
  /\ UNCHANGED <<mode, data, has_message, gather_vars, cache_vars, run_vars, step_vars,
                 exchanges_but_activ, calls>>

RecvActiv(k) ==
  /\ phase[k] = "receive"
  /\ \E x \in activ_exchange :
       /\ x.to = k
       /\ activ_exchange' = activ_exchange \ {x}
       /\ vertex_programs' = [vertex_programs EXCEPT ![<<k, x.vertex>>] = x.program]
       /\ active_minorstep' = active_minorstep \cup {<<k, x.vertex>>}
  /\ UNCHANGED <<mode, data, message_vars, gather_vars, cache_vars, active_superstep,
                 num_active_vertices, run_vars, step_vars, todo,
                 exchanges_but_activ, calls>>

-----------------------------------------------------------------------------
(* execute_gathers().                                                      *)

\* The edges a replica gathers from, and what they contribute.
GatheredEdges(r) ==
  Along(r[2], gather_edges(mode, vertex_programs[r])) \cap Local(r[1])
LocalTotal(r) ==
  [e \in Edge |-> IF e \in GatheredEdges(r) THEN data[<<r[1], Other(e, r[2])>>].applies ELSE 0]

Cached(r) == mode.cache # "no" /\ r \in has_cache

\* Add to the accumulator of a master.
Accumulate(r, accum) ==
  /\ gather_accum' = [gather_accum EXCEPT ![r] = IF r \in has_gather_accum
                                                 THEN Plus(@, accum) ELSE accum]
  /\ has_gather_accum' = has_gather_accum \cup {r}

\* Nothing is sent when there is neither a cache nor an edge.
SendAccum(r, accum) ==
  IF ~Cached(r) /\ GatheredEdges(r) = {} THEN UNCHANGED <<gather_vars, accum_exchange>>
  ELSE IF IsMaster(r) THEN Accumulate(r, accum) /\ UNCHANGED accum_exchange
  ELSE /\ accum_exchange' = accum_exchange \cup
            {[to |-> Hash[r[2]], from |-> r[1], vertex |-> r[2], accum |-> accum]}
       /\ UNCHANGED gather_vars

ExecuteGather(r) ==
  LET accum == IF Cached(r) THEN gather_cache[r] ELSE LocalTotal(r)
      caches == mode.cache # "no" /\ r \notin has_cache /\ GatheredEdges(r) # {}
  IN
  /\ Visit(r, "gather")
  /\ gather_cache' = IF caches THEN [gather_cache EXCEPT ![r] = accum] ELSE gather_cache
  /\ has_cache' = IF caches THEN has_cache \cup {r} ELSE has_cache
  /\ SendAccum(r, accum)
  /\ vertex_programs' = IF IsMaster(r) THEN vertex_programs
                        ELSE [vertex_programs EXCEPT ![r] = DefaultProgram]
  /\ UNCHANGED <<mode, data, message_vars, active_vars, run_vars, step_vars,
                 exchanges_but_accum, calls>>

RecvAccum(k) ==
  /\ phase[k] = "gather"
  /\ \E x \in accum_exchange :
       /\ x.to = k
       /\ accum_exchange' = accum_exchange \ {x}
       /\ Accumulate(<<k, x.vertex>>, x.accum)
  /\ UNCHANGED <<mode, data, vertex_programs, message_vars, cache_vars, active_vars,
                 run_vars, step_vars, todo,
                 exchanges_but_accum, calls>>

-----------------------------------------------------------------------------
(* execute_applys().                                                       *)

\* Mutant: only vertices of high degree have mirrors that need the data.
UpdatesOfHigh(v, new, program, scatters) ==
  {[to |-> j, vertex |-> v, data |-> new, scatters |-> scatters, program |-> program] :
     j \in IF High(v) THEN Mirrors(v) ELSE {}}

\* send_updates_activs() or send_updates(): the mirrors get the new data, and
\* the program with it when it scatters.
Updates(v, new, program, scatters) ==
  {[to |-> j, vertex |-> v, data |-> new, scatters |-> scatters, program |-> program] :
     j \in Mirrors(v)}

\* apply() decides whether the program signals, and may call stop().
ExecuteApply(r) ==
  LET new == Applied(data[r], vertex_programs[r].message, gather_accum[r]) IN
  /\ Visit(r, "apply")
  /\ data' = [data EXCEPT ![r] = new]
  /\ gather_accum' = [gather_accum EXCEPT ![r] = Zero]
  /\ \E signals \in BOOLEAN :
       LET program == [vertex_programs[r] EXCEPT !.signals = signals]
           scatters == scatter_edges(mode, program) # {}
           kept == IF scatters THEN program ELSE DefaultProgram
       IN
       /\ vertex_programs' = [vertex_programs EXCEPT ![r] = kept]
       /\ active_minorstep' = active_minorstep \cup (IF scatters THEN {r} ELSE {})
       /\ update_exchange' = update_exchange \cup Updates(r[2], new, kept, scatters)
  /\ stop_calls' \in {stop_calls} \cup (IF mode.stops THEN {Machine} ELSE {})
  /\ UNCHANGED <<mode, message_vars, has_gather_accum, cache_vars, active_superstep,
                 num_active_vertices, run_vars, step_vars, exchanges_but_update, signal_calls>>

RecvUpdate(k) ==
  /\ phase[k] = "apply"
  /\ \E x \in update_exchange :
       LET r == <<k, x.vertex>> IN
       /\ x.to = k
       /\ update_exchange' = update_exchange \ {x}
       /\ data' = [data EXCEPT ![r] = x.data]
       /\ IF x.scatters
          THEN /\ vertex_programs' = [vertex_programs EXCEPT ![r] = x.program]
               /\ active_minorstep' = active_minorstep \cup {r}
          ELSE UNCHANGED <<vertex_programs, active_minorstep>>
  /\ UNCHANGED <<mode, message_vars, gather_vars, cache_vars, active_superstep,
                 num_active_vertices, run_vars, step_vars, todo,
                 exchanges_but_update, calls>>

-----------------------------------------------------------------------------
(* execute_scatters(), and the calls of the context made there.            *)

ScatteredEdges(r) ==
  Along(r[2], scatter_edges(mode, vertex_programs[r])) \cap Local(r[1])

\* The edges of E between v and the vertex of replica q on the same machine.
Between(E, r, q) == {e \in E : q = <<r[1], Other(e, r[2])>>}
Neighbours(r, E) == {q \in Replica : Between(E, r, q) # {}}

\* internal_signal() of the replicas on this machine, with a message or without.
SignalNeighbours(r, E) ==
  /\ has_message' = has_message \cup Neighbours(r, E)
  /\ messages' = [q \in Replica |->
                    IF Between(E, r, q) = {} THEN messages[q]
                    ELSE IF mode.plain THEN {}
                    ELSE IF q \in has_message THEN messages[q] \cup Between(E, r, q)
                    ELSE Between(E, r, q)]

\* internal_signal_gvid(): a call for the masters on other machines.
SignalById(r, E) ==
  LET here == {e \in E : Hash[Other(e, r[2])] = r[1]} IN
  /\ SignalNeighbours(r, here)
  /\ signal_calls' = signal_calls \cup
       {[edge |-> e, vertex |-> Other(e, r[2]), iteration |-> iteration_counter[r[1]]] :
          e \in E \ here}

\* Mutant: deltas go to masters only.
PostDeltaToMasters(r, E) ==
  /\ gather_cache' =
       [q \in Replica |->
          [e \in Edge |-> gather_cache[q][e]
             + IF /\ q \in has_cache /\ IsMaster(q)
                  /\ e \in Between(E, r, q) \cap Along(q[2], mode.gather)
               THEN 1 ELSE 0]]
  /\ UNCHANGED has_cache

\* internal_post_delta() for every neighbour: there is one apply more to count.
PostDelta(r, E) ==
  /\ gather_cache' =
       [q \in Replica |->
          [e \in Edge |-> gather_cache[q][e]
             + IF q \in has_cache /\ e \in Between(E, r, q) \cap Along(q[2], mode.gather)
               THEN 1 ELSE 0]]
  /\ UNCHANGED has_cache

\* internal_clear_gather_cache() for every neighbour.
ClearGatherCache(r, E) ==
  /\ has_cache' = has_cache \ Neighbours(r, E)
  /\ gather_cache' = [q \in Replica |-> IF q \in Neighbours(r, E) THEN Zero ELSE gather_cache[q]]

CachesFollow(r, E) ==
  \/ mode.cache = "delta" /\ PostDelta(r, E)
  \/ mode.cache = "clear" /\ ClearGatherCache(r, E)
  \/ mode.cache = "no" /\ UNCHANGED cache_vars

ExecuteScatter(r) ==
  LET E == IF vertex_programs[r].signals THEN ScatteredEdges(r) ELSE {} IN
  /\ Visit(r, "scatter")
  /\ IF mode.by_id THEN SignalById(r, E)
                   ELSE SignalNeighbours(r, E) /\ UNCHANGED signal_calls
  /\ CachesFollow(r, ScatteredEdges(r))
  /\ vertex_programs' = [vertex_programs EXCEPT ![r] = DefaultProgram]
  /\ UNCHANGED <<mode, data, gather_vars, active_vars, run_vars, step_vars, exchange_vars,
                 stop_calls>>

\* A bit set while messages are received: until a machine has flushed, its word may
\* be still to be read.
SeenLate(r) ==
  IF /\ r \notin has_message /\ phase[r[1]] = "receive"
     /\ \A j \in Machine : phase[j] = "receive" => ~arrived[j]
  THEN {todo, todo \cup {r}} ELSE {todo}

\* Calls run whenever they arrive: no barrier of the loop waits for them.
internal_signal_rpc ==
  \E c \in signal_calls :
    LET r == Master(c.vertex) IN
    /\ signal_calls' = signal_calls \ {c}
    /\ Signalled(r, IF mode.plain THEN {} ELSE {c.edge})
    /\ todo' \in SeenLate(r)
    /\ UNCHANGED <<mode, data, vertex_programs, gather_vars, cache_vars, active_vars,
                   run_vars, step_vars, exchange_vars, stop_calls>>

rpc_stop(k) ==
  /\ k \in stop_calls
  /\ stop_calls' = stop_calls \ {k}
  /\ force_abort' = [force_abort EXCEPT ![k] = TRUE]
  /\ UNCHANGED <<mode, data, vertex_programs, message_vars, gather_vars, cache_vars,
                 active_vars, iteration_counter, step_vars, todo, exchange_vars, signal_calls>>

-----------------------------------------------------------------------------
Terminated == \A k \in Machine : phase[k] = "ended"

Handle(k) ==
  RecvMessage(k) \/ RecvActiv(k) \/ RecvAccum(k) \/ RecvUpdate(k) \/ rpc_stop(k)
ExecuteVertex(r) ==
  \/ ExchangeMessage(r) \/ ReceiveMessage(r) \/ ExecuteGather(r)
  \/ ExecuteApply(r) \/ ExecuteScatter(r)

Next ==
  \/ \E k \in Machine : MainLoop(k) \/ Handle(k)
  \/ \E r \in todo : ExecuteVertex(r)
  \/ internal_signal_rpc
  \/ Terminated /\ UNCHANGED vars

Spec == Init /\ [][Next]_vars

-----------------------------------------------------------------------------
(* Properties.                                                             *)

\* The machines that wait wait for each other: never one in the barrier of the
\* loop and another in the all_gather() after it ("Final barrier to ensure that
\* all engines terminate at the same time").
SameBarrier ==
  \A j, k \in Machine : arrived[j] /\ arrived[k] /\ passed[j] = passed[k] => phase[j] = phase[k]

\* Where programs gather and scatter, every mirror holds what its master has
\* ("any changes to the vertex data have been synchronized with all mirrors").
MirrorsCurrent ==
  \A r \in Replica :
    phase[r[1]] \in {"gather", "scatter"} /\ ~arrived[r[1]] => data[r] = data[Master(r[2])]

\* Only masters are received for and applied (the assertions l_is_master() of
\* receive_messages() and execute_applys()).
MastersOnly ==
  \A r \in todo : phase[r[1]] \in {"receive", "apply"} => IsMaster(r)

\* A gather cache holds what a new gather of the same edges would give, whatever
\* deltas and clearings the neighbours on its machine have made of it.
CachesExact ==
  \A r \in has_cache :
    phase[r[1]] = "gather" /\ ~arrived[r[1]] =>
      gather_cache[r] =
        [e \in Edge |-> IF e \in Along(r[2], mode.gather) \cap Local(r[1])
                       THEN data[<<r[1], Other(e, r[2])>>].applies ELSE 0]

\* The machines stop for want of work only when there is none: "execution completed
\* successfully due to task depletion", and signal_vid() is to "send a message to a
\* vertex ID".
Depleted(k) ==
  /\ phase[k] = "exit" /\ iteration_counter[k] < max_iterations
  /\ ~force_abort[k] /\ ~TimedTermination
NobodyForgotten ==
  (\E k \in Machine : Depleted(k)) => has_message = {} /\ signal_calls = {}

\* The phases of all machines together are super-steps on the uncut graph: what
\* a vertex is given is what its neighbours sent, once; it gathers from every
\* edge, before any vertex applies; and everyone it signals is received.
Replicas(v) == {r \in Replica : r[2] = v}
Stage ==
  LET ahead == CHOOSE k \in Machine : \A j \in Machine : passed[j] <= passed[k] IN
  CASE \E k \in Machine : phase[k] \in {"exit", "ended"} -> "ended"
    [] phase[ahead] \in {"apply", "scatter"} -> phase[ahead]
    [] OTHER -> "receive"

\* Messages not yet received, at a replica, in an exchange or in a call.
Pending(r) == r \in has_message /\ (phase[r[1]] = "receive" => r \in todo)
Signals(v) ==
  {x.message : x \in {y \in message_exchange : y.vertex = v}}
  \cup {IF mode.plain THEN {} ELSE {c.edge} : c \in {d \in signal_calls : d.vertex = v}}
  \cup {messages[r] : r \in {q \in Replicas(v) : Pending(q)}}

Active(v) ==
  /\ Master(v) \in active_superstep
  /\ \/ phase[Hash[v]] \in {"receive", "reduce", "gather"}
     \/ phase[Hash[v]] = "apply" /\ Master(v) \in todo

\* Edges along which a replica, or one still to be told, will signal.
StillToScatter(r) ==
  \/ phase[r[1]] = "apply" /\ r \in active_minorstep
  \/ phase[r[1]] = "scatter" /\ r \in todo
Outgoing(v) ==
  UNION ({IF vertex_programs[r].signals THEN ScatteredEdges(r) ELSE {} :
            r \in {q \in Replicas(v) : StillToScatter(q)}}
         \cup {IF x.scatters /\ x.program.signals
                 THEN Along(v, scatter_edges(mode, x.program)) \cap Local(x.to) ELSE {} :
                 x \in {y \in update_exchange : y.vertex = v}})

BSP == INSTANCE BulkSynchronous WITH
  stage <- Stage,
  data <- [v \in Vertex |-> data[Master(v)]],
  signalled <- {v \in Vertex : Signals(v) # {}},
  box <- [v \in Vertex |-> UNION Signals(v)],
  active <- {v \in Vertex : Active(v)},
  received <- [v \in Vertex |-> IF Active(v) THEN vertex_programs[Master(v)].message ELSE {}],
  total <- [v \in Vertex |-> IF Stage = "apply" /\ Active(v) THEN gather_accum[Master(v)] ELSE Zero],
  outgoing <- [v \in Vertex |-> Outgoing(v)]

Stopped ==
  \E k \in Machine : iteration_counter[k] >= max_iterations \/ force_abort[k] \/ TimedTermination

ImplementsBulkSynchronous == BSP!Init /\ [][BSP!Next(Stopped)]_BSP!vars

=============================================================================
