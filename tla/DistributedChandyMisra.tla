----------------------- MODULE DistributedChandyMisra -----------------------
(***************************************************************************)
(* graphlab::distributed_chandy_misra (engine/distributed_chandy_misra.hpp)*)
(* the locks of the asynchronous engines: a vertex may run only while it   *)
(* holds a fork for every edge it is on, so that neighbours never run      *)
(* together.                                                               *)
(*                                                                         *)
(* The graph is cut along its vertices: an edge lives on one machine, a    *)
(* vertex has a replica on every machine with one of its edges, and one of *)
(* them is the master.  The master makes all its replicas hungry; each     *)
(* replica collects the forks of its machine, says it is ready (the code's *)
(* HORS_DOEUVRE), and when all are the master makes all of them eat.  A    *)
(* replica that is ready but not yet eating can be asked back: the master  *)
(* grants or refuses the cancellation.                                     *)
(*                                                                         *)
(* A step is what a thread does between two lock operations.  A thread is  *)
(* a stack of the functions it is in, innermost first.                     *)
(***************************************************************************)
EXTENDS Integers, Sequences, FiniteSets

CONSTANTS
  Machine, Vertex,       \* machines; global ids, which also order the local ids
  Owner,                 \* the machine of each vertex's master
  Edges,                 \* records with the fields on, source, target
  Workers, Handlers,     \* threads of each machine: the client's and the RPC layer's
  Client,                \* "replica": the asynchronous engines, whose scatter request
                         \*   tells each replica to stop; "master": warp_engine, which
                         \*   calls philosopher_stops_eating(); "threads": the test,
                         \*   where any thread may call it
  MaxMeals               \* bound: how often each vertex is made hungry

ReplicasOf(v) == {Owner[v]} \cup {e.on : e \in {d \in Edges : v \in {d.source, d.target}}}
Replica == UNION {{<<k, v>> : k \in ReplicasOf(v)} : v \in Vertex}
Master(v) == <<Owner[v], v>>
Mirror == {r \in Replica : r # Master(r[2])}
MirrorsOf(v) == {r \in Mirror : r[2] = v}

EdgesAt(r) == {e \in Edges : e.on = r[1] /\ r[2] \in {e.source, e.target}}
InEdgesAt(r) == {e \in EdgesAt(r) : e.target = r[2]}
Other(e, v) == IF e.source = v THEN e.target ELSE e.source
Across(r, e) == <<r[1], Other(e, r[2])>>

Thread == Machine \X (Workers \cup Handlers)
NoOne == <<"nobody">>
NoEdge == [on |-> "none"]

ASSUME ConstantsAssumption ==
  /\ Vertex \subseteq Nat
  /\ Owner \in [Vertex -> Machine]
  /\ Edges \subseteq [on : Machine, source : Vertex, target : Vertex]
  /\ \A e \in Edges : e.source # e.target
  /\ Workers \cap Handlers = {}
  /\ Client \in {"replica", "master", "threads"}
  /\ MaxMeals \in [Vertex -> Nat]
  /\ IsFiniteSet(Machine) /\ IsFiniteSet(Edges) /\ IsFiniteSet(Workers \cup Handlers)

\* counter, an unsigned char, has room for num_mirrors() + 1; the code takes this for
\* granted, make_philosopher_hungry() does not check it.
ASSUME MirrorsAssumption == \A v \in Vertex : Cardinality(MirrorsOf(v)) < 255

VARIABLES
  phil,                  \* philosopherset of every machine
  fork,                  \* forkset of every machine
  lock,                  \* the thread that holds each philosopher's spinlock
  stack,                 \* what each thread is doing
  down, up,              \* calls from the master to each mirror, and back
  scatter,               \* mirrors with a scatter request on its way
  awaited,               \* mirrors whose scatter the engine still waits for
  client,                \* the program of each vertex
  meals                  \* how much of MaxMeals is used

calls == <<down, up, scatter, awaited>>
vars == <<phil, fork, lock, stack, calls, client, meals>>

-----------------------------------------------------------------------------
\* compute_initial_fork_arrangement(): dirty forks, owned by the lower id.
FirstOwner(e) == IF e.source > e.target THEN e.target ELSE e.source

Init ==
  /\ phil = [r \in Replica |->
               [state |-> "thinking", counter |-> 0, cancellation_sent |-> FALSE,
                lockid |-> FALSE,
                forks_acquired |-> Cardinality({e \in EdgesAt(r) : FirstOwner(e) = r[2]})]]
  /\ fork = [e \in Edges |-> [owner |-> FirstOwner(e), dirty |-> TRUE, requests |-> {}]]
  /\ lock = [r \in Replica |-> NoOne]
  /\ stack = [t \in Thread |-> << >>]
  /\ down = [r \in Mirror |-> << >>]
  /\ up = [r \in Mirror |-> << >>]
  /\ scatter = {}
  /\ awaited = {}
  /\ client = [v \in Vertex |-> "thinking"]
  /\ meals = [v \in Vertex |-> 0]

-----------------------------------------------------------------------------
(* Frames: a function a thread is in, the vertex it is about, and what the *)
(* function remembers.                                                     *)

Loop(op, r) == [op |-> op, v |-> r[2], at |-> "lock", todo |-> EdgesAt(r),
                edge |-> NoEdge, ready |-> << >>]
Call(op, v) == [op |-> op, v |-> v]
Cancellation(v, id) == [op |-> "cancel", v |-> v, lockid |-> id]

\* foreach(lvid in ready) enter_hors_doeuvre_unlocked(lvid)
Signals(v, ready) == [op |-> "signal", v |-> v, ready |-> ready]

\* That loop returns to its caller when nobody is left to be signalled.
Return(frames) ==
  IF frames # << >> /\ Head(frames).op = "signal" /\ Head(frames).ready = << >>
  THEN Tail(frames) ELSE frames

Idle(t) == stack[t] = << >>
Doing(t, op) == ~Idle(t) /\ Head(stack[t]).op = op
Top(t) == Head(stack[t])
Callers(t) == Tail(stack[t])
Become(t, frames) == stack' = [stack EXCEPT ![t] = frames]
At(t, place) ==
  /\ ~Idle(t)
  /\ Top(t).op \in {"grab", "accept", "stop"}
  /\ Top(t).at = place

Free(r) == lock[r] = NoOne
Here(t) == <<t[1], Top(t).v>>

Broadcast(v, msg) ==
  down' = [r \in Mirror |-> IF r[2] = v THEN Append(down[r], msg) ELSE down[r]]

Full(p, r) == p[r].forks_acquired = Cardinality(EdgesAt(r))

\* The philosophers p after replica r has entered HORS_DOEUVRE.
EnterHors(p, r) ==
  [p EXCEPT ![r].state = "hors_doeuvre", ![r].cancellation_sent = FALSE]

\* Mutant: the two counts are changed the wrong way round.
MovedBack(r, q) ==
  [phil EXCEPT ![r].forks_acquired = @ + 1, ![q].forks_acquired = @ - 1]

\* Mutant: the former owner still counts the fork.
MovedGainOnly(r, q) == [phil EXCEPT ![q].forks_acquired = @ + 1]

\* The philosophers after a fork has moved from replica r to replica q.
Moved(r, q) ==
  [phil EXCEPT ![r].forks_acquired = @ - 1, ![q].forks_acquired = @ + 1]

\* Mutant: a hungry philosopher that gives a fork away does not ask it back.
CleanForgets(owner, requests) == [owner |-> owner, dirty |-> FALSE, requests |-> {}]

\* A fork that changes its owner is clean; only these requests are kept.
Clean(owner, requests) == [owner |-> owner, dirty |-> FALSE, requests |-> requests]

-----------------------------------------------------------------------------
(* The three loops over the edges of a replica.  Each holds the replica's  *)
(* lock and takes the lock of one neighbour at a time.                     *)

\* local_philosopher_grabs_forks() takes the lock.
StartGrab(t) ==
  /\ At(t, "lock") /\ Doing(t, "grab")
  /\ Free(Here(t))
  /\ lock' = [lock EXCEPT ![Here(t)] = t]
  /\ Become(t, <<[Top(t) EXCEPT !.at = "edge"]>> \o Callers(t))
  /\ UNCHANGED <<phil, fork, calls, client, meals>>

\* cancellation_accept_unlocked(): the philosopher is hungry again.
StartAccept(t) ==
  /\ At(t, "lock") /\ Doing(t, "accept")
  /\ Free(Here(t))
  /\ lock' = [lock EXCEPT ![Here(t)] = t]
  /\ phil' = [phil EXCEPT ![Here(t)].state = "hungry",
                          ![Here(t)].cancellation_sent = FALSE]
  /\ Become(t, <<[Top(t) EXCEPT !.at = "edge"]>> \o Callers(t))
  /\ UNCHANGED <<fork, calls, client, meals>>

\* local_philosopher_stops_eating(): all its forks are dirty.
StartStop(t) ==
  /\ At(t, "lock") /\ Doing(t, "stop")
  /\ Free(Here(t))
  /\ lock' = [lock EXCEPT ![Here(t)] = t]
  /\ phil' = [phil EXCEPT ![Here(t)].state = "thinking", ![Here(t)].counter = 0]
  /\ fork' = [e \in Edges |-> IF e \in EdgesAt(Here(t))
                              THEN [fork[e] EXCEPT !.dirty = TRUE] ELSE fork[e]]
  /\ Become(t, <<[Top(t) EXCEPT !.at = "edge"]>> \o Callers(t))
  /\ UNCHANGED <<calls, client, meals>>

\* The incoming edges come first.
NextEdges(t) ==
  LET incoming == Top(t).todo \cap InEdgesAt(Here(t))
  IN  IF incoming # {} THEN incoming ELSE Top(t).todo

\* try_acquire_edge_with_backoff() finds the neighbour's lock taken, and gives
\* up its own when the neighbour comes first in the order of the locks.
Backoff(t) ==
  /\ At(t, "edge")
  /\ \E e \in NextEdges(t) :
       /\ Across(Here(t), e)[2] < Top(t).v
       /\ ~Free(Across(Here(t), e))
       /\ Become(t, <<[Top(t) EXCEPT !.at = "backoff", !.edge = e]>> \o Callers(t))
  /\ lock' = [lock EXCEPT ![Here(t)] = NoOne]
  /\ UNCHANGED <<phil, fork, calls, client, meals>>

LockOther(t) ==
  /\ At(t, "backoff")
  /\ Free(Across(Here(t), Top(t).edge))
  /\ lock' = [lock EXCEPT ![Across(Here(t), Top(t).edge)] = t]
  /\ Become(t, <<[Top(t) EXCEPT !.at = "other"]>> \o Callers(t))
  /\ UNCHANGED <<phil, fork, calls, client, meals>>

\* try_acquire_edge_with_backoff() returns: the thread has both locks of e.
HasBoth(t, e) ==
  \/ At(t, "edge") /\ e \in NextEdges(t) /\ Free(Across(Here(t), e))
  \/ At(t, "other") /\ e = Top(t).edge /\ Free(Here(t))

\* What remains of the loop after edge e, and after a break at edge e, which
\* leaves the loop over the edges of that direction only.
Onward(t, e, ready) ==
  <<[Top(t) EXCEPT !.at = "edge", !.edge = NoEdge, !.todo = @ \ {e},
                   !.ready = @ \o ready]>> \o Callers(t)
Break(t, e) ==
  <<[Top(t) EXCEPT !.at = "edge", !.edge = NoEdge,
                   !.todo = IF e \in InEdgesAt(Here(t)) THEN @ \ InEdgesAt(Here(t))
                                                       ELSE {}]>> \o Callers(t)

\* The neighbour's lock is released, the replica's kept.
KeepOwnLock(t, e) ==
  lock' = [lock EXCEPT ![Here(t)] = t, ![Across(Here(t), e)] = NoOne]

LeaveLoop(t) ==
  \E e \in Edges :
    /\ HasBoth(t, e)
    /\ phil[Here(t)].state # IF Doing(t, "stop") THEN "thinking" ELSE "hungry"
    /\ Become(t, Break(t, e))
    /\ KeepOwnLock(t, e)
    /\ UNCHANGED <<phil, fork, calls, client, meals>>

\* A replica with all its forks becomes ready, and its master has to be told.
NowReady(p, x) == p[x].state = "hungry" /\ Full(p, x)
MakeReady(p, x) == IF NowReady(p, x) THEN EnterHors(p, x) ELSE p
ToTell(p, x) == IF NowReady(p, x) THEN <<x[2]>> ELSE << >>

\* One edge of local_philosopher_grabs_forks(): advance_fork_state_on_lock()
\* takes the fork from a neighbour that neither eats nor is ready ...
TakeFork(t) ==
  \E e \in Edges :
    LET r == Here(t)
        x == Across(r, e)
    IN
    /\ Doing(t, "grab") /\ HasBoth(t, e) /\ phil[r].state = "hungry"
    /\ fork[e].owner = x[2] /\ fork[e].dirty
    /\ phil[x].state \in {"thinking", "hungry"}
    /\ fork' = [fork EXCEPT ![e] =
                  Clean(r[2], IF phil[x].state = "hungry" THEN {x[2]} ELSE {})]
    /\ phil' = Moved(x, r)
    /\ Become(t, Onward(t, e, << >>))
    /\ KeepOwnLock(t, e)
    /\ UNCHANGED <<calls, client, meals>>

\* ... leaves a request with one it cannot take the fork from ...
RequestFork(t) ==
  \E e \in Edges :
    LET r == Here(t)
        x == Across(r, e)
    IN
    /\ Doing(t, "grab") /\ HasBoth(t, e) /\ phil[r].state = "hungry"
    /\ \/ fork[e].owner = r[2] /\ fork' = fork
       \/ /\ fork[e].owner = x[2]
          /\ \/ ~fork[e].dirty
             \/ phil[x].state = "eating"
             \/ phil[x].state = "hors_doeuvre" /\ phil[x].cancellation_sent
          /\ fork' = [fork EXCEPT ![e].requests = @ \cup {r[2]}]
    /\ Become(t, Onward(t, e, << >>))
    /\ KeepOwnLock(t, e)
    /\ UNCHANGED <<phil, calls, client, meals>>

\* ... and asks one that is ready with a dirty fork back, without any lock.
AskBack(t) ==
  \E e \in Edges :
    LET r == Here(t)
        x == Across(r, e)
    IN
    /\ Doing(t, "grab") /\ HasBoth(t, e) /\ phil[r].state = "hungry"
    /\ fork[e].owner = x[2] /\ fork[e].dirty
    /\ phil[x].state = "hors_doeuvre" /\ ~phil[x].cancellation_sent
    /\ fork' = [fork EXCEPT ![e].requests = @ \cup {r[2]}]
    /\ phil' = [phil EXCEPT ![x].cancellation_sent = TRUE]
    /\ lock' = [lock EXCEPT ![r] = NoOne, ![x] = NoOne]
    /\ Become(t, <<Cancellation(x[2], phil[x].lockid),
                   [Top(t) EXCEPT !.at = "relock", !.edge = e]>> \o Callers(t))
    /\ UNCHANGED <<calls, client, meals>>

Lower(r, x) == IF r[2] < x[2] THEN r ELSE x
Higher(r, x) == IF r[2] < x[2] THEN x ELSE r

\* Both locks again, the lower one first; the caller then drops the neighbour's.
RelockLower(t) ==
  LET r == Lower(Here(t), Across(Here(t), Top(t).edge)) IN
  /\ At(t, "relock")
  /\ Free(r)
  /\ lock' = [lock EXCEPT ![r] = t]
  /\ Become(t, <<[Top(t) EXCEPT !.at = "relock higher"]>> \o Callers(t))
  /\ UNCHANGED <<phil, fork, calls, client, meals>>

RelockHigher(t) ==
  /\ At(t, "relock higher")
  /\ Free(Higher(Here(t), Across(Here(t), Top(t).edge)))
  /\ KeepOwnLock(t, Top(t).edge)
  /\ Become(t, Onward(t, Top(t).edge, << >>))
  /\ UNCHANGED <<phil, fork, calls, client, meals>>

\* One edge of cancellation_accept_unlocked(): a dirty fork that the neighbour
\* wants is given away and asked for again.
AcceptEdge(t) ==
  \E e \in Edges :
    LET r == Here(t)
        x == Across(r, e)
        wanted == fork[e].owner = r[2] /\ fork[e].dirty /\ x[2] \in fork[e].requests
        moved == Moved(r, x)
    IN
    /\ Doing(t, "accept") /\ HasBoth(t, e) /\ phil[r].state = "hungry"
    /\ IF wanted
       THEN /\ fork' = [fork EXCEPT ![e] = Clean(x[2], {r[2]})]
            /\ phil' = MakeReady(moved, x)
            /\ Become(t, Onward(t, e, ToTell(moved, x)))
       ELSE /\ Become(t, Onward(t, e, << >>))
            /\ UNCHANGED <<phil, fork>>
    /\ KeepOwnLock(t, e)
    /\ UNCHANGED <<calls, client, meals>>

\* One edge of local_philosopher_stops_eating(): a requested fork changes hands,
\* and the neighbour is ready if that was its last.
StopEdge(t) ==
  \E e \in Edges :
    LET r == Here(t)
        x == Across(r, e)
        owner == <<r[1], fork[e].owner>>
        taker == Across(owner, e)
        wanted == fork[e].dirty /\ taker[2] \in fork[e].requests
        moved == IF wanted THEN Moved(owner, taker) ELSE phil
    IN
    /\ Doing(t, "stop") /\ HasBoth(t, e) /\ phil[r].state = "thinking"
    /\ fork' = IF wanted THEN [fork EXCEPT ![e] = Clean(taker[2], {})] ELSE fork
    /\ phil' = MakeReady(moved, x)
    /\ Become(t, Onward(t, e, ToTell(moved, x)))
    /\ KeepOwnLock(t, e)
    /\ UNCHANGED <<calls, client, meals>>

\* After the last edge a hungry philosopher with all its forks is ready.  The
\* lock is released before anybody is told.
FinishLoop(t) ==
  LET r == Here(t)
      stops == Doing(t, "stop")
      own == IF stops THEN << >> ELSE ToTell(phil, r)
  IN
  /\ At(t, "edge")
  /\ Top(t).todo = {}
  /\ phil' = IF stops THEN phil ELSE MakeReady(phil, r)
  /\ lock' = [lock EXCEPT ![r] = NoOne]
  /\ Become(t, Return(<<Signals(r[2], Top(t).ready \o own)>> \o Callers(t)))
  /\ UNCHANGED <<fork, calls, client, meals>>

-----------------------------------------------------------------------------
(* Getting ready, eating, and being asked back.                            *)

\* signal_ready_unlocked() on the master; counter is an unsigned char.
SignalReady(t, v, callers) ==
  LET left == (phil[Master(v)].counter - 1) % 256 IN
  /\ Free(Master(v))
  /\ phil' = [phil EXCEPT ![Master(v)].counter = left]
  /\ IF left = 0
     THEN Broadcast(v, [op |-> "eat"]) /\ Become(t, <<Call("eat", v)>> \o callers)
     ELSE Become(t, Return(callers)) /\ UNCHANGED down

\* enter_hors_doeuvre_unlocked() tells the master.
EnterHorsDoeuvre(t) ==
  /\ Doing(t, "signal")
  /\ LET v == Head(Top(t).ready)
         rest == <<[Top(t) EXCEPT !.ready = Tail(@)]>> \o Callers(t)
     IN
     \/ /\ Owner[v] = t[1]
        /\ SignalReady(t, v, rest)
        /\ UNCHANGED up
     \/ /\ Owner[v] # t[1]
        /\ up' = [up EXCEPT ![<<t[1], v>>] = Append(@, [op |-> "ready"])]
        /\ Become(t, Return(rest))
        /\ UNCHANGED <<phil, down>>
  /\ UNCHANGED <<fork, lock, scatter, awaited, client, meals>>

\* set_eating(); on the master it calls the client back.
SetEating(t) ==
  /\ Doing(t, "eat")
  /\ Free(Here(t))
  /\ phil' = [phil EXCEPT ![Here(t)].state = "eating",
                          ![Here(t)].cancellation_sent = FALSE]
  /\ client' = IF Here(t) = Master(Top(t).v)
               THEN [client EXCEPT ![Top(t).v] = "eating"] ELSE client
  /\ Become(t, Return(Callers(t)))
  /\ UNCHANGED <<fork, lock, calls, meals>>

\* Mutants: a request is granted although the master has already broadcast that
\* the vertex eats; the master does not wait for the replica it has granted one to.
GrantedLate(v, id) == phil[Master(v)].lockid = id
NoneMore(v) == phil

\* cancellation_request_unlocked() grants a request of the same round.
Granted(v, id) == phil[Master(v)].lockid = id /\ phil[Master(v)].counter > 0

\* A granted cancellation: the master waits for the replica once more.
OneMore(v) == [phil EXCEPT ![Master(v)].counter = (@ + 1) % 256]

\* issue_cancellation_request_unlocked(): a call when the master is elsewhere.
IssueCancellation(t) ==
  LET v == Top(t).v
      id == Top(t).lockid
  IN
  /\ Doing(t, "cancel")
  /\ \/ /\ Here(t) # Master(v)
        /\ up' = [up EXCEPT ![Here(t)] = Append(@, [op |-> "cancel", lockid |-> id])]
        /\ Become(t, Callers(t))
        /\ UNCHANGED phil
     \/ /\ Here(t) = Master(v)
        /\ Free(Here(t))
        /\ IF Granted(v, id)
           THEN phil' = OneMore(v) /\ Become(t, <<Loop("accept", Here(t))>> \o Callers(t))
           ELSE UNCHANGED phil /\ Become(t, Callers(t))
        /\ UNCHANGED up
  /\ UNCHANGED <<fork, lock, down, scatter, awaited, client, meals>>

-----------------------------------------------------------------------------
(* RPC handlers.  The calls carry the vertex as their key, but the RPC     *)
(* layer is built with RPC_DO_NOT_BREAK_BLOCKS and RPC_BLOCK_STRIPING: the *)
(* blocks of calls are dealt out to the handler threads whatever the keys  *)
(* are.  So the calls of a machine to another run in any order, several at *)
(* a time.                                                                 *)

Bottom(t) == stack[t][Len(stack[t])]

HandlerAt(t, r) == t \in Machine \X Handlers /\ t[1] = r[1] /\ Idle(t)

Without(queue, i) == SubSeq(queue, 1, i - 1) \o SubSeq(queue, i + 1, Len(queue))

\* rpc_make_philosopher_hungry, rpc_set_eating, rpc_cancellation_accept and
\* rpc_philosopher_stops_eating on a mirror, up to the first lock.
HandleDown(t) ==
  \E r \in Mirror : \E i \in DOMAIN down[r] :
    LET msg == down[r][i] IN
    /\ HandlerAt(t, r)
    /\ down' = [down EXCEPT ![r] = Without(@, i)]
    /\ \/ /\ msg.op = "hungry"
          /\ Free(r)
          /\ phil' = [phil EXCEPT ![r].state = "hungry", ![r].lockid = msg.lockid]
          /\ Become(t, <<Loop("grab", r)>>)
       \/ /\ msg.op = "eat"
          /\ Become(t, <<Call("eat", r[2])>>)
          /\ UNCHANGED phil
       \/ /\ msg.op \in {"accept", "stop"}
          /\ Become(t, <<Loop(msg.op, r)>>)
          /\ UNCHANGED phil
    /\ UNCHANGED <<fork, lock, up, scatter, awaited, client, meals>>

\* rpc_signal_ready and rpc_cancellation_request on the master.
HandleUp(t) ==
  \E r \in Mirror : \E i \in DOMAIN up[r] :
    LET msg == up[r][i]
        v == r[2]
    IN
    /\ HandlerAt(t, Master(v))
    /\ Free(Master(v))
    /\ up' = [up EXCEPT ![r] = Without(@, i)]
    /\ \/ msg.op = "ready" /\ SignalReady(t, v, << >>)
       \/ /\ msg.op = "cancel"
          /\ IF Granted(v, msg.lockid)
             THEN phil' = OneMore(v) /\ down' = [down EXCEPT ![r] = Append(@, [op |-> "accept"])]
             ELSE UNCHANGED <<phil, down>>
          /\ UNCHANGED stack
    /\ UNCHANGED <<fork, lock, scatter, awaited, client, meals>>

\* perform_scatter() of the engine on a mirror ends with
\* philosopher_stops_eating_per_replica().
HandleScatter(t) ==
  \E r \in scatter :
    /\ HandlerAt(t, r)
    /\ scatter' = scatter \ {r}
    /\ Become(t, <<Loop("stop", r), Call("reply", r[2])>>)
    /\ UNCHANGED <<phil, fork, lock, down, up, awaited, client, meals>>

Reply(t) ==
  /\ Doing(t, "reply")
  /\ awaited' = awaited \ {Here(t)}
  /\ Become(t, << >>)
  /\ UNCHANGED <<phil, fork, lock, down, up, scatter, client, meals>>

-----------------------------------------------------------------------------
(* The client, on the machine of the master.                               *)

WorkerAt(t, v) == t \in Machine \X Workers /\ t[1] = Owner[v] /\ Idle(t)

MakeHungry(t) ==
  \E v \in Vertex :
    LET r == Master(v)
        id == ~phil[r].lockid
    IN
    /\ WorkerAt(t, v)
    /\ client[v] = "thinking" /\ meals[v] < MaxMeals[v]
    /\ Free(r)
    /\ phil' = [phil EXCEPT ![r].lockid = id, ![r].state = "hungry",
                            ![r].counter = (Cardinality(MirrorsOf(v)) + 1) % 256]
    /\ client' = [client EXCEPT ![v] = "hungry"]
    /\ meals' = [meals EXCEPT ![v] = @ + 1]
    /\ Broadcast(v, [op |-> "hungry", lockid |-> id])
    /\ Become(t, <<Loop("grab", r)>>)
    /\ UNCHANGED <<fork, lock, up, scatter, awaited>>

\* The thread that made v hungry has returned from make_philosopher_hungry().
HungryReturned(v) ==
  \A t \in Machine \X Workers : ~Idle(t) => Bottom(t).v # v

\* The program of v has been executed.  In the engines the fiber that made v hungry
\* executes it, and scatters or calls philosopher_stops_eating().
StopEating(t) ==
  \E v \in Vertex :
    LET r == Master(v) IN
    /\ WorkerAt(t, v)
    /\ client[v] = "eating"
    /\ Client # "threads" => HungryReturned(v)
    /\ client' = [client EXCEPT ![v] = "stopping"]
    /\ Become(t, <<Loop("stop", r), Call("release", v)>>)
    /\ \/ /\ Client = "replica"
          /\ scatter' = scatter \cup MirrorsOf(v)
          /\ awaited' = awaited \cup MirrorsOf(v)
          /\ UNCHANGED <<phil, down>>
       \/ /\ Client # "replica"
          /\ Free(r)
          /\ phil' = [phil EXCEPT ![r].counter = 0]
          /\ Broadcast(v, [op |-> "stop"])
          /\ UNCHANGED <<scatter, awaited>>
    /\ UNCHANGED <<fork, lock, up, meals>>

Release(t) ==
  /\ Doing(t, "release")
  /\ awaited \cap MirrorsOf(Top(t).v) = {}
  /\ client' = [client EXCEPT ![Top(t).v] = "thinking"]
  /\ Become(t, Callers(t))
  /\ UNCHANGED <<phil, fork, lock, calls, meals>>

\* Nobody wants to eat any more.
Terminated ==
  /\ \A v \in Vertex : client[v] = "thinking" /\ meals[v] = MaxMeals[v]
  /\ \A t \in Thread : Idle(t)
  /\ \A r \in Mirror : down[r] = << >> /\ up[r] = << >>
  /\ scatter = {}
  /\ UNCHANGED vars

-----------------------------------------------------------------------------
LoopStep(t) ==
  \/ StartGrab(t) \/ StartAccept(t) \/ StartStop(t)
  \/ Backoff(t) \/ LockOther(t) \/ LeaveLoop(t)
  \/ TakeFork(t) \/ RequestFork(t) \/ AskBack(t) \/ RelockLower(t) \/ RelockHigher(t)
  \/ AcceptEdge(t) \/ StopEdge(t) \/ FinishLoop(t)

\* What a thread that has started something goes on to do.
Continue(t) ==
  \/ LoopStep(t) \/ EnterHorsDoeuvre(t) \/ SetEating(t) \/ IssueCancellation(t)
  \/ Reply(t) \/ Release(t)

Handle(t) == HandleDown(t) \/ HandleUp(t) \/ HandleScatter(t)

Next ==
  \/ \E t \in Thread : Continue(t) \/ Handle(t) \/ MakeHungry(t) \/ StopEating(t)
  \/ Terminated

Spec == Init /\ [][Next]_vars

\* Threads run and the network delivers; the program of a vertex ends.  Nobody
\* has to become hungry.
Fairness ==
  /\ \A t \in Thread : WF_vars(Continue(t))
  /\ \A k \in Machine : WF_vars(\E h \in Handlers : Handle(<<k, h>>))
  /\ \A k \in Machine : WF_vars(\E w \in Workers : StopEating(<<k, w>>))

FairSpec == Spec /\ Fairness

-----------------------------------------------------------------------------
State == {"thinking", "hungry", "hors_doeuvre", "eating"}
Message ==
  [op : {"hungry", "cancel"}, lockid : BOOLEAN] \cup
  [op : {"eat", "accept", "stop", "ready"}]
Frame ==
  [op : {"grab", "accept", "stop"}, v : Vertex,
   at : {"lock", "edge", "backoff", "other", "relock", "relock higher"},
   todo : SUBSET Edges, edge : Edges \cup {NoEdge}, ready : Seq(Vertex)] \cup
  [op : {"signal"}, v : Vertex, ready : Seq(Vertex)] \cup
  [op : {"eat", "reply", "release"}, v : Vertex] \cup
  [op : {"cancel"}, v : Vertex, lockid : BOOLEAN]

TypeOK ==
  /\ phil \in [Replica -> [state : State, forks_acquired : Nat, counter : 0 .. 255,
                           cancellation_sent : BOOLEAN, lockid : BOOLEAN]]
  /\ fork \in [Edges -> [owner : Vertex, dirty : BOOLEAN, requests : SUBSET Vertex]]
  /\ lock \in [Replica -> Thread \cup {NoOne}]
  /\ stack \in [Thread -> Seq(Frame)]
  /\ down \in [Mirror -> Seq(Message)] /\ up \in [Mirror -> Seq(Message)]
  /\ scatter \subseteq Mirror /\ awaited \subseteq Mirror
  /\ client \in [Vertex -> {"thinking", "hungry", "eating", "stopping"}]
  /\ meals \in [Vertex -> Nat] /\ \A v \in Vertex : meals[v] <= MaxMeals[v]

-----------------------------------------------------------------------------
(* Properties.                                                             *)

\* complete_consistency_check(), at every step and not only at rest: forks_acquired
\* counts the forks that the philosopher owns on its machine, ...
ForksCounted ==
  \A r \in Replica :
    phil[r].forks_acquired = Cardinality({e \in EdgesAt(r) : fork[e].owner = r[2]})

\* ... and one that is ready has them all, through all requests, cancellations and
\* late calls; so has one whose program is executed, on every machine.
ReadyHaveForks ==
  \A r \in Replica :
    phil[r].state = "hors_doeuvre" \/ client[r[2]] = "eating" => Full(phil, r)

\* Nothing is going on.
AtRest == (\A t \in Thread : Idle(t)) /\ (\A r \in Mirror : down[r] = << >> /\ up[r] = << >>)

\* complete_consistency_check() for the others that eat: they have all their forks.
EatersHaveForks ==
  AtRest => \A r \in Replica : phil[r].state = "eating" => Full(phil, r)

\* The places of members of P in the sequences of q.
Places(q, P) ==
  {p \in UNION {{j} \X DOMAIN q[j] : j \in DOMAIN q} : q[p[1]][p[2]] \in P}

\* Whom each thread still has to signal; its frames are counted from the outermost.
FrameAt(p) == stack[p[1]][Len(stack[p[1]]) + 1 - p[2]]
Listed ==
  [p \in Thread \X (1 .. 3) |->
     IF p[2] <= Len(stack[p[1]]) /\ FrameAt(p).op \in {"grab", "accept", "stop", "signal"}
     THEN FrameAt(p).ready ELSE << >>]

\* What the master of v still has to hear of: replicas that are or will be hungry,
\* and those whose rpc_signal_ready has not been counted.
HungryReplicas(v) == {r \in Replica : r[2] = v /\ phil[r].state = "hungry"}
Calling == [op : {"hungry"}, lockid : BOOLEAN] \cup [op : {"accept"}]
CallsTo(v) == Places([r \in MirrorsOf(v) |-> down[r]], Calling)
ReadyCalls(v) == Places([r \in MirrorsOf(v) |-> up[r]], [op : {"ready"}])
Accepting(v) == {t \in Thread : Doing(t, "accept") /\ At(t, "lock") /\ Top(t).v = v}
Owed(v) ==
  Cardinality(HungryReplicas(v)) + Cardinality(CallsTo(v)) + Cardinality(ReadyCalls(v))
  + Cardinality(Accepting(v)) + Cardinality(Places(Listed, {v}))

\* The master counts everybody it has to wait for, through cancellations granted,
\* refused and on their way: counter does not reach 0 while a replica is hungry, will
\* be, or has not been heard.
CounterCovers == \A v \in Vertex : Owed(v) <= phil[Master(v)].counter

\* A granted cancellation finds the replica ready but not eating: the assertion
\* that is commented out in cancellation_accept_unlocked().
CancelsOnlyTheReady ==
  /\ \A t \in Thread : Doing(t, "accept") /\ At(t, "lock")
                         => phil[Here(t)].state = "hors_doeuvre"
  /\ \A r \in Mirror : (\E i \in DOMAIN down[r] : down[r][i].op = "accept")
                         => phil[r].state = "hors_doeuvre"

\* local_philosopher_stops_eating() finds its philosopher eating; otherwise it
\* prints "FAILED!! Cannot Stop Eating!".
StopsOnlyTheEating ==
  \A t \in Thread :
    Doing(t, "stop") /\ At(t, "lock") => phil[Here(t)].state = "eating"

\* With late calls a mirror can be stopped before it eats; but it has been granted
\* all its forks and the master eats.
StopsOnlyTheServed ==
  \A t \in Thread :
    Doing(t, "stop") /\ At(t, "lock") =>
      /\ Full(phil, Here(t))
      /\ phil[Here(t)].state = "eating"
           \/ (phil[Here(t)].state = "hors_doeuvre" /\ Here(t) \in Mirror)

\* complete_consistency_check() for the hungry, when nothing is going on: a fork
\* they lack is with one that eats, or is clean with one that does not think.
ConsistentAtRest ==
  AtRest =>
       \A e \in Edges :
         LET has == phil[<<e.on, fork[e].owner>>].state
             lacks == phil[Across(<<e.on, fork[e].owner>>, e)].state
         IN  lacks = "hungry"
               => has = "eating" \/ (~fork[e].dirty /\ has # "thinking")

NX == INSTANCE NeighbourExclusion
        WITH Neighbours <- [v \in Vertex |-> {Other(e, v) : e \in
                              {d \in Edges : v \in {d.source, d.target}}}]

\* Neighbours, on whatever machines their edges are, never execute together:
\* forks, ready signals and cancellations implement the exclusion.
ImplementsExclusion == NX!Spec

\* async_consistent_engine.hpp: "adjacent vertices are never executed
\* simultaneously".
NeighboursExclude == NX!Exclusion

\* A vertex that asks for its locks gets them.
HungryEats == \A v \in Vertex : client[v] = "hungry" ~> client[v] = "eating"

=============================================================================
