---------------------------- MODULE FullBarrier ----------------------------
(***************************************************************************)
(* The barriers of dc_dist_object (rpc/dc_dist_object.hpp): the tree       *)
(* barrier with sense reversal, all_gather() on a tree of its own, and     *)
(* full_barrier(), which waits until every call issued before it has been  *)
(* run.  distributed_control::full_barrier() is a copy of it.              *)
(*                                                                         *)
(* One main thread per machine issues calls and enters full_barrier();     *)
(* RPC threads run the calls and count them in inc_calls_received().  The  *)
(* handlers of control calls hold the barrier's mutex for one short        *)
(* section each and are one step, except that the release of a barrier is  *)
(* forwarded before it is taken.                                           *)
(*                                                                         *)
(* As full_barrier() demands, no other thread issues calls meanwhile.      *)
(***************************************************************************)
EXTENDS Integers, Sequences, FiniteSets, Bags

CONSTANTS
  N,               \* numprocs()
  Branch,          \* BARRIER_BRANCH_FACTOR
  Handlers,        \* threads of one machine that run incoming calls
  MaxRounds,       \* bound: how often each machine calls full_barrier()
  MaxCalls         \* bound: calls each machine issues to each, in all

ASSUME ConstantsAssumption ==
  /\ N \in Nat \ {0, 1}
  /\ Branch \in Nat \ {0}
  /\ IsFiniteSet(Handlers)
  /\ MaxRounds \in Nat
  /\ MaxCalls \in [0 .. N-1 -> [0 .. N-1 -> Nat]]

Proc == 0 .. N-1
Tree == {"ab", "bar"}     \* ab_barrier_... of all_gather(), barrier_... of barrier()

VARIABLES
  \* tree barriers
  barrier_sense, child_barrier_counter, barrier_release,   \* per tree and machine
  ab_children_data, ab_alldata,
  \* call counters of the object
  callssent, callsreceived,
  \* full barrier
  calls_to_receive, num_proc_recvs_incomplete, procs_complete, full_barrier_in_effect,
  \* threads
  pc, round,       \* where the main thread is, and in which full_barrier()
  mine,            \* calls_sent_to_target
  handler,         \* what each RPC thread is doing
  \* network
  inflight,        \* calls on their way
  control,         \* control calls on their way, a bag
  \* history, of which no action takes notice
  late             \* sources a thread was counting a call of, for an earlier
                   \* full_barrier(), when the machine began this one

tree_vars  == <<barrier_sense, child_barrier_counter, barrier_release,
                ab_children_data, ab_alldata, control>>
count_vars == <<calls_to_receive, num_proc_recvs_incomplete, procs_complete,
                full_barrier_in_effect>>
call_vars  == <<callssent, inflight>>
vars == <<tree_vars, count_vars, call_vars, callsreceived, pc, round, mine, handler, late>>

-----------------------------------------------------------------------------
(* The tree.                                                               *)

\* The machines below p in a tree of n machines with b children each.
Children(n, b, p) == {c \in 0 .. n-1 : p * b + 1 <= c /\ c < p * b + 1 + b}
Parent(p) == (p - 1) \div Branch
numchild(p) == Cardinality(Children(N, Branch, p))

\* Mutant: coming back from below, the walk descends again.
HeapWalkUnblocked(n, b) ==
  [heappos \in 0 .. n-1 |-> IF heappos * b + 1 < n THEN heappos * b + 1 ELSE (heappos + 1) % n]

\* The walk of all_gather() from one heap position to the next: down the left
\* branch, else to the sibling, else up, where lefttraverseblock keeps it from
\* going down again.
HeapWalk(n, b) ==
  LET climb[heappos \in 0 .. n-1] ==
        LET right_branch == (heappos - 1) % b = b - 1
        IN  IF ~right_branch /\ heappos + 1 < n THEN heappos + 1
            ELSE IF heappos = 0 THEN 0     \* not reached: the walk is over
            ELSE climb[(heappos - 1) \div b]
  IN  [heappos \in 0 .. n-1 |-> IF heappos * b + 1 < n THEN heappos * b + 1 ELSE climb[heappos]]

\* The heap position at which all_gather() puts the i-th string.
HeapOrder(n, b) ==
  LET walk == HeapWalk(n, b)
      order[i \in 1 .. n] == IF i = 1 THEN 0 ELSE walk[order[i - 1]]
  IN  order

-----------------------------------------------------------------------------
NoCalls == [q \in Proc |-> 0]
Idle == [at |-> "idle", from |-> 0, t |-> 0]

Init ==
  /\ barrier_sense = [b \in Tree |-> [p \in Proc |-> 1]]
  /\ child_barrier_counter = [b \in Tree |-> [p \in Proc |-> 0]]
  /\ barrier_release = [b \in Tree |-> [p \in Proc |-> -1]]
  /\ ab_children_data = [p \in Proc |-> [c \in Children(N, Branch, p) |-> <<>>]]
  /\ ab_alldata = [p \in Proc |-> <<>>]
  /\ callssent = [p \in Proc |-> NoCalls]
  /\ callsreceived = [p \in Proc |-> NoCalls]
  /\ calls_to_receive = [p \in Proc |-> NoCalls]
  /\ num_proc_recvs_incomplete = [p \in Proc |-> 0]
  /\ procs_complete = [p \in Proc |-> {}]
  /\ full_barrier_in_effect = [p \in Proc |-> FALSE]
  /\ pc = [p \in Proc |-> "run"]
  /\ round = [p \in Proc |-> 0]
  /\ mine = [p \in Proc |-> NoCalls]
  /\ handler = [p \in Proc |-> [h \in Handlers |-> Idle]]
  /\ inflight = [p \in Proc |-> NoCalls]
  /\ control = EmptyBag
  /\ late = [p \in Proc |-> {}]

Goto(p, label) == pc' = [pc EXCEPT ![p] = label]

\* Control calls taken off the network, and put on it.
Control(taken, sent) == control' = (control (-) SetToBag(taken)) (+) SetToBag(sent)

Trigger(b, p, data) == [op |-> "trigger", tree |-> b, from |-> p, to |-> Parent(p), data |-> data]
Release(b, c, val, data) == [op |-> "release", tree |-> b, to |-> c, val |-> val, data |-> data]
Releases(b, p, val, data) == {Release(b, c, val, data) : c \in Children(N, Branch, p)}

-----------------------------------------------------------------------------
(* Entering and leaving a tree barrier.                                    *)

ChildrenArrived(b, p) ==
  \/ barrier_sense[b][p] = -1 /\ child_barrier_counter[b][p] = 0
  \/ barrier_sense[b][p] = 1 /\ child_barrier_counter[b][p] = numchild(p)

\* What p sends up, or the root down: its own string, then those of its children.
Collected(b, p) ==
  IF b = "bar" THEN <<>>
  ELSE LET cat[k \in 0 .. numchild(p)] ==
             IF k = 0 THEN <<mine[p]>>
             ELSE cat[k - 1] \o ab_children_data[p][p * Branch + k]
       IN  cat[numchild(p)]

\* All children are in: flip the sense and tell the parent, or as the root
\* release the tree.  Nobody looks at what changes after the mutex is given up.
EnterTree(b, p) ==
  LET val  == barrier_sense[b][p]
      data == Collected(b, p)
  IN
  /\ ChildrenArrived(b, p)
  /\ barrier_sense' = [barrier_sense EXCEPT ![b][p] = -val]
  /\ IF p # 0
     THEN /\ Control({}, {Trigger(b, p, data)})
          /\ UNCHANGED <<barrier_release, ab_alldata>>
     ELSE /\ barrier_release' = [barrier_release EXCEPT ![b][p] = val]
          /\ ab_alldata' = IF b = "ab" THEN [ab_alldata EXCEPT ![p] = data] ELSE ab_alldata
          /\ Control({}, Releases(b, p, val, data))
  /\ UNCHANGED <<child_barrier_counter, ab_children_data>>

\* barrier_release == barrier_val, the sense before the flip.
Released(b, p) == barrier_release[b][p] = -barrier_sense[b][p]

\* __child_to_parent_barrier_trigger and its all_gather twin.
ChildToParentBarrierTrigger(p) ==
  \E msg \in BagToSet(control) :
    /\ msg.op = "trigger" /\ msg.to = p
    /\ Control({msg}, {})
    /\ child_barrier_counter' =
         [child_barrier_counter EXCEPT ![msg.tree][p] = @ + barrier_sense[msg.tree][p]]
    /\ ab_children_data' = IF msg.tree = "ab"
                           THEN [ab_children_data EXCEPT ![p][msg.from] = msg.data]
                           ELSE ab_children_data
    /\ UNCHANGED <<barrier_sense, barrier_release, ab_alldata, count_vars, call_vars,
                   callsreceived, pc, round, mine, handler, late>>

\* __parent_to_child_barrier_release and its all_gather twin: a machine that has
\* children forwards the release first ...
ForwardRelease(p) ==
  \E msg \in BagToSet(control) :
    /\ msg.op = "release" /\ msg.to = p /\ numchild(p) > 0
    /\ ab_alldata' = IF msg.tree = "ab" THEN [ab_alldata EXCEPT ![p] = msg.data]
                                        ELSE ab_alldata
    /\ Control({msg}, {[msg EXCEPT !.op = "forwarded"]}
                      \cup Releases(msg.tree, p, msg.val, msg.data))
    /\ UNCHANGED <<barrier_sense, child_barrier_counter, barrier_release, ab_children_data,
                   count_vars, call_vars, callsreceived, pc, round, mine, handler, late>>

\* ... and then takes it, under the mutex.
TakeRelease(p) ==
  \E msg \in BagToSet(control) :
    /\ msg.op = (IF numchild(p) > 0 THEN "forwarded" ELSE "release") /\ msg.to = p
    /\ ab_alldata' = IF msg.tree = "ab" /\ msg.op = "release"
                     THEN [ab_alldata EXCEPT ![p] = msg.data] ELSE ab_alldata
    /\ barrier_release' = [barrier_release EXCEPT ![msg.tree][p] = msg.val]
    /\ Control({msg}, {})
    /\ UNCHANGED <<barrier_sense, child_barrier_counter, ab_children_data,
                   count_vars, call_vars, callsreceived, pc, round, mine, handler, late>>

-----------------------------------------------------------------------------
(* full_barrier(), one step for each access to what the handlers share.    *)

\* The program issues a call; it is counted before it is written.
RemoteCall(p, q) ==
  /\ pc[p] = "run" /\ round[p] < MaxRounds
  /\ callssent[p][q] < MaxCalls[p][q]
  /\ callssent' = [callssent EXCEPT ![p][q] = @ + 1]
  /\ inflight' = [inflight EXCEPT ![p][q] = @ + 1]
  /\ UNCHANGED <<tree_vars, count_vars, callsreceived, pc, round, mine, handler, late>>

Counting == {"counted", "compare", "set bit", "dec"}

\* A thread that has found a barrier in effect and may set the bit of its source.
\* Nothing makes full_barrier() wait for it, and it may do so in a later one.
Alerted == {"inc in effect", "compare", "set bit"}
CountedLate(p) ==
  {q \in Proc : \E h \in Handlers : handler[p][h].from = q /\ handler[p][h].at \in Alerted}

BeginFullBarrier(p) ==
  /\ pc[p] = "run" /\ round[p] < MaxRounds
  /\ late' = [late EXCEPT ![p] = CountedLate(p)]
  /\ round' = [round EXCEPT ![p] = @ + 1]
  /\ mine' = [mine EXCEPT ![p] = callssent[p]]
  /\ Goto(p, "gather")
  /\ UNCHANGED <<tree_vars, count_vars, call_vars, callsreceived, handler>>

AllGather(p) ==
  /\ pc[p] = "gather"
  /\ EnterTree("ab", p)
  /\ Goto(p, "gather wait")
  /\ UNCHANGED <<count_vars, call_vars, callsreceived, round, mine, handler, late>>

\* calls_to_receive is cleared before it is filled; handlers may be reading it.
ClearCallsToReceive(p) ==
  /\ pc[p] = "gather wait"
  /\ Released("ab", p)
  /\ calls_to_receive' = [calls_to_receive EXCEPT ![p] = NoCalls]
  /\ Goto(p, "fill")
  /\ UNCHANGED <<tree_vars, num_proc_recvs_incomplete, procs_complete, full_barrier_in_effect,
                 call_vars, callsreceived, round, mine, handler, late>>

\* Where in the strings received that of each machine is, as all_gather() unpacks them.
StringOf == LET order == HeapOrder(N, Branch)
            IN  [q \in Proc |-> CHOOSE i \in 1 .. N : order[i] = q]

AllCallsSent(p) == [q \in Proc |-> ab_alldata[p][StringOf[q]]]

\* Mutant: the row of the matrix that p has sent instead of its column.
CallsToReceiveTransposed(p) == AllCallsSent(p)[p]

CallsToReceive(p) == [q \in Proc |-> AllCallsSent(p)[q][p]]

FillCallsToReceive(p) ==
  /\ pc[p] = "fill"
  /\ calls_to_receive' = [calls_to_receive EXCEPT ![p] = CallsToReceive(p)]
  /\ Goto(p, "reset")
  /\ UNCHANGED <<tree_vars, num_proc_recvs_incomplete, procs_complete, full_barrier_in_effect,
                 call_vars, callsreceived, round, mine, handler, late>>

ResetIncomplete(p) ==
  /\ pc[p] = "reset"
  /\ num_proc_recvs_incomplete' = [num_proc_recvs_incomplete EXCEPT ![p] = N]
  /\ Goto(p, "clear")
  /\ UNCHANGED <<tree_vars, calls_to_receive, procs_complete, full_barrier_in_effect,
                 call_vars, callsreceived, round, mine, handler, late>>

ClearComplete(p) ==
  /\ pc[p] = "clear"
  /\ procs_complete' = [procs_complete EXCEPT ![p] = {}]
  /\ Goto(p, "activate")
  /\ UNCHANGED <<tree_vars, calls_to_receive, num_proc_recvs_incomplete,
                 full_barrier_in_effect, call_vars, callsreceived, round, mine, handler, late>>

Activate(p) ==
  /\ pc[p] = "activate"
  /\ full_barrier_in_effect' = [full_barrier_in_effect EXCEPT ![p] = TRUE]
  /\ Goto(p, "pass")
  /\ UNCHANGED <<tree_vars, calls_to_receive, num_proc_recvs_incomplete, procs_complete,
                 call_vars, callsreceived, round, mine, handler, late>>

\* The pass over the counters: what has been received already is complete.  The
\* machines do not depend on each other and are taken in one step.
Pass(p) ==
  LET received == {q \in Proc : callsreceived[p][q] >= calls_to_receive[p][q]} IN
  /\ pc[p] = "pass"
  /\ procs_complete' = [procs_complete EXCEPT ![p] = @ \cup received]
  /\ num_proc_recvs_incomplete' =
       [num_proc_recvs_incomplete EXCEPT ![p] = @ - Cardinality(received \ procs_complete[p])]
  /\ Goto(p, "check")
  /\ UNCHANGED <<tree_vars, calls_to_receive, full_barrier_in_effect, call_vars,
                 callsreceived, round, mine, handler, late>>

\* The test of the waiting loop, under full_barrier_lock, and the wait.
CheckIncomplete(p) ==
  /\ pc[p] = "check"
  /\ Goto(p, IF num_proc_recvs_incomplete[p] > 0 THEN "asleep" ELSE "deactivate")
  /\ UNCHANGED <<tree_vars, count_vars, call_vars, callsreceived, round, mine, handler, late>>

\* Mutant: without the barrier() at the end.
DeactivateAndReturn(p) ==
  /\ pc[p] = "deactivate"
  /\ full_barrier_in_effect' = [full_barrier_in_effect EXCEPT ![p] = FALSE]
  /\ Goto(p, "run")
  /\ UNCHANGED <<tree_vars, calls_to_receive, num_proc_recvs_incomplete, procs_complete,
                 call_vars, callsreceived, round, mine, handler, late>>

Deactivate(p) ==
  /\ pc[p] = "deactivate"
  /\ full_barrier_in_effect' = [full_barrier_in_effect EXCEPT ![p] = FALSE]
  /\ Goto(p, "barrier")
  /\ UNCHANGED <<tree_vars, calls_to_receive, num_proc_recvs_incomplete, procs_complete,
                 call_vars, callsreceived, round, mine, handler, late>>

Barrier(p) ==
  /\ pc[p] = "barrier"
  /\ EnterTree("bar", p)
  /\ Goto(p, "barrier wait")
  /\ UNCHANGED <<count_vars, call_vars, callsreceived, round, mine, handler, late>>

Return(p) ==
  /\ pc[p] = "barrier wait"
  /\ Released("bar", p)
  /\ Goto(p, "run")
  /\ UNCHANGED <<tree_vars, count_vars, call_vars, callsreceived, round, mine, handler, late>>

-----------------------------------------------------------------------------
(* An RPC thread: it runs a call, then inc_calls_received(from).           *)

HandlerAt(p, h, label) == handler[p][h].at = label
HandlerGoto(p, h, label) == handler' = [handler EXCEPT ![p][h].at = label]

ReceiveCall(p, h) ==
  \E q \in Proc :
    /\ HandlerAt(p, h, "idle")
    /\ inflight[q][p] > 0
    /\ inflight' = [inflight EXCEPT ![q][p] = @ - 1]
    /\ handler' = [handler EXCEPT ![p][h] = [at |-> "running", from |-> q, t |-> 0]]
    /\ UNCHANGED <<tree_vars, count_vars, callssent, callsreceived, pc, round, mine, late>>

\* The call has been run; the first look at full_barrier_in_effect.
CallReturns(p, h) ==
  /\ HandlerAt(p, h, "running")
  /\ HandlerGoto(p, h, IF full_barrier_in_effect[p] THEN "inc in effect" ELSE "inc")
  /\ UNCHANGED <<tree_vars, count_vars, call_vars, callsreceived, pc, round, mine, late>>

IncCallsReceived(p, h) ==
  LET q == handler[p][h].from IN
  /\ handler[p][h].at \in {"inc", "inc in effect"}
  /\ callsreceived' = [callsreceived EXCEPT ![p][q] = @ + 1]
  /\ handler' = [handler EXCEPT ![p][h].at = IF @ = "inc" THEN "counted" ELSE "compare",
                                ![p][h].t  = callsreceived[p][q] + 1]
  /\ UNCHANGED <<tree_vars, count_vars, call_vars, pc, round, mine, late>>

\* The second look, for a barrier that took effect meanwhile.
LookAgain(p, h) ==
  /\ HandlerAt(p, h, "counted")
  /\ HandlerGoto(p, h, IF full_barrier_in_effect[p] THEN "compare" ELSE "idle")
  /\ UNCHANGED <<tree_vars, count_vars, call_vars, callsreceived, pc, round, mine, late>>

\* Mutant: a call before the last one completes the machine.
CompareAtMost(p, h) ==
  LET q == handler[p][h].from IN
  /\ HandlerAt(p, h, "compare")
  /\ HandlerGoto(p, h, IF handler[p][h].t <= calls_to_receive[p][q] THEN "set bit" ELSE "idle")
  /\ UNCHANGED <<tree_vars, count_vars, call_vars, callsreceived, pc, round, mine, late>>

Compare(p, h) ==
  LET q == handler[p][h].from IN
  /\ HandlerAt(p, h, "compare")
  /\ HandlerGoto(p, h, IF handler[p][h].t = calls_to_receive[p][q] THEN "set bit" ELSE "idle")
  /\ UNCHANGED <<tree_vars, count_vars, call_vars, callsreceived, pc, round, mine, late>>

\* Mutant: the old value of the bit is ignored.
SetBitAlways(p, h) ==
  LET q == handler[p][h].from IN
  /\ HandlerAt(p, h, "set bit")
  /\ procs_complete' = [procs_complete EXCEPT ![p] = @ \cup {q}]
  /\ HandlerGoto(p, h, "dec")
  /\ UNCHANGED <<tree_vars, calls_to_receive, num_proc_recvs_incomplete,
                 full_barrier_in_effect, call_vars, callsreceived, pc, round, mine, late>>

SetBit(p, h) ==
  LET q == handler[p][h].from IN
  /\ HandlerAt(p, h, "set bit")
  /\ procs_complete' = [procs_complete EXCEPT ![p] = @ \cup {q}]
  /\ HandlerGoto(p, h, IF q \in procs_complete[p] THEN "idle" ELSE "dec")
  /\ UNCHANGED <<tree_vars, calls_to_receive, num_proc_recvs_incomplete,
                 full_barrier_in_effect, call_vars, callsreceived, pc, round, mine, late>>

\* Mutant: it signals as long as machines are incomplete.
SignalCompleteEarly(p) == num_proc_recvs_incomplete[p] > 1

SignalComplete(p) == num_proc_recvs_incomplete[p] = 1

\* Under full_barrier_lock: the last one to complete wakes the main thread.
DecIncomplete(p, h) ==
  /\ HandlerAt(p, h, "dec")
  /\ num_proc_recvs_incomplete' = [num_proc_recvs_incomplete EXCEPT ![p] = @ - 1]
  /\ IF SignalComplete(p) /\ pc[p] = "asleep" THEN Goto(p, "check") ELSE UNCHANGED pc
  /\ HandlerGoto(p, h, "idle")
  /\ UNCHANGED <<tree_vars, calls_to_receive, procs_complete, full_barrier_in_effect,
                 call_vars, callsreceived, round, mine, late>>

-----------------------------------------------------------------------------
MainStep(p) ==
  \/ BeginFullBarrier(p) \/ AllGather(p) \/ ClearCallsToReceive(p) \/ FillCallsToReceive(p)
  \/ ResetIncomplete(p) \/ ClearComplete(p) \/ Activate(p) \/ Pass(p) \/ CheckIncomplete(p)
  \/ Deactivate(p) \/ Barrier(p) \/ Return(p)

ControlStep(p) ==
  ChildToParentBarrierTrigger(p) \/ ForwardRelease(p) \/ TakeRelease(p)

HandlerStep(p, h) ==
  \/ ReceiveCall(p, h) \/ CallReturns(p, h) \/ IncCallsReceived(p, h) \/ LookAgain(p, h)
  \/ Compare(p, h) \/ SetBit(p, h) \/ DecIncomplete(p, h)

\* Every machine has returned from its last full_barrier() and nothing is left.
Terminated ==
  /\ \A p \in Proc : /\ pc[p] = "run" /\ round[p] = MaxRounds
                     /\ \A h \in Handlers : HandlerAt(p, h, "idle")
  /\ control = EmptyBag
  /\ UNCHANGED vars

Next ==
  \/ \E p \in Proc :
       \/ MainStep(p) \/ ControlStep(p)
       \/ \E q \in Proc : RemoteCall(p, q)
       \/ \E h \in Handlers : HandlerStep(p, h)
  \/ Terminated

Spec == Init /\ [][Next]_vars

-----------------------------------------------------------------------------
MainLabels == {"run", "gather", "gather wait", "fill", "reset", "clear", "activate", "pass",
               "check", "asleep", "deactivate", "barrier", "barrier wait"}
Counts == [Proc -> Nat]

TypeOK ==
  /\ barrier_sense \in [Tree -> [Proc -> {1, -1}]]
  /\ child_barrier_counter \in [Tree -> [Proc -> 0 .. Branch]]
  /\ barrier_release \in [Tree -> [Proc -> {1, -1}]]
  /\ \A p \in Proc : /\ ab_children_data[p] \in [Children(N, Branch, p) -> Seq(Counts)]
                     /\ ab_alldata[p] \in Seq(Counts)
  /\ callssent \in [Proc -> Counts]
  /\ callsreceived \in [Proc -> Counts]
  /\ inflight \in [Proc -> Counts]
  /\ calls_to_receive \in [Proc -> Counts]
  /\ num_proc_recvs_incomplete \in [Proc -> 0 .. N]
  /\ procs_complete \in [Proc -> SUBSET Proc]
  /\ full_barrier_in_effect \in [Proc -> BOOLEAN]
  /\ pc \in [Proc -> MainLabels]
  /\ round \in [Proc -> 0 .. MaxRounds]
  /\ mine \in [Proc -> Counts]
  /\ handler \in [Proc -> [Handlers ->
       [at : Counting \cup {"idle", "running", "inc", "inc in effect"},
        from : Proc, t : Nat]]]
  /\ \A msg \in BagToSet(control) : control[msg] = 1
  /\ late \in [Proc -> SUBSET Proc]

-----------------------------------------------------------------------------
(* Properties.                                                             *)

\* The calls from q that p has run, whether or not they are counted yet.
Executed(q, p) ==
  callssent[q][p] - inflight[q][p]
    - Cardinality({h \in Handlers : HandlerAt(p, h, "running") /\ handler[p][h].from = q})

\* "all calls issued prior to this barrier are completed before returning"
\* (dc.hpp, full_barrier()): once p has stopped waiting it has run every call
\* that the others told it they had issued.
CompletedBeforeReturn ==
  \A p \in Proc : pc[p] \in {"deactivate", "barrier", "barrier wait"} =>
    \A q \in Proc : Executed(q, p) >= calls_to_receive[p][q]

\* What the code does keep of it: the calls of a source are missed only when a
\* thread was still counting one of them, for an earlier full_barrier(), as this
\* one began (dc_dist_object.hpp:137-175 against 1480-1520).
CompletedUnlessLate ==
  \A p \in Proc : pc[p] \in {"deactivate", "barrier", "barrier wait"} =>
    \A q \in Proc \ late[p] : Executed(q, p) >= calls_to_receive[p][q]

\* all_gather() gives every machine what each contributed to this round,
\* whatever shape the tree has and however early a child is in the next round.
GatherAgrees ==
  \A p, q \in Proc :
    /\ pc[p] \in {"reset", "clear", "activate", "pass", "check", "asleep"}
    /\ round[q] = round[p]
    => calls_to_receive[p][q] = mine[q][p]

\* The strings of a tree of n machines in the order they are concatenated on
\* their way to the root.
Preorder(n, b) ==
  LET cat[p \in 0 .. n-1, k \in 0 .. b] ==
        IF k = 0 THEN <<p>>
        ELSE IF p * b + k < n THEN cat[p, k - 1] \o cat[p * b + k, b]
                              ELSE cat[p, k - 1]
  IN  cat[0, b]

TreesUnpack ==
  \A n \in 2 .. 40, b \in 1 .. 6 : \A i \in 1 .. n : HeapOrder(n, b)[i] = Preorder(n, b)[i]

\* When all_gather() unpacks the strings it puts each at the position of the
\* machine that sent it, for every tree of up to 40 machines with up to 6 children.
UnpacksInOrder == (\E p \in Proc : pc[p] = "fill") => TreesUnpack

\* Every variable has its type, and the count of machines that are not complete
\* is that of the bits not set, but for the threads on their way to decrease it
\* (dc_dist_object.hpp:138-155 against 1497-1520).
IncompleteCounted ==
  /\ TypeOK
  /\ \A p \in Proc : pc[p] \in {"pass", "check", "asleep", "deactivate"} =>
       num_proc_recvs_incomplete[p] =
         N - Cardinality(procs_complete[p])
           + Cardinality({h \in Handlers : HandlerAt(p, h, "dec")})

Left(p) == IF pc[p] = "run" THEN round[p] ELSE round[p] - 1

\* The calls from q that p has run and counted to the end.
Settled(q, p) ==
  callssent[q][p] - inflight[q][p]
    - Cardinality({h \in Handlers : ~HandlerAt(p, h, "idle") /\ handler[p][h].from = q})

CB == INSTANCE CallBarrier
        WITH entered  <- round,
             left     <- [p \in Proc |-> Left(p)],
             issued   <- callssent,
             executed <- [p \in Proc |-> [q \in Proc |-> Executed(p, q)]],
             settled  <- [p \in Proc |-> [q \in Proc |-> Settled(p, q)]],
             missed   <- late

\* Two trees, two counters and a waiting loop per machine implement a barrier
\* that nobody leaves before everybody is in and every call issued so far, by
\* any machine to any other, has been run, but for the sources whose calls were
\* not all settled when the machine entered.
ImplementsCallBarrier == CB!Spec

\* Calls of q are missing, or a thread of p that has counted one has yet to see to
\* its bit and to the count.
StillCounting(p, q) ==
  \/ callsreceived[p][q] < calls_to_receive[p][q]
  \/ \E h \in Handlers : handler[p][h].from = q /\ handler[p][h].at \in Counting

\* No wake-up is lost: a machine sleeps only as long as the count is not 0, and only
\* while there is a machine whose calls are missing or still being counted, so that
\* somebody will make it 0 and find the sleeper, whether a handler's look at
\* full_barrier_in_effect came before or after the pass.
WakesWhenComplete ==
  \A p \in Proc : pc[p] = "asleep" =>
    /\ num_proc_recvs_incomplete[p] > 0
    /\ \E q \in Proc : StillCounting(p, q)

=============================================================================
