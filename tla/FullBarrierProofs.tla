------------------------- MODULE FullBarrierProofs -------------------------
(***************************************************************************)
(* For every number of machines, branch factor, number of handler threads, *)
(* rounds and calls, full_barrier() is a call barrier: it implements       *)
(* CallBarrier, and with it what the runs of FullBarrier check.            *)
(*                                                                         *)
(* The invariant has three parts.  The tree: where each machine is in the  *)
(* two tree barriers bounds where the others are, and says which control   *)
(* calls are on their way (TreeInv).  The strings: each call of            *)
(* all_gather() carries those of a subtree, each at the place at which the *)
(* walk looks for it (Gathered), so that every machine knows what it will  *)
(* receive (Told).  The counters: no call is lost (CallsConserved), and    *)
(* the count of incomplete machines is what it says (Waits).  The last     *)
(* part excepts the machines in late[p]: a handler that has found one      *)
(* full_barrier() in effect and is still there when the next one begins    *)
(* can set the bit of a machine for a round whose numbers it has not read. *)
(***************************************************************************)
EXTENDS FullBarrier, FiniteSetTheorems, WellFoundedInduction, TLAPS

-----------------------------------------------------------------------------
(* Arithmetic and finite sets.                                             *)

LEMMA NatMin ==
  ASSUME NEW T, T \subseteq Nat, T # {}
  PROVE  \E x \in T : \A y \in T : x <= y
<1> DEFINE R == OpToRel(<, Nat)
<1>1. IsWellFoundedOn(R, Nat) BY NatLessThanWellFounded
<1>2. \E x \in T : \A y \in T : ~ (<<y, x>> \in R) 
  <2> HIDE DEF R
  <2> QED BY <1>1, WFMin
<1>3. R = {ss \in Nat \X Nat : ss[1] < ss[2]} BY DEF OpToRel
<1>4. PICK x \in T : \A y \in T : ~ (<<y, x>> \in R) BY <1>2
<1>5. \A y \in T : ~ (y < x) BY <1>3, <1>4
<1> HIDE DEF R
<1> QED BY <1>5

\* A set of naturals with 0 that is closed under successor holds all of them.
LEMMA NatSetInduction ==
  ASSUME NEW S, 0 \in S, \A n \in Nat : n \in S => n + 1 \in S
  PROVE  Nat \subseteq S
<1> SUFFICES ASSUME Nat \ S # {} PROVE FALSE OBVIOUS
<1>1. PICK x \in Nat \ S : \A y \in Nat \ S : x <= y BY NatMin
<1> QED BY <1>1, x - 1 \in Nat

LEMMA ProcFacts ==
  /\ IsFiniteSet(Proc) /\ Cardinality(Proc) = N /\ N \in Nat /\ N > 1
  /\ Proc \subseteq Nat /\ 0 \in Proc
  /\ \A S \in SUBSET Proc : /\ IsFiniteSet(S) /\ Cardinality(S) \in 0 .. N
                            /\ Cardinality(S) = N => S = Proc
<1>1. N \in Nat /\ N > 1 BY ConstantsAssumption
<1>2. IsFiniteSet(Proc) /\ Cardinality(Proc) = N BY <1>1, FS_Interval DEF Proc
<1>3. ASSUME NEW S \in SUBSET Proc
      PROVE  /\ IsFiniteSet(S) /\ Cardinality(S) \in 0 .. N
             /\ Cardinality(S) = N => S = Proc BY <1>1, <1>2, FS_Subset, FS_CardinalityType
<1> QED BY <1>1, <1>2, <1>3 DEF Proc

LEMMA HandlerSets ==
  ASSUME NEW S \in SUBSET Handlers
  PROVE  /\ IsFiniteSet(S) /\ Cardinality(S) \in Nat
         /\ Cardinality(S) = 0 <=> S = {}
         /\ \A h \in Handlers \ S : Cardinality(S \cup {h}) = Cardinality(S) + 1
         /\ \A h \in S : Cardinality(S \ {h}) = Cardinality(S) - 1
<1>1. IsFiniteSet(S) BY ConstantsAssumption, FS_Subset
<1> QED BY <1>1, FS_CardinalityType, FS_EmptySet, FS_AddElement, FS_RemoveElement

-----------------------------------------------------------------------------
(* Types.                                                                  *)

HandlerLabels == Counting \cup {"idle", "running", "inc", "inc in effect"}

HandlerState == [at : HandlerLabels, from : Proc, t : Nat]

\* What the strings hold is typed by what they are, below.
Typed ==
  /\ callssent \in [Proc -> Counts]
  /\ callsreceived \in [Proc -> Counts]
  /\ inflight \in [Proc -> Counts]
  /\ calls_to_receive \in [Proc -> Counts]
  /\ mine \in [Proc -> Counts]
  /\ num_proc_recvs_incomplete \in [Proc -> Int]
  /\ procs_complete \in [Proc -> SUBSET Proc]
  /\ full_barrier_in_effect \in [Proc -> BOOLEAN]
  /\ pc \in [Proc -> MainLabels]
  /\ round \in [Proc -> 0 .. MaxRounds]
  /\ handler \in [Proc -> [Handlers -> HandlerState]]
  /\ barrier_sense \in [Tree -> [Proc -> {1, -1}]]
  /\ child_barrier_counter \in [Tree -> [Proc -> Int]]
  /\ barrier_release \in [Tree -> [Proc -> {1, -1}]]
  /\ late \in [Proc -> SUBSET Proc]

\* What FillCallsToReceive() needs of all_gather().
Unpacked == \A p \in Proc : pc[p] = "fill" => CallsToReceive(p) \in Counts

LEMMA TypedInit == Init => Typed
BY ConstantsAssumption DEF Init, Typed, Counts, NoCalls, MainLabels, HandlerState, HandlerLabels, Idle, Proc, Tree

-----------------------------------------------------------------------------
(* Calls and their counters.                                               *)

\* The handlers that have a call of q and have not counted it yet.
Owes(s, q) == s.at \in {"running", "inc", "inc in effect"} /\ s.from = q
Owing(p, q) == {h \in Handlers : Owes(handler[p][h], q)}

\* Every call issued is on its way, with a handler, or counted.
CallsConserved ==
  \A p, q \in Proc :
    callssent[q][p] = inflight[q][p] + Cardinality(Owing(p, q)) + callsreceived[p][q]

\* A main thread that has not activated a full barrier yet.
First(p) ==
  \/ pc[p] = "run" /\ round[p] = 0
  \/ pc[p] \in {"gather", "gather wait", "fill", "reset", "clear", "activate"} /\ round[p] = 1

\* Between two full barriers, with what the last one has left.
Between == {"deactivate", "barrier", "barrier wait", "run", "gather", "gather wait", "fill",
            "reset", "clear"}

Decreasing(p) == {h \in Handlers : handler[p][h].at = "dec"}

\* From the beginning of a full_barrier() until it takes effect.
Preparing == {"gather", "gather wait", "fill", "reset", "clear", "activate"}

\* What a handler in inc_calls_received() knows of what it has read.  Only a late one
\* has found a barrier in effect that is not the one being prepared.
HandlersKnow(p) ==
  \A h \in Handlers :
    LET q == handler[p][h].from
        t == handler[p][h].t IN
    /\ handler[p][h].at \in Counting => t <= callsreceived[p][q]
    /\ q \notin late[p] /\ pc[p] \in Preparing => handler[p][h].at \notin Alerted
    /\ q \notin late[p] /\ handler[p][h].at = "set bit" => t = calls_to_receive[p][q]

\* Before the first barrier takes effect no handler looks for it to be complete.
Untouched(p) ==
  First(p) =>
    /\ procs_complete[p] = {}
    /\ \A h \in Handlers : handler[p][h].at \in {"idle", "running", "inc", "counted"}

\* When it is over, and until the next, everything is complete and nobody says so.
Over(p) ==
  /\ pc[p] \in Between /\ ~First(p) => procs_complete[p] = Proc
  /\ pc[p] \in Between => Decreasing(p) = {}

\* A machine that is complete has been received from, unless a handler was late.
Settling == {"activate", "pass", "check", "asleep", "deactivate", "barrier", "barrier wait", "run"}
Complete(p) ==
  pc[p] \in Settling =>
    \A q \in procs_complete[p] \ late[p] : callsreceived[p][q] >= calls_to_receive[p][q]

\* After the pass, whoever received the last call of a machine sees to its bit.
LastOf(p, h, q) ==
  /\ handler[p][h].from = q /\ handler[p][h].t = calls_to_receive[p][q]
  /\ handler[p][h].at \in {"counted", "compare", "set bit"}
Found(p) ==
  pc[p] \in {"check", "asleep"} =>
    \A q \in Proc \ procs_complete[p] :
      callsreceived[p][q] >= calls_to_receive[p][q] => \E h \in Handlers : LastOf(p, h, q)

Counter(p) ==
  /\ pc[p] \in {"activate", "pass", "check", "asleep", "deactivate"} =>
       num_proc_recvs_incomplete[p] =
         N - Cardinality(procs_complete[p]) + Cardinality(Decreasing(p))
  /\ pc[p] = "clear" => num_proc_recvs_incomplete[p] = N
  /\ pc[p] = "asleep" => num_proc_recvs_incomplete[p] > 0

InEffect(p) ==
  full_barrier_in_effect[p] <=> pc[p] \in {"pass", "check", "asleep", "deactivate"}

\* Rounds begin at 1.
Rounds(p) == pc[p] # "run" => round[p] > 0

Waits(p) ==
  /\ HandlersKnow(p) /\ Untouched(p) /\ Over(p) /\ Complete(p) /\ Found(p)
  /\ Counter(p) /\ InEffect(p) /\ Rounds(p)

LEMMA WaitsInit == Init => CallsConserved /\ \A p \in Proc : Waits(p)
<1> SUFFICES ASSUME Init PROVE CallsConserved /\ \A p \in Proc : Waits(p) OBVIOUS
<1>1. \A p \in Proc : \A h \in Handlers : handler[p][h].at = "idle" BY DEF Init, Idle
<1>2. ASSUME NEW p \in Proc, NEW q \in Proc PROVE Owing(p, q) = {} BY <1>1 DEF Owing, Owes
<1>3. \A p \in Proc : Decreasing(p) = {} BY <1>1 DEF Decreasing
<1>4. Cardinality({}) = 0 BY FS_EmptySet
<1>5. ASSUME NEW p \in Proc, NEW q \in Proc
      PROVE  callssent[q][p] = 0 /\ inflight[q][p] = 0 /\ callsreceived[p][q] = 0 BY DEF Init, NoCalls
<1>6. CallsConserved BY <1>2, <1>4, <1>5 DEF CallsConserved
<1>7. ASSUME NEW p \in Proc PROVE Waits(p)
  BY <1>1, <1>3, <1>4 DEF Init, Waits, HandlersKnow, Untouched, Over, Complete, Counter,
     Found, InEffect, Rounds, First, Between, Counting, Alerted
<1> QED BY <1>6, <1>7

-----------------------------------------------------------------------------
(* Types are kept.                                                         *)

\* A table of a table, changed in one place.
LEMMA Update ==
  ASSUME NEW A, NEW B, NEW S, NEW f \in [A -> [B -> S]], NEW a \in A, NEW b \in B, NEW s \in S
  PROVE  /\ [f EXCEPT ![a][b] = s] \in [A -> [B -> S]]
         /\ [f EXCEPT ![a][b] = s][a][b] = s
         /\ \A x \in A, y \in B : x # a \/ y # b => [f EXCEPT ![a][b] = s][x][y] = f[x][y] OBVIOUS

LEMMA TreeTyped ==
  ASSUME Typed, NEW b \in Tree, NEW p \in Proc, EnterTree(b, p)
  PROVE  /\ barrier_sense' \in [Tree -> [Proc -> {1, -1}]]
         /\ barrier_release' \in [Tree -> [Proc -> {1, -1}]]
         /\ child_barrier_counter' = child_barrier_counter
<1> DEFINE val == barrier_sense[b][p]
<1>1. val \in {1, -1} /\ -val \in {1, -1} BY DEF Typed
<1>2. /\ barrier_sense' = [barrier_sense EXCEPT ![b][p] = -val]
      /\ \/ barrier_release' = barrier_release
         \/ barrier_release' = [barrier_release EXCEPT ![b][p] = val]
      /\ child_barrier_counter' = child_barrier_counter BY DEF EnterTree
<1>3. /\ barrier_sense \in [Tree -> [Proc -> {1, -1}]]
      /\ barrier_release \in [Tree -> [Proc -> {1, -1}]] BY DEF Typed
<1> HIDE DEF val
<1>4. barrier_sense' \in [Tree -> [Proc -> {1, -1}]] BY <1>1, <1>2, <1>3, Update
<1>5. barrier_release' \in [Tree -> [Proc -> {1, -1}]] BY SMTT(30), <1>1, <1>2, <1>3, Update
<1> QED BY <1>2, <1>4, <1>5

LEMMA TypedMain ==
  ASSUME Typed, Unpacked, NEW p \in Proc, MainStep(p)
  PROVE  Typed'
<1> USE DEF Typed, tree_vars, count_vars, call_vars, Goto
<1>1. CASE BeginFullBarrier(p)
  <2>1. round[p] + 1 \in 0 .. MaxRounds BY SMTT(30), <1>1, ConstantsAssumption DEF BeginFullBarrier
  <2>3. CountedLate(p) \in SUBSET Proc BY DEF CountedLate
  <2>2. /\ round' = [round EXCEPT ![p] = round[p] + 1]
        /\ mine' = [mine EXCEPT ![p] = callssent[p]]
        /\ late' = [late EXCEPT ![p] = CountedLate(p)]
        /\ pc' = [pc EXCEPT ![p] = "gather"]
        /\ UNCHANGED <<tree_vars, count_vars, call_vars, callsreceived, handler>>
    BY <1>1 DEF BeginFullBarrier
  <2> QED BY <2>1, <2>2, <2>3 DEF MainLabels
<1>2. CASE AllGather(p)
  <2>1. EnterTree("ab", p) BY <1>2 DEF AllGather
  <2>2. "ab" \in Tree BY DEF Tree
  <2> HIDE DEF Typed
  <2>3. /\ barrier_sense' \in [Tree -> [Proc -> {1, -1}]]
        /\ barrier_release' \in [Tree -> [Proc -> {1, -1}]]
        /\ child_barrier_counter' = child_barrier_counter BY <2>1, <2>2, TreeTyped
  <2> QED BY <1>2, <2>3 DEF AllGather, Typed, MainLabels
<1>3. CASE ClearCallsToReceive(p) BY <1>3 DEF ClearCallsToReceive, MainLabels, Counts, NoCalls
<1>4. CASE FillCallsToReceive(p) BY <1>4 DEF FillCallsToReceive, MainLabels, Unpacked
<1>5. CASE ResetIncomplete(p)
  <2>1. num_proc_recvs_incomplete' \in [Proc -> Int]
    <3> HIDE DEF Typed
    <3>1. N \in Int BY ConstantsAssumption
    <3> QED BY <1>5, <3>1 DEF ResetIncomplete, Typed
  <2>2. pc' \in [Proc -> MainLabels] BY <1>5 DEF ResetIncomplete, MainLabels
  <2> QED BY <1>5, <2>1, <2>2 DEF ResetIncomplete
<1>6. CASE ClearComplete(p) BY <1>6 DEF ClearComplete, MainLabels
<1>7. CASE Activate(p) BY <1>7 DEF Activate, MainLabels
<1>8. CASE Pass(p)
  <2> DEFINE received == {q \in Proc : callsreceived[p][q] >= calls_to_receive[p][q]}
  <2>1. received \ procs_complete[p] \in SUBSET Proc OBVIOUS
  <2>2. Cardinality(received \ procs_complete[p]) \in Int BY <2>1, ProcFacts
  <2>3. procs_complete[p] \cup received \in SUBSET Proc OBVIOUS
  <2>4. /\ procs_complete' = [procs_complete EXCEPT ![p] = procs_complete[p] \cup received]
        /\ num_proc_recvs_incomplete' = [num_proc_recvs_incomplete EXCEPT ![p] =
             num_proc_recvs_incomplete[p] - Cardinality(received \ procs_complete[p])]
        /\ pc' = [pc EXCEPT ![p] = "check"]
        /\ UNCHANGED <<tree_vars, calls_to_receive, full_barrier_in_effect, call_vars,
                       callsreceived, round, mine, handler, late>> BY <1>8 DEF Pass
  <2> HIDE DEF received
  <2>5. num_proc_recvs_incomplete' \in [Proc -> Int] BY <2>2, <2>4
  <2>6. procs_complete' \in [Proc -> SUBSET Proc] BY <2>3, <2>4
  <2>7. pc' \in [Proc -> MainLabels] BY <2>4 DEF MainLabels
  <2> QED BY <2>4, <2>5, <2>6, <2>7
<1>9. CASE CheckIncomplete(p) BY <1>9 DEF CheckIncomplete, MainLabels
<1>10. CASE Deactivate(p) BY <1>10 DEF Deactivate, MainLabels
<1>11. CASE Barrier(p)
  <2>1. EnterTree("bar", p) BY <1>11 DEF Barrier
  <2>2. "bar" \in Tree BY DEF Tree
  <2> HIDE DEF Typed
  <2>3. /\ barrier_sense' \in [Tree -> [Proc -> {1, -1}]]
        /\ barrier_release' \in [Tree -> [Proc -> {1, -1}]]
        /\ child_barrier_counter' = child_barrier_counter BY <2>1, <2>2, TreeTyped
  <2> QED BY <1>11, <2>3 DEF Barrier, Typed, MainLabels
<1>12. CASE Return(p) BY <1>12 DEF Return, MainLabels
<1> QED BY <1>1, <1>2, <1>3, <1>4, <1>5, <1>6, <1>7, <1>8, <1>9, <1>10, <1>11, <1>12 DEF MainStep

LEMMA TypedControl ==
  ASSUME Typed, NEW p \in Proc, ControlStep(p),
         \A msg \in BagToSet(control) :
           msg.tree \in Tree /\ (msg.op # "trigger" => msg.val \in {1, -1})
  PROVE  Typed'
<1>1. /\ barrier_sense' = barrier_sense
      /\ UNCHANGED <<count_vars, call_vars, callsreceived, pc, round, mine, handler, late>>
  BY DEF ControlStep, ChildToParentBarrierTrigger, ForwardRelease, TakeRelease
<1>2. child_barrier_counter' \in [Tree -> [Proc -> Int]]
  <2>1. CASE ChildToParentBarrierTrigger(p)
    <3>1. PICK msg \in BagToSet(control) :
            child_barrier_counter' = [child_barrier_counter EXCEPT ![msg.tree][p] =
              child_barrier_counter[msg.tree][p] + barrier_sense[msg.tree][p]]
      BY <2>1 DEF ChildToParentBarrierTrigger
    <3> DEFINE b == msg.tree
    <3>2. b \in Tree OBVIOUS
    <3> HIDE DEF b
    <3>3. child_barrier_counter \in [Tree -> [Proc -> Int]] BY DEF Typed
    <3>4. child_barrier_counter[b][p] \in Int /\ barrier_sense[b][p] \in {1, -1} BY <3>2 DEF Typed
    <3>5. child_barrier_counter[b][p] + barrier_sense[b][p] \in Int BY <3>4
    <3> QED BY <3>1, <3>2, <3>3, <3>5, Update DEF b
  <2>2. CASE child_barrier_counter' = child_barrier_counter BY <2>2 DEF Typed
  <2> QED BY <2>1, <2>2 DEF ControlStep, ForwardRelease, TakeRelease
<1>3. barrier_release' \in [Tree -> [Proc -> {1, -1}]]
  <2>1. CASE TakeRelease(p) BY <2>1, Update DEF TakeRelease, Typed
  <2>2. CASE barrier_release' = barrier_release BY <2>2 DEF Typed
  <2> QED BY <2>1, <2>2 DEF ControlStep, ForwardRelease, ChildToParentBarrierTrigger
<1> QED BY <1>1, <1>2, <1>3 DEF Typed, count_vars, call_vars

LEMMA TypedRemoteCall ==
  ASSUME Typed, NEW p \in Proc, NEW q \in Proc, RemoteCall(p, q)
  PROVE  Typed' BY DEF Typed, Counts, RemoteCall, tree_vars, count_vars

\* A step of a handler changes only its own record.
LEMMA HandlerChanges ==
  ASSUME Typed, NEW p \in Proc, NEW h \in Handlers, NEW s \in HandlerState,
         handler' = [handler EXCEPT ![p][h] = s]
  PROVE  /\ handler' \in [Proc -> [Handlers -> HandlerState]]
         /\ handler'[p][h] = s
         /\ \A q \in Proc, g \in Handlers : q # p \/ g # h => handler'[q][g] = handler[q][g] BY DEF Typed

\* What a handler's step does to its record.
LEMMA HandlerMoves ==
  ASSUME Typed, NEW p \in Proc, NEW h \in Handlers, HandlerStep(p, h)
  PROVE  \E s \in HandlerState : handler' = [handler EXCEPT ![p][h] = s]
<1> DEFINE s0 == handler[p][h]
<1>1. s0 \in HandlerState BY DEF Typed
<1>2. ASSUME NEW label \in HandlerLabels, HandlerGoto(p, h, label)
      PROVE  \E s \in HandlerState : handler' = [handler EXCEPT ![p][h] = s]
  BY <1>2, <1>1 DEF HandlerGoto, HandlerState
<1>3. CASE ReceiveCall(p, h) BY <1>3 DEF ReceiveCall, HandlerState, HandlerLabels
<1>4. CASE IncCallsReceived(p, h)
  <2> DEFINE s == [s0 EXCEPT !.at = IF @ = "inc" THEN "counted" ELSE "compare",
                             !.t  = callsreceived[p][s0.from] + 1]
  <2>1. handler' = [handler EXCEPT ![p][h] = s] BY <1>4 DEF IncCallsReceived
  <2>2. s0.from \in Proc /\ callsreceived[p][s0.from] \in Nat BY <1>1 DEF HandlerState, Typed, Counts
  <2>3. callsreceived[p][s0.from] + 1 \in Nat BY <2>2
  <2>4. s \in HandlerState
    <3> HIDE DEF s0
    <3> QED BY <1>1, <2>3 DEF HandlerState, HandlerLabels, Counting
  <2> QED BY <2>1, <2>4
<1>5. CASE ~ReceiveCall(p, h) /\ ~IncCallsReceived(p, h)
  <2>1. \E label \in HandlerLabels : HandlerGoto(p, h, label)
    BY <1>5 DEF HandlerStep, CallReturns, LookAgain, Compare, SetBit, DecIncomplete,
       HandlerLabels, Counting
  <2> QED BY <1>2, <2>1
<1> QED BY <1>3, <1>4, <1>5

LEMMA TypedHandler ==
  ASSUME Typed, NEW p \in Proc, NEW h \in Handlers, HandlerStep(p, h)
  PROVE  Typed'
<1>1. handler' \in [Proc -> [Handlers -> HandlerState]] BY HandlerMoves, HandlerChanges
<1>2. /\ UNCHANGED <<tree_vars, calls_to_receive, full_barrier_in_effect, callssent, round, mine, late>>
  BY DEF HandlerStep, ReceiveCall, CallReturns, IncCallsReceived, LookAgain, Compare, SetBit,
     DecIncomplete, tree_vars, count_vars, call_vars
<1>3. inflight' \in [Proc -> Counts]
  <2>1. CASE ReceiveCall(p, h) BY <2>1, Update DEF ReceiveCall, Typed, Counts
  <2>2. CASE inflight' = inflight BY <2>2 DEF Typed
  <2> QED BY <2>1, <2>2 DEF HandlerStep, CallReturns, IncCallsReceived, LookAgain, Compare, SetBit,
      DecIncomplete, call_vars
<1>4. callsreceived' \in [Proc -> Counts]
  <2>1. CASE IncCallsReceived(p, h)
    <3> DEFINE q == handler[p][h].from
    <3>1. q \in Proc BY DEF Typed, HandlerState
    <3>2. callsreceived' = [callsreceived EXCEPT ![p][q] = callsreceived[p][q] + 1]
      BY <2>1 DEF IncCallsReceived
    <3>3. callsreceived \in [Proc -> [Proc -> Nat]] /\ callsreceived[p][q] + 1 \in Nat
      BY <3>1 DEF Typed, Counts
    <3> HIDE DEF q
    <3> QED BY <3>1, <3>2, <3>3, Update DEF Counts
  <2>2. CASE callsreceived' = callsreceived BY <2>2 DEF Typed
  <2> QED BY <2>1, <2>2 DEF HandlerStep, ReceiveCall, CallReturns, LookAgain, Compare, SetBit,
      DecIncomplete
<1>5. procs_complete' \in [Proc -> SUBSET Proc]
  <2>1. CASE SetBit(p, h)
    <3>1. handler[p][h].from \in Proc BY DEF Typed, HandlerState
    <3> QED BY <2>1, <3>1 DEF SetBit, Typed
  <2>2. CASE procs_complete' = procs_complete BY <2>2 DEF Typed
  <2> QED BY <2>1, <2>2 DEF HandlerStep, ReceiveCall, CallReturns, IncCallsReceived, LookAgain,
      Compare, DecIncomplete, count_vars
<1>6. num_proc_recvs_incomplete' \in [Proc -> Int] /\ pc' \in [Proc -> MainLabels]
  <2>1. CASE DecIncomplete(p, h)
    <3>1. num_proc_recvs_incomplete' \in [Proc -> Int] BY <2>1 DEF DecIncomplete, Typed
    <3>2. pc' \in [Proc -> MainLabels] BY <2>1 DEF DecIncomplete, Typed, Goto, MainLabels
    <3> QED BY <3>1, <3>2
  <2>2. CASE UNCHANGED <<num_proc_recvs_incomplete, pc>> BY <2>2 DEF Typed
  <2> QED BY <2>1, <2>2 DEF HandlerStep, ReceiveCall, CallReturns, IncCallsReceived, LookAgain,
      Compare, SetBit, count_vars
<1> QED BY <1>1, <1>2, <1>3, <1>4, <1>5, <1>6 DEF Typed, tree_vars

-----------------------------------------------------------------------------
(* Waiting for the calls is local to a machine.                            *)

Local(p) ==
  <<pc[p], round[p], callsreceived[p], calls_to_receive[p], num_proc_recvs_incomplete[p],
    procs_complete[p], full_barrier_in_effect[p], handler[p], late[p]>>

LEMMA FoundFrame ==
  ASSUME NEW p \in Proc, Found(p), handler'[p] = handler[p],
         callsreceived'[p] = callsreceived[p], calls_to_receive'[p] = calls_to_receive[p],
         procs_complete'[p] = procs_complete[p],
         pc'[p] \in {"check", "asleep"} => pc[p] \in {"check", "asleep"}
  PROVE  Found(p)'
<1>1. ASSUME NEW h \in Handlers, NEW q \in Proc, LastOf(p, h, q) PROVE LastOf(p, h, q)'
  BY <1>1 DEF LastOf
<1> QED BY <1>1 DEF Found

LEMMA WaitsFrame ==
  ASSUME NEW p \in Proc, Waits(p), UNCHANGED Local(p)
  PROVE  Waits(p)'
<1>1. Decreasing(p)' = Decreasing(p) BY DEF Local, Decreasing
<1>2. HandlersKnow(p)' /\ Untouched(p)' /\ Over(p)' /\ Complete(p)'
  BY ZenonT(60), <1>1 DEF Local, Waits, HandlersKnow, Untouched, Over, Complete, First
<1>3. Counter(p)' /\ InEffect(p)' /\ Rounds(p)'
  BY ZenonT(60), <1>1 DEF Local, Waits, Counter, InEffect, Rounds
<1>4. Found(p)' BY FoundFrame DEF Local, Waits
<1> QED BY <1>2, <1>3, <1>4 DEF Waits

LEMMA WaitsMain ==
  ASSUME Typed, Unpacked, NEW p \in Proc, Waits(p), MainStep(p)
  PROVE  Waits(p)'
<1> USE DEF Typed, Goto, tree_vars, count_vars, call_vars
<1>0. handler' = handler /\ Decreasing(p)' = Decreasing(p) /\ callsreceived' = callsreceived
  BY DEF MainStep, BeginFullBarrier, AllGather, ClearCallsToReceive, FillCallsToReceive,
     ResetIncomplete, ClearComplete, Activate, Pass, CheckIncomplete, Deactivate, Barrier,
     Return, Decreasing
<1>a. round[p] \in Nat BY ConstantsAssumption
<1> HIDE DEF Typed
<1>1. CASE BeginFullBarrier(p)
  <2>1. /\ pc[p] = "run" /\ pc'[p] = "gather"
        /\ round'[p] = round[p] + 1
        /\ calls_to_receive'[p] = calls_to_receive[p]
        /\ num_proc_recvs_incomplete'[p] = num_proc_recvs_incomplete[p]
        /\ procs_complete'[p] = procs_complete[p]
        /\ full_barrier_in_effect'[p] = full_barrier_in_effect[p]
        /\ late'[p] = CountedLate(p) BY <1>1 DEF BeginFullBarrier, Typed
  <2>2. \A h \in Handlers :
          /\ handler[p][h].from \in Proc
          /\ handler[p][h].from \notin late'[p] => handler[p][h].at \notin Alerted
    BY <2>1 DEF CountedLate, Typed, HandlerState
  <2>3. HandlersKnow(p)' BY <1>0, <2>1, <2>2 DEF Waits, HandlersKnow, Alerted
  <2>b. First(p)' => First(p) BY <1>a, <2>1 DEF First
  <2>c. Untouched(p)' BY <1>0, <2>1, <2>b DEF Waits, Untouched
  <2>4. Over(p)' BY <1>0, <1>a, <2>1 DEF Waits, Over, First, Between
  <2>5. Complete(p)' /\ Found(p)' BY <2>1 DEF Complete, Settling, Found
  <2> QED BY <1>0, <1>a, <2>1, <2>3, <2>c, <2>4, <2>5 DEF Waits, Counter, InEffect, Rounds
<1>2. CASE AllGather(p)
  <2>1. /\ pc[p] = "gather" /\ pc'[p] = "gather wait"
        /\ round'[p] = round[p]
        /\ calls_to_receive'[p] = calls_to_receive[p]
        /\ num_proc_recvs_incomplete'[p] = num_proc_recvs_incomplete[p]
        /\ procs_complete'[p] = procs_complete[p]
        /\ full_barrier_in_effect'[p] = full_barrier_in_effect[p]
        /\ late'[p] = late[p] BY <1>2 DEF AllGather, Typed
  <2> QED BY <1>0, <1>a, <2>1 DEF Waits, HandlersKnow, Untouched, Over, Complete, Found, Counter,
          InEffect, Rounds, First, Between, Preparing, Alerted, Settling
<1>3. CASE ClearCallsToReceive(p)
  <2>1. /\ pc[p] = "gather wait" /\ pc'[p] = "fill"
        /\ round'[p] = round[p]
        /\ calls_to_receive'[p] = NoCalls
        /\ num_proc_recvs_incomplete'[p] = num_proc_recvs_incomplete[p]
        /\ procs_complete'[p] = procs_complete[p]
        /\ full_barrier_in_effect'[p] = full_barrier_in_effect[p]
        /\ late'[p] = late[p] BY <1>3 DEF ClearCallsToReceive, Typed
  <2> QED BY <1>0, <2>1 DEF Waits, HandlersKnow, Untouched, Over, Complete, Found, Counter, InEffect,
          Rounds, First, Between, Preparing, Alerted, Settling
<1>4. CASE FillCallsToReceive(p)
  <2>1. /\ pc[p] = "fill" /\ pc'[p] = "reset"
        /\ round'[p] = round[p]
        /\ calls_to_receive'[p] = CallsToReceive(p)
        /\ num_proc_recvs_incomplete'[p] = num_proc_recvs_incomplete[p]
        /\ procs_complete'[p] = procs_complete[p]
        /\ full_barrier_in_effect'[p] = full_barrier_in_effect[p]
        /\ late'[p] = late[p] BY <1>4 DEF FillCallsToReceive, Typed
  <2> QED BY <1>0, <1>a, <2>1 DEF Waits, HandlersKnow, Untouched, Over, Complete, Found, Counter,
          InEffect, Rounds, First, Between, Preparing, Alerted, Settling
<1>5. CASE ResetIncomplete(p)
  <2>1. /\ pc[p] = "reset" /\ pc'[p] = "clear"
        /\ round'[p] = round[p]
        /\ calls_to_receive'[p] = calls_to_receive[p]
        /\ num_proc_recvs_incomplete'[p] = N
        /\ procs_complete'[p] = procs_complete[p]
        /\ full_barrier_in_effect'[p] = full_barrier_in_effect[p]
        /\ late'[p] = late[p] BY <1>5 DEF ResetIncomplete, Typed
  <2> QED BY <1>0, <1>a, <2>1 DEF Waits, HandlersKnow, Untouched, Over, Complete, Found, Counter,
          InEffect, Rounds, First, Between, Preparing, Alerted, Settling
<1>6. CASE ClearComplete(p)
  <2>1. /\ pc[p] = "clear" /\ pc'[p] = "activate"
        /\ round'[p] = round[p]
        /\ calls_to_receive'[p] = calls_to_receive[p]
        /\ num_proc_recvs_incomplete'[p] = num_proc_recvs_incomplete[p]
        /\ procs_complete'[p] = {}
        /\ full_barrier_in_effect'[p] = full_barrier_in_effect[p]
        /\ late'[p] = late[p] BY <1>6 DEF ClearComplete, Typed
  <2>2. Decreasing(p) = {} /\ Cardinality({}) = 0 /\ N - 0 + 0 = N
    BY <2>1, FS_EmptySet, ConstantsAssumption DEF Waits, Over, Between
  <2>3. Counter(p)' BY <1>0, <2>1, <2>2 DEF Waits, Counter
  <2> QED BY <1>0, <2>1, <2>3 DEF Waits, HandlersKnow, Untouched, Over, Complete, Found,
          InEffect, Rounds, First, Between, Preparing, Settling
<1>7. CASE Activate(p)
  <2>1. /\ pc[p] = "activate" /\ pc'[p] = "pass"
        /\ round'[p] = round[p]
        /\ calls_to_receive'[p] = calls_to_receive[p]
        /\ num_proc_recvs_incomplete'[p] = num_proc_recvs_incomplete[p]
        /\ procs_complete'[p] = procs_complete[p]
        /\ full_barrier_in_effect'[p] = TRUE
        /\ late'[p] = late[p] BY <1>7 DEF Activate, Typed
  <2> QED BY <1>0, <1>a, <2>1 DEF Waits, HandlersKnow, Untouched, Over, Complete, Found, Counter,
          InEffect, Rounds, First, Between, Preparing, Alerted, Settling
<1>8. CASE Deactivate(p)
  <2>1. /\ pc[p] = "deactivate" /\ pc'[p] = "barrier"
        /\ round'[p] = round[p]
        /\ calls_to_receive'[p] = calls_to_receive[p]
        /\ num_proc_recvs_incomplete'[p] = num_proc_recvs_incomplete[p]
        /\ procs_complete'[p] = procs_complete[p]
        /\ full_barrier_in_effect'[p] = FALSE
        /\ late'[p] = late[p] BY <1>8 DEF Deactivate, Typed
  <2> QED BY <1>0, <1>a, <2>1 DEF Waits, HandlersKnow, Untouched, Over, Complete, Found, Counter,
          InEffect, Rounds, First, Between, Preparing, Alerted, Settling
<1>9. CASE Barrier(p)
  <2>1. /\ pc[p] = "barrier" /\ pc'[p] = "barrier wait"
        /\ round'[p] = round[p]
        /\ calls_to_receive'[p] = calls_to_receive[p]
        /\ num_proc_recvs_incomplete'[p] = num_proc_recvs_incomplete[p]
        /\ procs_complete'[p] = procs_complete[p]
        /\ full_barrier_in_effect'[p] = full_barrier_in_effect[p]
        /\ late'[p] = late[p] BY <1>9 DEF Barrier, Typed
  <2> QED BY <1>0, <1>a, <2>1 DEF Waits, HandlersKnow, Untouched, Over, Complete, Found, Counter,
          InEffect, Rounds, First, Between, Preparing, Alerted, Settling
<1>10. CASE Return(p)
  <2>1. /\ pc[p] = "barrier wait" /\ pc'[p] = "run"
        /\ round'[p] = round[p]
        /\ calls_to_receive'[p] = calls_to_receive[p]
        /\ num_proc_recvs_incomplete'[p] = num_proc_recvs_incomplete[p]
        /\ procs_complete'[p] = procs_complete[p]
        /\ full_barrier_in_effect'[p] = full_barrier_in_effect[p]
        /\ late'[p] = late[p] BY <1>10 DEF Return, Typed
  <2>a. round[p] > 0 BY <2>1 DEF Waits, Rounds
  <2>b. round[p] # 0 BY <1>a, <2>a
  <2>c. round'[p] # 0 BY <2>b, <2>1
  <2>2. ~First(p) /\ ~First(p)' BY <2>b, <2>c, <2>1 DEF First
  <2> QED BY <1>0, <2>1, <2>2 DEF Waits, HandlersKnow, Untouched, Over, Complete, Found, Counter,
          InEffect, Rounds, Between, Preparing, Settling
<1>11. CASE Pass(p)
  <2> DEFINE received == {q \in Proc : callsreceived[p][q] >= calls_to_receive[p][q]}
  <2> DEFINE bits == procs_complete[p]
  <2>1. /\ pc[p] = "pass" /\ pc'[p] = "check"
        /\ UNCHANGED <<round, calls_to_receive, full_barrier_in_effect, late>>
        /\ procs_complete'[p] = bits \cup received
        /\ num_proc_recvs_incomplete'[p] =
             num_proc_recvs_incomplete[p] - Cardinality(received \ bits) BY <1>11 DEF Pass, Typed
  <2>2. bits \in SUBSET Proc /\ received \in SUBSET Proc BY DEF Typed
  <2>3. Cardinality(bits \cup received) = Cardinality(bits) + Cardinality(received \ bits)
    <3>1. /\ IsFiniteSet(bits) /\ IsFiniteSet(received \ bits)
          /\ bits \cap (received \ bits) = {}
          /\ bits \cup (received \ bits) = bits \cup received BY <2>2, ProcFacts
    <3> HIDE DEF bits, received
    <3>2. Cardinality(bits) \in Nat /\ Cardinality(received \ bits) \in Nat BY <3>1, FS_CardinalityType
    <3>3. Cardinality(bits \cup (received \ bits)) =
            Cardinality(bits) + Cardinality(received \ bits) - Cardinality(bits \cap (received \ bits))
      BY <3>1, FS_Union
    <3>4. Cardinality(bits \cap (received \ bits)) = 0 BY <3>1, FS_EmptySet
    <3>5. Cardinality(bits) + Cardinality(received \ bits) - 0 = Cardinality(bits) + Cardinality(received \ bits)
      BY <3>2
    <3> QED BY <3>1, <3>3, <3>4, <3>5
  <2>4. /\ Cardinality(bits) \in Int /\ Cardinality(received \ bits) \in Int
        /\ Cardinality(Decreasing(p)) \in Int /\ N \in Int BY <2>2, ProcFacts, HandlerSets DEF Decreasing
  <2>5. \A q \in Proc : q \in received <=> callsreceived[p][q] >= calls_to_receive[p][q] OBVIOUS
  <2> HIDE DEF received
  <2>6. Complete(p)' BY <1>0, <2>1, <2>2, <2>5 DEF Waits, Complete, Settling
  <2>8. Found(p)' BY <1>0, <2>1, <2>5 DEF Found
  <2>7. Counter(p)' BY <1>0, <2>1, <2>3, <2>4 DEF Waits, Counter
  <2> QED BY <1>0, <2>1, <2>6, <2>7, <2>8
          DEF Waits, HandlersKnow, Untouched, Over, InEffect, Rounds, First, Between, Preparing
<1>12. CASE CheckIncomplete(p)
  <2> DEFINE n == num_proc_recvs_incomplete[p]
  <2>1. /\ pc[p] = "check" /\ pc'[p] = (IF n > 0 THEN "asleep" ELSE "deactivate")
        /\ UNCHANGED <<round, calls_to_receive, full_barrier_in_effect, procs_complete,
                       num_proc_recvs_incomplete, late>> BY <1>12 DEF CheckIncomplete, Typed
  <2>2. /\ Cardinality(procs_complete[p]) \in 0 .. N
        /\ Cardinality(procs_complete[p]) = N => procs_complete[p] = Proc
        /\ Cardinality(Decreasing(p)) \in Nat /\ N \in Nat
        /\ Cardinality(Decreasing(p)) = 0 => Decreasing(p) = {}
    BY ProcFacts, HandlerSets DEF Decreasing, Typed
  <2>3. n = N - Cardinality(procs_complete[p]) + Cardinality(Decreasing(p)) BY <2>1 DEF Waits, Counter
  <2>4. ~(n > 0) => procs_complete[p] = Proc /\ Decreasing(p) = {} BY <2>2, <2>3
  <2>5. HandlersKnow(p)' /\ Untouched(p)' /\ Over(p)' /\ Complete(p)'
    BY <1>0, <2>1, <2>4
       DEF Waits, HandlersKnow, Untouched, Over, Complete, First, Between, Preparing, Settling
  <2>6. Found(p)' BY <1>0, <2>1, FoundFrame DEF Waits
  <2> QED BY <1>0, <2>1, <2>5, <2>6 DEF Waits, Counter, InEffect, Rounds
<1> QED BY <1>1, <1>2, <1>3, <1>4, <1>5, <1>6, <1>7, <1>8, <1>9, <1>10, <1>11, <1>12 DEF MainStep

LEMMA Goes ==
  ASSUME Typed, NEW p \in Proc, NEW h \in Handlers, NEW label, HandlerGoto(p, h, label)
  PROVE  /\ handler'[p][h].at = label
         /\ handler'[p][h].from = handler[p][h].from /\ handler'[p][h].t = handler[p][h].t
<1>1. handler \in [Proc -> [Handlers -> HandlerState]] BY DEF Typed
<1>2. handler[p][h] \in HandlerState BY <1>1
<1>3. handler'[p][h] = [handler[p][h] EXCEPT !.at = label] BY <1>1 DEF HandlerGoto
<1> QED BY <1>2, <1>3 DEF HandlerState

LEMMA WaitsHandler ==
  ASSUME Typed, NEW p \in Proc, Waits(p), NEW h \in Handlers, HandlerStep(p, h)
  PROVE  Waits(p)'
<1> DEFINE q == handler[p][h].from
           t == handler[p][h].t
<1>1. /\ q \in Proc /\ t \in Nat /\ handler[p][h].at \in HandlerLabels
      /\ \A r \in Proc : callsreceived[p][r] \in Nat /\ calls_to_receive[p][r] \in Nat
  BY DEF Typed, HandlerState, Counts
<1>2. \A g \in Handlers : g # h => handler'[p][g] = handler[p][g] BY HandlerMoves, HandlerChanges
<1>3. UNCHANGED <<round, calls_to_receive, full_barrier_in_effect, late>>
  BY DEF HandlerStep, ReceiveCall, CallReturns, IncCallsReceived, LookAgain, Compare, SetBit,
     DecIncomplete, count_vars
<1>4. ASSUME handler[p][h].at # "dec", handler'[p][h].at # "dec"
      PROVE  Decreasing(p)' = Decreasing(p) BY <1>2, <1>4 DEF Decreasing
<1>5. /\ HandlersKnow(p) /\ Untouched(p) /\ Over(p) /\ Complete(p) /\ Found(p)
      /\ Counter(p) /\ InEffect(p) /\ Rounds(p) BY DEF Waits
<1>6. Typed' BY TypedHandler
<1>7. CASE ReceiveCall(p, h) \/ CallReturns(p, h) \/ LookAgain(p, h) \/ Compare(p, h)
  <2>1. /\ UNCHANGED <<pc, procs_complete, num_proc_recvs_incomplete, callsreceived>>
        /\ \/ handler[p][h].at = "idle" /\ handler'[p][h].at = "running"
           \/ /\ handler[p][h].at = "running"
              /\ handler'[p][h].at = IF full_barrier_in_effect[p] THEN "inc in effect" ELSE "inc"
           \/ /\ handler[p][h].at = "counted"
              /\ handler'[p][h].at = IF full_barrier_in_effect[p] THEN "compare" ELSE "idle"
              /\ handler'[p][h].from = q /\ handler'[p][h].t = t
           \/ /\ handler[p][h].at = "compare"
              /\ handler'[p][h].at = IF t = calls_to_receive[p][q] THEN "set bit" ELSE "idle"
              /\ handler'[p][h].from = q /\ handler'[p][h].t = t
    <3>1. CASE ReceiveCall(p, h) BY <3>1 DEF ReceiveCall, Typed, count_vars, HandlerAt
    <3>2. CASE CallReturns(p, h) BY ZenonT(60), <3>2, Goes DEF CallReturns, count_vars, HandlerAt
    <3>3. CASE LookAgain(p, h) BY <3>3, Goes DEF LookAgain, count_vars, HandlerAt
    <3>4. CASE Compare(p, h) BY ZenonT(40), <3>4, Goes DEF Compare, count_vars, HandlerAt
    <3> QED BY <1>7, <3>1, <3>2, <3>3, <3>4
  <2>2. Decreasing(p)' = Decreasing(p) BY <1>4, <2>1
  <2>3. HandlersKnow(p)'
    <3>1. handler'[p][h].at \in Counting => t <= callsreceived[p][q] /\ handler'[p][h].from = q
                                               /\ handler'[p][h].t = t
      BY <1>5, <2>1 DEF HandlersKnow, Counting
    <3>2. handler'[p][h].at \in Alerted => full_barrier_in_effect[p] \/ handler[p][h].at \in Alerted
      BY <2>1 DEF Alerted
    <3>3. pc[p] \in Preparing => ~full_barrier_in_effect[p] BY <1>5 DEF InEffect, Preparing
    <3>4. handler'[p][h].at \in Alerted /\ pc[p] \in Preparing =>
            handler'[p][h].from = q /\ handler[p][h].at \in Alerted BY <2>1, <3>2, <3>3 DEF Alerted
    <3>5. handler'[p][h].at = "set bit" => t = calls_to_receive[p][q] BY <2>1
    <3> SUFFICES ASSUME NEW g \in Handlers
                 PROVE  LET r == handler'[p][g].from
                            u == handler'[p][g].t IN
                        /\ handler'[p][g].at \in Counting => u <= callsreceived[p][r]
                        /\ r \notin late[p] /\ pc[p] \in Preparing => handler'[p][g].at \notin Alerted
                        /\ r \notin late[p] /\ handler'[p][g].at = "set bit" => u = calls_to_receive[p][r]
      BY <1>3, <2>1 DEF HandlersKnow
    <3>6. CASE g = h BY <1>5, <3>1, <3>4, <3>5, <3>6 DEF HandlersKnow, Counting
    <3>7. CASE g # h BY <1>2, <1>5, <3>7 DEF HandlersKnow
    <3> QED BY <3>6, <3>7
  <2>4. Untouched(p)' BY <1>2, <1>3, <1>5, <2>1 DEF Untouched, First, InEffect
  <2>5. Found(p)'
    <3> SUFFICES ASSUME pc[p] \in {"check", "asleep"}, NEW r \in Proc \ procs_complete[p],
                        callsreceived[p][r] >= calls_to_receive[p][r]
                 PROVE  \E g \in Handlers : LastOf(p, g, r)' BY <1>3, <2>1 DEF Found, LastOf
    <3>1. PICK g \in Handlers : LastOf(p, g, r) BY <1>5 DEF Found
    <3>2. full_barrier_in_effect[p] BY <1>5 DEF InEffect
    <3>3. CASE g # h BY <1>2, <1>3, <3>1, <3>3 DEF LastOf
    <3>4. CASE g = h BY <1>3, <2>1, <3>1, <3>2, <3>4 DEF LastOf
    <3> QED BY <3>3, <3>4
  <2> QED BY <1>3, <1>5, <2>1, <2>2, <2>3, <2>4, <2>5
          DEF Waits, Over, Complete, Counter, InEffect, Rounds, First
<1>8. CASE IncCallsReceived(p, h)
  <2>1. /\ UNCHANGED <<pc, procs_complete, num_proc_recvs_incomplete>>
        /\ callsreceived'[p][q] = callsreceived[p][q] + 1
        /\ \A r \in Proc : r # q => callsreceived'[p][r] = callsreceived[p][r]
        /\ handler[p][h].at \in {"inc", "inc in effect"}
        /\ handler'[p][h].at = IF handler[p][h].at = "inc" THEN "counted" ELSE "compare"
        /\ handler'[p][h].t = callsreceived[p][q] + 1 /\ handler'[p][h].from = q
    <3>1. /\ callsreceived' = [callsreceived EXCEPT ![p][q] = callsreceived[p][q] + 1]
          /\ handler[p][h].at \in {"inc", "inc in effect"}
          /\ UNCHANGED <<pc, procs_complete, num_proc_recvs_incomplete>>
      BY <1>8 DEF IncCallsReceived, count_vars
    <3>2. callsreceived \in [Proc -> [Proc -> Nat]] /\ callsreceived[p][q] + 1 \in Nat
      BY <1>1 DEF Typed, Counts
    <3>3. /\ callsreceived'[p][q] = callsreceived[p][q] + 1
          /\ \A r \in Proc : r # q => callsreceived'[p][r] = callsreceived[p][r]
      <4> DEFINE c == callsreceived[p][q] + 1
      <4>1. c \in Nat /\ callsreceived' = [callsreceived EXCEPT ![p][q] = c] BY <3>1, <3>2
      <4> HIDE DEF q, c
      <4>2. /\ callsreceived'[p][q] = c
            /\ \A r \in Proc : r # q => callsreceived'[p][r] = callsreceived[p][r]
        BY <1>1, <3>2, <4>1, Update
      <4> QED BY <4>2 DEF c
    <3>4. handler \in [Proc -> [Handlers -> HandlerState]] /\ handler[p][h] \in HandlerState BY DEF Typed
    <3>5. handler'[p][h] = [handler[p][h] EXCEPT !.at = IF @ = "inc" THEN "counted" ELSE "compare",
                                                 !.t  = callsreceived[p][q] + 1]
      BY <1>8, <3>4 DEF IncCallsReceived
    <3>6. /\ handler'[p][h].at = IF handler[p][h].at = "inc" THEN "counted" ELSE "compare"
          /\ handler'[p][h].t = callsreceived[p][q] + 1 /\ handler'[p][h].from = q
      BY <3>4, <3>5 DEF HandlerState
    <3> QED BY <3>1, <3>3, <3>6
  <2>3. \A r \in Proc : callsreceived'[p][r] >= callsreceived[p][r]
    <3> TAKE r \in Proc
    <3>1. callsreceived[p][r] \in Nat BY <1>1
    <3>2. callsreceived'[p][r] = callsreceived[p][r] \/ callsreceived'[p][r] = callsreceived[p][r] + 1
      BY <2>1
    <3> QED BY <3>1, <3>2
  <2>4. callsreceived'[p][q] = callsreceived[p][q] + 1 BY <2>1
  <2>5. Decreasing(p)' = Decreasing(p) BY <1>4, <2>1
  <2>6. \A r \in Proc : callsreceived'[p][r] \in Nat BY <1>6 DEF Typed, Counts
  <2>8. HandlersKnow(p)'
    <3> SUFFICES ASSUME NEW g \in Handlers
                 PROVE  LET r == handler'[p][g].from
                            u == handler'[p][g].t IN
                        /\ handler'[p][g].at \in Counting => u <= callsreceived'[p][r]
                        /\ r \notin late[p] /\ pc[p] \in Preparing => handler'[p][g].at \notin Alerted
                        /\ r \notin late[p] /\ handler'[p][g].at = "set bit" => u = calls_to_receive[p][r]
      BY <1>3, <2>1 DEF HandlersKnow
    <3>1. CASE g = h
      <4>1. /\ handler'[p][g].at \in {"counted", "compare"} /\ handler'[p][g].from = q
            /\ handler'[p][g].t = callsreceived[p][q] + 1 BY <2>1, <3>1
      <4>2. handler'[p][g].t <= callsreceived'[p][q] BY <1>1, <2>4, <4>1
      <4>3. handler'[p][g].at \in Alerted => handler[p][h].at \in Alerted BY <2>1, <3>1 DEF Alerted
      <4> QED BY <1>5, <3>1, <4>1, <4>2, <4>3 DEF HandlersKnow
    <3>2. CASE g # h
      <4>1. handler'[p][g] = handler[p][g] BY <1>2, <3>2
      <4>2. handler[p][g].from \in Proc /\ handler[p][g].t \in Nat BY DEF Typed, HandlerState
      <4> DEFINE r == handler[p][g].from
                 u == handler[p][g].t
      <4>3. callsreceived[p][r] \in Nat /\ callsreceived'[p][r] \in Nat BY <1>1, <2>6, <4>2
      <4>4. callsreceived[p][r] <= callsreceived'[p][r] BY <2>3, <4>2, <4>3
      <4>5. /\ handler[p][g].at \in Counting => u <= callsreceived[p][r]
            /\ r \notin late[p] /\ pc[p] \in Preparing => handler[p][g].at \notin Alerted
            /\ r \notin late[p] /\ handler[p][g].at = "set bit" => u = calls_to_receive[p][r]
        BY <1>5 DEF HandlersKnow
      <4>6. handler[p][g].at \in Counting => u <= callsreceived'[p][r]
        <5>1. u \in Nat BY <4>2
        <5>2. handler[p][g].at \in Counting => u <= callsreceived[p][r] BY <4>5
        <5> HIDE DEF u, r
        <5> QED BY <4>3, <4>4, <5>1, <5>2
      <4> QED BY <4>1, <4>5, <4>6
    <3> QED BY <3>1, <3>2
  <2>9. Untouched(p)' BY <1>2, <1>3, <1>5, <2>1 DEF Untouched, First
  <2>10. Complete(p)'
    <3>1. procs_complete[p] \subseteq Proc BY DEF Typed
    <3> SUFFICES ASSUME pc[p] \in Settling, NEW r \in procs_complete[p] \ late[p]
                 PROVE  callsreceived'[p][r] >= calls_to_receive[p][r] BY <1>3, <2>1 DEF Complete
    <3>2. callsreceived[p][r] >= calls_to_receive[p][r] BY <1>5 DEF Complete
    <3>3. /\ callsreceived[p][r] \in Nat /\ callsreceived'[p][r] \in Nat
          /\ calls_to_receive[p][r] \in Nat /\ callsreceived'[p][r] >= callsreceived[p][r]
      BY <1>1, <2>3, <2>6, <3>1
    <3> QED BY <3>2, <3>3
  <2>11. Found(p)'
    <3> SUFFICES ASSUME pc[p] \in {"check", "asleep"}, NEW r \in Proc \ procs_complete[p],
                        callsreceived'[p][r] >= calls_to_receive[p][r]
                 PROVE  \E g \in Handlers : LastOf(p, g, r)' BY <1>3, <2>1 DEF Found, LastOf
    <3>1. CASE callsreceived[p][r] >= calls_to_receive[p][r]
      <4>1. PICK g \in Handlers : LastOf(p, g, r) BY <1>5, <3>1 DEF Found
      <4>2. g # h BY <2>1, <4>1 DEF LastOf
      <4> QED BY <1>2, <1>3, <4>1, <4>2 DEF LastOf
    <3>2. CASE ~(callsreceived[p][r] >= calls_to_receive[p][r])
      <4>1. r = q BY <2>1, <3>2
      <4>2. callsreceived[p][q] + 1 = calls_to_receive[p][q]
        BY <1>1, <2>4, <3>2, <4>1
      <4>3. LastOf(p, h, r)' BY <1>3, <2>1, <4>1, <4>2 DEF LastOf
      <4> QED BY <4>3
    <3> QED BY <3>1, <3>2
  <2> QED BY <1>3, <1>5, <2>1, <2>5, <2>8, <2>9, <2>10, <2>11
          DEF Waits, Over, Counter, InEffect, Rounds, First
<1>9. CASE SetBit(p, h)
  <2>1. /\ UNCHANGED <<pc, num_proc_recvs_incomplete, callsreceived>>
        /\ procs_complete'[p] = procs_complete[p] \cup {q}
        /\ handler[p][h].at = "set bit"
        /\ handler'[p][h].at = IF q \in procs_complete[p] THEN "idle" ELSE "dec"
        /\ handler'[p][h].t = t /\ handler'[p][h].from = q
    <3>1. handler[p][h].at = "set bit" /\ UNCHANGED <<pc, num_proc_recvs_incomplete, callsreceived>>
      BY <1>9 DEF SetBit, count_vars, HandlerAt
    <3>2. procs_complete'[p] = procs_complete[p] \cup {q} BY <1>9 DEF SetBit, Typed
    <3>3. HandlerGoto(p, h, IF q \in procs_complete[p] THEN "idle" ELSE "dec") BY <1>9 DEF SetBit
    <3> QED BY ZenonT(120), <3>1, <3>2, <3>3, Goes
  <2>2. ~First(p) /\ ~First(p)' BY <1>3, <1>5, <2>1 DEF Untouched, First
  <2>3. pc[p] \in Between => q \in procs_complete[p] BY <1>1, <1>5, <2>2 DEF Over
  <2>4. HandlersKnow(p)'
    <3>1. /\ handler'[p][h].at \in {"idle", "dec"} /\ handler'[p][h].t = t /\ handler'[p][h].from = q
          /\ t <= callsreceived[p][q] BY <1>5, <2>1 DEF HandlersKnow, Counting
    <3> QED BY <1>2, <1>3, <1>5, <2>1, <3>1 DEF HandlersKnow, Counting, Alerted
  <2>5. Complete(p)'
    <3>1. q \notin late[p] => callsreceived[p][q] >= calls_to_receive[p][q]
      BY <1>1, <1>5, <2>1 DEF HandlersKnow, Counting
    <3> QED BY <1>3, <1>5, <2>1, <3>1 DEF Complete
  <2>8. Found(p)'
    <3> SUFFICES ASSUME pc[p] \in {"check", "asleep"}, NEW r \in Proc \ procs_complete'[p],
                        callsreceived[p][r] >= calls_to_receive[p][r]
                 PROVE  \E g \in Handlers : LastOf(p, g, r)' BY <1>3, <2>1 DEF Found, LastOf
    <3>1. r \notin procs_complete[p] /\ r # q BY <2>1
    <3>2. PICK g \in Handlers : LastOf(p, g, r) BY <1>5, <3>1 DEF Found
    <3>3. g # h BY <3>1, <3>2 DEF LastOf
    <3> QED BY <1>2, <1>3, <3>2, <3>3 DEF LastOf
  <2>6. CASE q \in procs_complete[p]
    <3>1. procs_complete'[p] = procs_complete[p] BY <2>1, <2>6
    <3>2. Decreasing(p)' = Decreasing(p) BY <1>4, <2>1, <2>6
    <3> QED BY <1>3, <1>5, <2>1, <2>2, <2>4, <2>5, <2>8, <3>1, <3>2
            DEF Waits, Untouched, Over, Counter, InEffect, Rounds
  <2>7. CASE q \notin procs_complete[p]
    <3>1. Decreasing(p)' = Decreasing(p) \cup {h} /\ h \notin Decreasing(p)
      BY <1>2, <2>1, <2>7 DEF Decreasing
    <3>2. Cardinality(Decreasing(p)') = Cardinality(Decreasing(p)) + 1
      BY <3>1, HandlerSets DEF Decreasing
    <3>3. Cardinality(Decreasing(p)) \in Nat BY HandlerSets DEF Decreasing
    <3>4. /\ Cardinality(procs_complete'[p]) = Cardinality(procs_complete[p]) + 1
          /\ Cardinality(procs_complete[p]) \in Nat /\ N \in Nat
      <4>1. procs_complete[p] \in SUBSET Proc BY DEF Typed
      <4>2. IsFiniteSet(procs_complete[p]) BY <4>1, ProcFacts
      <4>3. Cardinality(procs_complete[p] \cup {q}) = Cardinality(procs_complete[p]) + 1
        BY <2>7, <4>2, FS_AddElement
      <4>4. Cardinality(procs_complete[p]) \in Nat /\ N \in Nat
        BY <4>1, <4>2, FS_CardinalityType, ProcFacts
      <4> QED BY <2>1, <4>3, <4>4
    <3>5. Counter(p)'
      <4>1. N - Cardinality(procs_complete[p]) + Cardinality(Decreasing(p)) =
              N - Cardinality(procs_complete'[p]) + Cardinality(Decreasing(p)') BY <3>2, <3>3, <3>4
      <4>2. pc[p] \notin Between BY <2>3, <2>7
      <4> QED BY <1>5, <2>1, <4>1, <4>2 DEF Counter, Between
    <3> QED BY <1>3, <1>5, <2>1, <2>2, <2>3, <2>4, <2>5, <2>7, <2>8, <3>5
            DEF Waits, Untouched, Over, InEffect, Rounds
  <2> QED BY <2>6, <2>7
<1>10. CASE DecIncomplete(p, h)
  <2> DEFINE n == num_proc_recvs_incomplete[p]
  <2>1. /\ UNCHANGED <<procs_complete, callsreceived>>
        /\ num_proc_recvs_incomplete'[p] = n - 1
        /\ handler[p][h].at = "dec" /\ handler'[p][h].at = "idle"
        /\ pc'[p] = IF n = 1 /\ pc[p] = "asleep" THEN "check" ELSE pc[p]
    BY <1>10 DEF DecIncomplete, SignalComplete, Goto, count_vars, HandlerAt, HandlerGoto, Typed,
       HandlerState
  <2>2. Decreasing(p)' = Decreasing(p) \ {h} /\ h \in Decreasing(p) BY <1>2, <2>1 DEF Decreasing
  <2>3. /\ Cardinality(Decreasing(p)') = Cardinality(Decreasing(p)) - 1
        /\ Cardinality(Decreasing(p)) \in Nat BY <2>2, HandlerSets DEF Decreasing
  <2>4. pc[p] \in {"activate", "pass", "check", "asleep"}
    BY <1>5, <2>2 DEF Over, Typed, Between, MainLabels
  <2>5. Cardinality(procs_complete[p]) \in Nat /\ N \in Nat /\ n \in Int BY ProcFacts DEF Typed
  <2>6. Counter(p)' BY <1>5, <2>1, <2>3, <2>4, <2>5 DEF Counter
  <2>7. HandlersKnow(p)'
    <3>1. pc'[p] \in Preparing => pc[p] \in Preparing BY <2>1 DEF Preparing
    <3> QED BY <1>2, <1>3, <1>5, <2>1, <3>1 DEF HandlersKnow, Counting, Alerted
  <2>9. Found(p)'
    <3> SUFFICES ASSUME pc[p] \in {"check", "asleep"}, NEW r \in Proc \ procs_complete[p],
                        callsreceived[p][r] >= calls_to_receive[p][r]
                 PROVE  \E g \in Handlers : LastOf(p, g, r)' BY <1>3, <2>1, <2>4 DEF Found, LastOf
    <3>1. PICK g \in Handlers : LastOf(p, g, r) BY <1>5 DEF Found
    <3>2. g # h BY <2>1, <3>1 DEF LastOf
    <3> QED BY <1>2, <1>3, <3>1, <3>2 DEF LastOf
  <2>8. Untouched(p)' BY <1>2, <1>3, <1>5, <2>1, <2>4 DEF Untouched, First
  <2> QED BY <1>3, <1>5, <2>1, <2>4, <2>6, <2>7, <2>8, <2>9
          DEF Waits, Over, Complete, InEffect, Rounds, Between, First, Settling
<1> QED BY <1>7, <1>8, <1>9, <1>10 DEF HandlerStep

\* The other machines have nothing to do with it, nor have control calls and new calls.
LEMMA LocalSteps ==
  ASSUME Typed, [Next]_vars, NEW p \in Proc
  PROVE  MainStep(p) \/ (\E h \in Handlers : HandlerStep(p, h)) \/ UNCHANGED Local(p)
<1>1. ASSUME NEW q \in Proc, q # p, MainStep(q) PROVE UNCHANGED Local(p)
  BY <1>1 DEF Typed, Local, MainStep, BeginFullBarrier, AllGather, ClearCallsToReceive,
     FillCallsToReceive, ResetIncomplete, ClearComplete, Activate, Pass, CheckIncomplete,
     Deactivate, Barrier, Return, Goto, count_vars
<1>2. ASSUME NEW q \in Proc, q # p, NEW h \in Handlers, HandlerStep(q, h)
      PROVE  UNCHANGED Local(p)
  <2>1. handler'[p] = handler[p] BY <1>2, HandlerMoves DEF Typed
  <2>2. UNCHANGED <<calls_to_receive, full_barrier_in_effect, round, late>>
    BY <1>2 DEF HandlerStep, ReceiveCall, CallReturns, IncCallsReceived, LookAgain, Compare,
       SetBit, DecIncomplete, count_vars
  <2>3. callsreceived'[p] = callsreceived[p]
    BY <1>2 DEF HandlerStep, ReceiveCall, CallReturns, IncCallsReceived, LookAgain, Compare,
       SetBit, DecIncomplete, Typed
  <2>4. procs_complete'[p] = procs_complete[p]
    BY <1>2 DEF HandlerStep, ReceiveCall, CallReturns, IncCallsReceived, LookAgain, Compare,
       SetBit, DecIncomplete, count_vars, Typed
  <2>5. num_proc_recvs_incomplete'[p] = num_proc_recvs_incomplete[p] /\ pc'[p] = pc[p]
    BY <1>2 DEF HandlerStep, ReceiveCall, CallReturns, IncCallsReceived, LookAgain, Compare,
       SetBit, DecIncomplete, count_vars, Goto, Typed
  <2> QED BY <2>1, <2>2, <2>3, <2>4, <2>5 DEF Local
<1>3. ASSUME NEW q \in Proc, ControlStep(q) PROVE UNCHANGED Local(p)
  BY <1>3 DEF Local, ControlStep, ChildToParentBarrierTrigger, ForwardRelease, TakeRelease, count_vars
<1>4. ASSUME NEW q \in Proc, NEW r \in Proc, RemoteCall(q, r) PROVE UNCHANGED Local(p)
  BY <1>4 DEF Local, RemoteCall, count_vars
<1>5. CASE UNCHANGED vars BY <1>5 DEF vars, count_vars, Local
<1> QED BY <1>1, <1>2, <1>3, <1>4, <1>5 DEF Next, Terminated

LEMMA WaitsStep ==
  ASSUME Typed, Unpacked, [Next]_vars, NEW p \in Proc, Waits(p)
  PROVE  Waits(p)' BY LocalSteps, WaitsMain, WaitsHandler, WaitsFrame

-----------------------------------------------------------------------------
(* No call is lost or counted twice.                                       *)

LEMMA OwingFrame ==
  ASSUME Typed, NEW p \in Proc, NEW h \in Handlers, NEW s \in HandlerState,
         handler' = [handler EXCEPT ![p][h] = s], NEW q \in Proc
  PROVE  /\ \A r \in Proc : r # p => Owing(r, q)' = Owing(r, q)
         /\ \A g \in Handlers : g # h => (g \in Owing(p, q)' <=> g \in Owing(p, q))
         /\ h \in Owing(p, q)' <=> Owes(s, q)
<1>1. /\ handler'[p][h] = s
      /\ \A x \in Proc, g \in Handlers : x # p \/ g # h => handler'[x][g] = handler[x][g]
  BY ZenonT(120), HandlerChanges
<1> QED BY <1>1 DEF Owing, Owes

LEMMA OwingElsewhere ==
  ASSUME Typed, NEW p \in Proc, NEW h \in Handlers, NEW s \in HandlerState,
         handler' = [handler EXCEPT ![p][h] = s], NEW q \in Proc, NEW r \in Proc, r # p
  PROVE  Owing(r, q)' = Owing(r, q) BY OwingFrame

LEMMA OwingMore ==
  ASSUME Typed, NEW p \in Proc, NEW h \in Handlers, NEW s \in HandlerState,
         handler' = [handler EXCEPT ![p][h] = s], NEW q \in Proc, Owes(s, q)
  PROVE  Owing(p, q)' = Owing(p, q) \cup {h}
<1>1. Owing(p, q) \subseteq Handlers /\ Owing(p, q)' \subseteq Handlers BY DEF Owing
<1> QED BY ZenonT(60), <1>1, OwingFrame

LEMMA OwingLess ==
  ASSUME Typed, NEW p \in Proc, NEW h \in Handlers, NEW s \in HandlerState,
         handler' = [handler EXCEPT ![p][h] = s], NEW q \in Proc, ~Owes(s, q)
  PROVE  Owing(p, q)' = Owing(p, q) \ {h}
<1>1. Owing(p, q) \subseteq Handlers /\ Owing(p, q)' \subseteq Handlers BY DEF Owing
<1> QED BY <1>1, OwingFrame

LEMMA Shift ==
  ASSUME NEW a \in Nat, NEW b \in Nat, NEW c \in Nat, NEW d \in Nat, a = b + c + d
  PROVE  /\ a + 1 = (b + 1) + c + d
         /\ a = (b - 1) + (c + 1) + d
         /\ a = b + (c - 1) + (d + 1) OBVIOUS

LEMMA CallsConservedStep ==
  ASSUME Typed, CallsConserved, [Next]_vars
  PROVE  CallsConserved'
<1> USE DEF call_vars
<1>1. ASSUME UNCHANGED <<callssent, inflight, callsreceived, handler>> PROVE CallsConserved'
  BY <1>1 DEF CallsConserved, Owing
<1>2. ASSUME NEW p \in Proc, MainStep(p) PROVE CallsConserved'
  BY <1>1, <1>2 DEF MainStep, BeginFullBarrier, AllGather, ClearCallsToReceive,
     FillCallsToReceive, ResetIncomplete, ClearComplete, Activate, Pass, CheckIncomplete,
     Deactivate, Barrier, Return
<1>3. ASSUME NEW p \in Proc, ControlStep(p) PROVE CallsConserved'
  BY <1>1, <1>3 DEF ControlStep, ChildToParentBarrierTrigger, ForwardRelease, TakeRelease
<1>4. /\ callssent \in [Proc -> [Proc -> Nat]] /\ inflight \in [Proc -> [Proc -> Nat]]
      /\ callsreceived \in [Proc -> [Proc -> Nat]] BY DEF Typed, Counts
<1>5. \A x, y \in Proc : Cardinality(Owing(x, y)) \in Nat BY HandlerSets DEF Owing
<1>6. ASSUME NEW p \in Proc, NEW q \in Proc, RemoteCall(p, q) PROVE CallsConserved'
  <2>1. /\ callssent' = [callssent EXCEPT ![p][q] = callssent[p][q] + 1]
        /\ inflight' = [inflight EXCEPT ![p][q] = inflight[p][q] + 1]
        /\ UNCHANGED <<callsreceived, handler>> BY <1>6 DEF RemoteCall
  <2> SUFFICES ASSUME NEW x \in Proc, NEW y \in Proc
               PROVE  callssent'[y][x] = inflight'[y][x] + Cardinality(Owing(x, y))
                                           + callsreceived[x][y] BY <2>1 DEF Owing, CallsConserved
  <2>2. callssent[y][x] = inflight[y][x] + Cardinality(Owing(x, y)) + callsreceived[x][y]
    BY DEF CallsConserved
  <2>3. CASE y = p /\ x = q
    <3>1. callssent'[p][q] = callssent[p][q] + 1 /\ inflight'[p][q] = inflight[p][q] + 1 BY <1>4, <2>1
    <3>2. /\ callssent[p][q] \in Nat /\ inflight[p][q] \in Nat
          /\ Cardinality(Owing(q, p)) \in Nat /\ callsreceived[q][p] \in Nat BY <1>4, <1>5
    <3> QED BY <2>2, <2>3, <3>1, <3>2, Shift
  <2>4. CASE ~(y = p /\ x = q)
    <3>1. callssent'[y][x] = callssent[y][x] /\ inflight'[y][x] = inflight[y][x] BY <1>4, <2>1, <2>4
    <3> QED BY <2>2, <3>1
  <2> QED BY <2>3, <2>4
<1>7. ASSUME NEW p \in Proc, NEW h \in Handlers, HandlerStep(p, h) PROVE CallsConserved'
  <2>1. PICK s \in HandlerState : handler' = [handler EXCEPT ![p][h] = s] BY <1>7, HandlerMoves
  <2>2. handler'[p][h] = s BY <2>1, HandlerChanges
  <2>3. handler[p][h] \in HandlerState BY DEF Typed
  <2>4. CASE ReceiveCall(p, h)
    <3>1. PICK q \in Proc : /\ handler[p][h].at = "idle" /\ inflight[q][p] > 0
                            /\ inflight' = [inflight EXCEPT ![q][p] = inflight[q][p] - 1]
                            /\ handler' = [handler EXCEPT ![p][h] =
                                             [at |-> "running", from |-> q, t |-> 0]]
                            /\ UNCHANGED <<callssent, callsreceived>> BY <2>4 DEF ReceiveCall, HandlerAt
    <3>2. s.at = "running" /\ s.from = q BY <2>2, <3>1 DEF Typed
    <3>0. \A y \in Proc : /\ Owes(s, y) <=> y = q
                          /\ h \notin Owing(p, y) BY <3>1, <3>2 DEF Owes, Owing
    <3> SUFFICES ASSUME NEW x \in Proc, NEW y \in Proc
                 PROVE  callssent[y][x] = inflight'[y][x] + Cardinality(Owing(x, y)')
                                            + callsreceived[x][y] BY <3>1 DEF CallsConserved
    <3>3. callssent[y][x] = inflight[y][x] + Cardinality(Owing(x, y)) + callsreceived[x][y]
      BY DEF CallsConserved
    <3>4. CASE x = p /\ y = q
      <4>1. h \notin Owing(p, q) BY <3>0
      <4>a. Owes(s, q) BY <3>0
      <4>2. Owing(p, q)' = Owing(p, q) \cup {h} BY <2>1, <4>a, OwingMore
      <4>3. Cardinality(Owing(p, q)') = Cardinality(Owing(p, q)) + 1 BY ZenonT(60), <4>1, <4>2, HandlerSets DEF Owing
      <4>4. inflight'[q][p] = inflight[q][p] - 1 BY <1>4, <3>1
      <4>5. /\ callssent[q][p] \in Nat /\ inflight[q][p] \in Nat
            /\ Cardinality(Owing(p, q)) \in Nat /\ callsreceived[p][q] \in Nat BY <1>4, <1>5
      <4>6. callssent[q][p] = inflight[q][p] + Cardinality(Owing(p, q)) + callsreceived[p][q]
        BY <3>3, <3>4
      <4>7. callssent[q][p] = (inflight[q][p] - 1) + (Cardinality(Owing(p, q)) + 1) + callsreceived[p][q]
        BY <4>5, <4>6, Shift
      <4> QED BY <3>4, <4>3, <4>4, <4>7
    <3>5. CASE ~(x = p /\ y = q)
      <4>1. inflight'[y][x] = inflight[y][x] BY <1>4, <3>1, <3>5
      <4>2. Owing(x, y)' = Owing(x, y)
        <5>1. CASE x # p BY <2>1, <5>1, OwingElsewhere
        <5>2. CASE x = p
          <6>0. ~Owes(s, y) BY <3>0, <3>5, <5>2
          <6>1. Owing(p, y)' = Owing(p, y) \ {h} BY <2>1, <6>0, OwingLess
          <6>2. h \notin Owing(p, y) BY <3>0
          <6> QED BY <5>2, <6>1, <6>2
        <5> QED BY <5>1, <5>2
      <4> QED BY <3>3, <4>1, <4>2
    <3> QED BY <3>4, <3>5
  <2>5. CASE IncCallsReceived(p, h)
    <3>1. PICK q \in Proc : q = handler[p][h].from BY <2>3 DEF HandlerState
    <3>2. /\ callsreceived' = [callsreceived EXCEPT ![p][q] = callsreceived[p][q] + 1]
          /\ handler[p][h].at \in {"inc", "inc in effect"}
          /\ UNCHANGED <<callssent, inflight>> BY <2>5, <3>1 DEF IncCallsReceived
    <3>3. s.at \notin {"running", "inc", "inc in effect"}
      <4>1. handler'[p][h] = [handler[p][h] EXCEPT !.at = IF @ = "inc" THEN "counted" ELSE "compare",
                                                   !.t  = callsreceived[p][q] + 1]
        BY <2>5, <3>1 DEF IncCallsReceived, Typed
      <4> QED BY <2>2, <2>3, <4>1 DEF HandlerState
    <3>0. \A y \in Proc : /\ ~Owes(s, y)
                          /\ h \in Owing(p, y) <=> y = q BY <3>1, <3>2, <3>3 DEF Owes, Owing
    <3> SUFFICES ASSUME NEW x \in Proc, NEW y \in Proc
                 PROVE  callssent[y][x] = inflight[y][x] + Cardinality(Owing(x, y)')
                                            + callsreceived'[x][y] BY <3>2 DEF CallsConserved
    <3>4. callssent[y][x] = inflight[y][x] + Cardinality(Owing(x, y)) + callsreceived[x][y]
      BY DEF CallsConserved
    <3>5. CASE x = p /\ y = q
      <4>1. h \in Owing(p, q) BY <3>0, <3>1
      <4>a. ~Owes(s, q) BY <3>0
      <4>2. Owing(p, q)' = Owing(p, q) \ {h} BY <2>1, <4>a, OwingLess
      <4>3. Cardinality(Owing(p, q)') = Cardinality(Owing(p, q)) - 1 BY <4>1, <4>2, HandlerSets DEF Owing
      <4>4. callsreceived'[p][q] = callsreceived[p][q] + 1 BY <1>4, <3>1, <3>2
      <4>5. /\ callssent[q][p] \in Nat /\ inflight[q][p] \in Nat
            /\ Cardinality(Owing(p, q)) \in Nat /\ callsreceived[p][q] \in Nat BY <1>4, <1>5, <3>1
      <4>6. callssent[q][p] = inflight[q][p] + Cardinality(Owing(p, q)) + callsreceived[p][q]
        BY <3>4, <3>5
      <4>7. callssent[q][p] = inflight[q][p] + (Cardinality(Owing(p, q)) - 1) + (callsreceived[p][q] + 1)
        BY <4>5, <4>6, Shift
      <4> QED BY <3>5, <4>3, <4>4, <4>7
    <3>6. CASE ~(x = p /\ y = q)
      <4>1. callsreceived'[x][y] = callsreceived[x][y] BY <1>4, <3>1, <3>2, <3>6
      <4>2. Owing(x, y)' = Owing(x, y)
        <5>1. CASE x # p BY <2>1, <5>1, OwingElsewhere
        <5>2. CASE x = p
          <6>0. ~Owes(s, y) BY <3>0
          <6>1. Owing(p, y)' = Owing(p, y) \ {h} BY <2>1, <6>0, OwingLess
          <6>2. h \notin Owing(p, y) BY <3>0, <3>6, <5>2
          <6> QED BY <5>2, <6>1, <6>2
        <5> QED BY <5>1, <5>2
      <4> QED BY <3>4, <4>1, <4>2
    <3> QED BY <3>5, <3>6
  <2>6. CASE CallReturns(p, h) \/ LookAgain(p, h) \/ Compare(p, h) \/ SetBit(p, h) \/ DecIncomplete(p, h)
    <3>1. UNCHANGED <<callssent, inflight, callsreceived>>
      BY <2>6 DEF CallReturns, LookAgain, Compare, SetBit, DecIncomplete
    <3>2. /\ s.from = handler[p][h].from
          /\ s.at \in {"running", "inc", "inc in effect"} <=>
               handler[p][h].at \in {"running", "inc", "inc in effect"}
      <4>1. \/ /\ handler[p][h].at = "running"
               /\ HandlerGoto(p, h, IF full_barrier_in_effect[p] THEN "inc in effect" ELSE "inc")
            \/ /\ handler[p][h].at \in {"counted", "compare", "set bit", "dec"}
               /\ \E label \in {"compare", "idle", "set bit", "dec"} : HandlerGoto(p, h, label)
        BY <2>6 DEF CallReturns, LookAgain, Compare, SetBit, DecIncomplete, HandlerAt
      <4> QED BY <2>2, <4>1, Goes
    <3>3. \A x, y \in Proc : Owing(x, y)' = Owing(x, y)
      <4> SUFFICES ASSUME NEW x \in Proc, NEW y \in Proc PROVE Owing(x, y)' = Owing(x, y) OBVIOUS
      <4>1. CASE x # p BY <2>1, <4>1, OwingElsewhere
      <4>2. CASE x = p
        <5>1. h \in Owing(p, y) <=> Owes(s, y) BY <3>2 DEF Owing, Owes
        <5>2. CASE Owes(s, y)
          <6>1. Owing(p, y)' = Owing(p, y) \cup {h} BY <2>1, <5>2, OwingMore
          <6> QED BY <4>2, <5>1, <5>2, <6>1
        <5>3. CASE ~Owes(s, y)
          <6>1. Owing(p, y)' = Owing(p, y) \ {h} BY <2>1, <5>3, OwingLess
          <6> QED BY <4>2, <5>1, <5>3, <6>1
        <5> QED BY <5>2, <5>3
      <4> QED BY <4>1, <4>2
    <3> QED BY <3>1, <3>3 DEF CallsConserved
  <2> QED BY <1>7, <2>4, <2>5, <2>6 DEF HandlerStep
<1>8. CASE UNCHANGED vars BY <1>1, <1>8 DEF vars
<1> QED BY <1>2, <1>3, <1>6, <1>7, <1>8 DEF Next, Terminated

-----------------------------------------------------------------------------
\* What p has counted it has run.
LEMMA ExecutedAtLeast ==
  ASSUME Typed, CallsConserved, NEW p \in Proc, NEW q \in Proc
  PROVE  /\ Executed(q, p) \in Int
         /\ Executed(q, p) >= callsreceived[p][q] /\ Executed(q, p) <= callssent[q][p]
<1> DEFINE running == {h \in Handlers : HandlerAt(p, h, "running") /\ handler[p][h].from = q}
<1>1. running \subseteq Owing(p, q) BY DEF Owing, Owes, HandlerAt
<1>2. IsFiniteSet(Owing(p, q)) BY HandlerSets DEF Owing
<1>3. /\ Cardinality(running) \in Nat /\ Cardinality(Owing(p, q)) \in Nat
      /\ Cardinality(running) <= Cardinality(Owing(p, q)) BY <1>1, <1>2, FS_Subset, FS_CardinalityType
<1>4. callssent[q][p] = inflight[q][p] + Cardinality(Owing(p, q)) + callsreceived[p][q]
  BY DEF CallsConserved
<1>5. callssent[q][p] \in Nat /\ inflight[q][p] \in Nat /\ callsreceived[p][q] \in Nat
  BY DEF Typed, Counts
<1>6. Executed(q, p) = callssent[q][p] - inflight[q][p] - Cardinality(running) BY DEF Executed
<1> HIDE DEF running
<1> QED BY <1>3, <1>4, <1>5, <1>6

LEMMA WaitsComplete ==
  ASSUME Typed, CallsConserved, \A p \in Proc : Waits(p)
  PROVE  CompletedUnlessLate /\ WakesWhenComplete
<1>0. \A p, q \in Proc :
        callsreceived[p][q] \in Nat /\ calls_to_receive[p][q] \in Nat /\ Executed(q, p) \in Int
  BY ExecutedAtLeast DEF Typed, Counts
<1>a. \A x, y \in Nat, z \in Int : z >= x /\ x >= y => z >= y OBVIOUS
<1>1. CompletedUnlessLate
  <2> SUFFICES ASSUME NEW p \in Proc, pc[p] \in {"deactivate", "barrier", "barrier wait"},
                      NEW q \in Proc \ late[p]
               PROVE  Executed(q, p) >= calls_to_receive[p][q] BY DEF CompletedUnlessLate
  <2>1. Waits(p) OBVIOUS
  <2>2. q \in procs_complete[p] BY <2>1 DEF Waits, Over, Between, First
  <2>3. callsreceived[p][q] >= calls_to_receive[p][q] BY <2>1, <2>2 DEF Waits, Complete, Settling
  <2>4. Executed(q, p) >= callsreceived[p][q] BY ExecutedAtLeast
  <2> QED BY <1>0, <1>a, <2>3, <2>4
<1>2. WakesWhenComplete
  <2> SUFFICES ASSUME NEW p \in Proc, pc[p] = "asleep"
               PROVE  num_proc_recvs_incomplete[p] > 0 /\ \E q \in Proc : StillCounting(p, q)
    BY DEF WakesWhenComplete
  <2>1. /\ num_proc_recvs_incomplete[p] > 0
        /\ num_proc_recvs_incomplete[p] =
             N - Cardinality(procs_complete[p]) + Cardinality(Decreasing(p)) BY DEF Waits, Counter
  <2>2. CASE \E h \in Handlers : handler[p][h].at = "dec"
    <3>1. PICK h \in Handlers : handler[p][h].at = "dec" BY <2>2
    <3>2. handler[p][h].from \in Proc BY DEF Typed, HandlerState
    <3> QED BY <2>1, <3>1, <3>2 DEF StillCounting, Counting
  <2>3. CASE ~\E h \in Handlers : handler[p][h].at = "dec"
    <3>1. Decreasing(p) = {} /\ Cardinality({}) = 0 BY <2>3, FS_EmptySet DEF Decreasing
    <3>2. procs_complete[p] # Proc
      <4>1. Cardinality(Proc) = N /\ N \in Nat BY ProcFacts
      <4> QED BY <2>1, <3>1, <4>1
    <3>3. PICK q \in Proc : q \notin procs_complete[p] BY <3>2 DEF Typed
    <3>4. callsreceived[p][q] >= calls_to_receive[p][q] => \E h \in Handlers : LastOf(p, h, q)
      BY <3>3 DEF Waits, Found
    <3>5. callsreceived[p][q] < calls_to_receive[p][q] \/ callsreceived[p][q] >= calls_to_receive[p][q]
      BY <1>0
    <3> QED BY <2>1, <3>4, <3>5 DEF StillCounting, LastOf, Counting
  <2> QED BY <2>2, <2>3
<1> QED BY <1>1, <1>2

-----------------------------------------------------------------------------
(* The shape of the tree.                                                  *)

\* Division of naturals, which the places of the children rest on.
LEMMA Divide ==
  ASSUME NEW a \in Nat, NEW b \in Nat \ {0}
  PROVE  a \div b \in Nat /\ b * (a \div b) <= a /\ a < b * (a \div b) + b OBVIOUS

LEMMA DivideOnly ==
  ASSUME NEW a \in Nat, NEW b \in Nat \ {0}, NEW q \in Nat, b * q <= a, a < b * q + b
  PROVE  a \div b = q OBVIOUS

\* The parent of a machine that is not the root is a machine before it.
LEMMA TreeShape ==
  ASSUME NEW c \in Proc \ {0}
  PROVE  /\ Parent(c) \in Proc /\ Parent(c) < c
         /\ \A p \in Proc : c \in Children(N, Branch, p) <=> p = Parent(c)
<1>1. c \in Nat /\ c > 0 /\ N \in Nat /\ c < N /\ Branch \in Nat \ {0}  BY ConstantsAssumption DEF Proc
<1>2. /\ Parent(c) \in Nat /\ Branch * Parent(c) <= c - 1 /\ c - 1 < Branch * Parent(c) + Branch
  BY <1>1, Divide DEF Parent
<1>3. Parent(c) <= Branch * Parent(c) BY <1>1, <1>2
<1>4. Parent(c) \in Proc /\ Parent(c) < c BY <1>1, <1>2, <1>3 DEF Proc
<1>5. ASSUME NEW p \in Proc PROVE c \in Children(N, Branch, p) <=> p = Parent(c)
  <2>1. p \in Nat BY DEF Proc
  <2>2. c \in Children(N, Branch, p) <=> p * Branch + 1 <= c /\ c < p * Branch + 1 + Branch
    BY <1>1 DEF Children, Proc
  <2>3. Branch * p \in Nat /\ p * Branch = Branch * p BY <1>1, <2>1
  <2>4. ASSUME p * Branch + 1 <= c, c < p * Branch + 1 + Branch PROVE p = Parent(c)
    <3>1. c - 1 \in Nat /\ Branch * p <= c - 1 /\ c - 1 < Branch * p + Branch BY <1>1, <2>1, <2>3, <2>4
    <3> QED BY <1>1, <2>1, <3>1, DivideOnly DEF Parent
  <2>5. ASSUME p = Parent(c) PROVE p * Branch + 1 <= c /\ c < p * Branch + 1 + Branch
    BY <1>1, <1>2, <2>3, <2>5
  <2> QED BY <2>2, <2>4, <2>5
<1> QED BY <1>4, <1>5

-----------------------------------------------------------------------------
(* The order of the subtrees.                                              *)

\* The machines of the subtree at c: what every set that holds c, and with a
\* machine its children, holds.
Closed(S) == \A x \in Proc \ {0} : Parent(x) \in S => x \in S
Below(c) == {q \in Proc : \A S \in SUBSET Proc : c \in S /\ Closed(S) => q \in S}

\* The machines whose strings come before that of q: those above it, and the
\* subtrees to the left.
Before(q) ==
  {x \in Proc :
     \/ q \in Below(x) /\ x # q
     \/ \E a, b \in Proc \ {0} : Parent(a) = Parent(b) /\ a < b /\ x \in Below(a) /\ q \in Below(b)}

Position(q) == Cardinality(Before(q)) + 1
Size(c) == Cardinality(Below(c))

LEMMA BelowLeast ==
  ASSUME NEW c \in Proc, NEW S \in SUBSET Proc, c \in S, Closed(S)
  PROVE  Below(c) \subseteq S BY DEF Below

LEMMA BelowIs ==
  ASSUME NEW c \in Proc
  PROVE  /\ Below(c) \in SUBSET Proc /\ c \in Below(c) /\ Closed(Below(c))
         /\ \A q \in Proc \ {0} : q \in Below(c) <=> q = c \/ Parent(q) \in Below(c)
         /\ 0 \in Below(c) <=> c = 0
         /\ \A q \in Below(c) : c <= q
<1>0. 0 \in Proc BY ProcFacts
<1>1. Below(c) \in SUBSET Proc /\ c \in Below(c) BY DEF Below
<1>2. Closed(Below(c)) BY DEF Closed, Below
<1>3. ASSUME NEW q \in Proc \ {0} PROVE q \in Below(c) <=> q = c \/ Parent(q) \in Below(c)
  <2>1. ASSUME q \in Below(c) PROVE q = c \/ Parent(q) \in Below(c)
    <3> DEFINE S == {c} \cup {x \in Proc \ {0} : Parent(x) \in Below(c)}
    <3>1. S \in SUBSET Proc /\ c \in S OBVIOUS
    <3>2. S \subseteq Below(c) BY <1>1, <1>2 DEF Closed
    <3>3. Closed(S) BY <3>2 DEF Closed
    <3> HIDE DEF S
    <3>4. q \in S BY <2>1, <3>1, <3>3, BelowLeast
    <3> QED BY <3>4 DEF S
  <2> QED BY <1>1, <1>2, <2>1 DEF Closed
<1>4. ASSUME c # 0 PROVE 0 \notin Below(c)
  <2> DEFINE S == Below(c) \ {0}
  <2>1. S \in SUBSET Proc /\ c \in S BY <1>1, <1>4
  <2>2. Closed(S) BY <1>2 DEF Closed
  <2> HIDE DEF S
  <2>3. Below(c) \subseteq S BY <2>1, <2>2, BelowLeast
  <2> QED BY <2>3 DEF S
<1>5. \A q \in Below(c) : c <= q
  <2> DEFINE S == {x \in Proc : c <= x}
  <2>0. c \in Nat BY DEF Proc
  <2>1. S \in SUBSET Proc /\ c \in S BY <2>0
  <2>2. Closed(S) BY TreeShape, <2>0 DEF Closed, Proc
  <2> HIDE DEF S
  <2>3. Below(c) \subseteq S BY <2>1, <2>2, BelowLeast
  <2> QED BY <2>3 DEF S
<1> QED BY <1>0, <1>1, <1>2, <1>3, <1>4, <1>5

\* Induction from the root down.
LEMMA DownTheTree ==
  ASSUME NEW S \in SUBSET Proc, 0 \in S, Closed(S)
  PROVE  S = Proc
<1> SUFFICES ASSUME Proc \ S # {} PROVE FALSE OBVIOUS
<1>1. Proc \ S \subseteq Nat BY DEF Proc
<1>2. PICK x \in Proc \ S : \A y \in Proc \ S : x <= y BY <1>1, NatMin
<1>3. x # 0 OBVIOUS
<1>4. Parent(x) \in Proc /\ Parent(x) < x /\ x \in Nat /\ Parent(x) \in Nat  BY <1>3, TreeShape DEF Proc
<1>5. Parent(x) \in S BY <1>2, <1>4
<1> QED BY <1>3, <1>5 DEF Closed

LEMMA BelowTrans ==
  ASSUME NEW c \in Proc, NEW d \in Below(c)
  PROVE  Below(d) \subseteq Below(c) BY BelowIs, BelowLeast

LEMMA SiblingsApart ==
  ASSUME NEW a \in Proc \ {0}, NEW b \in Proc \ {0}, Parent(a) = Parent(b), a # b
  PROVE  Below(a) \cap Below(b) = {}
<1> DEFINE T == Below(a) \cap Below(b)
<1> SUFFICES ASSUME T # {} PROVE FALSE OBVIOUS
<1>0. Below(a) \in SUBSET Proc /\ Below(b) \in SUBSET Proc BY BelowIs
<1>1. T \subseteq Nat BY <1>0 DEF Proc
<1>2. PICK x \in T : \A y \in T : x <= y BY <1>1, NatMin
<1>3. x \in Proc \ {0} BY <1>0, BelowIs
<1>4. Parent(x) \in Proc /\ Parent(x) < x /\ x \in Nat /\ Parent(x) \in Nat BY <1>3, TreeShape DEF Proc
<1>5. Parent(x) \notin T BY <1>2, <1>4
<1>6. x = a \/ x = b BY <1>3, <1>5, BelowIs
<1>7. Parent(x) = Parent(a) /\ Parent(x) = Parent(b) BY <1>6
<1>8. Parent(x) \in Below(a) \/ Parent(x) \in Below(b) BY <1>3, <1>6, BelowIs
<1>9. a <= Parent(x) \/ b <= Parent(x) BY <1>8, BelowIs
<1>10. Parent(a) < a /\ Parent(b) < b /\ a \in Nat /\ b \in Nat BY TreeShape DEF Proc
<1> QED BY <1>4, <1>7, <1>9, <1>10

\* The children of p are consecutive.
LEMMA ChildrenOf ==
  ASSUME NEW p \in Proc
  PROVE  /\ numchild(p) \in 0 .. Branch
         /\ \A k \in 1 .. numchild(p) : /\ p * Branch + k \in Proc \ {0}
                                        /\ Parent(p * Branch + k) = p
         /\ \A c \in Children(N, Branch, p) : \E k \in 1 .. numchild(p) : c = p * Branch + k
         /\ \A c \in Proc \ {0} : Parent(c) = p <=> c \in Children(N, Branch, p)
<1>1. p \in Nat /\ N \in Nat /\ Branch \in Nat \ {0} BY ConstantsAssumption DEF Proc
<1>2. PICK a \in Nat : a = p * Branch BY <1>1
<1>3. Children(N, Branch, p) = {c \in 0 .. N-1 : a + 1 <= c /\ c < a + 1 + Branch} BY <1>2 DEF Children
<1>4. \E n \in 0 .. Branch : Children(N, Branch, p) = (a + 1) .. (a + n)
  <2>1. CASE N <= a + 1
    <3>1. Children(N, Branch, p) = (a + 1) .. (a + 0) BY <1>1, <1>2, <1>3, <2>1
    <3> QED BY <1>1, <3>1
  <2>2. CASE a + 1 < N /\ N <= a + 1 + Branch
    <3>1. Children(N, Branch, p) = (a + 1) .. (a + (N - 1 - a)) BY <1>1, <1>2, <1>3, <2>2
    <3>2. N - 1 - a \in 0 .. Branch BY <1>1, <1>2, <2>2
    <3> QED BY <3>1, <3>2
  <2>3. CASE a + 1 + Branch < N
    <3>1. Children(N, Branch, p) = (a + 1) .. (a + Branch) BY <1>1, <1>2, <1>3, <2>3
    <3> QED BY <1>1, <3>1
  <2> QED BY <1>1, <1>2, <2>1, <2>2, <2>3
<1>5. PICK n \in 0 .. Branch : Children(N, Branch, p) = (a + 1) .. (a + n) BY <1>4
<1>6. numchild(p) = n
  <2>1. Cardinality((a + 1) .. (a + n)) = IF a + 1 > a + n THEN 0 ELSE (a + n) - (a + 1) + 1
    BY <1>1, <1>2, FS_Interval
  <2> QED BY <1>1, <1>2, <1>5, <2>1 DEF numchild
<1>7. ASSUME NEW k \in 1 .. numchild(p)
      PROVE  p * Branch + k \in Proc \ {0} /\ Parent(p * Branch + k) = p
  <2>1. a + k \in Children(N, Branch, p) BY <1>1, <1>2, <1>5, <1>6
  <2>2. a + k \in Proc \ {0} BY <1>2, <1>3, <2>1 DEF Proc
  <2> QED BY <1>2, <2>1, <2>2, TreeShape
<1>8. ASSUME NEW c \in Children(N, Branch, p) PROVE \E k \in 1 .. numchild(p) : c = p * Branch + k
  <2>1. c - a \in 1 .. n /\ c = a + (c - a) BY <1>1, <1>2, <1>5
  <2> QED BY <1>2, <1>6, <2>1
<1> QED BY <1>5, <1>6, <1>7, <1>8, TreeShape

LEMMA BeforeIs ==
  ASSUME NEW q \in Proc
  PROVE  /\ Before(q) \in SUBSET Proc /\ q \notin Before(q)
         /\ Before(q) \cap Below(q) = {}
<1>1. Before(q) \in SUBSET Proc BY DEF Before
<1>2. ASSUME NEW x \in Before(q), x \in Below(q) PROVE FALSE
  <2>0. x \in Proc BY <1>1
  <2>1. CASE q \in Below(x) /\ x # q
    <3>1. x <= q /\ q <= x BY <1>2, <2>0, <2>1, BelowIs
    <3>2. x \in Nat /\ q \in Nat BY <2>0 DEF Proc
    <3> QED BY <2>1, <3>1, <3>2
  <2>2. CASE \E a, b \in Proc \ {0} : Parent(a) = Parent(b) /\ a < b /\ x \in Below(a) /\ q \in Below(b)
    <3>1. PICK a, b \in Proc \ {0} : Parent(a) = Parent(b) /\ a < b /\ x \in Below(a) /\ q \in Below(b)
      BY <2>2
    <3>2. x \in Below(b) BY <1>2, <3>1, BelowTrans
    <3>3. a # b /\ Below(a) \cap Below(b) # {}  BY <3>1, <3>2 DEF Proc
    <3> QED BY <3>1, <3>3, SiblingsApart
  <2> QED BY <2>1, <2>2 DEF Before
<1>3. q \in Below(q) BY BelowIs
<1> QED BY <1>1, <1>2, <1>3

LEMMA BeforeRoot == Before(0) = {} /\ Below(0) = Proc
<1>0. 0 \in Proc BY ProcFacts
<1>1. \A x \in Proc : 0 \in Below(x) => x = 0 BY BelowIs
<1>2. Below(0) = Proc BY <1>0, BelowIs, DownTheTree
<1> QED BY <1>1, <1>2 DEF Before

LEMMA BeforeFirst ==
  ASSUME NEW p \in Proc, NEW c \in Proc \ {0}, Parent(c) = p,
         \A a \in Proc \ {0} : Parent(a) = p => c <= a
  PROVE  Before(c) = Before(p) \cup {p}
<1>1. \A x \in Proc : c \in Below(x) /\ x # c <=> p \in Below(x) 
  <2> SUFFICES ASSUME NEW x \in Proc PROVE c \in Below(x) /\ x # c <=> p \in Below(x) OBVIOUS
  <2>1. c \in Below(x) <=> c = x \/ p \in Below(x) BY BelowIs
  <2>2. ASSUME p \in Below(x) PROVE x # c BY <2>2, BelowIs, TreeShape DEF Proc
  <2> QED BY <2>1, <2>2
<1>2. ASSUME NEW a \in Proc \ {0}, NEW b \in Proc \ {0}, Parent(a) = Parent(b), a < b
      PROVE  c \in Below(b) <=> p \in Below(b)
  <2>1. c # b BY <1>2 DEF Proc
  <2> QED BY <2>1, BelowIs
<1>3. \A x \in Proc : x \in Before(c) <=> x = p \/ x \in Before(p) BY BelowIs, <1>1, <1>2 DEF Before
<1>4. Before(c) \in SUBSET Proc /\ Before(p) \in SUBSET Proc BY BeforeIs
<1> QED BY <1>3, <1>4

LEMMA BeforeSibling ==
  ASSUME NEW c \in Proc \ {0}, NEW d \in Proc \ {0}, d = c + 1, Parent(c) = Parent(d)
  PROVE  Before(d) = Before(c) \cup Below(c)
<1> DEFINE p == Parent(c)
<1>0. p \in Proc /\ c \in Nat /\ d \in Nat /\ p \in Nat /\ p < c /\ p < d BY TreeShape DEF Proc
<1>1. ASSUME NEW x \in Proc, NEW y \in Proc \ {0}, Parent(y) = p 
      PROVE  y \in Below(x) /\ x # y <=> p \in Below(x)
  <2>1. y \in Below(x) <=> y = x \/ p \in Below(x) BY <1>1, BelowIs
  <2>2. ASSUME p \in Below(x) PROVE x # y
    <3>1. x <= p /\ p < y BY <1>0, <1>1, <2>2, BelowIs, TreeShape
    <3>2. x \in Nat /\ p \in Nat /\ y \in Nat BY <1>0 DEF Proc
    <3> QED BY <3>1, <3>2
  <2> QED BY <2>1, <2>2
<1>2. c < d /\ c # d /\ \A a \in Proc : a < d <=> a < c \/ a = c BY <1>0 DEF Proc
<1>3. ASSUME NEW x \in Before(d) PROVE x \in Before(c) \/ x \in Below(c)
  <2>0. x \in Proc BY BeforeIs
  <2>1. CASE d \in Below(x) /\ x # d BY <1>1, <2>0, <2>1 DEF Before
  <2>2. ASSUME NEW a \in Proc \ {0}, NEW b \in Proc \ {0}, Parent(a) = Parent(b), a < b,
               x \in Below(a), d \in Below(b)
        PROVE  x \in Before(c) \/ x \in Below(c)
    <3>1. CASE b = d
      <4>1. a < c \/ a = c BY <1>2, <2>2, <3>1
      <4>2. Parent(a) = Parent(c) /\ c \in Below(c) BY <2>2, <3>1, BelowIs
      <4> QED BY <2>0, <2>2, <4>1, <4>2 DEF Before
    <3>2. CASE b # d
      <4>1. p \in Below(b) BY <1>1, <2>2, <3>2
      <4>2. c \in Below(b) BY <1>0, <1>1, <4>1
      <4> QED BY <2>0, <2>2, <4>2 DEF Before
    <3> QED BY <3>1, <3>2
  <2> QED BY <2>1, <2>2 DEF Before
<1>4. ASSUME NEW x \in Below(c) PROVE x \in Before(d) BY BelowIs, <1>2 DEF Before
<1>5. ASSUME NEW x \in Before(c) PROVE x \in Before(d)
  <2>0. x \in Proc BY BeforeIs
  <2>1. CASE c \in Below(x) /\ x # c BY <1>1, <2>0, <2>1 DEF Before
  <2>2. ASSUME NEW a \in Proc \ {0}, NEW b \in Proc \ {0}, Parent(a) = Parent(b), a < b,
               x \in Below(a), c \in Below(b)
        PROVE  x \in Before(d)
    <3>1. CASE b = c
      <4>1. a < d /\ Parent(a) = Parent(d) /\ d \in Below(d) BY <1>2, <2>2, <3>1, BelowIs
      <4> QED BY <2>0, <2>2, <4>1 DEF Before
    <3>2. CASE b # c
      <4>1. p \in Below(b) BY <1>1, <2>2, <3>2
      <4>2. d \in Below(b) BY <1>0, <1>1, <4>1
      <4> QED BY <2>0, <2>2, <4>2 DEF Before
    <3> QED BY <3>1, <3>2
  <2> QED BY <2>1, <2>2 DEF Before
<1> QED BY <1>3, <1>4, <1>5

LEMMA BelowChildren ==
  ASSUME NEW p \in Proc, NEW q \in Below(p), q # p
  PROVE  \E a \in Proc \ {0} : Parent(a) = p /\ q \in Below(a)
<1> DEFINE S == {p} \cup {x \in Proc : \E a \in Proc \ {0} : Parent(a) = p /\ x \in Below(a)}
<1>1. S \in SUBSET Proc /\ p \in S OBVIOUS
<1>2. Closed(S) BY BelowIs DEF Closed
<1> HIDE DEF S
<1>3. q \in S BY <1>1, <1>2, BelowLeast
<1> QED BY <1>3 DEF S

LEMMA BeforeLast ==
  ASSUME NEW p \in Proc, NEW c \in Proc \ {0}, Parent(c) = p,
         \A a \in Proc \ {0} : Parent(a) = p => a <= c
  PROVE  Before(c) \cup Below(c) = Before(p) \cup Below(p)
<1>0. c \in Nat /\ p \in Nat /\ p < c BY TreeShape DEF Proc
<1>1. c \in Below(p) BY BelowIs
<1>2. Below(c) \subseteq Below(p) BY <1>1, BelowTrans
<1>3. \A x \in Proc : p \in Below(x) => c \in Below(x) /\ x # c BY BelowIs, <1>0 DEF Proc
<1>4. ASSUME NEW x \in Before(c) PROVE x \in Before(p) \/ x \in Below(p)
  <2>0. x \in Proc BY BeforeIs
  <2>1. CASE c \in Below(x) /\ x # c BY <2>0, <2>1, BelowIs DEF Before
  <2>2. ASSUME NEW a \in Proc \ {0}, NEW b \in Proc \ {0}, Parent(a) = Parent(b), a < b,
               x \in Below(a), c \in Below(b)
        PROVE  x \in Before(p) \/ x \in Below(p)
    <3>1. CASE b = c
      <4>1. Parent(a) = p BY <2>2, <3>1
      <4>2. a \in Below(p) BY <4>1, BelowIs
      <4> QED BY <2>2, <4>2, BelowTrans
    <3>2. CASE b # c
      <4>1. p \in Below(b) BY <2>2, <3>2, BelowIs
      <4> QED BY <2>0, <2>2, <4>1 DEF Before
    <3> QED BY <3>1, <3>2
  <2> QED BY <2>1, <2>2 DEF Before
<1>5. ASSUME NEW x \in Before(p) PROVE x \in Before(c)
  <2>0. x \in Proc BY BeforeIs
  <2>1. CASE p \in Below(x) /\ x # p BY <1>3, <2>0, <2>1 DEF Before
  <2>2. ASSUME NEW a \in Proc \ {0}, NEW b \in Proc \ {0}, Parent(a) = Parent(b), a < b,
               x \in Below(a), p \in Below(b)
        PROVE  x \in Before(c) BY <1>3, <2>2, <2>0 DEF Before
  <2> QED BY <2>1, <2>2 DEF Before
<1>6. ASSUME NEW x \in Below(p) PROVE x \in Before(c) \/ x \in Below(c)
  <2>0. x \in Proc BY BelowIs
  <2>1. CASE x = p BY BelowIs, <1>3, <2>1 DEF Before
  <2>2. CASE x # p
    <3>1. PICK a \in Proc \ {0} : Parent(a) = p /\ x \in Below(a) BY <2>2, BelowChildren
    <3>2. a < c \/ a = c BY <1>0, <3>1 DEF Proc
    <3>3. c \in Below(c) BY BelowIs
    <3> QED BY <2>0, <3>1, <3>2, <3>3 DEF Before
  <2> QED BY <2>1, <2>2
<1> QED BY <1>2, <1>4, <1>5, <1>6

LEMMA BelowLeaf ==
  ASSUME NEW p \in Proc, \A a \in Proc \ {0} : Parent(a) # p
  PROVE  Below(p) = {p} BY BelowChildren, BelowIs

LEMMA BeforeWithin ==
  ASSUME NEW c \in Proc, NEW q \in Below(c)
  PROVE  Before(c) \subseteq Before(q) /\ Before(q) \subseteq Before(c) \cup Below(c)
<1>0. q \in Proc BY BelowIs
<1>1. ASSUME NEW x \in Before(c) PROVE x \in Before(q)
  <2>0. x \in Proc BY BeforeIs
  <2>1. CASE c \in Below(x) /\ x # c
    <3>1. q \in Below(x) BY <2>0, <2>1, BelowTrans
    <3>2. x <= c /\ c <= q BY <2>0, <2>1, BelowIs
    <3>3. x \in Nat /\ c \in Nat /\ q \in Nat BY <1>0, <2>0 DEF Proc
    <3>4. x # q BY <2>1, <3>2, <3>3
    <3> QED BY <2>0, <3>1, <3>4 DEF Before
  <2>2. ASSUME NEW a \in Proc \ {0}, NEW b \in Proc \ {0}, Parent(a) = Parent(b), a < b,
               x \in Below(a), c \in Below(b)
        PROVE  x \in Before(q) BY <2>2, BelowTrans, <2>0 DEF Before
  <2> QED BY <2>1, <2>2 DEF Before
<1> DEFINE S == {y \in Below(c) : Before(y) \subseteq Before(c) \cup Below(c)}
<1>2. S \in SUBSET Proc /\ c \in S BY BelowIs
<1>3. Closed(S)
  <2> SUFFICES ASSUME NEW y \in Proc \ {0}, Parent(y) \in S PROVE y \in S BY DEF Closed
  <2> DEFINE z == Parent(y)
  <2>1. z \in Proc /\ z \in Below(c) /\ Before(z) \subseteq Before(c) \cup Below(c) BY TreeShape
  <2>2. y \in Below(c) BY <2>1, BelowIs
  <2>3. Below(z) \subseteq Below(c) BY <2>1, BelowTrans
  <2>4. ASSUME NEW x \in Before(y) PROVE x \in Before(c) \cup Below(c)
    <3>0. x \in Proc BY BeforeIs
    <3>1. CASE y \in Below(x) /\ x # y
      <4>1. z \in Below(x) BY <3>0, <3>1, BelowIs
      <4>2. x = z \/ x \in Before(z) BY <2>1, <3>0, <4>1 DEF Before
      <4> QED BY <2>1, <4>2
    <3>2. ASSUME NEW a \in Proc \ {0}, NEW b \in Proc \ {0}, Parent(a) = Parent(b), a < b,
                 x \in Below(a), y \in Below(b)
          PROVE  x \in Before(c) \cup Below(c)
      <4>1. CASE b = y
        <5>1. a \in Below(z) BY <2>1, <3>2, <4>1, BelowIs
        <5>2. a \in Below(c) BY <2>3, <5>1
        <5> QED BY <3>2, <5>2, BelowTrans
      <4>2. CASE b # y
        <5>1. z \in Below(b) BY <3>2, <4>2, BelowIs
        <5>2. x \in Before(z) BY <2>1, <3>0, <3>2, <5>1 DEF Before
        <5> QED BY <2>1, <5>2
      <4> QED BY <4>1, <4>2
    <3> QED BY <3>1, <3>2 DEF Before
  <2> QED BY <2>2, <2>4
<1> HIDE DEF S
<1>4. q \in S BY <1>2, <1>3, BelowLeast
<1> QED BY <1>1, <1>4 DEF S

LEMMA Positions ==
  ASSUME NEW p \in Proc
  PROVE  /\ Position(p) \in 1 .. N /\ Size(p) \in 1 .. N /\ Position(p) + Size(p) <= N + 1
         /\ Cardinality(Before(p) \cup Below(p)) = Position(p) + Size(p) - 1
         /\ \A q \in Below(p) : /\ Position(p) <= Position(q)
                                /\ Position(q) + Size(q) <= Position(p) + Size(p)
<1>1. \A q \in Proc : /\ Before(q) \in SUBSET Proc /\ Below(q) \in SUBSET Proc
                      /\ q \in Below(q) /\ q \notin Before(q) /\ Before(q) \cap Below(q) = {}
                      /\ (Before(q) \cup Below(q)) \in SUBSET Proc BY BelowIs, BeforeIs
<1>2. N \in Nat BY ProcFacts
<1>3. ASSUME NEW q \in Proc
      PROVE  /\ Cardinality(Before(q)) \in Nat /\ Cardinality(Below(q)) \in 1 .. N
             /\ Cardinality(Before(q) \cup Below(q)) = Cardinality(Before(q)) + Cardinality(Below(q))
             /\ Cardinality(Before(q) \cup Below(q)) <= N
             /\ IsFiniteSet(Before(q) \cup Below(q)) /\ IsFiniteSet(Before(q))
  <2>1. /\ IsFiniteSet(Before(q)) /\ IsFiniteSet(Below(q)) /\ IsFiniteSet(Before(q) \cup Below(q))
        /\ Cardinality(Before(q)) \in 0 .. N /\ Cardinality(Below(q)) \in 0 .. N
        /\ Cardinality(Before(q) \cup Below(q)) \in 0 .. N BY <1>1, ProcFacts
  <2>2. Cardinality(Below(q)) # 0 BY <1>1, <2>1, FS_EmptySet
  <2>3. Cardinality(Before(q) \cup Below(q)) =
          Cardinality(Before(q)) + Cardinality(Below(q)) - Cardinality(Before(q) \cap Below(q))
    BY <2>1, FS_Union
  <2>4. Cardinality(Before(q) \cap Below(q)) = 0 BY <1>1, FS_EmptySet
  <2> QED BY <1>2, <2>1, <2>2, <2>3, <2>4
<1>4. ASSUME NEW q \in Below(p)
      PROVE  Position(p) <= Position(q) /\ Position(q) + Size(q) <= Position(p) + Size(p)
  <2>0. q \in Proc BY <1>1
  <2>1. /\ Before(p) \subseteq Before(q) 
        /\ Before(q) \cup Below(q) \subseteq Before(p) \cup Below(p) BY BeforeWithin, BelowTrans
  <2>2. Cardinality(Before(p)) <= Cardinality(Before(q)) BY <1>3, <2>0, <2>1, FS_Subset
  <2>3. Cardinality(Before(q) \cup Below(q)) <= Cardinality(Before(p) \cup Below(p))
    BY <1>3, <2>1, FS_Subset
  <2> QED BY <1>3, <2>0, <2>2, <2>3 DEF Position, Size
<1>5. /\ Position(p) \in 1 .. N /\ Size(p) \in 1 .. N /\ Position(p) + Size(p) <= N + 1
      /\ Cardinality(Before(p) \cup Below(p)) = Position(p) + Size(p) - 1
  BY <1>2, <1>3 DEF Position, Size
<1> QED BY <1>4, <1>5

LEMMA PositionRoot == Position(0) = 1 /\ Size(0) = N
BY BeforeRoot, FS_EmptySet, ProcFacts DEF Position, Size

\* Where the strings of the children of p are.
LEMMA PositionChildren ==
  ASSUME NEW p \in Proc
  PROVE  /\ numchild(p) = 0 => Size(p) = 1
         /\ numchild(p) > 0 => /\ Position(p * Branch + 1) = Position(p) + 1
                               /\ LET c == p * Branch + numchild(p) IN
                                  Position(c) + Size(c) = Position(p) + Size(p)
         /\ \A k \in 1 .. numchild(p) : k + 1 <= numchild(p) =>
              Position(p * Branch + (k + 1)) = Position(p * Branch + k) + Size(p * Branch + k)
<1>1. p \in Nat /\ p * Branch \in Nat /\ numchild(p) \in Nat BY ConstantsAssumption, ChildrenOf DEF Proc
<1>2. PICK a \in Nat : a = p * Branch BY <1>1
<1>3. \A k \in 1 .. numchild(p) : a + k \in Proc \ {0} /\ Parent(a + k) = p BY <1>2, ChildrenOf
<1>4. \A c \in Proc \ {0} : Parent(c) = p => \E k \in 1 .. numchild(p) : c = a + k BY <1>2, ChildrenOf
<1>5. ASSUME numchild(p) = 0 PROVE Size(p) = 1
  <2>1. Below(p) = {p} BY <1>4, <1>5, BelowLeaf
  <2> QED BY <2>1, FS_Singleton DEF Size
<1>6. ASSUME numchild(p) > 0
      PROVE  /\ Position(a + 1) = Position(p) + 1
             /\ Position(a + numchild(p)) + Size(a + numchild(p)) = Position(p) + Size(p)
  <2>1. 1 \in 1 .. numchild(p) /\ numchild(p) \in 1 .. numchild(p) BY <1>1, <1>6
  <2>2. \A c \in Proc \ {0} : Parent(c) = p => a + 1 <= c /\ c <= a + numchild(p) BY <1>1, <1>2, <1>4
  <2>3. Before(a + 1) = Before(p) \cup {p} BY <1>3, <2>1, <2>2, BeforeFirst
  <2>4. Position(a + 1) = Position(p) + 1
    <3>1. p \notin Before(p) /\ IsFiniteSet(Before(p)) BY BeforeIs, ProcFacts
    <3>2. Cardinality(Before(a + 1)) = Cardinality(Before(p)) + 1 BY <2>3, <3>1, FS_AddElement
    <3> QED BY <3>2 DEF Position
  <2> DEFINE c == a + numchild(p)
  <2>5. c \in Proc \ {0} /\ Parent(c) = p BY <1>3, <2>1
  <2> HIDE DEF c
  <2>6. Before(c) \cup Below(c) = Before(p) \cup Below(p) BY <2>2, <2>5, BeforeLast DEF c
  <2>7. Position(c) + Size(c) - 1 = Position(p) + Size(p) - 1 BY <2>5, <2>6, Positions
  <2>8. Position(c) \in 1 .. N /\ Size(c) \in 1 .. N /\ Position(p) \in 1 .. N /\ Size(p) \in 1 .. N
    BY <2>5, Positions
  <2>9. Position(c) + Size(c) = Position(p) + Size(p) BY <2>7, <2>8
  <2> QED BY <2>4, <2>9 DEF c
<1>7. ASSUME NEW k \in 1 .. numchild(p), k + 1 <= numchild(p)
      PROVE  Position(a + (k + 1)) = Position(a + k) + Size(a + k)
  <2> DEFINE c == a + k
             d == a + (k + 1)
  <2>1. k + 1 \in 1 .. numchild(p) /\ d = c + 1 BY <1>1, <1>2, <1>7
  <2>2. c \in Proc \ {0} /\ d \in Proc \ {0} /\ Parent(c) = p /\ Parent(d) = p BY <1>3, <2>1
  <2> HIDE DEF c, d
  <2>3. Before(d) = Before(c) \cup Below(c) BY <2>1, <2>2, BeforeSibling
  <2>4. Cardinality(Before(d)) = Position(c) + Size(c) - 1 BY <2>2, <2>3, Positions
  <2>5. Position(c) \in 1 .. N /\ Size(c) \in 1 .. N BY <2>2, Positions
  <2>6. Position(d) = Position(c) + Size(c) BY <2>4, <2>5 DEF Position
  <2> QED BY <2>6 DEF c, d
<1> QED BY <1>2, <1>5, <1>6, <1>7

\* What a recursive function on an interval is, where there is one.
LEMMA OrderExists ==
  ASSUME NEW w, NEW n \in Nat
  PROVE  \E g : g = [i \in 1 .. n |-> IF i = 1 THEN 0 ELSE w[g[i - 1]]]
<1> DEFINE S == {m \in Nat : \E g : g = [i \in 1 .. m |-> IF i = 1 THEN 0 ELSE w[g[i - 1]]]}
<1>1. 0 \in S
  <2> DEFINE g == [i \in 1 .. 0 |-> 0]
  <2>1. g = [i \in 1 .. 0 |-> IF i = 1 THEN 0 ELSE w[g[i - 1]]] OBVIOUS
  <2> HIDE DEF g
  <2> QED BY <2>1
<1>2. ASSUME NEW m \in Nat, m \in S PROVE m + 1 \in S
  <2>1. PICK g : g = [i \in 1 .. m |-> IF i = 1 THEN 0 ELSE w[g[i - 1]]] BY <1>2
  <2> DEFINE f == [i \in 1 .. m + 1 |-> IF i <= m THEN g[i] ELSE IF m = 0 THEN 0 ELSE w[g[m]]]
  <2>2. ASSUME NEW i \in 1 .. m + 1 PROVE f[i] = IF i = 1 THEN 0 ELSE w[f[i - 1]]
    <3>1. CASE i <= m  BY <2>1, <3>1
    <3>2. CASE i = m + 1 BY <3>2
    <3> QED BY <3>1, <3>2
  <2>3. f = [i \in 1 .. m + 1 |-> IF i = 1 THEN 0 ELSE w[f[i - 1]]] 
    <3>1. f = [i \in 1 .. m + 1 |-> f[i]] OBVIOUS
    <3> HIDE DEF f
    <3> QED BY <2>2, <3>1
  <2> HIDE DEF f
  <2> QED BY <2>3
<1> HIDE DEF S
<1>3. n \in S BY <1>1, <1>2, NatSetInduction
<1> QED BY <1>3 DEF S

LEMMA OrderIs ==
  /\ HeapOrder(N, Branch)[1] = 0 
  /\ \A i \in 2 .. N : HeapOrder(N, Branch)[i] = HeapWalk(N, Branch)[HeapOrder(N, Branch)[i - 1]]
<1>0. N \in Nat /\ N > 1 BY ProcFacts
<1>1. PICK w : w = HeapWalk(N, Branch) OBVIOUS
<1>2. PICK o : o = HeapOrder(N, Branch) OBVIOUS
<1>3. \E g : g = [i \in 1 .. N |-> IF i = 1 THEN 0 ELSE w[g[i - 1]]]
  <2>1. \A n \in Nat : \E g : g = [i \in 1 .. n |-> IF i = 1 THEN 0 ELSE w[g[i - 1]]] BY OrderExists
  <2> QED BY <1>0, <2>1
<1>4. o = CHOOSE g : g = [i \in 1 .. N |-> IF i = 1 THEN 0 ELSE w[g[i - 1]]] BY <1>1, <1>2 DEF HeapOrder
<1>5. o = [i \in 1 .. N |-> IF i = 1 THEN 0 ELSE w[o[i - 1]]] BY <1>3, <1>4
<1>6. o[1] = 0 /\ \A i \in 2 .. N : o[i] = w[o[i - 1]] BY <1>0, <1>5
<1> QED BY <1>1, <1>2, <1>6

\* The last child of a full parent: there is no sibling to go to.
RightBranch(h) == (h - 1) % Branch = Branch - 1

LEMMA ClimbExists ==
  ASSUME NEW n \in Nat
  PROVE  \E g : g = [h \in 0 .. n - 1 |->
                       IF ~RightBranch(h) /\ h + 1 < N THEN h + 1
                       ELSE IF h = 0 THEN 0 ELSE g[(h - 1) \div Branch]]
<1> DEFINE S == {m \in Nat : \E g : g = [h \in 0 .. m - 1 |->
                                           IF ~RightBranch(h) /\ h + 1 < N THEN h + 1
                                           ELSE IF h = 0 THEN 0 ELSE g[(h - 1) \div Branch]]}
<1>0. Branch \in Nat \ {0} BY ConstantsAssumption
<1>1. 0 \in S
  <2> DEFINE g == [h \in 0 .. 0 - 1 |-> 0]
  <2>1. g = [h \in 0 .. 0 - 1 |-> IF ~RightBranch(h) /\ h + 1 < N THEN h + 1
                                  ELSE IF h = 0 THEN 0 ELSE g[(h - 1) \div Branch]] OBVIOUS
  <2> HIDE DEF g
  <2> QED BY <2>1
<1>2. ASSUME NEW m \in Nat, m \in S PROVE m + 1 \in S
  <2>1. PICK g : g = [h \in 0 .. m - 1 |-> IF ~RightBranch(h) /\ h + 1 < N THEN h + 1
                                           ELSE IF h = 0 THEN 0 ELSE g[(h - 1) \div Branch]] BY <1>2
  <2> DEFINE f == [h \in 0 .. (m + 1) - 1 |->
                     IF h < m THEN g[h] ELSE IF ~RightBranch(h) /\ h + 1 < N THEN h + 1
                                             ELSE IF h = 0 THEN 0 ELSE g[(h - 1) \div Branch]]
  <2>2. ASSUME NEW h \in 0 .. (m + 1) - 1
        PROVE f[h] = IF ~RightBranch(h) /\ h + 1 < N THEN h + 1
                     ELSE IF h = 0 THEN 0 ELSE f[(h - 1) \div Branch]
    <3>1. h # 0 => (h - 1) \div Branch \in 0 .. m - 1
      <4> SUFFICES ASSUME h # 0 PROVE (h - 1) \div Branch \in 0 .. m - 1 OBVIOUS
      <4>1. h - 1 \in Nat OBVIOUS
      <4>2. (h - 1) \div Branch \in Nat /\ Branch * ((h - 1) \div Branch) <= h - 1 BY <1>0, <4>1, Divide
      <4>3. (h - 1) \div Branch <= Branch * ((h - 1) \div Branch) BY <1>0, <4>2
      <4>4. (h - 1) \div Branch <= h - 1
        <5>1. \A x, y, z \in Int : x <= y /\ y <= z => x <= z OBVIOUS
        <5>2. Branch * ((h - 1) \div Branch) \in Int BY <1>0, <4>2
        <5> QED BY <4>1, <4>2, <4>3, <5>1, <5>2
      <4>5. PICK x \in Nat : x = (h - 1) \div Branch BY <4>2
      <4>6. x <= h - 1 BY <4>4, <4>5
      <4>7. x \in 0 .. m - 1 BY <4>6
      <4> QED BY <4>5, <4>7
    <3>2. h # 0 => f[(h - 1) \div Branch] = g[(h - 1) \div Branch] BY <3>1
    <3>3. CASE h < m
      <4>1. h \in 0 .. m - 1 /\ f[h] = g[h] BY <3>3
      <4>2. g[h] = IF ~RightBranch(h) /\ h + 1 < N THEN h + 1
                   ELSE IF h = 0 THEN 0 ELSE g[(h - 1) \div Branch] BY <2>1, <4>1
      <4> HIDE DEF f
      <4> QED BY <3>2, <4>1, <4>2
    <3>4. CASE ~(h < m)
      <4>1. f[h] = IF ~RightBranch(h) /\ h + 1 < N THEN h + 1
                   ELSE IF h = 0 THEN 0 ELSE g[(h - 1) \div Branch] BY <3>4
      <4> HIDE DEF f
      <4> QED BY <3>2, <4>1
    <3> QED BY <3>3, <3>4
  <2>3. f = [h \in 0 .. (m + 1) - 1 |-> IF ~RightBranch(h) /\ h + 1 < N THEN h + 1
                                        ELSE IF h = 0 THEN 0 ELSE f[(h - 1) \div Branch]]
    <3>1. f = [h \in 0 .. (m + 1) - 1 |-> f[h]] OBVIOUS
    <3> HIDE DEF f
    <3> QED BY <2>2, <3>1
  <2> HIDE DEF f
  <2> QED BY <2>3
<1> HIDE DEF S
<1>3. n \in S BY <1>1, <1>2, NatSetInduction
<1> QED BY <1>3 DEF S

\* The walk: down if it can, else to where the climb ends.
LEMMA WalkIs ==
  \E climb :
    /\ \A h \in Proc : HeapWalk(N, Branch)[h] = IF h * Branch + 1 < N THEN h * Branch + 1
                                                                      ELSE climb[h]
    /\ \A h \in Proc : climb[h] = IF ~RightBranch(h) /\ h + 1 < N THEN h + 1
                                  ELSE IF h = 0 THEN 0 ELSE climb[Parent(h)]
<1>0. N \in Nat /\ Proc = 0 .. N - 1 BY ProcFacts DEF Proc
<1>1. \E g : g = [h \in 0 .. N - 1 |-> IF ~RightBranch(h) /\ h + 1 < N THEN h + 1
                                       ELSE IF h = 0 THEN 0 ELSE g[(h - 1) \div Branch]]
  BY <1>0, ClimbExists
<1>2. PICK c : c = CHOOSE g : g = [h \in 0 .. N - 1 |->
                                     IF ~RightBranch(h) /\ h + 1 < N THEN h + 1
                                     ELSE IF h = 0 THEN 0 ELSE g[(h - 1) \div Branch]] OBVIOUS
<1>3. c = [h \in 0 .. N - 1 |-> IF ~RightBranch(h) /\ h + 1 < N THEN h + 1
                                ELSE IF h = 0 THEN 0 ELSE c[(h - 1) \div Branch]] BY <1>1, <1>2
<1>4. HeapWalk(N, Branch) =
        [h \in 0 .. N - 1 |-> IF h * Branch + 1 < N THEN h * Branch + 1 ELSE c[h]]
  BY <1>2 DEF HeapWalk, RightBranch
<1>5. \A h \in Proc : HeapWalk(N, Branch)[h] = IF h * Branch + 1 < N THEN h * Branch + 1 ELSE c[h]
  BY <1>0, <1>4
<1>6. \A h \in Proc : c[h] = IF ~RightBranch(h) /\ h + 1 < N THEN h + 1
                             ELSE IF h = 0 THEN 0 ELSE c[Parent(h)] BY <1>0, <1>3 DEF Parent
<1> QED BY <1>5, <1>6

-----------------------------------------------------------------------------
(* The walk of all_gather() follows the order of the subtrees.             *)

LEMMA ChildNumber ==
  ASSUME NEW x \in Proc \ {0}
  PROVE  \E k \in 1 .. numchild(Parent(x)) :
           /\ x = Parent(x) * Branch + k
           /\ RightBranch(x) <=> k = Branch
           /\ k < numchild(Parent(x)) <=> ~RightBranch(x) /\ x + 1 < N
<1> DEFINE p == Parent(x)
<1>1. p \in Proc /\ x \in Nat BY TreeShape DEF Proc
<1>2. x \in Children(N, Branch, p) BY <1>1, TreeShape
<1>3. PICK k \in 1 .. numchild(p) : x = p * Branch + k BY <1>1, <1>2, ChildrenOf
<1>4. p \in Nat /\ Branch \in Nat \ {0} /\ numchild(p) \in 0 .. Branch /\ k \in 1 .. Branch /\ N \in Nat
  <2>1. p \in Nat /\ Branch \in Nat \ {0} /\ N \in Nat BY <1>1, ConstantsAssumption DEF Proc
  <2>2. numchild(p) \in 0 .. Branch BY <1>1, ChildrenOf
  <2>3. \A b \in Nat : \A n \in 0 .. b : \A j \in 1 .. n : j \in 1 .. b OBVIOUS
  <2> QED BY <2>1, <2>2, <2>3
<1>5. PICK a \in Nat : a = p * Branch BY <1>4
<1>6. (x - 1) % Branch = k - 1
  <2>1. x - 1 = Branch * p + (k - 1) /\ k - 1 \in 0 .. Branch - 1 BY <1>3, <1>4
  <2> QED BY <1>4, <2>1
<1>7. RightBranch(x) <=> k = Branch BY <1>4, <1>6 DEF RightBranch
<1>8. ASSUME k < numchild(p) PROVE ~RightBranch(x) /\ x + 1 < N
  <2>1. k + 1 \in 1 .. numchild(p) BY <1>4, <1>8
  <2>2. a + (k + 1) \in Proc BY <1>1, <1>5, <2>1, ChildrenOf
  <2>3. x + 1 < N BY <1>3, <1>4, <1>5, <2>2 DEF Proc
  <2> QED BY <1>4, <1>7, <1>8, <2>3
<1>9. ASSUME ~RightBranch(x), x + 1 < N PROVE k < numchild(p)
  <2>1. k < Branch BY <1>4, <1>7, <1>9
  <2>2. x + 1 \in 0 .. N - 1 /\ a + 1 <= x + 1 /\ x + 1 < a + 1 + Branch BY <1>3, <1>4, <1>5, <1>9, <2>1
  <2>3. x + 1 \in Children(N, Branch, p) BY <1>5, <2>2 DEF Children
  <2>4. PICK j \in 1 .. numchild(p) : x + 1 = p * Branch + j BY <1>1, <2>3, ChildrenOf
  <2> QED BY <1>3, <1>4, <1>5, <2>4
<1> QED BY <1>3, <1>7, <1>8, <1>9

LEMMA Climbs ==
  ASSUME NEW climb,
         \A h \in Proc : climb[h] = IF ~RightBranch(h) /\ h + 1 < N THEN h + 1
                                    ELSE IF h = 0 THEN 0 ELSE climb[Parent(h)]
  PROVE  \A h \in Proc : Position(h) + Size(h) <= N =>
           climb[h] \in Proc /\ Position(climb[h]) = Position(h) + Size(h)
<1> DEFINE S == {h \in Proc : Position(h) + Size(h) <= N =>
                   climb[h] \in Proc /\ Position(climb[h]) = Position(h) + Size(h)}
<1>0. N \in Nat BY ProcFacts
<1>1. 0 \in S BY <1>0, PositionRoot, ProcFacts
<1>2. Closed(S)
  <2> SUFFICES ASSUME NEW x \in Proc \ {0}, Parent(x) \in S, Position(x) + Size(x) <= N
               PROVE  climb[x] \in Proc /\ Position(climb[x]) = Position(x) + Size(x) BY DEF Closed
  <2>1. PICK p \in Proc : p = Parent(x) BY TreeShape
  <2>2. PICK k \in 1 .. numchild(p) :
          /\ x = p * Branch + k
          /\ k < numchild(p) <=> ~RightBranch(x) /\ x + 1 < N BY <2>1, ChildNumber
  <2>4. numchild(p) \in Nat /\ p * Branch \in Nat BY ChildrenOf, ConstantsAssumption DEF Proc
  <2>5. CASE k < numchild(p)
    <3>1. climb[x] = x + 1 BY <2>2, <2>5
    <3>2. k + 1 \in 1 .. numchild(p) /\ k + 1 <= numchild(p) BY <2>4, <2>5
    <3>3. p * Branch + (k + 1) \in Proc BY <3>2, ChildrenOf
    <3>4. x + 1 = p * Branch + (k + 1) BY <2>2, <2>4
    <3>5. Position(p * Branch + (k + 1)) = Position(x) + Size(x) BY <2>2, <3>2, PositionChildren
    <3> QED BY <3>1, <3>3, <3>4, <3>5
  <2>6. CASE ~(k < numchild(p))
    <3>1. k = numchild(p) /\ numchild(p) > 0 BY <2>4, <2>6
    <3>2. climb[x] = climb[p] BY <2>1, <2>2, <2>6
    <3>3. Position(x) + Size(x) = Position(p) + Size(p) BY <2>2, <3>1, PositionChildren
    <3>4. p \in S BY <2>1
    <3> QED BY <3>2, <3>3, <3>4
  <2> QED BY <2>5, <2>6
<1> HIDE DEF S
<1>3. S \in SUBSET Proc BY DEF S
<1>4. S = Proc BY <1>1, <1>2, <1>3, DownTheTree
<1> QED BY <1>4 DEF S

LEMMA Walks ==
  ASSUME NEW q \in Proc, Position(q) + 1 <= N
  PROVE  LET r == HeapWalk(N, Branch)[q] IN r \in Proc /\ Position(r) = Position(q) + 1
<1>1. PICK climb :
        /\ \A h \in Proc : HeapWalk(N, Branch)[h] = IF h * Branch + 1 < N THEN h * Branch + 1
                                                                          ELSE climb[h]
        /\ \A h \in Proc : climb[h] = IF ~RightBranch(h) /\ h + 1 < N THEN h + 1
                                      ELSE IF h = 0 THEN 0 ELSE climb[Parent(h)] BY WalkIs
<1>2. q \in Nat /\ N \in Nat /\ Branch \in Nat \ {0} /\ q * Branch \in Nat /\ numchild(q) \in Nat
  BY ConstantsAssumption, ChildrenOf DEF Proc
<1>3. CASE q * Branch + 1 < N
  <2>1. q * Branch + 1 \in Children(N, Branch, q) BY <1>2, <1>3 DEF Children
  <2>2. numchild(q) # 0 BY <2>1, ChildrenOf, <1>2
  <2>3. q * Branch + 1 \in Proc BY <1>2, <1>3 DEF Proc
  <2>4. numchild(q) > 0 BY <1>2, <2>2
  <2>5. Position(q * Branch + 1) = Position(q) + 1 BY <2>4, PositionChildren
  <2> QED BY <1>1, <1>3, <2>3, <2>5
<1>4. CASE ~(q * Branch + 1 < N)
  <2>1. numchild(q) = 0 BY <1>2, ChildrenOf, <1>4 DEF Proc
  <2>2. Size(q) = 1 BY <2>1, PositionChildren
  <2>3. climb[q] \in Proc /\ Position(climb[q]) = Position(q) + Size(q) BY <1>1, <2>2, Climbs
  <2> QED BY <1>1, <1>4, <2>2, <2>3
<1> QED BY <1>3, <1>4

\* all_gather() unpacks the strings in the order they were put together in.
LEMMA Order ==
  \A i \in 1 .. N : HeapOrder(N, Branch)[i] \in Proc /\ Position(HeapOrder(N, Branch)[i]) = i
<1> DEFINE o == HeapOrder(N, Branch)
           S == {j \in Nat : j + 1 <= N => o[j + 1] \in Proc /\ Position(o[j + 1]) = j + 1}
<1>0. N \in Nat /\ N > 1 /\ 0 \in Proc BY ProcFacts
<1>1. 0 \in S BY <1>0, OrderIs, PositionRoot
<1>2. ASSUME NEW j \in Nat, j \in S PROVE j + 1 \in S
  <2> SUFFICES ASSUME (j + 1) + 1 <= N
               PROVE  o[(j + 1) + 1] \in Proc /\ Position(o[(j + 1) + 1]) = (j + 1) + 1 OBVIOUS
  <2>1. o[j + 1] \in Proc /\ Position(o[j + 1]) = j + 1 BY <1>0, <1>2
  <2>2. (j + 1) + 1 \in 2 .. N /\ ((j + 1) + 1) - 1 = j + 1 BY <1>0
  <2>3. o[(j + 1) + 1] = HeapWalk(N, Branch)[o[j + 1]] BY <2>2, OrderIs
  <2> HIDE DEF o
  <2>4. PICK q \in Proc : q = o[j + 1] BY <2>1
  <2>5. Position(q) + 1 <= N BY <2>1, <2>4
  <2> QED BY <2>1, <2>3, <2>4, <2>5, Walks
<1> HIDE DEF S
<1>3. Nat \subseteq S BY <1>1, <1>2, NatSetInduction
<1>4. ASSUME NEW i \in 1 .. N PROVE o[i] \in Proc /\ Position(o[i]) = i
  <2>1. i - 1 \in Nat /\ (i - 1) + 1 = i /\ i <= N BY <1>0
  <2>2. i - 1 \in S BY <1>3, <2>1
  <2> HIDE DEF o
  <2>3. (i - 1) + 1 <= N => o[(i - 1) + 1] \in Proc /\ Position(o[(i - 1) + 1]) = (i - 1) + 1
    BY <2>2 DEF S
  <2> QED BY <2>1, <2>3
<1> QED BY <1>4

\* all_gather() finds the string of every machine where the concatenation from the
\* leaves up has put it, for every number of machines and every branch factor: the
\* heap walk with lefttraverseblock (HeapWalk) visits the machines in the order in
\* which each machine puts its children's strings behind its own.
THEOREM StringsInTreeOrder == \A q \in Proc : StringOf[q] = Position(q) /\ StringOf[q] \in 1 .. N
<1> DEFINE f == [i \in 1 .. N |-> HeapOrder(N, Branch)[i]]
<1>1. f \in [1 .. N -> Proc] /\ \A i \in 1 .. N : Position(f[i]) = i BY Order
<1> HIDE DEF f
<1>2. f \in Injection(1 .. N, Proc) BY <1>1 DEF Injection, IsInjective
<1>3. IsFiniteSet(Proc) /\ Cardinality(Proc) = N /\ Cardinality(1 .. N) = N BY ProcFacts, FS_Interval
<1>4. f \in Surjection(1 .. N, Proc) BY <1>2, <1>3, FS_Injection
<1>5. ASSUME NEW q \in Proc PROVE StringOf[q] = Position(q) /\ StringOf[q] \in 1 .. N
  <2>1. PICK i \in 1 .. N : f[i] = q BY <1>4 DEF Surjection
  <2>2. PICK o : o = HeapOrder(N, Branch) OBVIOUS
  <2>3. o[i] = q /\ \A j \in 1 .. N : o[j] = q => j = Position(q) BY <1>1, <2>1, <2>2, Order DEF f
  <2>4. StringOf[q] = CHOOSE j \in 1 .. N : o[j] = q BY <2>2 DEF StringOf
  <2> QED BY <2>3, <2>4
<1> QED BY <1>5

-----------------------------------------------------------------------------
(* The two tree barriers.                                                  *)

\* In a tree barrier, and not seen to be released.
Waiting(b, p) == pc[p] = IF b = "ab" THEN "gather wait" ELSE "barrier wait"

\* How often p has entered a tree barrier, and been released from it.
Entered(b, p) ==
  IF b = "ab" THEN IF pc[p] = "gather" THEN round[p] - 1 ELSE round[p]
              ELSE IF pc[p] \in {"barrier wait", "run"} THEN round[p] ELSE round[p] - 1
Freed(b, p) == IF Released(b, p) THEN Entered(b, p) ELSE Entered(b, p) - 1

\* The child end of the edge that a control call goes along, or the receiver.
Who(msg) == IF msg.op = "trigger" THEN msg.from ELSE msg.to
Key(msg) == <<msg.op, msg.tree, Who(msg)>>

\* The control calls on their way: what each is about.
Keys == {Key(msg) : msg \in BagToSet(control)}
On(op, b, c) == IF <<op, b, c>> \in Keys THEN 1 ELSE 0

\* The triggers of c that its parent has run, and the releases that c has had, or
\* has sent on if it has children.
Heard(b, c) == Entered(b, c) - On("trigger", b, c)
Sent(b, c) == Freed(b, c) + On("forwarded", b, c)

\* What barrier_sense is after k barriers.
Sense(k) == IF k % 2 = 0 THEN 1 ELSE -1

\* The children of p whose trigger has counted towards p's next barrier.
Early(b, p) == {c \in Children(N, Branch, p) : Heard(b, c) = Entered(b, p) + 1}

\* What the flags and the counter of p say: the counter counts up and down in turn.
Machine(b, p) ==
  /\ barrier_sense[b][p] = Sense(Entered(b, p))
  /\ ~Waiting(b, p) \/ p = 0 => Released(b, p)
  /\ Entered(b, p) >= 0
  /\ Sent(b, p) <= Entered(b, p)
  /\ child_barrier_counter[b][p] = IF barrier_sense[b][p] = 1
       THEN Cardinality(Early(b, p)) ELSE numchild(p) - Cardinality(Early(b, p))

\* A child is at most one barrier ahead of its parent, and is released after it.
Edge(b, c) ==
  /\ Heard(b, c) - Entered(b, Parent(c)) \in {0, 1}
  /\ Sent(b, c) + On("release", b, c) = Sent(b, Parent(c))

\* A control call on its way carries the sense its receiver waits for.
Message(msg) ==
  \E b \in Tree, c \in Proc \ {0} :
    \/ msg = Trigger(b, c, msg.data)
    \/ msg = Release(b, c, -barrier_sense[b][c], msg.data)
    \/ msg = [Release(b, c, -barrier_sense[b][c], msg.data) EXCEPT !.op = "forwarded"] /\ numchild(c) > 0

\* No control call is on its way twice, and no two are about the same thing.
Unique ==
  /\ \A msg \in BagToSet(control) : control[msg] = 1
  /\ \A m1, m2 \in BagToSet(control) : Key(m1) = Key(m2) => m1 = m2

TreeInv ==
  /\ Unique
  /\ \A msg \in BagToSet(control) : Message(msg)
  /\ \A b \in Tree : /\ \A p \in Proc : Machine(b, p)
                     /\ \A c \in Proc \ {0} : Edge(b, c)

LEMMA ControlBag ==
  ASSUME \A msg \in BagToSet(control) : control[msg] = 1,
         NEW taken, taken \subseteq BagToSet(control),
         NEW sent, sent \cap BagToSet(control) = {},
         Control(taken, sent)
  PROVE  /\ BagToSet(control') = (BagToSet(control) \ taken) \cup sent
         /\ \A msg \in BagToSet(control') : control'[msg] = 1
<1>1. DOMAIN (control (-) SetToBag(taken)) = BagToSet(control) \ taken BY DEF (-), SetToBag, BagToSet
<1>2. \A msg \in BagToSet(control) \ taken : (control (-) SetToBag(taken))[msg] = 1
  BY DEF (-), SetToBag, BagToSet
<1> DEFINE c == control (-) SetToBag(taken)
<1>3. control' = c (+) SetToBag(sent) BY DEF Control
<1> HIDE DEF c
<1>4. DOMAIN control' = (BagToSet(control) \ taken) \cup sent BY <1>1, <1>3 DEF (+), SetToBag, c
<1>5. \A msg \in DOMAIN control' : control'[msg] = 1 BY <1>1, <1>2, <1>3, <1>4 DEF (+), SetToBag, c
<1> QED BY <1>4, <1>5 DEF BagToSet

\* The network after a step: what has been taken is gone, what is new is new.
LEMMA ControlKeys ==
  ASSUME Unique, NEW taken, taken \subseteq BagToSet(control),
         NEW sent, \A msg \in sent : Key(msg) \notin Keys,
         \A m1, m2 \in sent : Key(m1) = Key(m2) => m1 = m2,
         Control(taken, sent)
  PROVE  /\ BagToSet(control') = (BagToSet(control) \ taken) \cup sent
         /\ Keys' = (Keys \ {Key(msg) : msg \in taken}) \cup {Key(msg) : msg \in sent}
         /\ Unique'
<1>1. sent \cap BagToSet(control) = {} BY DEF Keys
<1>2. /\ BagToSet(control') = (BagToSet(control) \ taken) \cup sent
      /\ \A msg \in BagToSet(control') : control'[msg] = 1 BY <1>1, ControlBag DEF Unique
<1>3. BagToSet(control)' = BagToSet(control') BY DEF BagToSet
<1>4. Keys' = {Key(msg) : msg \in BagToSet(control')} BY <1>3 DEF Keys, Key, Who
<1>5. \A msg \in BagToSet(control) : Key(msg) \in Keys BY DEF Keys
<1>6. \A m1, m2 \in BagToSet(control) : Key(m1) = Key(m2) => m1 = m2 BY DEF Unique
<1>7. \A m1, m2 \in BagToSet(control') : Key(m1) = Key(m2) => m1 = m2  BY <1>2, <1>5, <1>6
<1>8. Unique' BY <1>2, <1>3, <1>7 DEF Unique, Key, Who
<1>9. Keys' = (Keys \ {Key(msg) : msg \in taken}) \cup {Key(msg) : msg \in sent}
  <2>1. Keys' \subseteq (Keys \ {Key(msg) : msg \in taken}) \cup {Key(msg) : msg \in sent}
    BY <1>2, <1>4, <1>5, <1>6
  <2>2. {Key(msg) : msg \in sent} \subseteq Keys' BY <1>2, <1>4
  <2>3. Keys \ {Key(msg) : msg \in taken} \subseteq Keys' BY <1>2, <1>4 DEF Keys
  <2> QED BY <2>1, <2>2, <2>3
<1> QED BY <1>2, <1>8, <1>9

LEMMA Types ==
  ASSUME Typed
  PROVE  /\ \A b \in Tree, p \in Proc :
              /\ Entered(b, p) \in Int /\ Freed(b, p) \in Int /\ Sent(b, p) \in Int
              /\ Heard(b, p) \in Int
              /\ barrier_sense[b][p] \in {1, -1} /\ barrier_release[b][p] \in {1, -1}
              /\ child_barrier_counter[b][p] \in Int
         /\ \A op, b, p : On(op, b, p) \in {0, 1}
         /\ \A p \in Proc : round[p] \in Nat /\ pc[p] \in MainLabels
<1>1. \A p \in Proc : round[p] \in Nat /\ pc[p] \in MainLabels BY ConstantsAssumption DEF Typed
<1>2. ASSUME NEW b \in Tree, NEW p \in Proc PROVE Entered(b, p) \in Int
  <2>1. round[p] \in Int /\ round[p] - 1 \in Int BY <1>1
  <2> QED BY <2>1, Zenon DEF Entered
<1>3. \A op, b, p : On(op, b, p) \in {0, 1} BY DEF On
<1>4. \A b \in Tree, p \in Proc : Freed(b, p) \in Int BY <1>2 DEF Freed
<1>5. \A b \in Tree, p \in Proc : Sent(b, p) \in Int /\ Heard(b, p) \in Int
  BY <1>2, <1>3, <1>4 DEF Sent, Heard
<1>6. \A b \in Tree, p \in Proc :
              /\ barrier_sense[b][p] \in {1, -1} /\ barrier_release[b][p] \in {1, -1}
              /\ child_barrier_counter[b][p] \in Int BY DEF Typed
<1> QED BY <1>1, <1>2, <1>3, <1>4, <1>5, <1>6

\* A main thread that does not enter a tree barrier, and one that does.
Stays(p) ==
  /\ UNCHANGED tree_vars
  /\ \A b \in Tree : /\ Entered(b, p)' = Entered(b, p)
                     /\ Waiting(b, p) /\ ~Waiting(b, p)' => Released(b, p)
Enters(b, p) ==
  /\ EnterTree(b, p)
  /\ ~Waiting(b, p) /\ Waiting(b, p)'
  /\ Entered(b, p)' = Entered(b, p) + 1
  /\ \A d \in Tree \ {b} : /\ Entered(d, p)' = Entered(d, p)
                           /\ Waiting(d, p)' <=> Waiting(d, p)

LEMMA EnteredOthers ==
  ASSUME Typed, NEW p \in Proc, MainStep(p), NEW b \in Tree, NEW x \in Proc, x # p
  PROVE  Entered(b, x)' = Entered(b, x) /\ (Waiting(b, x)' <=> Waiting(b, x))
<1>1. round'[x] = round[x] BY DEF Typed, MainStep, BeginFullBarrier, AllGather, ClearCallsToReceive,
     FillCallsToReceive, ResetIncomplete, ClearComplete, Activate, Pass, CheckIncomplete,
     Deactivate, Barrier, Return
<1>2. pc'[x] = pc[x] BY DEF Typed, MainStep, BeginFullBarrier, AllGather, ClearCallsToReceive,
     FillCallsToReceive, ResetIncomplete, ClearComplete, Activate, Pass, CheckIncomplete,
     Deactivate, Barrier, Return, Goto
<1> QED BY <1>1, <1>2 DEF Entered, Waiting

LEMMA EnteredMain ==
  ASSUME Typed, NEW p \in Proc, MainStep(p)
  PROVE  Stays(p) \/ \E b \in Tree : Enters(b, p)
<1>1. Tree = {"ab", "bar"} BY DEF Tree
<1>0. round[p] \in Nat /\ pc \in [Proc -> MainLabels] /\ round \in [Proc -> 0 .. MaxRounds]
  BY Types DEF Typed
<1> HIDE DEF Typed
<1>2. ASSUME NEW label, pc' = [pc EXCEPT ![p] = label] PROVE pc'[p] = label BY <1>0, <1>2
<1>3. CASE BeginFullBarrier(p)
  <2>1. pc'[p] = "gather" /\ pc[p] = "run" BY <1>2, <1>3 DEF BeginFullBarrier, Goto
  <2>2. round'[p] = round[p] + 1 BY <1>0, <1>3 DEF BeginFullBarrier
  <2> QED BY <1>0, <1>1, <1>3, <2>1, <2>2 DEF BeginFullBarrier, Stays, Entered, Waiting
<1>4. CASE AllGather(p)
  <2>1. pc'[p] = "gather wait" /\ pc[p] = "gather" /\ round'[p] = round[p]
    BY <1>2, <1>4 DEF AllGather, Goto
  <2>2. EnterTree("ab", p) BY <1>4 DEF AllGather
  <2>3. Entered("ab", p) = round[p] - 1 /\ Entered("ab", p)' = round[p] BY <2>1 DEF Entered
  <2>4. Entered("ab", p)' = Entered("ab", p) + 1
    <3> HIDE <1>4
    <3> QED BY <1>0, <2>3
  <2>5. ~Waiting("ab", p) /\ Waiting("ab", p)' BY <2>1 DEF Waiting
  <2>6. Entered("bar", p)' = Entered("bar", p) /\ (Waiting("bar", p)' <=> Waiting("bar", p))
    BY <2>1 DEF Entered, Waiting
  <2>7. Enters("ab", p) BY <1>1, <2>2, <2>4, <2>5, <2>6 DEF Enters
  <2> QED BY <1>1, <2>7
<1>5. CASE Barrier(p)
  <2>1. pc'[p] = "barrier wait" /\ pc[p] = "barrier" /\ round'[p] = round[p]
    BY <1>2, <1>5 DEF Barrier, Goto
  <2>2. EnterTree("bar", p) BY <1>5 DEF Barrier
  <2>3. Entered("bar", p) = round[p] - 1 /\ Entered("bar", p)' = round[p] BY <2>1 DEF Entered
  <2>4. Entered("bar", p)' = Entered("bar", p) + 1
    <3> HIDE <1>5
    <3> QED BY <1>0, <2>3
  <2>5. ~Waiting("bar", p) /\ Waiting("bar", p)' BY <2>1 DEF Waiting
  <2>6. Entered("ab", p)' = Entered("ab", p) /\ (Waiting("ab", p)' <=> Waiting("ab", p))
    BY <2>1 DEF Entered, Waiting
  <2>7. Enters("bar", p) BY <1>1, <2>2, <2>4, <2>5, <2>6 DEF Enters
  <2> QED BY <1>1, <2>7
<1>6. CASE ClearCallsToReceive(p)
  <2>1. pc'[p] = "fill" /\ pc[p] = "gather wait" /\ round'[p] = round[p]
    BY <1>2, <1>6 DEF ClearCallsToReceive, Goto
  <2> QED BY <1>1, <1>6, <2>1 DEF ClearCallsToReceive, Stays, Entered, Waiting
<1>7. CASE Return(p)
  <2>1. pc'[p] = "run" /\ pc[p] = "barrier wait" /\ round'[p] = round[p] BY <1>2, <1>7 DEF Return, Goto
  <2> QED BY <1>1, <1>7, <2>1 DEF Return, Stays, Entered, Waiting
<1>8. CASE FillCallsToReceive(p) \/ ResetIncomplete(p) \/ ClearComplete(p) \/ Activate(p)
            \/ Pass(p) \/ CheckIncomplete(p) \/ Deactivate(p)
  <2>1. /\ UNCHANGED <<tree_vars, round>>
        /\ \E label \in {"reset", "clear", "activate", "pass", "check", "asleep", "deactivate",
                         "barrier"} : pc' = [pc EXCEPT ![p] = label]
        /\ pc[p] \in {"fill", "reset", "clear", "activate", "pass", "check", "deactivate"}
    BY <1>8 DEF FillCallsToReceive, ResetIncomplete, ClearComplete, Activate, Pass,
       CheckIncomplete, Deactivate, Goto
  <2>2. pc'[p] \in {"reset", "clear", "activate", "pass", "check", "asleep", "deactivate", "barrier"}
    BY <1>2, <2>1
  <2> QED BY <1>1, <2>1, <2>2 DEF Stays, Entered, Waiting
<1> QED BY <1>3, <1>4, <1>5, <1>6, <1>7, <1>8 DEF MainStep

\* The steps of the other threads do not change where a main thread is in a barrier.
LEMMA EnteredElse ==
  ASSUME Typed, NEW p \in Proc, 
         \/ ControlStep(p) 
         \/ \E q \in Proc : RemoteCall(p, q) 
         \/ \E h \in Handlers : HandlerStep(p, h) 
  PROVE  \A b \in Tree, x \in Proc :
           Entered(b, x)' = Entered(b, x) /\ (Waiting(b, x)' <=> Waiting(b, x))
<1>1. round' = round 
  BY DEF ControlStep, ChildToParentBarrierTrigger, ForwardRelease, TakeRelease, RemoteCall,
     HandlerStep, ReceiveCall, CallReturns, IncCallsReceived, LookAgain, Compare, SetBit, DecIncomplete
<1>2. pc' = pc \/ (pc[p] = "asleep" /\ pc' = [pc EXCEPT ![p] = "check"])
  <2>1. CASE ControlStep(p)
    BY <2>1 DEF ControlStep, ChildToParentBarrierTrigger, ForwardRelease, TakeRelease
  <2>2. CASE \E q \in Proc : RemoteCall(p, q) BY <2>2 DEF RemoteCall
  <2>3. ASSUME NEW h \in Handlers, HandlerStep(p, h)
        PROVE  pc' = pc \/ (pc[p] = "asleep" /\ pc' = [pc EXCEPT ![p] = "check"])
    <3>1. CASE DecIncomplete(p, h) BY <3>1 DEF DecIncomplete, Goto
    <3> QED BY <2>3, <3>1 DEF HandlerStep, ReceiveCall, CallReturns, IncCallsReceived,
       LookAgain, Compare, SetBit
  <2> QED BY <2>1, <2>2, <2>3
<1>3. ASSUME NEW x \in Proc PROVE pc'[x] = pc[x] \/ (pc[x] = "asleep" /\ pc'[x] = "check")
  BY <1>2 DEF Typed
<1> QED BY ZenonT(60), <1>1, <1>3 DEF Entered, Waiting

LEMMA EdgeArithmetic ==
  ASSUME NEW ec \in Int, NEW tr \in {0, 1}, NEW fc \in Int, fc \in {ec - 1, ec}, NEW fw \in {0, 1},
         NEW re \in {0, 1}, NEW ep \in Int, NEW sp \in Int,
         (ec - tr) - ep \in {0, 1}, (fc + fw) + re = sp, sp <= ep, fc + fw <= ec
  PROVE  /\ tr = 1 => ec - tr = ep /\ ec = ep + 1
         /\ re = 1 => fw = 0 /\ tr = 0 /\ fc = ec - 1 /\ ec = ep /\ sp = ep
         /\ fw = 1 => fc = ec - 1
         /\ fc = ec => tr = 0 /\ fw = 0 /\ re = 0 /\ ec = ep
         /\ ec - tr = ep + 1 => ec = ep + 1 /\ re = 0 /\ fw = 0
         /\ ep <= ec /\ ec <= ep + 1 /\ ec <= sp + 1  OBVIOUS

LEMMA EdgeFacts ==
  ASSUME Typed, TreeInv, NEW b \in Tree, NEW c \in Proc \ {0}
  PROVE  LET p == Parent(c) IN
         /\ On("trigger", b, c) = 1 => Heard(b, c) = Entered(b, p) /\ Entered(b, c) = Entered(b, p) + 1
         /\ On("release", b, c) = 1 =>
              /\ On("forwarded", b, c) = 0 /\ On("trigger", b, c) = 0
              /\ Freed(b, c) = Entered(b, c) - 1 /\ Entered(b, c) = Entered(b, p)
              /\ Sent(b, p) = Entered(b, p)
         /\ On("forwarded", b, c) = 1 => Freed(b, c) = Entered(b, c) - 1
         /\ Freed(b, c) = Entered(b, c) =>
              /\ On("trigger", b, c) = 0 /\ On("forwarded", b, c) = 0 /\ On("release", b, c) = 0
              /\ Entered(b, c) = Entered(b, p)
         /\ Heard(b, c) = Entered(b, p) + 1 =>
              /\ Entered(b, c) = Entered(b, p) + 1
              /\ On("release", b, c) = 0 /\ On("forwarded", b, c) = 0
         /\ Entered(b, p) <= Entered(b, c) /\ Entered(b, c) <= Entered(b, p) + 1
         /\ Entered(b, c) <= Sent(b, p) + 1
<1> DEFINE p == Parent(c)
<1>1. p \in Proc BY TreeShape
<1>2. /\ Entered(b, c) \in Int /\ Freed(b, c) \in Int /\ Entered(b, p) \in Int /\ Sent(b, p) \in Int
      /\ On("trigger", b, c) \in {0, 1} /\ On("forwarded", b, c) \in {0, 1}
      /\ On("release", b, c) \in {0, 1} BY <1>1, Types
<1>3. Freed(b, c) \in {Entered(b, c) - 1, Entered(b, c)} BY DEF Freed
<1>4. /\ (Entered(b, c) - On("trigger", b, c)) - Entered(b, p) \in {0, 1}
      /\ (Freed(b, c) + On("forwarded", b, c)) + On("release", b, c) = Sent(b, p)
  BY DEF TreeInv, Edge, Heard, Sent
<1>5. Sent(b, p) <= Entered(b, p) /\ Freed(b, c) + On("forwarded", b, c) <= Entered(b, c)
  BY <1>1 DEF TreeInv, Machine, Sent
<1>6. Heard(b, c) = Entered(b, c) - On("trigger", b, c) BY DEF Heard
<1> HIDE DEF p
<1>7. /\ On("trigger", b, c) = 1 => Heard(b, c) = Entered(b, p) /\ Entered(b, c) = Entered(b, p) + 1
      /\ On("release", b, c) = 1 =>
              /\ On("forwarded", b, c) = 0 /\ On("trigger", b, c) = 0
              /\ Freed(b, c) = Entered(b, c) - 1 /\ Entered(b, c) = Entered(b, p)
              /\ Sent(b, p) = Entered(b, p)
      /\ On("forwarded", b, c) = 1 => Freed(b, c) = Entered(b, c) - 1
      /\ Freed(b, c) = Entered(b, c) =>
              /\ On("trigger", b, c) = 0 /\ On("forwarded", b, c) = 0 /\ On("release", b, c) = 0
              /\ Entered(b, c) = Entered(b, p)
      /\ Heard(b, c) = Entered(b, p) + 1 =>
              /\ Entered(b, c) = Entered(b, p) + 1
              /\ On("release", b, c) = 0 /\ On("forwarded", b, c) = 0
      /\ Entered(b, p) <= Entered(b, c) /\ Entered(b, c) <= Entered(b, p) + 1
      /\ Entered(b, c) <= Sent(b, p) + 1
  <2> DEFINE ec == Entered(b, c)
             tr == On("trigger", b, c)
             fc == Freed(b, c)
             fw == On("forwarded", b, c)
             re == On("release", b, c)
             ep == Entered(b, p)
             sp == Sent(b, p)
  <2>1. /\ ec \in Int /\ tr \in {0, 1} /\ fc \in Int /\ fc \in {ec - 1, ec} /\ fw \in {0, 1}
        /\ re \in {0, 1} /\ ep \in Int /\ sp \in Int
        /\ (ec - tr) - ep \in {0, 1} /\ (fc + fw) + re = sp /\ sp <= ep /\ fc + fw <= ec
    BY <1>2, <1>3, <1>4, <1>5
  <2> SUFFICES /\ tr = 1 => ec - tr = ep /\ ec = ep + 1
               /\ re = 1 => fw = 0 /\ tr = 0 /\ fc = ec - 1 /\ ec = ep /\ sp = ep
               /\ fw = 1 => fc = ec - 1
               /\ fc = ec => tr = 0 /\ fw = 0 /\ re = 0 /\ ec = ep
               /\ ec - tr = ep + 1 => ec = ep + 1 /\ re = 0 /\ fw = 0
               /\ ep <= ec /\ ec <= ep + 1 /\ ec <= sp + 1  BY <1>6
  <2> HIDE DEF ec, tr, fc, fw, re, ep, sp
  <2> QED BY <2>1, EdgeArithmetic
<1> QED BY <1>7 DEF p

\* The messages there can be.
LEMMA MessageFacts ==
  ASSUME TreeInv, NEW msg \in BagToSet(control)
  PROVE  /\ msg.tree \in Tree /\ Key(msg) \in Keys /\ Key(msg) = <<msg.op, msg.tree, Who(msg)>>
         /\ Who(msg) \in Proc \ {0}
         /\ msg.op = "trigger" =>
              msg.from \in Proc \ {0} /\ Who(msg) = msg.from /\ msg.to = Parent(msg.from)
         /\ msg.op # "trigger" =>
              /\ msg.to \in Proc \ {0} /\ Who(msg) = msg.to
              /\ msg.val = -barrier_sense[msg.tree][msg.to]
              /\ msg.op \in {"release", "forwarded"}
              /\ msg.op = "forwarded" => numchild(msg.to) > 0
<1>1. Key(msg) \in Keys /\ Key(msg) = <<msg.op, msg.tree, Who(msg)>> BY DEF Keys, Key
<1>2. PICK b \in Tree, c \in Proc \ {0} :
        \/ msg = Trigger(b, c, msg.data)
        \/ msg = Release(b, c, -barrier_sense[b][c], msg.data)
        \/ msg = [Release(b, c, -barrier_sense[b][c], msg.data) EXCEPT !.op = "forwarded"] /\ numchild(c) > 0
  BY DEF TreeInv, Message
<1>3. CASE msg = Trigger(b, c, msg.data) BY <1>3, <1>1 DEF Trigger, Who
<1>4. CASE msg = Release(b, c, -barrier_sense[b][c], msg.data) BY <1>4, <1>1 DEF Release, Who
<1>5. CASE msg = [Release(b, c, -barrier_sense[b][c], msg.data) EXCEPT !.op = "forwarded"] /\ numchild(c) > 0
  BY <1>5, <1>1 DEF Release, Who
<1> QED BY <1>2, <1>3, <1>4, <1>5

LEMMA KeyFacts ==
  ASSUME TreeInv, NEW op, NEW b, NEW c, <<op, b, c>> \in Keys
  PROVE  /\ b \in Tree /\ c \in Proc \ {0} /\ op \in {"trigger", "release", "forwarded"}
         /\ op = "forwarded" => numchild(c) > 0
         /\ On(op, b, c) = 1
<1>1. PICK msg \in BagToSet(control) : Key(msg) = <<op, b, c>> BY DEF Keys
<1>2. msg.op = op /\ msg.tree = b /\ Who(msg) = c BY <1>1 DEF Key
<1> QED BY <1>1, <1>2, MessageFacts DEF On

LEMMA NumChild ==
  ASSUME NEW p \in Proc
  PROVE  /\ Children(N, Branch, p) \in SUBSET (Proc \ {0}) 
         /\ \A S \in SUBSET Children(N, Branch, p) :
              /\ IsFiniteSet(S) /\ Cardinality(S) \in Nat /\ Cardinality(S) <= numchild(p)
              /\ Cardinality(S) = numchild(p) => S = Children(N, Branch, p)
              /\ Cardinality(S) = 0 <=> S = {}
              /\ \A c \in Children(N, Branch, p) \ S : Cardinality(S \cup {c}) = Cardinality(S) + 1
         /\ numchild(p) \in Nat
<1>1. Children(N, Branch, p) \in SUBSET (Proc \ {0})
  <2>1. p \in Nat /\ N \in Nat /\ Branch \in Nat BY ConstantsAssumption DEF Proc
  <2>2. p * Branch \in Nat BY <2>1
  <2> QED BY <2>1, <2>2 DEF Children, Proc
<1>2. IsFiniteSet(Children(N, Branch, p)) BY <1>1, ProcFacts
<1>3. ASSUME NEW S \in SUBSET Children(N, Branch, p) 
      PROVE  /\ IsFiniteSet(S) /\ Cardinality(S) \in Nat /\ Cardinality(S) <= numchild(p)
             /\ Cardinality(S) = numchild(p) => S = Children(N, Branch, p)
             /\ Cardinality(S) = 0 <=> S = {}
             /\ \A c \in Children(N, Branch, p) \ S : Cardinality(S \cup {c}) = Cardinality(S) + 1
  BY <1>2, FS_Subset, FS_CardinalityType, FS_EmptySet, FS_AddElement DEF numchild
<1> QED BY <1>1, <1>2, <1>3, FS_CardinalityType DEF numchild

LEMMA SenseFlips == \A k \in Int : Sense(k + 1) = -Sense(k) /\ Sense(k) \in {1, -1}
BY DEF Sense

LEMMA TreeInit == Init => TreeInv
<1> SUFFICES ASSUME Init PROVE TreeInv OBVIOUS
<1>1. BagToSet(control) = {} BY DEF Init, EmptyBag, SetToBag, BagToSet
<1>2. Keys = {} BY <1>1 DEF Keys
<1>3. \A op, b, c : On(op, b, c) = 0 BY <1>2 DEF On
<1>4. \A b \in Tree, p \in Proc : Entered(b, p) = 0 BY DEF Init, Entered
<1>5. \A b \in Tree, p \in Proc : Released(b, p) BY DEF Init, Released
<1>6. \A b \in Tree, p \in Proc : Freed(b, p) = 0 BY <1>4, <1>5 DEF Freed
<1>7. \A b \in Tree, p \in Proc : Sent(b, p) = 0 /\ Heard(b, p) = 0 BY <1>3, <1>4, <1>6 DEF Sent, Heard
<1>8. ASSUME NEW b \in Tree, NEW p \in Proc PROVE Machine(b, p)
  <2>1. Early(b, p) = {} BY <1>4, <1>7, NumChild DEF Early
  <2>2. Cardinality(Early(b, p)) = 0 BY <2>1, FS_EmptySet
  <2>3. barrier_sense[b][p] = 1 /\ child_barrier_counter[b][p] = 0 BY DEF Init
  <2>4. Sense(0) = 1 BY DEF Sense
  <2> QED BY <1>4, <1>5, <1>7, <2>2, <2>3, <2>4 DEF Machine
<1>9. ASSUME NEW b \in Tree, NEW c \in Proc \ {0} PROVE Edge(b, c)
  BY <1>3, <1>4, <1>7, TreeShape DEF Edge
<1> QED BY <1>1, <1>8, <1>9 DEF TreeInv, Unique

\* A step that changes nothing of what TreeInv looks at.
LEMMA TreeQuiet ==
  ASSUME Typed, TreeInv, UNCHANGED tree_vars,
         \A b \in Tree, p \in Proc :
           /\ Entered(b, p)' = Entered(b, p)
           /\ Waiting(b, p) /\ ~Waiting(b, p)' => Released(b, p)
  PROVE  TreeInv'
<1>1. /\ control' = control /\ barrier_sense' = barrier_sense /\ barrier_release' = barrier_release
      /\ child_barrier_counter' = child_barrier_counter BY DEF tree_vars
<1>2. BagToSet(control)' = BagToSet(control) BY <1>1 DEF BagToSet
<1>3. Keys' = Keys BY <1>2 DEF Keys, Key, Who
<1>4. \A op, b, c : On(op, b, c)' = On(op, b, c) BY <1>3 DEF On
<1>5. \A b \in Tree, p \in Proc : /\ Released(b, p)' <=> Released(b, p)
                                  /\ Entered(b, p)' = Entered(b, p) BY <1>1 DEF Released
<1>6. \A b \in Tree, p \in Proc : Freed(b, p)' = Freed(b, p) BY <1>5 DEF Freed
<1>7. \A b \in Tree, p \in Proc : Sent(b, p)' = Sent(b, p) /\ Heard(b, p)' = Heard(b, p)
  BY <1>4, <1>5, <1>6 DEF Sent, Heard
<1>8. \A b \in Tree, p \in Proc : Early(b, p)' = Early(b, p) BY <1>5, <1>7, NumChild DEF Early
<1>9. ASSUME NEW b \in Tree, NEW p \in Proc PROVE Machine(b, p)'
  BY <1>1, <1>5, <1>7, <1>8 DEF Machine, TreeInv
<1>10. ASSUME NEW b \in Tree, NEW c \in Proc \ {0} PROVE Edge(b, c)'
  BY <1>4, <1>5, <1>7, TreeShape DEF Edge, TreeInv
<1>11. \A msg : Message(msg)' <=> Message(msg) BY <1>1 DEF Message
<1> QED BY <1>1, <1>2, <1>9, <1>10, <1>11 DEF TreeInv, Unique, Key, Who

\* What a step of the tree b at machine p leaves alone.
Elsewhere(b, p) ==
  \A d \in Tree, x \in Proc : d # b \/ x # p =>
    /\ Entered(d, x)' = Entered(d, x)
    /\ Waiting(d, x)' <=> Waiting(d, x)
    /\ barrier_sense'[d][x] = barrier_sense[d][x]
    /\ barrier_release'[d][x] = barrier_release[d][x]

LEMMA ElsewhereFreed ==
  ASSUME NEW b \in Tree, NEW p \in Proc, Elsewhere(b, p)
  PROVE  \A d \in Tree, x \in Proc : d # b \/ x # p =>
           (Released(d, x)' <=> Released(d, x)) /\ Freed(d, x)' = Freed(d, x)
BY DEF Elsewhere, Released, Freed

LEMMA TreeEnterInner ==
  ASSUME Typed, TreeInv, NEW b \in Tree, NEW p \in Proc \ {0}, Enters(b, p),
         \A d \in Tree, x \in Proc \ {p} :
           Entered(d, x)' = Entered(d, x) /\ (Waiting(d, x)' <=> Waiting(d, x))
  PROVE  /\ TreeInv'
         /\ BagToSet(control)' = BagToSet(control) \cup {Trigger(b, p, Collected(b, p))}
         /\ \A d \in Tree, x \in Proc :
              /\ Early(d, x)' \subseteq Early(d, x)
              /\ Released(d, x)' => Released(d, x)
              /\ On("forwarded", d, x)' = On("forwarded", d, x)
         /\ Early(b, p) = Children(N, Branch, p) /\ ~Released(b, p)'
<1> DEFINE k == <<"trigger", b, p>>
           msg == Trigger(b, p, Collected(b, p))
<1>1. /\ ChildrenArrived(b, p)
      /\ barrier_sense' = [barrier_sense EXCEPT ![b][p] = -barrier_sense[b][p]]
      /\ Control({}, {msg})
      /\ barrier_release' = barrier_release
      /\ child_barrier_counter' = child_barrier_counter BY DEF Enters, EnterTree
<1>2. /\ barrier_sense'[b][p] = -barrier_sense[b][p]
      /\ \A d \in Tree, x \in Proc : d # b \/ x # p => barrier_sense'[d][x] = barrier_sense[d][x]
  BY <1>1 DEF Typed
<1>3. Elsewhere(b, p) BY <1>1, <1>2 DEF Elsewhere, Enters
<1>4. Released(b, p) /\ ~Released(b, p)' /\ Freed(b, p) = Entered(b, p)
  <2>1. Released(b, p) BY DEF TreeInv, Machine, Enters
  <2>2. barrier_sense[b][p] \in {1, -1} BY Types
  <2> QED BY <1>1, <1>2, <2>1, <2>2 DEF Released, Freed
<1>5. Entered(b, p) \in Int /\ Entered(b, p)' = Entered(b, p) + 1 BY Types DEF Enters
<1>6. Freed(b, p)' = Freed(b, p) BY <1>4, <1>5 DEF Freed
<1>7. /\ On("trigger", b, p) = 0 /\ On("forwarded", b, p) = 0 /\ On("release", b, p) = 0
      /\ Entered(b, p) = Entered(b, Parent(p)) BY <1>4, EdgeFacts
<1>8. Key(msg) = k BY DEF Key, Who, Trigger
<1>9. k \notin Keys BY <1>7 DEF On
<1>10. /\ BagToSet(control') = BagToSet(control) \cup {msg} /\ Keys' = Keys \cup {k} /\ Unique'
  <2>1. Unique BY DEF TreeInv
  <2>2. {} \subseteq BagToSet(control) OBVIOUS
  <2>3. \A m \in {msg} : Key(m) \notin Keys BY <1>8, <1>9
  <2>4. \A m1, m2 \in {msg} : Key(m1) = Key(m2) => m1 = m2 OBVIOUS
  <2> HIDE DEF msg, k
  <2>5. /\ BagToSet(control') = (BagToSet(control) \ {}) \cup {msg}
        /\ Keys' = (Keys \ {Key(m) : m \in {}}) \cup {Key(m) : m \in {msg}}
        /\ Unique' BY <1>1, <2>1, <2>2, <2>3, <2>4, ControlKeys
  <2> QED BY <1>8, <2>5
<1>11. /\ On("trigger", b, p)' = 1
       /\ \A op, d, x : <<op, d, x>> # k => On(op, d, x)' = On(op, d, x) BY <1>10 DEF On
<1>12. \A d \in Tree, x \in Proc : Sent(d, x)' = Sent(d, x) BY <1>3, <1>6, <1>11, ElsewhereFreed DEF Sent
<1>13. \A d \in Tree, x \in Proc : Heard(d, x)' = Heard(d, x)
  <2>1. Heard(b, p)' = Heard(b, p) BY <1>5, <1>7, <1>11 DEF Heard
  <2>2. ASSUME NEW d \in Tree, NEW x \in Proc, d # b \/ x # p PROVE Heard(d, x)' = Heard(d, x)
    BY <1>3, <1>11, <2>2 DEF Heard, Elsewhere
  <2> QED BY <2>1, <2>2
<1>14. barrier_sense[b][p] \in {1, -1} /\ barrier_sense[b][p] = Sense(Entered(b, p))
       /\ child_barrier_counter[b][p] \in Int BY Types DEF TreeInv, Machine
<1>15. Early(b, p) = Children(N, Branch, p)
  <2>1. Early(b, p) \in SUBSET Children(N, Branch, p) BY DEF Early
  <2>2. /\ Cardinality(Early(b, p)) \in Nat /\ Cardinality(Early(b, p)) <= numchild(p)
        /\ numchild(p) \in Nat
        /\ Cardinality(Early(b, p)) = numchild(p) => Early(b, p) = Children(N, Branch, p)
    BY <2>1, NumChild
  <2>3. child_barrier_counter[b][p] = IF barrier_sense[b][p] = 1
           THEN Cardinality(Early(b, p)) ELSE numchild(p) - Cardinality(Early(b, p))
    BY DEF TreeInv, Machine
  <2> QED BY <1>1, <1>14, <2>2, <2>3 DEF ChildrenArrived
<1>16. \A c \in Children(N, Branch, p) : Heard(b, c) = Entered(b, p) + 1 BY <1>15 DEF Early
<1>17. Early(b, p)' = {}
  <2>1. \A c \in Children(N, Branch, p) : Heard(b, c)' # Entered(b, p)' + 1
    BY <1>5, <1>13, <1>16, NumChild
  <2> QED BY <2>1 DEF Early
<1>18. Machine(b, p)'
  <2>1. Cardinality(Early(b, p)') = 0 BY <1>17, FS_EmptySet
  <2>2. barrier_sense'[b][p] = Sense(Entered(b, p)') BY <1>2, <1>5, <1>14, SenseFlips
  <2>3. Sent(b, p)' <= Entered(b, p)' /\ Entered(b, p)' >= 0  BY <1>5, <1>12, Types DEF TreeInv, Machine
  <2>4. child_barrier_counter[b][p] = IF barrier_sense'[b][p] = 1 THEN 0 ELSE numchild(p)
    BY <1>1, <1>14, <1>2 DEF ChildrenArrived
  <2>5. numchild(p) \in Nat BY NumChild
  <2> QED BY <1>1, <2>1, <2>2, <2>3, <2>4, <2>5 DEF Machine, Enters
<1>19. ASSUME NEW d \in Tree, NEW x \in Proc, d # b \/ x # p PROVE Machine(d, x)'
  <2>1. Early(d, x)' = Early(d, x) BY <1>3, <1>13, <1>19, NumChild DEF Early, Elsewhere
  <2>2. Machine(d, x) BY DEF TreeInv
  <2>3. Released(d, x)' <=> Released(d, x) BY <1>3, <1>19, ElsewhereFreed
  <2> QED BY <1>1, <1>3, <1>12, <1>19, <2>1, <2>2, <2>3 DEF Machine, Elsewhere
<1>20. ASSUME NEW d \in Tree, NEW c \in Proc \ {0} PROVE Edge(d, c)'
  <2>0. Edge(d, c) /\ Parent(c) \in Proc BY TreeShape DEF TreeInv
  <2>1. Sent(d, c)' + On("release", d, c)' = Sent(d, Parent(c))' BY <1>11, <1>12, <2>0 DEF Edge
  <2>2. CASE d = b /\ Parent(c) = p
    <3>1. Heard(b, c) = Entered(b, p) + 1 BY <1>16, <2>2, TreeShape
    <3>2. Heard(d, c)' - Entered(d, Parent(c))' = 0 BY <1>5, <1>13, <2>2, <3>1
    <3> QED BY <2>1, <3>2 DEF Edge
  <2>3. CASE ~(d = b /\ Parent(c) = p)
    <3>1. Entered(d, Parent(c))' = Entered(d, Parent(c)) BY <1>3, <2>0, <2>3 DEF Elsewhere
    <3> QED BY <1>13, <2>0, <2>1, <3>1 DEF Edge
  <2> QED BY <2>2, <2>3
<1>21. ASSUME NEW m \in BagToSet(control') PROVE Message(m)'
  <2>1. CASE m = msg BY <2>1 DEF Trigger, Message
  <2>2. CASE m \in BagToSet(control)
    <3>0. Message(m) BY <2>2 DEF TreeInv
    <3>1. PICK d \in Tree, c \in Proc \ {0} :
            \/ m = Trigger(d, c, m.data)
            \/ m = Release(d, c, -barrier_sense[d][c], m.data)
            \/ m = [Release(d, c, -barrier_sense[d][c], m.data) EXCEPT !.op = "forwarded"] /\ numchild(c) > 0
      BY <3>0 DEF Message
    <3>2. CASE m = Trigger(d, c, m.data) BY <3>2 DEF Message
    <3>3. CASE d # b \/ c # p BY <1>2, <3>3, <3>1 DEF Message
    <3>4. CASE m # Trigger(d, c, m.data) /\ d = b /\ c = p
      <4>1. m.op \in {"release", "forwarded"} /\ m.tree = b /\ m.to = p BY <3>1, <3>4 DEF Release
      <4>2. Key(m) = <<m.op, b, p>> /\ Key(m) \in Keys BY <2>2, <4>1 DEF Key, Who, Keys
      <4> QED BY <1>7, <4>1, <4>2 DEF On
    <3> QED BY <3>2, <3>3, <3>4
  <2> QED BY <1>10, <2>1, <2>2
<1>22. BagToSet(control)' = BagToSet(control') BY DEF BagToSet
<1>23. TreeInv' BY <1>10, <1>18, <1>19, <1>20, <1>21, <1>22 DEF TreeInv
<1>24. ASSUME NEW d \in Tree, NEW x \in Proc
       PROVE  /\ Early(d, x)' \subseteq Early(d, x)
              /\ Released(d, x)' => Released(d, x)
              /\ On("forwarded", d, x)' = On("forwarded", d, x)
  <2>1. CASE d = b /\ x = p BY <1>4, <1>11, <1>17, <2>1
  <2>2. CASE ~(d = b /\ x = p)
    <3>1. Early(d, x)' = Early(d, x) BY <1>3, <1>13, <2>2, NumChild DEF Early, Elsewhere
    <3> QED BY <1>3, <1>11, <2>2, <3>1, ElsewhereFreed
  <2> QED BY <2>1, <2>2
<1> QED BY <1>4, <1>10, <1>15, <1>22, <1>23, <1>24

LEMMA TreeEnterRoot ==
  ASSUME Typed, TreeInv, NEW b \in Tree, Enters(b, 0),
         \A d \in Tree, x \in Proc \ {0} :
           Entered(d, x)' = Entered(d, x) /\ (Waiting(d, x)' <=> Waiting(d, x))
  PROVE  /\ TreeInv'
         /\ BagToSet(control)' =
              BagToSet(control) \cup Releases(b, 0, barrier_sense[b][0], Collected(b, 0))
         /\ \A d \in Tree, x \in Proc :
              /\ Early(d, x)' \subseteq Early(d, x)
              /\ Released(d, x)' => Released(d, x)
              /\ On("forwarded", d, x)' = On("forwarded", d, x)
         /\ Early(b, 0) = Children(N, Branch, 0)
<1> DEFINE p == 0
           val == barrier_sense[b][p]
           below == Children(N, Branch, p)
           sent == Releases(b, p, val, Collected(b, p))
<1>0. p \in Proc /\ below \in SUBSET (Proc \ {0}) BY ProcFacts, NumChild
<1>1. /\ ChildrenArrived(b, p)
      /\ barrier_sense' = [barrier_sense EXCEPT ![b][p] = -val]
      /\ Control({}, sent)
      /\ barrier_release' = [barrier_release EXCEPT ![b][p] = val]
      /\ child_barrier_counter' = child_barrier_counter BY DEF Enters, EnterTree
<1>2. /\ barrier_sense'[b][p] = -val /\ barrier_release'[b][p] = val
      /\ \A d \in Tree, x \in Proc : d # b \/ x # p =>
           /\ barrier_sense'[d][x] = barrier_sense[d][x]
           /\ barrier_release'[d][x] = barrier_release[d][x] BY <1>0, <1>1 DEF Typed
<1>3. Elsewhere(b, p) BY <1>1, <1>2 DEF Elsewhere, Enters
<1>14. val \in {1, -1} /\ val = Sense(Entered(b, p)) /\ child_barrier_counter[b][p] \in Int
  BY <1>0, Types DEF TreeInv, Machine
<1>4. Released(b, p) /\ Released(b, p)' /\ Freed(b, p) = Entered(b, p)
  <2>1. Released(b, p) BY <1>0 DEF TreeInv, Machine
  <2> HIDE DEF p
  <2>2. -(-val) = val BY <1>14
  <2> QED BY <1>2, <2>1, <2>2 DEF Released, Freed
<1>5. Entered(b, p) \in Int /\ Entered(b, p)' = Entered(b, p) + 1 BY <1>0, Types DEF Enters
<1>6. Freed(b, p)' = Freed(b, p) + 1 BY <1>4, <1>5 DEF Freed
<1>7. \A op, d : <<op, d, p>> \notin Keys BY KeyFacts
<1>15. Early(b, p) = below
  <2>1. Early(b, p) \in SUBSET Children(N, Branch, p) BY DEF Early
  <2>2. /\ Cardinality(Early(b, p)) \in Nat /\ Cardinality(Early(b, p)) <= numchild(p)
        /\ numchild(p) \in Nat
        /\ Cardinality(Early(b, p)) = numchild(p) => Early(b, p) = Children(N, Branch, p)
    BY <1>0, <2>1, NumChild
  <2>3. child_barrier_counter[b][p] = IF barrier_sense[b][p] = 1
           THEN Cardinality(Early(b, p)) ELSE numchild(p) - Cardinality(Early(b, p))
    BY <1>0 DEF TreeInv, Machine
  <2> QED BY <1>1, <1>14, <2>2, <2>3 DEF ChildrenArrived
<1>16. \A c \in below : Heard(b, c) = Entered(b, p) + 1 BY <1>15 DEF Early
<1>25. \A c \in below : Parent(c) = p BY <1>0, TreeShape
<1>26. \A c \in below : /\ On("release", b, c) = 0 
                        /\ barrier_sense[b][c] = -val
  <2> SUFFICES ASSUME NEW c \in below 
               PROVE  On("release", b, c) = 0 /\ barrier_sense[b][c] = -val OBVIOUS
  <2>1. c \in Proc \ {0} /\ Heard(b, c) = Entered(b, Parent(c)) + 1 BY <1>0, <1>16, <1>25
  <2>2. Entered(b, c) = Entered(b, p) + 1 /\ On("release", b, c) = 0 BY <1>25, <2>1, EdgeFacts
  <2>3. barrier_sense[b][c] = Sense(Entered(b, c)) BY <1>0 DEF TreeInv, Machine
  <2> QED BY <1>5, <1>14, <2>2, <2>3, SenseFlips
<1>8. \A m \in sent : \E c \in below : Key(m) = <<"release", b, c>> /\ m.to = c 
                                       /\ m = Release(b, c, val, m.data)
  BY DEF Releases, Release, Key, Who
<1>9. ASSUME NEW c \in below PROVE \E m \in sent : Key(m) = <<"release", b, c>>
  <2> DEFINE m == Release(b, c, val, Collected(b, p))
  <2>1. m \in sent BY DEF Releases
  <2>2. Key(m) = <<"release", b, c>> BY DEF Release, Key, Who
  <2> QED BY <2>1, <2>2
<1>10. /\ BagToSet(control') = BagToSet(control) \cup sent 
       /\ Keys' = Keys \cup {<<"release", b, c>> : c \in below} /\ Unique'
  <2>1. Unique BY DEF TreeInv
  <2>2. {} \subseteq BagToSet(control) OBVIOUS
  <2>3. \A m \in sent : Key(m) \notin Keys BY <1>8, <1>26 DEF On
  <2>4. \A m1, m2 \in sent : Key(m1) = Key(m2) => m1 = m2 BY DEF Releases, Release, Key, Who
  <2>5. {Key(m) : m \in sent} = {<<"release", b, c>> : c \in below} BY <1>8, <1>9
  <2> HIDE DEF sent, below, val, p
  <2>6. /\ BagToSet(control') = (BagToSet(control) \ {}) \cup sent
        /\ Keys' = (Keys \ {Key(m) : m \in {}}) \cup {Key(m) : m \in sent}
        /\ Unique' BY <1>1, <2>1, <2>2, <2>3, <2>4, ControlKeys
  <2> QED BY <2>5, <2>6
<1>11. /\ \A c \in below : On("release", b, c)' = 1
       /\ \A op, d, x : ~(op = "release" /\ d = b /\ x \in below) => On(op, d, x)' = On(op, d, x)
  BY <1>10 DEF On
<1>12. /\ Sent(b, p)' = Sent(b, p) + 1 /\ Sent(b, p) = Entered(b, p)
       /\ \A d \in Tree, x \in Proc : d # b \/ x # p => Sent(d, x)' = Sent(d, x)
  <2>1. On("forwarded", b, p) = 0 /\ On("forwarded", b, p)' = 0 BY <1>7, <1>11 DEF On
  <2>2. Sent(b, p)' = Sent(b, p) + 1 /\ Sent(b, p) = Entered(b, p) BY <1>4, <1>5, <1>6, <2>1 DEF Sent
  <2>3. \A d \in Tree, x \in Proc : d # b \/ x # p => Sent(d, x)' = Sent(d, x)
    BY <1>0, <1>3, <1>11, ElsewhereFreed DEF Sent
  <2> QED BY <2>2, <2>3
<1>13. \A d \in Tree, x \in Proc : x # p => Heard(d, x)' = Heard(d, x)
  BY <1>3, <1>11 DEF Heard, Elsewhere
<1>17. Early(b, p)' = {}
  <2>1. \A c \in Children(N, Branch, p) : Heard(b, c)' # Entered(b, p)' + 1 BY <1>0, <1>5, <1>13, <1>16
  <2> QED BY <2>1 DEF Early
<1>18. Machine(b, p)'
  <2>1. Cardinality(Early(b, p)') = 0 BY <1>17, FS_EmptySet
  <2>2. barrier_sense'[b][p] = Sense(Entered(b, p)') BY <1>2, <1>5, <1>14, SenseFlips
  <2>3. Sent(b, p)' <= Entered(b, p)' /\ Entered(b, p)' >= 0  BY <1>0, <1>5, <1>12 DEF TreeInv, Machine
  <2>4. child_barrier_counter[b][p] = IF barrier_sense'[b][p] = 1 THEN 0 ELSE numchild(p)
    BY <1>1, <1>14, <1>2 DEF ChildrenArrived
  <2>5. numchild(p) \in Nat BY <1>0, NumChild
  <2> QED BY <1>1, <1>4, <2>1, <2>2, <2>3, <2>4, <2>5 DEF Machine, Enters
<1>19. ASSUME NEW d \in Tree, NEW x \in Proc, d # b \/ x # p PROVE Machine(d, x)'
  <2>1. Early(d, x)' = Early(d, x) 
    <3>1. \A c \in Children(N, Branch, x) : Heard(d, c)' = Heard(d, c) BY <1>13, NumChild
    <3> QED BY <1>3, <1>19, <3>1 DEF Early, Elsewhere
  <2>2. Machine(d, x) BY DEF TreeInv
  <2>3. Released(d, x)' <=> Released(d, x) BY <1>0, <1>3, <1>19, ElsewhereFreed
  <2> QED BY <1>1, <1>3, <1>12, <1>19, <2>1, <2>2, <2>3 DEF Machine, Elsewhere
<1>20. ASSUME NEW d \in Tree, NEW c \in Proc \ {0} PROVE Edge(d, c)'
  <2>0. Edge(d, c) /\ Parent(c) \in Proc BY TreeShape DEF TreeInv
  <2>1. CASE d = b /\ c \in below
    <3>1. Heard(b, c)' = Entered(b, p) + 1 BY <1>0, <1>13, <1>16, <2>1
    <3>2. Heard(b, c)' - Entered(b, p)' = 0 BY <1>5, <3>1
    <3>3. Sent(b, c)' = Sent(b, c) /\ On("release", b, c)' = 1 /\ On("release", b, c) = 0
      BY <1>0, <1>11, <1>12, <1>26, <2>1
    <3>4. Sent(b, c) + 0 = Sent(b, p) BY <1>25, <1>26, <2>0, <2>1 DEF Edge
    <3>5. Sent(b, c) \in Int /\ Sent(b, p) \in Int BY <1>0, Types
    <3>6. Sent(b, c)' + On("release", b, c)' = Sent(b, p)' BY <1>12, <3>3, <3>4, <3>5
    <3> QED BY <1>25, <2>1, <3>2, <3>6 DEF Edge
  <2>2. CASE ~(d = b /\ c \in below)
    <3>0. d # b \/ Parent(c) # p BY <2>2, TreeShape, <1>0
    <3>1. Entered(d, Parent(c))' = Entered(d, Parent(c)) BY <1>3, <2>0, <3>0 DEF Elsewhere
    <3>2. Sent(d, Parent(c))' = Sent(d, Parent(c)) /\ Sent(d, c)' = Sent(d, c) BY <1>12, <2>0, <3>0
    <3>3. On("release", d, c)' = On("release", d, c) BY <1>11, <2>2
    <3> QED BY <1>13, <2>0, <3>1, <3>2, <3>3 DEF Edge
  <2> QED BY <2>1, <2>2
<1>21. ASSUME NEW m \in BagToSet(control') PROVE Message(m)'
  <2>0. \A d \in Tree, c \in Proc \ {0} : barrier_sense'[d][c] = barrier_sense[d][c] BY <1>2
  <2>1. CASE m \in sent
    <3>1. PICK c \in below : m = Release(b, c, val, m.data) BY <1>8, <2>1
    <3>2. c \in Proc \ {0} /\ barrier_sense'[b][c] = -val BY <1>0, <1>26, <2>0
    <3>3. -(-val) = val BY <1>14
    <3>4. m = Release(b, c, -barrier_sense'[b][c], m.data) BY <3>1, <3>2, <3>3
    <3> QED BY <3>2, <3>4 DEF Message
  <2>2. CASE m \in BagToSet(control) BY <2>2, <2>0 DEF TreeInv, Message
  <2> QED BY <1>10, <2>1, <2>2
<1>22. BagToSet(control)' = BagToSet(control') BY DEF BagToSet
<1>23. TreeInv' BY <1>10, <1>18, <1>19, <1>20, <1>21, <1>22 DEF TreeInv
<1>24. ASSUME NEW d \in Tree, NEW x \in Proc
       PROVE  /\ Early(d, x)' \subseteq Early(d, x)
              /\ Released(d, x)' => Released(d, x)
              /\ On("forwarded", d, x)' = On("forwarded", d, x)
  <2>1. CASE d = b /\ x = p BY <1>4, <1>11, <1>17, <2>1
  <2>2. CASE ~(d = b /\ x = p)
    <3>1. \A c \in Children(N, Branch, x) : Heard(d, c)' = Heard(d, c) BY <1>13, NumChild
    <3>2. Early(d, x)' = Early(d, x) BY <1>3, <2>2, <3>1 DEF Early, Elsewhere
    <3> QED BY <1>0, <1>3, <1>11, <2>2, <3>2, ElsewhereFreed
  <2> QED BY <2>1, <2>2
<1> QED BY <1>10, <1>15, <1>22, <1>23, <1>24

LEMMA TreeTrigger ==
  ASSUME Typed, TreeInv, NEW p \in Proc, ChildToParentBarrierTrigger(p),
         \A d \in Tree, x \in Proc :
           Entered(d, x)' = Entered(d, x) /\ (Waiting(d, x)' <=> Waiting(d, x))
  PROVE  /\ TreeInv'
         /\ \E msg \in BagToSet(control) :
              /\ msg.op = "trigger" /\ msg.to = p /\ msg.from \in Children(N, Branch, p)
              /\ ab_children_data' = IF msg.tree = "ab"
                                     THEN [ab_children_data EXCEPT ![p][msg.from] = msg.data]
                                     ELSE ab_children_data
              /\ \A d \in Tree, x \in Proc : 
                   Early(d, x)' = IF d = msg.tree /\ x = p THEN Early(d, x) \cup {msg.from}
                                                           ELSE Early(d, x)
         /\ BagToSet(control)' \subseteq BagToSet(control)
         /\ \A d \in Tree, x \in Proc :
              /\ Released(d, x)' <=> Released(d, x)
              /\ On("forwarded", d, x)' = On("forwarded", d, x)
<1>1. PICK msg \in BagToSet(control) :
        /\ msg.op = "trigger" /\ msg.to = p
        /\ Control({msg}, {})
        /\ child_barrier_counter' =
             [child_barrier_counter EXCEPT ![msg.tree][p] =
                child_barrier_counter[msg.tree][p] + barrier_sense[msg.tree][p]]
        /\ UNCHANGED <<barrier_sense, barrier_release>>
        /\ ab_children_data' = IF msg.tree = "ab"
                               THEN [ab_children_data EXCEPT ![p][msg.from] = msg.data]
                               ELSE ab_children_data BY DEF ChildToParentBarrierTrigger
<1> DEFINE b == msg.tree
           c == msg.from
           k == <<"trigger", b, c>>
<1>2. b \in Tree /\ c \in Proc \ {0} /\ p = Parent(c) /\ Key(msg) = k /\ k \in Keys BY <1>1, MessageFacts
<1> HIDE DEF b, c
<1>3. /\ BagToSet(control') = BagToSet(control) \ {msg} /\ Keys' = Keys \ {k} /\ Unique'
  <2>1. Unique BY DEF TreeInv
  <2>2. {msg} \subseteq BagToSet(control) OBVIOUS
  <2> DEFINE none == {}
  <2>3. /\ \A m \in none : Key(m) \notin Keys
        /\ \A m1, m2 \in none : Key(m1) = Key(m2) => m1 = m2
        /\ none \cap BagToSet(control) = {} OBVIOUS
  <2>4. Control({msg}, none) BY <1>1
  <2> HIDE DEF k, none
  <2>5. /\ BagToSet(control') = (BagToSet(control) \ {msg}) \cup none
        /\ Keys' = (Keys \ {Key(m) : m \in {msg}}) \cup {Key(m) : m \in none}
        /\ Unique' BY <2>1, <2>2, <2>3, <2>4, ControlKeys
  <2> QED BY <1>2, <2>5 DEF none
<1>4. /\ On("trigger", b, c) = 1 /\ On("trigger", b, c)' = 0
      /\ \A op, d, x : <<op, d, x>> # k => On(op, d, x)' = On(op, d, x) BY <1>2, <1>3 DEF On
<1>5. \A d \in Tree, x \in Proc : (Released(d, x)' <=> Released(d, x)) /\ Freed(d, x)' = Freed(d, x)
  BY <1>1 DEF Released, Freed
<1>6. \A d \in Tree, x \in Proc : Sent(d, x)' = Sent(d, x) BY <1>4, <1>5 DEF Sent
<1>7. /\ Heard(b, c)' = Heard(b, c) + 1
      /\ \A d \in Tree, x \in Proc : d # b \/ x # c => Heard(d, x)' = Heard(d, x)
  BY <1>2, Types, <1>4 DEF Heard
<1>8. Heard(b, c) = Entered(b, p) /\ Entered(b, p) \in Int /\ c \in Children(N, Branch, p)
  BY <1>2, <1>4, EdgeFacts, Types, TreeShape
<1>9. Early(b, p)' = Early(b, p) \cup {c} /\ c \notin Early(b, p)
  <2>1. c \in Early(b, p)' BY <1>2, <1>7, <1>8 DEF Early
  <2>2. c \notin Early(b, p) BY <1>8 DEF Early
  <2>3. \A x \in Children(N, Branch, p) : x # c => (x \in Early(b, p)' <=> x \in Early(b, p))
    BY <1>2, <1>7, NumChild DEF Early
  <2>4. Early(b, p) \subseteq Children(N, Branch, p) /\ Early(b, p)' \subseteq Children(N, Branch, p)
    BY DEF Early
  <2> QED BY <2>1, <2>2, <2>3, <2>4
<1>10. Machine(b, p)'
  <2>1. Early(b, p) \in SUBSET Children(N, Branch, p) BY DEF Early
  <2>2. /\ Cardinality(Early(b, p)) \in Nat /\ numchild(p) \in Nat
        /\ Cardinality(Early(b, p)') = Cardinality(Early(b, p)) + 1 BY <1>8, <1>9, <2>1, NumChild
  <2>3. /\ child_barrier_counter[b][p] \in Int /\ barrier_sense[b][p] \in {1, -1}
        /\ child_barrier_counter[b][p] = IF barrier_sense[b][p] = 1
             THEN Cardinality(Early(b, p)) ELSE numchild(p) - Cardinality(Early(b, p))
    BY <1>2, Types DEF TreeInv, Machine
  <2>4. child_barrier_counter'[b][p] = child_barrier_counter[b][p] + barrier_sense[b][p]
    BY <1>1, <1>2 DEF Typed, b
  <2>5. child_barrier_counter'[b][p] = IF barrier_sense[b][p] = 1
             THEN Cardinality(Early(b, p)') ELSE numchild(p) - Cardinality(Early(b, p)')
    BY <2>2, <2>3, <2>4
  <2>6. Machine(b, p) BY <1>2 DEF TreeInv
  <2> QED BY <1>1, <1>2, <1>5, <1>6, <2>5, <2>6 DEF Machine
<1>15. ASSUME NEW d \in Tree, NEW x \in Proc, d # b \/ x # p PROVE Early(d, x)' = Early(d, x)
  <2>1. \A y \in Children(N, Branch, x) : y \in Proc \ {0} /\ Parent(y) = x BY NumChild, TreeShape
  <2>2. \A y \in Children(N, Branch, x) : Heard(d, y)' = Heard(d, y) BY <1>2, <1>7, <1>15, <2>1
  <2> QED BY <2>2 DEF Early
<1>11. ASSUME NEW d \in Tree, NEW x \in Proc, d # b \/ x # p PROVE Machine(d, x)'
  <2>1. Early(d, x)' = Early(d, x) BY <1>11, <1>15
  <2>2. child_barrier_counter'[d][x] = child_barrier_counter[d][x] BY <1>1, <1>2, <1>11 DEF Typed, b
  <2>3. Machine(d, x) BY DEF TreeInv
  <2> QED BY <1>1, <1>5, <1>6, <2>1, <2>2, <2>3 DEF Machine
<1>12. ASSUME NEW d \in Tree, NEW x \in Proc \ {0} PROVE Edge(d, x)'
  <2>1. Edge(d, x) /\ Parent(x) \in Proc BY TreeShape DEF TreeInv
  <2>2. On("release", d, x)' = On("release", d, x) BY <1>4
  <2>3. Heard(d, x)' - Entered(d, Parent(x))' \in {0, 1}
    <3>1. CASE d = b /\ x = c BY <1>2, <1>7, <1>8, <3>1
    <3>2. CASE ~(d = b /\ x = c) BY <1>7, <2>1, <3>2 DEF Edge
    <3> QED BY <3>1, <3>2
  <2> QED BY <1>6, <2>1, <2>2, <2>3 DEF Edge
<1>13. ASSUME NEW m \in BagToSet(control') PROVE Message(m)' BY <1>3, <1>1 DEF TreeInv, Message
<1>14. BagToSet(control)' = BagToSet(control') BY DEF BagToSet
<1>16. TreeInv' BY <1>3, <1>10, <1>11, <1>12, <1>13, <1>14 DEF TreeInv
<1>17. \A d \in Tree, x \in Proc :
         Early(d, x)' = IF d = b /\ x = p THEN Early(d, x) \cup {c} ELSE Early(d, x) BY <1>9, <1>15
<1>18. \A d \in Tree, x \in Proc : On("forwarded", d, x)' = On("forwarded", d, x) BY <1>4
<1> QED BY <1>1, <1>3, <1>5, <1>8, <1>14, <1>16, <1>17, <1>18 DEF b, c

LEMMA TreeTake ==
  ASSUME Typed, TreeInv, NEW p \in Proc, TakeRelease(p),
         \A d \in Tree, x \in Proc :
           Entered(d, x)' = Entered(d, x) /\ (Waiting(d, x)' <=> Waiting(d, x))
  PROVE  /\ TreeInv'
         /\ \E msg \in BagToSet(control) :
              /\ msg.op # "trigger" /\ msg.to = p 
              /\ msg.op = "release" \/ On("forwarded", msg.tree, p) = 1
              /\ ab_alldata' = IF msg.tree = "ab" /\ msg.op = "release"
                               THEN [ab_alldata EXCEPT ![p] = msg.data] ELSE ab_alldata
              /\ \A d \in Tree, x \in Proc : d # msg.tree \/ x # p =>
                   (Released(d, x)' <=> Released(d, x))
         /\ BagToSet(control)' \subseteq BagToSet(control)
         /\ \A d \in Tree, x \in Proc :
              /\ Early(d, x)' = Early(d, x)
              /\ On("forwarded", d, x)' = 1 => On("forwarded", d, x) = 1
<1>1. PICK msg \in BagToSet(control) :
        /\ msg.op = (IF numchild(p) > 0 THEN "forwarded" ELSE "release") /\ msg.to = p
        /\ barrier_release' = [barrier_release EXCEPT ![msg.tree][p] = msg.val]
        /\ Control({msg}, {})
        /\ UNCHANGED <<barrier_sense, child_barrier_counter>>
        /\ ab_alldata' = IF msg.tree = "ab" /\ msg.op = "release"
                         THEN [ab_alldata EXCEPT ![p] = msg.data] ELSE ab_alldata BY DEF TakeRelease
<1> DEFINE b == msg.tree
           op == msg.op
           k == <<op, b, p>>
<1>2. /\ b \in Tree /\ p \in Proc \ {0} /\ Key(msg) = k /\ k \in Keys 
      /\ op \in {"forwarded", "release"} /\ msg.val = -barrier_sense[b][p]
      /\ op = "release" => ~(numchild(p) > 0) BY <1>1, MessageFacts
<1> HIDE DEF b, op
<1>3. /\ BagToSet(control') = BagToSet(control) \ {msg} /\ Keys' = Keys \ {k} /\ Unique'
  <2>1. Unique BY DEF TreeInv
  <2>2. {msg} \subseteq BagToSet(control) OBVIOUS
  <2> DEFINE none == {}
  <2>3. /\ \A m \in none : Key(m) \notin Keys
        /\ \A m1, m2 \in none : Key(m1) = Key(m2) => m1 = m2
        /\ none \cap BagToSet(control) = {} OBVIOUS
  <2>4. Control({msg}, none) BY <1>1
  <2> HIDE DEF k, none
  <2>5. /\ BagToSet(control') = (BagToSet(control) \ {msg}) \cup none
        /\ Keys' = (Keys \ {Key(m) : m \in {msg}}) \cup {Key(m) : m \in none}
        /\ Unique' BY <2>1, <2>2, <2>3, <2>4, ControlKeys
  <2> QED BY <1>2, <2>5 DEF none
<1>4. /\ On(op, b, p) = 1 /\ On(op, b, p)' = 0
      /\ \A o, d, x : <<o, d, x>> # k => On(o, d, x)' = On(o, d, x) BY <1>2, <1>3 DEF On
<1>5. /\ barrier_release'[b][p] = -barrier_sense[b][p]
      /\ \A d \in Tree, x \in Proc : d # b \/ x # p => barrier_release'[d][x] = barrier_release[d][x]
  BY <1>1, <1>2 DEF Typed, b
<1>6. Released(b, p)' BY <1>1, <1>5 DEF Released
<1>7. \A d \in Tree, x \in Proc : d # b \/ x # p => 
        (Released(d, x)' <=> Released(d, x)) /\ Freed(d, x)' = Freed(d, x)
  BY <1>1, <1>5 DEF Released, Freed
<1>8. Freed(b, p) = Entered(b, p) - 1 /\ Freed(b, p)' = Entered(b, p) /\ Entered(b, p) \in Int
  BY <1>2, <1>4, <1>6, EdgeFacts, Types DEF Freed
<1>9. \A d \in Tree, x \in Proc : Heard(d, x)' = Heard(d, x) BY <1>2, <1>4 DEF Heard
<1>10. \A d \in Tree, x \in Proc : d # b \/ x # p => Sent(d, x)' = Sent(d, x) BY <1>4, <1>7 DEF Sent
<1>11. Sent(b, p)' = Entered(b, p) /\ Sent(b, p) + On("release", b, p) = Entered(b, p)
       /\ On("release", b, p)' = 0
  <2>1. CASE op = "forwarded"
    <3>1. On("release", b, p) = 0
      <4>1. On("release", b, p) \in {0, 1} BY Types
      <4> QED BY <1>2, <1>4, <2>1, <4>1, EdgeFacts
    <3> QED BY <1>4, <1>8, <2>1, <3>1 DEF Sent
  <2>2. CASE op = "release"
    <3>1. On("forwarded", b, p) = 0 BY <1>2, <1>4, <2>2, EdgeFacts
    <3>2. On("forwarded", b, p)' = 0 BY <1>4, <2>2, <3>1
    <3> QED BY <1>4, <1>8, <2>2, <3>1, <3>2 DEF Sent
  <2> QED BY <1>2, <2>1, <2>2
<1>12. ASSUME NEW d \in Tree, NEW x \in Proc PROVE Machine(d, x)'
  <2>1. Machine(d, x) BY DEF TreeInv
  <2>2. Early(d, x)' = Early(d, x) BY <1>9, NumChild DEF Early
  <2>3. CASE d = b /\ x = p
    <3>1. Sent(d, x)' <= Entered(d, x)' BY <1>8, <1>11, <2>3
    <3> QED BY <1>1, <1>2, <1>6, <2>1, <2>2, <2>3, <3>1 DEF Machine
  <2>4. CASE ~(d = b /\ x = p) BY <1>1, <1>7, <1>10, <2>1, <2>2, <2>4 DEF Machine
  <2> QED BY <2>3, <2>4
<1>13. ASSUME NEW d \in Tree, NEW c \in Proc \ {0} PROVE Edge(d, c)'
  <2>1. Edge(d, c) /\ Parent(c) \in Proc BY TreeShape DEF TreeInv
  <2>2. Sent(d, c)' + On("release", d, c)' = Sent(d, c) + On("release", d, c)
    <3>1. CASE d = b /\ c = p BY <1>8, <1>11, <3>1
    <3>2. CASE ~(d = b /\ c = p) BY <1>4, <1>10, <3>2
    <3> QED BY <3>1, <3>2
  <2>3. Sent(d, Parent(c))' = Sent(d, Parent(c))
    <3>1. CASE d = b /\ Parent(c) = p
      <4>1. c \in Children(N, Branch, p) BY <3>1, TreeShape
      <4>2. numchild(p) > 0 BY NumChild, <4>1 DEF numchild
      <4>3. op = "forwarded" BY <1>2, <4>2
      <4>4. On("release", b, p) = 0
        <5>1. On("release", b, p) \in {0, 1} BY Types
        <5> QED BY <1>2, <1>4, <4>3, <5>1, EdgeFacts
      <4>5. Sent(b, p) \in Int BY <1>2, Types
      <4> QED BY <1>11, <3>1, <4>4, <4>5
    <3>2. CASE ~(d = b /\ Parent(c) = p) BY <1>10, <2>1, <3>2
    <3> QED BY <3>1, <3>2
  <2> QED BY <1>9, <2>1, <2>2, <2>3 DEF Edge
<1>14. ASSUME NEW m \in BagToSet(control') PROVE Message(m)' BY <1>3, <1>1 DEF TreeInv, Message
<1>15. BagToSet(control)' = BagToSet(control') BY DEF BagToSet
<1>16. TreeInv' BY <1>3, <1>12, <1>13, <1>14, <1>15 DEF TreeInv
<1>17. \A d \in Tree, x \in Proc :
         /\ Early(d, x)' = Early(d, x)
         /\ On("forwarded", d, x)' = 1 => On("forwarded", d, x) = 1 BY <1>9, NumChild, <1>4 DEF Early
<1>18. op # "trigger" /\ (op = "release" \/ On("forwarded", b, p) = 1) BY <1>2, <1>4
<1> QED BY <1>1, <1>3, <1>7, <1>15, <1>16, <1>17, <1>18 DEF b, op

LEMMA TreeForward ==
  ASSUME Typed, TreeInv, NEW p \in Proc, ForwardRelease(p),
         \A d \in Tree, x \in Proc :
           Entered(d, x)' = Entered(d, x) /\ (Waiting(d, x)' <=> Waiting(d, x))
  PROVE  /\ TreeInv'
         /\ \E msg \in BagToSet(control) :
              /\ msg.op = "release" /\ msg.to = p
              /\ ab_alldata' = IF msg.tree = "ab" THEN [ab_alldata EXCEPT ![p] = msg.data]
                                                  ELSE ab_alldata
              /\ \A m \in BagToSet(control)' :
                   \/ m \in BagToSet(control)
                   \/ m.tree = msg.tree /\ m.op # "trigger" /\ m.data = msg.data
              /\ \A d \in Tree, x \in Proc : d # msg.tree \/ x # p =>
                   On("forwarded", d, x)' = On("forwarded", d, x)
         /\ \A d \in Tree, x \in Proc :
              Early(d, x)' = Early(d, x) /\ (Released(d, x)' <=> Released(d, x))
<1>1. PICK msg \in BagToSet(control) :
        /\ msg.op = "release" /\ msg.to = p /\ numchild(p) > 0
        /\ Control({msg}, {[msg EXCEPT !.op = "forwarded"]}
                            \cup Releases(msg.tree, p, msg.val, msg.data))
        /\ UNCHANGED <<barrier_sense, child_barrier_counter, barrier_release>>
        /\ ab_alldata' = IF msg.tree = "ab" THEN [ab_alldata EXCEPT ![p] = msg.data]
                                            ELSE ab_alldata BY DEF ForwardRelease
<1> DEFINE b == msg.tree
           val == msg.val
           below == Children(N, Branch, p)
           held == [msg EXCEPT !.op = "forwarded"]
           down == Releases(b, p, val, msg.data)
<1>2. /\ b \in Tree /\ p \in Proc \ {0} /\ Key(msg) = <<"release", b, p>> /\ Key(msg) \in Keys 
      /\ val = -barrier_sense[b][p] BY <1>1, MessageFacts
<1>a. held = [Release(b, p, val, msg.data) EXCEPT !.op = "forwarded"] /\ held.data = msg.data
  <2>1. PICK d \in Tree, c \in Proc \ {0} :
        \/ msg = Trigger(d, c, msg.data)
        \/ msg = Release(d, c, -barrier_sense[d][c], msg.data)
        \/ msg = [Release(d, c, -barrier_sense[d][c], msg.data) EXCEPT !.op = "forwarded"] /\ numchild(c) > 0
    BY DEF TreeInv, Message
  <2>2. msg = Release(d, c, -barrier_sense[d][c], msg.data) BY <1>1, <2>1 DEF Trigger, Release
  <2>3. d = b /\ c = p /\ -barrier_sense[d][c] = val BY <1>1, <2>2 DEF Release
  <2>4. msg = Release(b, p, val, msg.data) BY <2>2, <2>3
  <2> QED BY <2>4 DEF Release
<1>b. Key(held) = <<"forwarded", b, p>> BY <1>1, <1>a DEF Release, Key, Who
<1> HIDE DEF b, val, held
<1>c. below \in SUBSET (Proc \ {0}) /\ \A c \in below : Parent(c) = p BY <1>2, NumChild, TreeShape
<1>d. /\ \A m \in down : \E c \in below : /\ Key(m) = <<"release", b, c>> 
                                          /\ m = Release(b, c, val, m.data)
      /\ \A m1, m2 \in down : Key(m1) = Key(m2) => m1 = m2 BY DEF Releases, Release, Key, Who
<1>e. ASSUME NEW c \in below PROVE \E m \in down : Key(m) = <<"release", b, c>>
  <2> DEFINE m == Release(b, c, val, msg.data)
  <2>1. m \in down BY DEF Releases
  <2>2. Key(m) = <<"release", b, c>> BY DEF Release, Key, Who
  <2> QED BY <2>1, <2>2
<1> HIDE DEF down, below
\* Before the step p and its children are where the tree was released last.
<1>3. On("release", b, p) = 1 BY <1>2 DEF On
<1>4. /\ On("forwarded", b, p) = 0 /\ Freed(b, p) = Entered(b, p) - 1
      /\ Sent(b, p) = Entered(b, p) - 1 /\ Entered(b, p) \in Int
  <2>1. On("forwarded", b, p) = 0 /\ Freed(b, p) = Entered(b, p) - 1 BY <1>2, <1>3, EdgeFacts
  <2>2. Entered(b, p) \in Int BY <1>2, Types
  <2> QED BY <2>1, <2>2 DEF Sent
<1>5. ASSUME NEW c \in below 
      PROVE  On("release", b, c) = 0 /\ barrier_sense[b][c] = -val
  <2>1. c \in Proc \ {0} /\ Parent(c) = p BY <1>c
  <2>2. On("release", b, c) \in {0, 1} /\ Entered(b, c) \in Int BY <2>1, <1>2, Types
  <2>3. On("release", b, c) # 1 BY <1>2, <1>4, <2>1, EdgeFacts
  <2>4. Entered(b, p) <= Entered(b, c) /\ Entered(b, c) <= Sent(b, p) + 1 BY <1>2, <2>1, EdgeFacts
  <2>5. Entered(b, c) = Entered(b, p) BY <1>4, <2>2, <2>4
  <2>6. barrier_sense[b][c] = barrier_sense[b][p] BY <1>2, <2>1, <2>5 DEF TreeInv, Machine
  <2>7. barrier_sense[b][p] \in {1, -1} BY <1>2, Types
  <2>8. barrier_sense[b][p] = -val BY <1>2, <2>7
  <2> QED BY <2>2, <2>3, <2>6, <2>8
<1>6. /\ BagToSet(control') = (BagToSet(control) \ {msg}) \cup {held} \cup down
      /\ Keys' = (Keys \ {<<"release", b, p>>}) 
                   \cup {<<"forwarded", b, p>>} \cup {<<"release", b, c>> : c \in below}
      /\ Unique'
  <2> DEFINE sent == {held} \cup down
  <2>1. Unique BY DEF TreeInv
  <2>2. {msg} \subseteq BagToSet(control) OBVIOUS
  <2>3. \A m \in sent : Key(m) \notin Keys
    <3>1. Key(held) \notin Keys BY <1>4, <1>b DEF On
    <3>2. \A m \in down : Key(m) \notin Keys BY <1>5, <1>d DEF On
    <3> QED BY <3>1, <3>2
  <2>4. \A m1, m2 \in sent : Key(m1) = Key(m2) => m1 = m2 BY <1>b, <1>d
  <2>5. {Key(m) : m \in sent} = {<<"forwarded", b, p>>} \cup {<<"release", b, c>> : c \in below}
    BY <1>b, <1>d, <1>e
  <2>6. {Key(m) : m \in {msg}} = {<<"release", b, p>>} BY <1>2
  <2>7. Control({msg}, sent) BY <1>1 DEF held, down, b, val
  <2> HIDE DEF sent
  <2>8. /\ BagToSet(control') = (BagToSet(control) \ {msg}) \cup sent
        /\ Keys' = (Keys \ {Key(m) : m \in {msg}}) \cup {Key(m) : m \in sent}
        /\ Unique' BY <2>1, <2>2, <2>3, <2>4, <2>7, ControlKeys
  <2> QED BY <2>5, <2>6, <2>8 DEF sent
<1>7. /\ On("release", b, p)' = 0 /\ On("forwarded", b, p)' = 1
      /\ \A c \in below : On("release", b, c)' = 1
      /\ \A op, d, x : /\ <<op, d, x>> # <<"release", b, p>>
                       /\ <<op, d, x>> # <<"forwarded", b, p>>
                       /\ ~(op = "release" /\ d = b /\ x \in below)
                       => On(op, d, x)' = On(op, d, x)
  <2>1. p \notin below  BY <1>2, TreeShape, <1>c DEF Proc
  <2> QED BY <1>6, <2>1 DEF On
<1>8. \A d \in Tree, x \in Proc : (Released(d, x)' <=> Released(d, x)) /\ Freed(d, x)' = Freed(d, x)
  BY <1>1 DEF Released, Freed
<1>9. \A d \in Tree, x \in Proc : Heard(d, x)' = Heard(d, x) BY <1>7 DEF Heard
<1>10. /\ Sent(b, p)' = Entered(b, p)
       /\ \A d \in Tree, x \in Proc : d # b \/ x # p => Sent(d, x)' = Sent(d, x)
  <2>1. Sent(b, p)' = Entered(b, p) BY <1>2, <1>4, <1>7, <1>8 DEF Sent
  <2> QED BY <1>7, <1>8, <2>1 DEF Sent
<1>11. ASSUME NEW d \in Tree, NEW x \in Proc PROVE Machine(d, x)'
  <2>1. Machine(d, x) BY DEF TreeInv
  <2>2. Early(d, x)' = Early(d, x) BY <1>9, NumChild DEF Early
  <2>3. Sent(d, x)' <= Entered(d, x)' BY <1>4, <1>10, <2>1 DEF Machine
  <2> QED BY <1>1, <1>8, <2>1, <2>2, <2>3 DEF Machine
<1>12. ASSUME NEW d \in Tree, NEW c \in Proc \ {0} PROVE Edge(d, c)'
  <2>1. Edge(d, c) /\ Parent(c) \in Proc /\ Parent(c) # c /\ c \in Int BY TreeShape DEF TreeInv, Proc
  <2>2. Sent(d, c)' + On("release", d, c)' = Sent(d, Parent(c))'
    <3>1. CASE d = b /\ c = p
      <4>1. Sent(b, p) + 1 = Sent(b, Parent(p)) BY <1>3, <2>1, <3>1 DEF Edge
      <4>2. Sent(b, Parent(p))' = Sent(b, Parent(p)) BY <1>2, <1>10, <2>1, <3>1
      <4> QED BY <1>4, <1>7, <1>10, <3>1, <4>1, <4>2
    <3>2. CASE d = b /\ c \in below
      <4>1. Parent(c) = p /\ c # p BY <1>c, <2>1, <3>2
      <4>2. Sent(b, c) + 0 = Sent(b, p) BY <1>5, <2>1, <3>2, <4>1 DEF Edge
      <4>3. Sent(b, c)' = Sent(b, c) /\ On("release", b, c)' = 1 BY <1>2, <1>7, <1>10, <3>2, <4>1
      <4>4. Sent(b, c) \in Int BY <1>2, Types
      <4> QED BY <1>4, <1>10, <3>2, <4>1, <4>2, <4>3, <4>4
    <3>3. CASE ~(d = b /\ c = p) /\ ~(d = b /\ c \in below)
      <4>1. ~(d = b /\ Parent(c) = p) BY <1>2, <3>3, TreeShape DEF below
      <4>2. Sent(d, c)' = Sent(d, c) /\ Sent(d, Parent(c))' = Sent(d, Parent(c))
        BY <1>10, <2>1, <3>3, <4>1
      <4>3. On("release", d, c)' = On("release", d, c) BY <1>7, <3>3
      <4> QED BY <2>1, <4>2, <4>3 DEF Edge
    <3> QED BY <3>1, <3>2, <3>3
  <2> QED BY <1>9, <2>1, <2>2 DEF Edge
<1>13. ASSUME NEW m \in BagToSet(control') PROVE Message(m)'
  <2>1. CASE m = held
    <3>1. held = [Release(b, p, -barrier_sense[b][p], held.data) EXCEPT !.op = "forwarded"] BY <1>2, <1>a
    <3> QED BY <1>1, <1>2, <2>1, <3>1 DEF Message
  <2>2. CASE m \in down
    <3>1. PICK c \in below : m = Release(b, c, val, m.data) BY <1>d, <2>2
    <3>2. c \in Proc \ {0} /\ barrier_sense[b][c] = -val BY <1>c, <1>5
    <3>3. barrier_sense[b][p] \in {1, -1} BY <1>2, Types
    <3>4. val = -barrier_sense[b][c] BY <1>2, <3>2, <3>3
    <3>5. m = Release(b, c, -barrier_sense[b][c], m.data) BY <3>1, <3>4
    <3> QED BY <1>1, <1>2, <3>2, <3>5 DEF Message
  <2>3. CASE m \in BagToSet(control) BY <2>3, <1>1 DEF TreeInv, Message
  <2> QED BY <1>6, <2>1, <2>2, <2>3
<1>14. BagToSet(control)' = BagToSet(control') BY DEF BagToSet
<1>15. TreeInv' BY <1>6, <1>11, <1>12, <1>13, <1>14 DEF TreeInv
<1>16. ASSUME NEW m \in BagToSet(control)'
       PROVE  m \in BagToSet(control) \/ (m.tree = b /\ m.op # "trigger" /\ m.data = msg.data)
  <2>1. CASE m = held BY <1>a, <2>1 DEF Release
  <2>2. CASE m \in down BY <2>2 DEF down, Releases, Release
  <2> QED BY <1>6, <1>14, <2>1, <2>2
<1>17. \A d \in Tree, x \in Proc : Early(d, x)' = Early(d, x) BY <1>9, NumChild DEF Early
<1>18. \A d \in Tree, x \in Proc : d # b \/ x # p => On("forwarded", d, x)' = On("forwarded", d, x)
  BY <1>7
<1> QED BY <1>1, <1>8, <1>15, <1>16, <1>17, <1>18 DEF b

\* No step of the program breaks the trees.
LEMMA TreeStep ==
  ASSUME Typed, TreeInv, [Next]_vars
  PROVE  TreeInv'
<1>1. ASSUME NEW p \in Proc, MainStep(p) PROVE TreeInv'
  <2>1. \A d \in Tree, x \in Proc \ {p} :
          Entered(d, x)' = Entered(d, x) /\ (Waiting(d, x)' <=> Waiting(d, x)) BY <1>1, EnteredOthers
  <2>2. CASE Stays(p) BY <2>2, <2>1, TreeQuiet DEF Stays
  <2>3. CASE \E b \in Tree : Enters(b, p)
    <3>1. CASE p # 0 BY <2>1, <2>3, <3>1, TreeEnterInner
    <3>2. CASE p = 0 BY <2>1, <2>3, <3>2, TreeEnterRoot
    <3> QED BY <3>1, <3>2
  <2> QED BY <1>1, <2>2, <2>3, EnteredMain
<1>2. ASSUME NEW p \in Proc, ControlStep(p) PROVE TreeInv'
  <2>1. \A d \in Tree, x \in Proc :
          Entered(d, x)' = Entered(d, x) /\ (Waiting(d, x)' <=> Waiting(d, x)) BY <1>2, EnteredElse
  <2> QED BY <1>2, <2>1, TreeTrigger, TreeForward, TreeTake DEF ControlStep
<1>3. ASSUME NEW p \in Proc, \/ \E q \in Proc : RemoteCall(p, q) 
                             \/ \E h \in Handlers : HandlerStep(p, h)
      PROVE  TreeInv'
  <2>1. \A d \in Tree, x \in Proc :
          Entered(d, x)' = Entered(d, x) /\ (Waiting(d, x)' <=> Waiting(d, x)) BY SMTT(30), <1>3, EnteredElse
  <2>2. UNCHANGED tree_vars
    BY <1>3 DEF RemoteCall, HandlerStep, ReceiveCall, CallReturns, IncCallsReceived, LookAgain,
       Compare, SetBit, DecIncomplete
  <2> QED BY <2>1, <2>2, TreeQuiet
<1>4. CASE UNCHANGED vars BY <1>4, TreeQuiet DEF vars, Entered, Waiting
<1> QED BY <1>1, <1>2, <1>3, <1>4 DEF Next, Terminated

-----------------------------------------------------------------------------
(* The strings that are gathered.                                          *)

\* What c sends up: the strings of the machines below it, each at its place.
Holds(strings, c) ==
  /\ strings \in Seq(Counts) /\ Len(strings) = Size(c)
  /\ \A q \in Below(c) : strings[Position(q) - Position(c) + 1] = mine[q]

\* The strings on their way, and those a machine has been sent and still reads.
StringsTyped ==
  /\ DOMAIN ab_children_data = Proc /\ DOMAIN ab_alldata = Proc
  /\ \A p \in Proc : /\ ab_children_data[p] \in [Children(N, Branch, p) -> Seq(Counts)]
                     /\ ab_alldata[p] \in Seq(Counts)

\* What the control calls of all_gather() carry.
Carries(msg) ==
  msg.tree = "ab" => Holds(msg.data, IF msg.op = "trigger" THEN msg.from ELSE 0)

\* p reads ab_alldata: to send it on, or to unpack it.
MayRead(p) ==
  \/ On("forwarded", "ab", p) = 1
  \/ Released("ab", p) /\ pc[p] \in {"gather wait", "fill"}

\* What p has been sent is what its children, or all machines, hold.
Has(p) ==
  /\ \A c \in Early("ab", p) : Holds(ab_children_data[p][c], c)
  /\ MayRead(p) => Holds(ab_alldata[p], 0)

\* Nothing of an earlier round is mistaken for a string of this one.
Gathered ==
  /\ StringsTyped
  /\ \A msg \in BagToSet(control) : Carries(msg)
  /\ \A p \in Proc : Has(p)

\* Where a main thread has unpacked the strings of its round.
Informed == {"reset", "clear", "activate", "pass", "check", "asleep", "deactivate", "barrier",
             "barrier wait"}

\* Who has unpacked the strings knows what it will receive, as long as the sender
\* is in the same round.
Told == \A p, q \in Proc : pc[p] \in Informed /\ round[q] = round[p] =>
          calls_to_receive[p][q] = mine[q][p]
-----------------------------------------------------------------------------
(* How far the machines of a tree can be apart.                            *)

\* Nobody has entered more often than those below it.
LEMMA EnteredDown ==
  ASSUME Typed, TreeInv, NEW b \in Tree, NEW c \in Proc, NEW q \in Below(c)
  PROVE  q \in Proc /\ Entered(b, c) <= Entered(b, q)
<1> DEFINE S == {x \in Below(c) : Entered(b, c) <= Entered(b, x)}
<1>1. Below(c) \subseteq Proc /\ c \in Below(c) /\ Closed(Below(c)) BY BelowIs
<1>2. \A x \in Proc : Entered(b, x) \in Int BY Types
<1>3. c \in S BY <1>1, <1>2
<1>4. Closed(S)
  <2>1. SUFFICES ASSUME NEW x \in Proc \ {0}, Parent(x) \in S PROVE x \in S BY DEF Closed
  <2>2. x \in Below(c) BY <1>1, <2>1 DEF Closed
  <2>3. Entered(b, Parent(x)) <= Entered(b, x) BY EdgeFacts
  <2>4. Entered(b, Parent(x)) \in Int BY <1>2, TreeShape
  <2> QED BY <1>2, <2>1, <2>2, <2>3, <2>4
<1>5. Below(c) \subseteq S BY <1>1, <1>3, <1>4, BelowLeast
<1> QED BY <1>1, <1>5

\* A release has come from the root, which everybody has entered below.
LEMMA FreedByRoot ==
  ASSUME Typed, TreeInv, NEW b \in Tree, NEW p \in Proc, NEW q \in Proc
  PROVE  Sent(b, p) <= Entered(b, q) /\ Freed(b, p) <= Entered(b, q)
<1> DEFINE S == {x \in Proc : Sent(b, x) <= Sent(b, 0)}
<1>0. 0 \in Proc BY ProcFacts
<1>1. \A x \in Proc : Sent(b, x) \in Int /\ Freed(b, x) \in Int /\ Entered(b, x) \in Int
                      /\ On("forwarded", b, x) \in {0, 1} BY Types
<1>2. 0 \in S BY <1>0, <1>1
<1>3. Closed(S)
  <2>1. SUFFICES ASSUME NEW x \in Proc \ {0}, Parent(x) \in S PROVE x \in S BY DEF Closed
  <2>2. Sent(b, x) + On("release", b, x) = Sent(b, Parent(x)) BY DEF TreeInv, Edge
  <2>3. On("release", b, x) \in {0, 1} BY Types
  <2>4. Sent(b, Parent(x)) \in Int BY <1>1, TreeShape
  <2> QED BY <1>0, <1>1, <2>1, <2>2, <2>3, <2>4
<1>4. p \in S BY <1>2, <1>3, DownTheTree
<1>5. Sent(b, 0) <= Entered(b, 0) BY <1>0 DEF TreeInv, Machine
<1>6. Entered(b, 0) <= Entered(b, q) BY <1>0, BeforeRoot, EnteredDown
<1>7. Sent(b, p) <= Entered(b, q) BY <1>0, <1>1, <1>4, <1>5, <1>6
<1>8. Freed(b, p) <= Sent(b, p) BY <1>1 DEF Sent
<1> QED BY <1>1, <1>7, <1>8

\* The two trees: where a machine is in one bounds where it is in the other.
LEMMA TwoTrees ==
  ASSUME Typed, NEW p \in Proc
  PROVE  /\ Entered("bar", p) \in Int /\ Entered("ab", p) \in Int /\ round[p] \in Nat
         /\ Entered("bar", p) <= Entered("ab", p)
         /\ Entered("ab", p) <= round[p]
         /\ pc[p] = "run" => Entered("ab", p) = round[p] /\ Entered("bar", p) = round[p]
         /\ pc[p] \notin {"run", "gather"} => Entered("ab", p) = round[p]
         /\ pc[p] \notin {"run", "barrier wait"} => Entered("bar", p) = round[p] - 1
<1>1. PICK r \in Nat : r = round[p] BY Types
<1>2. Entered("ab", p) = IF pc[p] = "gather" THEN r - 1 ELSE r BY <1>1 DEF Entered
<1>3. Entered("bar", p) = IF pc[p] \in {"barrier wait", "run"} THEN r ELSE r - 1 BY <1>1 DEF Entered
<1>4. ASSUME pc[p] = "gather"
      PROVE  Entered("ab", p) = r - 1 /\ Entered("bar", p) = r - 1 BY <1>2, <1>3, <1>4
<1>5. ASSUME pc[p] \in {"barrier wait", "run"}
      PROVE  Entered("ab", p) = r /\ Entered("bar", p) = r BY <1>2, <1>3, <1>5
<1>6. ASSUME pc[p] \notin {"gather", "barrier wait", "run"}
      PROVE  Entered("ab", p) = r /\ Entered("bar", p) = r - 1 BY <1>2, <1>3, <1>6
<1>7. \/ pc[p] = "gather" \/ pc[p] \in {"barrier wait", "run"}
      \/ pc[p] \notin {"gather", "barrier wait", "run"} OBVIOUS
<1>9. /\ Entered("bar", p) \in {r - 1, r} /\ Entered("ab", p) \in {r - 1, r}
      /\ Entered("ab", p) = r \/ Entered("bar", p) = r - 1 BY <1>4, <1>5, <1>6, <1>7
<1>8. /\ Entered("bar", p) \in Int /\ Entered("ab", p) \in Int
      /\ Entered("bar", p) <= Entered("ab", p) /\ Entered("ab", p) <= r BY <1>9
<1> QED BY <1>1, <1>2, <1>3, <1>8

\* While q is outside the full barriers of round r, everybody has been through r of them.
LEMMA OutsideMeans ==
  ASSUME Typed, TreeInv, NEW q \in Proc, pc[q] = "run", NEW x \in Proc
  PROVE  /\ Entered("bar", x) >= round[q] /\ Entered("ab", x) >= round[q]
         /\ Sent("ab", x) <= round[q] /\ Freed("ab", x) <= round[q]
<1>1. "bar" \in Tree /\ "ab" \in Tree BY DEF Tree
<1>2. ~Waiting("bar", q) BY DEF Waiting
<1>3. Released("bar", q) BY <1>1, <1>2 DEF TreeInv, Machine
<1>4. Freed("bar", q) = round[q] BY <1>3, TwoTrees DEF Freed
<1>5. Entered("bar", x) >= round[q] BY <1>1, <1>4, FreedByRoot, TwoTrees
<1>6. Entered("ab", q) = round[q] BY TwoTrees
<1>7. Sent("ab", x) <= round[q] /\ Freed("ab", x) <= round[q] BY <1>1, <1>6, FreedByRoot
<1>8. /\ Entered("bar", x) \in Int /\ Entered("ab", x) \in Int /\ round[q] \in Int
      /\ Entered("bar", x) <= Entered("ab", x) BY TwoTrees
<1> QED BY <1>5, <1>7, <1>8

\* No string of q is on its way or still to be read while q is outside.
LEMMA NothingOfOutsiders ==
  ASSUME Typed, TreeInv, NEW q \in Proc, pc[q] = "run"
  PROVE  /\ \A c \in Proc \ {0} :
              /\ On("release", "ab", c) = 0 /\ On("forwarded", "ab", c) = 0
              /\ q \in Below(c) => /\ On("trigger", "ab", c) = 0
                                   /\ Heard("ab", c) # Entered("ab", Parent(c)) + 1
         /\ \A p \in Proc :
              /\ Released("ab", p) => pc[p] \notin {"gather wait", "fill"}
              /\ pc[p] \in Informed => round[p] <= round[q]
<1>1. "bar" \in Tree /\ "ab" \in Tree BY DEF Tree
<1>2. round[q] \in Nat /\ Entered("ab", q) = round[q] BY TwoTrees
<1>3. ASSUME NEW p \in Proc, pc[p] \in {"gather wait", "fill"}
      PROVE  ~Released("ab", p)
  <2>1. Entered("bar", p) >= round[q] /\ Freed("ab", p) <= round[q] BY OutsideMeans
  <2>2. Entered("bar", p) = round[p] - 1 /\ Entered("ab", p) = round[p] /\ round[p] \in Nat
    BY <1>3, TwoTrees
  <2>3. CASE Released("ab", p)
    <3>1. Freed("ab", p) = round[p] BY <2>2, <2>3 DEF Freed
    <3> QED BY <1>2, <2>1, <2>2, <3>1
  <2> QED BY <2>3
<1>4. ASSUME NEW p \in Proc, pc[p] \in Informed
      PROVE  round[p] <= round[q]
  <2>1. ~Waiting("ab", p) BY <1>4 DEF Waiting, Informed
  <2>2. Released("ab", p) BY <1>1, <2>1 DEF TreeInv, Machine
  <2>3. Entered("ab", p) = round[p] BY <1>4, TwoTrees DEF Informed
  <2>4. Freed("ab", p) = round[p] BY <2>2, <2>3 DEF Freed
  <2> QED BY <2>4, OutsideMeans
<1>5. ASSUME NEW c \in Proc \ {0}, Freed("ab", c) = Entered("ab", c) - 1
      PROVE  Freed("ab", c) = round[q]
  <2>0. Freed("ab", c) \in Int /\ Entered("ab", c) \in Int /\ pc[c] \in MainLabels BY <1>1, Types
  <2>1. ~Released("ab", c) BY <1>5, <2>0 DEF Freed
  <2>2. pc[c] = "gather wait" BY <1>1, <2>1 DEF TreeInv, Machine, Waiting
  <2>3. Entered("bar", c) = Entered("ab", c) - 1 BY <2>2, TwoTrees
  <2>4. Entered("bar", c) >= round[q] /\ Freed("ab", c) <= round[q] BY OutsideMeans
  <2>5. Freed("ab", c) = Entered("bar", c) /\ Entered("bar", c) \in Int BY <1>5, <2>3, TwoTrees
  <2> QED BY <1>2, <2>4, <2>5
<1>6. ASSUME NEW c \in Proc \ {0}
      PROVE  On("release", "ab", c) = 0 /\ On("forwarded", "ab", c) = 0
  <2>1. /\ On("release", "ab", c) \in {0, 1} /\ On("forwarded", "ab", c) \in {0, 1}
        /\ Freed("ab", c) \in Int /\ Entered("ab", c) \in Int /\ Parent(c) \in Proc
    BY <1>1, Types, TreeShape
  <2>2. CASE On("release", "ab", c) = 1
    <3>1. /\ Freed("ab", c) = Entered("ab", c) - 1
          /\ Sent("ab", Parent(c)) = Entered("ab", c) BY <1>1, <2>2, EdgeFacts
    <3>2. Entered("ab", c) = round[q] + 1 BY <1>2, <1>5, <2>1, <3>1
    <3>3. Sent("ab", Parent(c)) <= round[q] BY <2>1, OutsideMeans
    <3> QED BY <1>2, <3>1, <3>2, <3>3
  <2>3. CASE On("forwarded", "ab", c) = 1
    <3>1. Freed("ab", c) = Entered("ab", c) - 1 BY <1>1, <2>3, EdgeFacts
    <3>2. Freed("ab", c) = round[q] BY <1>5, <3>1
    <3>3. Sent("ab", c) = Freed("ab", c) + 1 BY <2>3 DEF Sent
    <3>4. Sent("ab", c) <= round[q] BY OutsideMeans
    <3> QED BY <1>2, <3>2, <3>3, <3>4
  <2> QED BY <2>1, <2>2, <2>3
<1>7. ASSUME NEW c \in Proc \ {0}, q \in Below(c)
      PROVE  On("trigger", "ab", c) = 0 /\ Heard("ab", c) # Entered("ab", Parent(c)) + 1
  <2>1. Parent(c) \in Proc /\ On("trigger", "ab", c) \in {0, 1} BY Types, TreeShape
  <2>2. Entered("ab", c) <= round[q] BY <1>1, <1>2, <1>7, EnteredDown
  <2>3. Entered("ab", Parent(c)) >= round[q] BY <2>1, OutsideMeans
  <2>4. Entered("ab", c) # Entered("ab", Parent(c)) + 1
    <3>1. Entered("ab", c) \in Int /\ Entered("ab", Parent(c)) \in Int BY <2>1, TwoTrees
    <3> QED BY <1>2, <2>2, <2>3, <3>1
  <2> QED BY <1>1, <2>1, <2>4, EdgeFacts
<1> QED BY <1>3, <1>4, <1>6, <1>7

-----------------------------------------------------------------------------
(* The strings that are put together.                                      *)

LEMMA Concatenate ==
  ASSUME NEW S, NEW s \in Seq(S), NEW t \in Seq(S)
  PROVE  /\ s \o t \in Seq(S) /\ Len(s \o t) = Len(s) + Len(t) /\ Len(s) \in Nat /\ Len(t) \in Nat
         /\ \A i \in 1 .. Len(s) : (s \o t)[i] = s[i]
         /\ \A i \in 1 .. Len(t) : (s \o t)[Len(s) + i] = t[i] OBVIOUS

\* The strings put behind the first one so far, after 0 to n children.
CatOf(g, first, d, j, n) == [k \in 0 .. n |-> IF k = 0 THEN first ELSE g[k - 1] \o d[j + k]]

LEMMA CatExists ==
  ASSUME NEW first, NEW d, NEW j \in Nat, NEW n \in Nat
  PROVE  \E g : g = CatOf(g, first, d, j, n)
<1> DEFINE S == {m \in Nat : \E g : g = [k \in 0 .. m |-> IF k = 0 THEN first
                                                          ELSE g[k - 1] \o d[j + k]]}
<1>1. 0 \in S
  <2> DEFINE g == [k \in 0 .. 0 |-> first]
  <2>1. g = [k \in 0 .. 0 |-> IF k = 0 THEN first ELSE g[k - 1] \o d[j + k]] OBVIOUS
  <2> HIDE DEF g
  <2> QED BY <2>1
<1>2. ASSUME NEW m \in Nat, m \in S PROVE m + 1 \in S
  <2>1. PICK g : g = [k \in 0 .. m |-> IF k = 0 THEN first ELSE g[k - 1] \o d[j + k]] BY <1>2
  <2> DEFINE f == [k \in 0 .. m + 1 |-> IF k <= m THEN g[k] ELSE g[m] \o d[j + (m + 1)]]
  <2>2. ASSUME NEW k \in 0 .. m + 1 PROVE f[k] = IF k = 0 THEN first ELSE f[k - 1] \o d[j + k]
    <3>1. CASE k <= m
      <4>0. k \in 0 .. m BY <3>1
      <4>1. g[k] = IF k = 0 THEN first ELSE g[k - 1] \o d[j + k] BY <2>1, <4>0
      <4>2. f[k] = g[k] BY <3>1
      <4>3. k # 0 => f[k - 1] = g[k - 1] BY <3>1
      <4> QED BY <4>1, <4>2, <4>3
    <3>2. CASE k = m + 1
      <4>1. f[k] = g[m] \o d[j + k]
        <5>1. ~(k <= m) /\ k \in 0 .. m + 1 /\ j + k = j + (m + 1) BY <3>2
        <5> QED BY <3>2, <5>1
      <4>2. k - 1 = m /\ f[m] = g[m] /\ k # 0 BY <3>2
      <4> QED BY <4>1, <4>2
    <3> QED BY <3>1, <3>2
  <2>3. f = [k \in 0 .. m + 1 |-> IF k = 0 THEN first ELSE f[k - 1] \o d[j + k]]
    <3>1. f = [k \in 0 .. m + 1 |-> f[k]] OBVIOUS
    <3> HIDE DEF f
    <3> QED BY <2>2, <3>1
  <2> HIDE DEF f
  <2> QED BY <2>3
<1> HIDE DEF S
<1>3. n \in S BY <1>1, <1>2, NatSetInduction
<1>4. \E g : g = [k \in 0 .. n |-> IF k = 0 THEN first ELSE g[k - 1] \o d[j + k]] BY <1>3 DEF S
<1> QED BY <1>4 DEF CatOf

LEMMA CollectedHolds ==
  ASSUME Typed, NEW p \in Proc,
         \A c \in Children(N, Branch, p) : Holds(ab_children_data[p][c], c)
  PROVE  Holds(Collected("ab", p), p)
<1> DEFINE m == numchild(p)
           child(k) == p * Branch + k
<1>1. /\ m \in 0 .. Branch /\ p \in Nat /\ Branch \in Nat /\ p * Branch \in Nat
      /\ \A k \in 1 .. m : child(k) \in Proc /\ child(k) \in Children(N, Branch, p)
  <2>1. p \in Nat /\ Branch \in Nat /\ p * Branch \in Nat BY ConstantsAssumption DEF Proc
  <2> QED BY <2>1, ChildrenOf
<1>2. PICK d : d = ab_children_data[p] OBVIOUS
<1>3. PICK j \in Nat : j = p * Branch BY <1>1
<1>4. \E g : g = CatOf(g, <<mine[p]>>, d, j, m)
  <2>1. m \in Nat BY <1>1
  <2> QED BY <2>1, CatExists
<1>5. PICK cat : cat = CHOOSE g : g = CatOf(g, <<mine[p]>>, d, j, m) OBVIOUS
<1>6. cat = [k \in 0 .. m |-> IF k = 0 THEN <<mine[p]>> ELSE cat[k - 1] \o d[j + k]]
  BY <1>4, <1>5 DEF CatOf
<1>7. Collected("ab", p) = cat[m] BY <1>2, <1>3, <1>5 DEF Collected, CatOf
<1>8. /\ cat[0] = <<mine[p]>>
      /\ \A k \in 0 .. m - 1 : cat[k + 1] = cat[k] \o d[child(k + 1)]
  <2>1. 0 \in 0 .. m BY <1>1
  <2>2. ASSUME NEW k \in 0 .. m - 1 PROVE cat[k + 1] = cat[k] \o d[child(k + 1)]
    <3>1. k + 1 \in 0 .. m /\ k + 1 # 0 /\ (k + 1) - 1 = k BY <1>1
    <3>2. cat[k + 1] = cat[(k + 1) - 1] \o d[j + (k + 1)] BY <1>6, <3>1
    <3> QED BY <1>3, <3>1, <3>2
  <2> QED BY <1>6, <2>1, <2>2
<1>9. \A k \in 1 .. m : Holds(d[child(k)], child(k)) BY <1>1, <1>2
<1> HIDE DEF m
\* So far: p and the first k children.
<1> DEFINE Part(k) == {p} \cup UNION {Below(child(i)) : i \in 1 .. k}
           After(k) == IF k = 0 THEN Position(p) + 1 ELSE Position(child(k)) + Size(child(k))
           Good(k) == /\ cat[k] \in Seq(Counts)
                      /\ Len(cat[k]) = After(k) - Position(p)
                      /\ \A q \in Part(k) :
                           /\ Position(q) - Position(p) + 1 \in 1 .. Len(cat[k])
                           /\ cat[k][Position(q) - Position(p) + 1] = mine[q]
<1>10. \A q \in Proc : Position(q) \in Nat /\ Size(q) \in Nat
  <2>1. N \in Nat BY ProcFacts
  <2>2. ASSUME NEW q \in Proc PROVE Position(q) \in 1 .. N /\ Size(q) \in 1 .. N BY Positions
  <2>3. \A x \in 1 .. N : x \in Nat BY <2>1
  <2> QED BY <2>2, <2>3
<1> DEFINE S == {k \in Nat : k <= m => Good(k)}
<1>11. 0 \in S
  <2>1. mine[p] \in Counts BY DEF Typed
  <2>2. cat[0] \in Seq(Counts) /\ Len(cat[0]) = 1 /\ cat[0][1] = mine[p] BY <1>8, <2>1
  <2>3. Part(0) = {p} OBVIOUS
  <2>4. Position(p) - Position(p) + 1 = 1 /\ (Position(p) + 1) - Position(p) = 1 BY <1>10
  <2>5. After(0) - Position(p) = 1 BY <2>4
  <2> HIDE DEF Part, After
  <2>6. ASSUME NEW q \in Part(0)
        PROVE  /\ Position(q) - Position(p) + 1 \in 1 .. Len(cat[0])
               /\ cat[0][Position(q) - Position(p) + 1] = mine[q]
    <3>1. q = p BY <2>3, <2>6
    <3>2. Position(q) - Position(p) + 1 = 1 BY <2>4, <3>1
    <3> QED BY <2>2, <3>1, <3>2
  <2> QED BY <2>2, <2>5, <2>6
<1>12. ASSUME NEW k \in Nat, k \in S PROVE k + 1 \in S
  <2> SUFFICES ASSUME k + 1 <= m PROVE Good(k + 1) OBVIOUS
  <2>a. k \in 0 .. m - 1 /\ m \in Nat
    <3> HIDE DEF S, Good
    <3> QED BY <1>1
  <2>b. k <= m
    <3> HIDE DEF S, Good
    <3> QED BY <2>a
  <2>c. Good(k)
    <3> HIDE DEF Good
    <3> QED BY <1>12, <2>b
  <2>1. Good(k) /\ k \in 0 .. m - 1 /\ m \in Nat BY <2>a, <2>c
  <2> DEFINE c == child(k + 1)
  <2>d. k + 1 \in 1 .. m
    <3> HIDE DEF Good, S
    <3> QED BY <2>a
  <2>e. child(k + 1) \in Proc /\ Holds(d[child(k + 1)], child(k + 1))
    <3> HIDE DEF Good, S, child
    <3> QED BY <1>1, <1>9, <2>d
  <2>2. c \in Proc /\ Holds(d[c], c) BY <2>e
  <2>3. Position(c) = After(k)
    <3>1. CASE k = 0 BY <2>1, PositionChildren, <3>1 DEF m
    <3>2. CASE k # 0 BY <2>1, <3>2, PositionChildren DEF m
    <3> QED BY <3>1, <3>2
  <2>4. After(k + 1) = Position(c) + Size(c) OBVIOUS
  <2>5. Part(k + 1) = Part(k) \cup Below(c) OBVIOUS
  <2>6. cat[k + 1] = cat[k] \o d[c] BY <1>8, <2>1
  <2>7. \A q \in Below(c) : /\ q \in Proc /\ Position(c) <= Position(q)
                            /\ Position(q) + Size(q) <= Position(c) + Size(c) /\ Size(q) > 0
    <3>1. \A q \in Below(c) : q \in Proc BY <2>2, BelowIs
    <3>2. \A q \in Proc : Size(q) \in 1 .. N BY Positions
    <3>3. \A x \in 1 .. N : x > 0 BY ProcFacts
    <3>4. \A q \in Below(c) : /\ Position(c) <= Position(q)
                              /\ Position(q) + Size(q) <= Position(c) + Size(c) BY <2>2, Positions
    <3> QED BY <3>1, <3>2, <3>3, <3>4
  <2> HIDE DEF Part, After, c, child
  <2> USE DEF Holds
  <2>9. PICK s \in Seq(Counts) : s = cat[k] BY <2>1
  <2>10. PICK t \in Seq(Counts) : t = d[c] BY <2>2
  <2>11. /\ s \o t \in Seq(Counts) /\ Len(s \o t) = Len(s) + Len(t)
         /\ Len(s) \in Nat /\ Len(t) \in Nat
         /\ \A i \in 1 .. Len(s) : (s \o t)[i] = s[i]
         /\ \A i \in 1 .. Len(t) : (s \o t)[Len(s) + i] = t[i] BY Concatenate
  <2>12. cat[k + 1] = s \o t BY <2>6, <2>9, <2>10
  <2>13. Len(s) = Position(c) - Position(p) /\ Len(t) = Size(c) BY <2>1, <2>2, <2>3, <2>9, <2>10
  <2>14. Len(s \o t) = After(k + 1) - Position(p) BY <1>10, <2>2, <2>4, <2>11, <2>13
  <2>15. ASSUME NEW q \in Part(k)
         PROVE  /\ Position(q) - Position(p) + 1 \in 1 .. Len(s \o t)
                /\ (s \o t)[Position(q) - Position(p) + 1] = mine[q] BY <2>1, <2>9, <2>11
  <2>16. ASSUME NEW q \in Below(c)
         PROVE  /\ Position(q) - Position(p) + 1 \in 1 .. Len(s \o t)
                /\ (s \o t)[Position(q) - Position(p) + 1] = mine[q]
    <3>1. t[Position(q) - Position(c) + 1] = mine[q] BY <2>2, <2>10
    <3>2. /\ Position(q) \in Nat /\ Position(c) \in Nat /\ Position(p) \in Nat
          /\ Size(q) \in Nat /\ Size(c) \in Nat
          /\ Position(c) <= Position(q) /\ Size(q) > 0
          /\ Position(q) + Size(q) <= Position(c) + Size(c) BY <1>10, <2>2, <2>7
    <3>3. Position(q) - Position(c) + 1 \in 1 .. Len(t) BY <2>13, <3>2
    <3>4. Position(q) - Position(p) + 1 = Len(s) + (Position(q) - Position(c) + 1) BY <2>13, <3>2
    <3>5. Position(q) - Position(p) + 1 \in 1 .. Len(s \o t) BY <2>11, <3>3, <3>4
    <3> QED BY <2>11, <3>1, <3>3, <3>4, <3>5
  <2> QED BY <2>5, <2>11, <2>12, <2>14, <2>15, <2>16
<1> HIDE DEF S, Good
<1>13. Nat \subseteq S BY <1>11, <1>12, NatSetInduction
<1>14. Good(m) BY <1>1, <1>13 DEF S
<1>15. After(m) - Position(p) = Size(p)
  <2>1. CASE m = 0 BY <2>1, PositionChildren, <1>10 DEF m
  <2>2. CASE m # 0
    <3>1. m > 0 BY <1>1, <2>2
    <3>2. Position(child(m)) + Size(child(m)) = Position(p) + Size(p) BY <3>1, PositionChildren DEF m
    <3> QED BY <1>10, <2>2, <3>2
  <2> QED BY <2>1, <2>2
<1>16. Below(p) \subseteq Part(m) BY BelowChildren, ChildrenOf DEF m
<1> HIDE DEF Part, After
<1> QED BY <1>7, <1>14, <1>15, <1>16 DEF Good, Holds

-----------------------------------------------------------------------------
(* No step breaks the strings.                                             *)

LEMMA HoldsFrame ==
  ASSUME mine' = mine
  PROVE  /\ \A d, c : Holds(d, c)' <=> Holds(d, c)
         /\ \A msg : Carries(msg)' <=> Carries(msg)
<1>1. \A d, c : Holds(d, c)' <=> Holds(d, c) BY DEF Holds
<1> QED BY <1>1 DEF Carries

LEMMA TreeSame ==
  ASSUME UNCHANGED tree_vars,
         \A b \in Tree, p \in Proc : Entered(b, p)' = Entered(b, p)
  PROVE  /\ BagToSet(control)' = BagToSet(control)
         /\ ab_children_data' = ab_children_data /\ ab_alldata' = ab_alldata
         /\ \A op, b, c : On(op, b, c)' = On(op, b, c)
         /\ \A b \in Tree, p \in Proc : /\ Released(b, p)' <=> Released(b, p)
                                        /\ Early(b, p)' = Early(b, p)
<1>1. /\ control' = control /\ barrier_sense' = barrier_sense /\ barrier_release' = barrier_release
      /\ ab_children_data' = ab_children_data /\ ab_alldata' = ab_alldata BY DEF tree_vars
<1>2. BagToSet(control)' = BagToSet(control) BY <1>1 DEF BagToSet
<1>3. Keys' = Keys BY <1>2 DEF Keys, Key, Who
<1>4. \A op, b, c : On(op, b, c)' = On(op, b, c) BY <1>3 DEF On
<1>5. \A b \in Tree, p \in Proc : Released(b, p)' <=> Released(b, p) BY <1>1 DEF Released
<1>6. \A b \in Tree, p \in Proc : Heard(b, p)' = Heard(b, p) BY <1>4 DEF Heard
<1>7. \A b \in Tree, p \in Proc : Early(b, p)' = Early(b, p) BY <1>6, NumChild DEF Early
<1> QED BY <1>1, <1>2, <1>4, <1>5, <1>7

LEMMA GatheredInit == Init => Gathered /\ Told
<1> SUFFICES ASSUME Init PROVE Gathered /\ Told OBVIOUS
<1>1. BagToSet(control) = {} BY DEF Init, EmptyBag, SetToBag, BagToSet
<1>2. Keys = {} BY <1>1 DEF Keys
<1>3. \A op, b, c : On(op, b, c) = 0 BY <1>2 DEF On
<1>4. \A p \in Proc : Entered("ab", p) = 0 BY DEF Init, Entered
<1>5. \A p \in Proc : Heard("ab", p) = 0 BY <1>3, <1>4 DEF Heard
<1>6. \A p \in Proc : Early("ab", p) = {} BY <1>4, <1>5, NumChild DEF Early
<1>7. \A p \in Proc : pc[p] = "run" BY DEF Init
<1>8. ASSUME NEW p \in Proc PROVE ~MayRead(p)
  <2>1. On("forwarded", "ab", p) # 1 BY <1>3
  <2> QED BY <1>7, <2>1 DEF MayRead
<1>9. StringsTyped BY DEF StringsTyped, Init
<1>10. Told BY <1>7 DEF Told, Informed
<1> QED BY <1>1, <1>6, <1>8, <1>9, <1>10 DEF Gathered, Has

\* A step that has nothing to do with the trees.
LEMMA GatheredQuiet ==
  ASSUME Gathered, UNCHANGED tree_vars, mine' = mine,
         \A b \in Tree, p \in Proc : Entered(b, p)' = Entered(b, p),
         \A p \in Proc : MayRead(p)' => MayRead(p)
  PROVE  Gathered'
<1>0. "ab" \in Tree BY DEF Tree
<1>1. StringsTyped' BY TreeSame DEF Gathered, StringsTyped
<1>2. \A msg \in BagToSet(control)' : Carries(msg)' BY TreeSame, HoldsFrame DEF Gathered
<1>3. ASSUME NEW p \in Proc PROVE Has(p)' BY <1>0, TreeSame, HoldsFrame DEF Gathered, Has
<1> QED BY <1>1, <1>2, <1>3 DEF Gathered

\* q enters: its new string is on no way yet.
LEMMA GatheredBegin ==
  ASSUME Typed, TreeInv, Gathered, NEW q \in Proc, BeginFullBarrier(q),
         \A b \in Tree, p \in Proc : Entered(b, p)' = Entered(b, p)
  PROVE  Gathered'
<1>0. "ab" \in Tree BY DEF Tree
<1>1. pc[q] = "run" /\ UNCHANGED tree_vars /\ mine' = [mine EXCEPT ![q] = callssent[q]]
      /\ pc' = [pc EXCEPT ![q] = "gather"] BY DEF BeginFullBarrier, Goto
<1>2. \A x \in Proc : x # q => mine'[x] = mine[x] BY <1>1 DEF Typed
<1>3. ASSUME NEW c \in Proc, q \notin Below(c), NEW d
      PROVE  Holds(d, c)' <=> Holds(d, c) BY <1>2, <1>3, BelowIs DEF Holds
<1>4. StringsTyped' BY <1>1, TreeSame DEF Gathered, StringsTyped
<1>5. ASSUME NEW msg \in BagToSet(control)' PROVE Carries(msg)'
  <2> SUFFICES ASSUME msg.tree = "ab"
               PROVE  Holds(msg.data, IF msg.op = "trigger" THEN msg.from ELSE 0)' BY DEF Carries
  <2>1. msg \in BagToSet(control) BY <1>1, TreeSame
  <2>2. Key(msg) \in Keys /\ Key(msg) = <<msg.op, "ab", Who(msg)>> /\ Who(msg) \in Proc \ {0}
    BY <2>1, MessageFacts
  <2>3. On(msg.op, "ab", Who(msg)) = 1 BY <2>2 DEF On
  <2>4. msg.op = "trigger"
    <3>1. \A c \in Proc \ {0} : On("release", "ab", c) = 0 /\ On("forwarded", "ab", c) = 0
      BY <1>1, NothingOfOutsiders
    <3>2. \A c \in Proc \ {0} : On("release", "ab", c) # 1 /\ On("forwarded", "ab", c) # 1 BY <3>1
    <3>3. msg.op \in {"release", "forwarded", "trigger"} BY <2>1, MessageFacts
    <3> QED BY <2>2, <2>3, <3>2, <3>3
  <2>5. Who(msg) = msg.from BY <2>4 DEF Who
  <2>6. q \notin Below(msg.from)
    <3>1. \A c \in Proc \ {0} : q \in Below(c) => On("trigger", "ab", c) = 0 BY <1>1, NothingOfOutsiders
    <3>2. \A c \in Proc \ {0} : On("trigger", "ab", c) = 1 => q \notin Below(c) BY <3>1
    <3> QED BY <2>2, <2>3, <2>4, <2>5, <3>2
  <2>7. Holds(msg.data, msg.from) BY <2>1, <2>4 DEF Gathered, Carries
  <2>8. msg.from \in Proc BY <2>2, <2>5
  <2> QED BY <1>3, <2>4, <2>6, <2>7, <2>8
<1>6. ASSUME NEW p \in Proc PROVE Has(p)'
  <2>1. ASSUME NEW c \in Early("ab", p)' PROVE Holds(ab_children_data[p][c], c)'
    <3>1. c \in Early("ab", p) /\ ab_children_data' = ab_children_data BY <1>0, <1>1, TreeSame
    <3>2. c \in Proc \ {0} /\ Parent(c) = p BY <3>1, NumChild, TreeShape DEF Early
    <3>3. Heard("ab", c) = Entered("ab", Parent(c)) + 1 BY <3>1, <3>2 DEF Early
    <3>4. q \notin Below(c) BY <1>1, <3>2, <3>3, NothingOfOutsiders
    <3>5. Holds(ab_children_data[p][c], c) BY <3>1 DEF Gathered, Has
    <3>6. Holds(ab_children_data'[p][c], c) BY <3>1, <3>5
    <3> QED BY <1>3, <3>2, <3>4, <3>6 DEF Holds
  <2>2. ~MayRead(p)'
    <3>1. pc'[p] \in {"gather wait", "fill"} => pc[p] \in {"gather wait", "fill"} BY <1>1 DEF Typed
    <3>2. On("forwarded", "ab", p)' = On("forwarded", "ab", p)
          /\ (Released("ab", p)' <=> Released("ab", p)) BY <1>0, <1>1, TreeSame
    <3>3. On("forwarded", "ab", p) # 1
      <4>1. CASE p = 0 BY <4>1, KeyFacts DEF On
      <4>2. CASE p # 0
        <5>1. On("forwarded", "ab", p) = 0 BY <1>1, <4>2, NothingOfOutsiders
        <5> QED BY <5>1
      <4> QED BY <4>1, <4>2
    <3>4. Released("ab", p) => pc[p] \notin {"gather wait", "fill"} BY <1>1, NothingOfOutsiders
    <3> QED BY <3>1, <3>2, <3>3, <3>4 DEF MayRead
  <2> QED BY <2>1, <2>2 DEF Has
<1> QED BY <1>4, <1>5, <1>6 DEF Gathered

\* p enters a tree: it puts the strings of its children behind its own.
LEMMA GatheredEnter ==
  ASSUME Typed, TreeInv, Gathered, NEW b \in Tree, NEW p \in Proc, Enters(b, p), mine' = mine,
         \A d \in Tree, x \in Proc \ {p} :
           Entered(d, x)' = Entered(d, x) /\ (Waiting(d, x)' <=> Waiting(d, x)),
         \A x \in Proc \ {p} : pc'[x] = pc[x]
  PROVE  Gathered'
<1> DEFINE d == Collected(b, p)
<1>0. "ab" \in Tree /\ 0 \in Proc BY ProcFacts DEF Tree
<1>1. /\ ab_children_data' = ab_children_data
      /\ ab_alldata' = IF b = "ab" /\ p = 0 THEN [ab_alldata EXCEPT ![p] = d] ELSE ab_alldata
  BY DEF Enters, EnterTree
<1>2. /\ \A x \in Proc :
           /\ Early("ab", x)' \subseteq Early("ab", x)
           /\ Released("ab", x)' => Released("ab", x)
           /\ On("forwarded", "ab", x)' = On("forwarded", "ab", x)
      /\ Early(b, p) = Children(N, Branch, p)
      /\ p # 0 => ~Released(b, p)'
      /\ \A msg \in BagToSet(control)' :
           \/ msg \in BagToSet(control)
           \/ /\ msg.tree = b /\ msg.data = d
              /\ IF p = 0 THEN msg.op # "trigger" ELSE msg.op = "trigger" /\ msg.from = p
  <2>1. CASE p # 0
    <3>1. \A msg \in BagToSet(control)' : msg \in BagToSet(control) \/ msg = Trigger(b, p, d)
      BY <2>1, TreeEnterInner
    <3> HIDE DEF d
    <3>2. \A msg \in BagToSet(control)' :
            \/ msg \in BagToSet(control)
            \/ msg.tree = b /\ msg.data = d /\ msg.op = "trigger" /\ msg.from = p BY <3>1 DEF Trigger
    <3> QED BY <1>0, <2>1, <3>2, TreeEnterInner
  <2>2. CASE p = 0
    <3>1. \A msg \in BagToSet(control)' :
            msg \in BagToSet(control) \/ msg \in Releases(b, 0, barrier_sense[b][0], d)
      BY <2>2, TreeEnterRoot
    <3> HIDE DEF d
    <3>2. \A msg \in BagToSet(control)' :
            \/ msg \in BagToSet(control)
            \/ msg.tree = b /\ msg.data = d /\ msg.op # "trigger" BY <3>1 DEF Release, Releases
    <3> QED BY <1>0, <2>2, <3>2, TreeEnterRoot
  <2> QED BY <2>1, <2>2
<1>3. b = "ab" => Holds(d, p) BY <1>2, CollectedHolds DEF Gathered, Has
<1> HIDE DEF d
<1>4. b = "ab" => d \in Seq(Counts) BY <1>3 DEF Holds
<1>5. \A x \in Proc : ab_alldata'[x] = IF b = "ab" /\ p = 0 /\ x = p THEN d ELSE ab_alldata[x]
  BY <1>0, <1>1 DEF Gathered, StringsTyped
<1>6. StringsTyped' BY <1>1, <1>4, <1>5 DEF Gathered, StringsTyped
<1>7. ASSUME NEW msg \in BagToSet(control)' PROVE Carries(msg)'
  <2>1. CASE msg \in BagToSet(control) BY <2>1, HoldsFrame DEF Gathered
  <2>2. CASE msg \notin BagToSet(control)
    <3>1. Carries(msg) BY <1>2, <1>3, <2>2 DEF Carries
    <3> QED BY <3>1, HoldsFrame
  <2> QED BY <2>1, <2>2
<1>8. ASSUME NEW x \in Proc PROVE Has(x)'
  <2>1. \A c \in Early("ab", x)' : Holds(ab_children_data'[x][c], c) BY <1>1, <1>2 DEF Gathered, Has
  <2>2. ASSUME MayRead(x)' PROVE Holds(ab_alldata'[x], 0)
    <3>1. CASE b = "ab" /\ x = p
      <4>1. CASE p = 0 BY <1>3, <1>5, <3>1, <4>1
      <4>2. CASE p # 0
        <5>1. ~Released("ab", x)' BY <1>2, <3>1, <4>2
        <5>2. On("forwarded", "ab", x) = 1 BY <1>2, <2>2, <5>1 DEF MayRead
        <5>3. Holds(ab_alldata[x], 0) BY <5>2 DEF Gathered, Has, MayRead
        <5> QED BY <1>5, <4>2, <5>3
      <4> QED BY <4>1, <4>2
    <3>2. CASE ~(b = "ab" /\ x = p)
      <4>1. pc'[x] \in {"gather wait", "fill"} => pc[x] \in {"gather wait", "fill"}
        <5>1. CASE x # p BY <5>1
        <5>2. CASE x = p BY <3>2, <5>2 DEF Tree, Enters, Waiting
        <5> QED BY <5>1, <5>2
      <4>2. MayRead(x) BY <1>2, <2>2, <4>1 DEF MayRead
      <4> QED BY <1>5, <3>2, <4>2 DEF Gathered, Has
    <3> QED BY <3>1, <3>2
  <2> QED BY <2>1, <2>2, HoldsFrame DEF Has
<1> QED BY <1>6, <1>7, <1>8 DEF Gathered

LEMMA GatheredTrigger ==
  ASSUME Typed, TreeInv, Gathered, NEW p \in Proc, ChildToParentBarrierTrigger(p),
         \A d \in Tree, x \in Proc :
           Entered(d, x)' = Entered(d, x) /\ (Waiting(d, x)' <=> Waiting(d, x))
  PROVE  Gathered'
<1>0. "ab" \in Tree BY DEF Tree
<1>1. mine' = mine /\ ab_alldata' = ab_alldata /\ pc' = pc BY DEF ChildToParentBarrierTrigger
<1>2. PICK msg \in BagToSet(control) :
         /\ msg.op = "trigger" /\ msg.to = p /\ msg.from \in Children(N, Branch, p)
         /\ ab_children_data' = IF msg.tree = "ab"
                                THEN [ab_children_data EXCEPT ![p][msg.from] = msg.data]
                                ELSE ab_children_data
         /\ \A d \in Tree, x \in Proc : 
              Early(d, x)' = IF d = msg.tree /\ x = p THEN Early(d, x) \cup {msg.from}
                                                      ELSE Early(d, x) BY TreeTrigger
<1>3. msg.tree = "ab" => Holds(msg.data, msg.from) BY <1>2 DEF Gathered, Carries
<1>4. \A x \in Proc : \A c \in Children(N, Branch, x) :
        ab_children_data'[x][c] = IF msg.tree = "ab" /\ x = p /\ c = msg.from THEN msg.data
                                                                 ELSE ab_children_data[x][c]
  BY <1>2 DEF Gathered, StringsTyped
<1>5. StringsTyped' BY <1>3, <1>2, <1>1 DEF Holds, Gathered, StringsTyped
<1>6. \A m \in BagToSet(control)' : Carries(m)' BY TreeTrigger, HoldsFrame, <1>1 DEF Gathered
<1>7. ASSUME NEW x \in Proc PROVE Has(x)'
  <2>1. MayRead(x)' <=> MayRead(x) BY ZenonT(120), <1>0, <1>1, TreeTrigger DEF MayRead
  <2>2. ASSUME NEW c \in Early("ab", x)' PROVE Holds(ab_children_data'[x][c], c)
    <3>1. Early("ab", x)' = IF "ab" = msg.tree /\ x = p THEN Early("ab", x) \cup {msg.from}
                                                         ELSE Early("ab", x) BY <1>0, <1>2
    <3>2. CASE "ab" = msg.tree /\ x = p /\ c = msg.from BY <1>2, <1>3, <1>4, <3>2
    <3>3. CASE ~("ab" = msg.tree /\ x = p /\ c = msg.from)
      <4>1. c \in Early("ab", x) BY <2>2, <3>1, <3>3
      <4>2. c \in Children(N, Branch, x) BY <4>1 DEF Early
      <4>3. ab_children_data'[x][c] = ab_children_data[x][c] BY <1>4, <3>3, <4>2
      <4> QED BY <4>1, <4>3 DEF Gathered, Has
    <3> QED BY <3>2, <3>3
  <2> QED BY <1>1, <2>1, <2>2, HoldsFrame DEF Gathered, Has
<1> QED BY <1>5, <1>6, <1>7 DEF Gathered

LEMMA GatheredForward ==
  ASSUME Typed, TreeInv, Gathered, NEW p \in Proc, ForwardRelease(p),
         \A d \in Tree, x \in Proc :
           Entered(d, x)' = Entered(d, x) /\ (Waiting(d, x)' <=> Waiting(d, x))
  PROVE  Gathered'
<1>0. "ab" \in Tree BY DEF Tree
<1>1. mine' = mine /\ ab_children_data' = ab_children_data /\ pc' = pc BY DEF ForwardRelease
<1>2. PICK msg \in BagToSet(control) :
        /\ msg.op = "release" /\ msg.to = p
        /\ ab_alldata' = IF msg.tree = "ab" THEN [ab_alldata EXCEPT ![p] = msg.data]
                                            ELSE ab_alldata
        /\ \A m \in BagToSet(control)' :
             \/ m \in BagToSet(control)
             \/ m.tree = msg.tree /\ m.op # "trigger" /\ m.data = msg.data
        /\ \A d \in Tree, x \in Proc : d # msg.tree \/ x # p =>
             On("forwarded", d, x)' = On("forwarded", d, x) BY TreeForward
<1>3. msg.tree = "ab" => Holds(msg.data, 0) BY <1>2 DEF Gathered, Carries
<1>4. \A x \in Proc : ab_alldata'[x] = IF msg.tree = "ab" /\ x = p THEN msg.data ELSE ab_alldata[x]
  BY <1>2 DEF Gathered, StringsTyped
<1>5. StringsTyped'
  <2>1. msg.tree = "ab" => msg.data \in Seq(Counts) BY <1>3 DEF Holds
  <2>2. DOMAIN ab_alldata' = Proc BY <1>2 DEF Gathered, StringsTyped
  <2> QED BY <1>1, <1>4, <2>1, <2>2 DEF Gathered, StringsTyped
<1>6. ASSUME NEW m \in BagToSet(control)' PROVE Carries(m)'
  <2>1. Carries(m) BY <1>2, <1>3 DEF Gathered, Carries
  <2> QED BY <1>1, <2>1, HoldsFrame
<1>7. ASSUME NEW x \in Proc PROVE Has(x)'
  <2>1. \A c \in Early("ab", x)' : Holds(ab_children_data'[x][c], c)
    BY <1>0, <1>1, TreeForward DEF Gathered, Has
  <2>2. MayRead(x)' => Holds(ab_alldata'[x], 0)
    <3>1. CASE msg.tree = "ab" /\ x = p BY <1>3, <1>4, <3>1
    <3>2. CASE ~(msg.tree = "ab" /\ x = p)
      <4>1. MayRead(x)' => MayRead(x) BY <1>0, <1>1, <1>2, <3>2, TreeForward DEF MayRead
      <4> QED BY <1>4, <3>2, <4>1 DEF Gathered, Has
    <3> QED BY <3>1, <3>2
  <2> QED BY <1>1, <2>1, <2>2, HoldsFrame DEF Has
<1> QED BY <1>5, <1>6, <1>7 DEF Gathered

LEMMA GatheredTake ==
  ASSUME Typed, TreeInv, Gathered, NEW p \in Proc, TakeRelease(p),
         \A d \in Tree, x \in Proc :
           Entered(d, x)' = Entered(d, x) /\ (Waiting(d, x)' <=> Waiting(d, x))
  PROVE  Gathered'
<1>0. "ab" \in Tree BY DEF Tree
<1>1. mine' = mine /\ ab_children_data' = ab_children_data /\ pc' = pc BY DEF TakeRelease
<1>2. PICK msg \in BagToSet(control) :
        /\ msg.op # "trigger" /\ msg.to = p 
        /\ msg.op = "release" \/ On("forwarded", msg.tree, p) = 1
        /\ ab_alldata' = IF msg.tree = "ab" /\ msg.op = "release"
                         THEN [ab_alldata EXCEPT ![p] = msg.data] ELSE ab_alldata
        /\ \A d \in Tree, x \in Proc : d # msg.tree \/ x # p =>
             (Released(d, x)' <=> Released(d, x)) BY TreeTake
<1>3. msg.tree = "ab" => Holds(msg.data, 0) BY <1>2 DEF Gathered, Carries
<1>4. \A x \in Proc : ab_alldata'[x] =
        IF msg.tree = "ab" /\ msg.op = "release" /\ x = p THEN msg.data ELSE ab_alldata[x]
  BY <1>2 DEF Gathered, StringsTyped
<1>5. StringsTyped'
  <2>1. msg.tree = "ab" => msg.data \in Seq(Counts) BY <1>3 DEF Holds
  <2>2. DOMAIN ab_alldata' = Proc BY <1>2 DEF Gathered, StringsTyped
  <2> QED BY <1>1, <1>4, <2>1, <2>2 DEF Gathered, StringsTyped
<1>6. \A m \in BagToSet(control)' : Carries(m)' BY TreeTake, HoldsFrame, <1>1 DEF Gathered
<1>7. ASSUME NEW x \in Proc PROVE Has(x)'
  <2>1. \A c \in Early("ab", x)' : Holds(ab_children_data'[x][c], c)
    BY <1>0, <1>1, TreeTake DEF Gathered, Has
  <2>2. MayRead(x)' => Holds(ab_alldata'[x], 0)
    <3>1. CASE msg.tree = "ab" /\ x = p
      <4>1. CASE msg.op = "release" BY <1>3, <1>4, <3>1, <4>1
      <4>2. CASE msg.op # "release"
        <5>1. MayRead(x) BY <1>2, <3>1, <4>2 DEF MayRead
        <5> QED BY <1>4, <4>2, <5>1 DEF Gathered, Has
      <4> QED BY <4>1, <4>2
    <3>2. CASE ~(msg.tree = "ab" /\ x = p)
      <4>1. Released("ab", x)' <=> Released("ab", x) BY <1>0, <1>2, <3>2
      <4>2. On("forwarded", "ab", x)' = 1 => On("forwarded", "ab", x) = 1 BY <1>0, TreeTake
      <4>3. MayRead(x)' => MayRead(x) BY <1>1, <4>1, <4>2 DEF MayRead
      <4> QED BY <1>4, <3>2, <4>3 DEF Gathered, Has
    <3> QED BY <3>1, <3>2
  <2> QED BY <1>1, <2>1, <2>2, HoldsFrame DEF Has
<1> QED BY <1>5, <1>6, <1>7 DEF Gathered

\* The steps that leave what is to be sent as it is, and those that leave the trees.
LEMMA MineStays ==
  ASSUME NEW p \in Proc,
         \/ MainStep(p) /\ ~BeginFullBarrier(p)
         \/ ControlStep(p)
         \/ \E q \in Proc : RemoteCall(p, q)
         \/ \E h \in Handlers : HandlerStep(p, h)
  PROVE  mine' = mine /\ round' = round
BY DEF MainStep, AllGather, ClearCallsToReceive, FillCallsToReceive, ResetIncomplete,
   ClearComplete, Activate, Pass, CheckIncomplete, Deactivate, Barrier, Return,
   ControlStep, ChildToParentBarrierTrigger, ForwardRelease, TakeRelease, RemoteCall,
   HandlerStep, ReceiveCall, CallReturns, IncCallsReceived, LookAgain, Compare, SetBit, DecIncomplete

\* Where the main threads are after a step.
LEMMA PcMoves ==
  ASSUME Typed
  PROVE  /\ \A p \in Proc : MainStep(p) => \A x \in Proc \ {p} : pc'[x] = pc[x]
         /\ \A p \in Proc, h \in Handlers : HandlerStep(p, h) =>
              \A x \in Proc : pc'[x] = pc[x] \/ (pc[x] = "asleep" /\ pc'[x] = "check")
         /\ \A p \in Proc, q \in Proc : RemoteCall(p, q) => pc' = pc
         /\ \A p \in Proc : ControlStep(p) => pc' = pc
<1>1. ASSUME NEW p \in Proc, MainStep(p), NEW x \in Proc \ {p} PROVE pc'[x] = pc[x]
  BY <1>1 DEF Typed, MainStep, BeginFullBarrier, AllGather, ClearCallsToReceive,
     FillCallsToReceive, ResetIncomplete, ClearComplete, Activate, Pass, CheckIncomplete,
     Deactivate, Barrier, Return, Goto
<1>2. ASSUME NEW p \in Proc, NEW h \in Handlers, HandlerStep(p, h), NEW x \in Proc
      PROVE  pc'[x] = pc[x] \/ (pc[x] = "asleep" /\ pc'[x] = "check")
  <2>1. CASE DecIncomplete(p, h) BY <2>1 DEF DecIncomplete, Goto, Typed
  <2>2. CASE ~DecIncomplete(p, h)
    BY <1>2, <2>2 DEF HandlerStep, ReceiveCall, CallReturns, IncCallsReceived, LookAgain, Compare, SetBit
  <2> QED BY <2>1, <2>2
<1>3. \A p \in Proc, q \in Proc : RemoteCall(p, q) => pc' = pc BY DEF RemoteCall
<1>4. \A p \in Proc : ControlStep(p) => pc' = pc
  BY DEF ControlStep, ChildToParentBarrierTrigger, ForwardRelease, TakeRelease
<1> QED BY <1>1, <1>2, <1>3, <1>4

LEMMA GatheredMain ==
  ASSUME Typed, TreeInv, Gathered, NEW p \in Proc, MainStep(p)
  PROVE  Gathered'
<1>1. \A d \in Tree, x \in Proc \ {p} :
        Entered(d, x)' = Entered(d, x) /\ (Waiting(d, x)' <=> Waiting(d, x)) BY EnteredOthers
<1>2. \A x \in Proc \ {p} : pc'[x] = pc[x] BY PcMoves
<1>3. CASE \E b \in Tree : Enters(b, p)
  <2>1. PICK b \in Tree : Enters(b, p) BY <1>3
  <2>2. ~BeginFullBarrier(p)
    <3>1. \/ pc'[p] = "gather wait" \/ pc'[p] = "barrier wait" BY <2>1 DEF Enters, Waiting
    <3> QED BY <3>1 DEF BeginFullBarrier, Goto, Typed
  <2>3. mine' = mine BY <2>2, MineStays
  <2> QED BY <1>1, <1>2, <2>1, <2>3, GatheredEnter
<1>4. CASE Stays(p)
  <2>1. UNCHANGED tree_vars BY <1>4 DEF Stays
  <2>2. \A b \in Tree, x \in Proc : Entered(b, x)' = Entered(b, x) BY <1>1, <1>4 DEF Stays
  <2>3. CASE BeginFullBarrier(p) BY <2>2, <2>3, GatheredBegin
  <2>4. CASE ~BeginFullBarrier(p)
    <3>1. mine' = mine BY <2>4, MineStays
    <3>2. ASSUME NEW x \in Proc, MayRead(x)' PROVE MayRead(x)
      <4>1. /\ On("forwarded", "ab", x)' = On("forwarded", "ab", x)
            /\ Released("ab", x)' <=> Released("ab", x) BY <2>1, <2>2, TreeSame DEF Tree
      <4>2. CASE x # p BY <1>2, <3>2, <4>1, <4>2 DEF MayRead
      <4>3. CASE x = p
        <5>1. CASE pc'[p] \in {"gather wait", "fill"}
          <6>1. ClearCallsToReceive(p) \/ AllGather(p)
            BY <2>4, <5>1 DEF Typed, MainStep, FillCallsToReceive, ResetIncomplete, ClearComplete,
               Activate, Pass, CheckIncomplete, Deactivate, Barrier, Return, Goto
          <6>2. ~AllGather(p)
            <7> SUFFICES ASSUME AllGather(p) PROVE FALSE OBVIOUS
            <7>1. barrier_sense' # barrier_sense
              <8>1. barrier_sense' = [barrier_sense EXCEPT !["ab"][p] = -barrier_sense["ab"][p]]
                BY DEF AllGather, EnterTree
              <8>2. barrier_sense'["ab"][p] = -barrier_sense["ab"][p] BY <8>1 DEF Typed, Tree
              <8>3. barrier_sense["ab"][p] \in {1, -1} BY DEF Typed, Tree
              <8> QED BY <8>2, <8>3
            <7> QED BY <2>1, <7>1 DEF tree_vars
          <6>3. pc[p] = "gather wait" BY <6>1, <6>2 DEF ClearCallsToReceive
          <6>4. Released("ab", p) BY <6>1, <6>2 DEF ClearCallsToReceive
          <6> QED BY <4>3, <6>3, <6>4 DEF MayRead
        <5>2. CASE pc'[p] \notin {"gather wait", "fill"} BY <3>2, <4>1, <4>3, <5>2 DEF MayRead
        <5> QED BY <5>1, <5>2
      <4> QED BY <4>2, <4>3
    <3> QED BY <2>1, <2>2, <3>1, <3>2, GatheredQuiet
  <2> QED BY <2>3, <2>4
<1> QED BY <1>3, <1>4, EnteredMain

LEMMA GatheredStep ==
  ASSUME Typed, TreeInv, Gathered, [Next]_vars
  PROVE  Gathered'
<1>1. ASSUME NEW p \in Proc, MainStep(p) PROVE Gathered' BY <1>1, GatheredMain
<1>2. ASSUME NEW p \in Proc, ControlStep(p) PROVE Gathered'
  <2>1. \A d \in Tree, x \in Proc :
          Entered(d, x)' = Entered(d, x) /\ (Waiting(d, x)' <=> Waiting(d, x)) BY <1>2, EnteredElse
  <2> QED BY <1>2, <2>1, GatheredTrigger, GatheredForward, GatheredTake DEF ControlStep
<1>3. ASSUME NEW p \in Proc, \/ \E q \in Proc : RemoteCall(p, q) 
                             \/ \E h \in Handlers : HandlerStep(p, h)
      PROVE  Gathered'
  <2>1. \A d \in Tree, x \in Proc : Entered(d, x)' = Entered(d, x) BY SMTT(30), <1>3, EnteredElse
  <2>2. UNCHANGED tree_vars
    BY <1>3 DEF RemoteCall, HandlerStep, ReceiveCall, CallReturns, IncCallsReceived, LookAgain,
       Compare, SetBit, DecIncomplete
  <2>3. mine' = mine BY <1>3, MineStays
  <2>4. \A x \in Proc : pc'[x] = pc[x] \/ (pc[x] = "asleep" /\ pc'[x] = "check") BY <1>3, PcMoves
  <2>5. \A x \in Proc : MayRead(x)' => MayRead(x) BY <2>1, <2>2, <2>4, TreeSame DEF MayRead, Tree
  <2> QED BY <2>1, <2>2, <2>3, <2>5, GatheredQuiet
<1>4. CASE UNCHANGED vars BY <1>4, TreeSame, GatheredQuiet DEF vars, Entered, MayRead, Tree
<1> QED BY <1>1, <1>2, <1>3, <1>4 DEF Next, Terminated

\* What a machine unpacks is what each of the others has put in.
LEMMA Unpacks ==
  ASSUME Typed, TreeInv, Gathered, NEW p \in Proc, pc[p] = "fill"
  PROVE  /\ CallsToReceive(p) \in Counts
         /\ \A q \in Proc : CallsToReceive(p)[q] = mine[q][p]
<1>0. "ab" \in Tree /\ 0 \in Proc BY ProcFacts DEF Tree
<1>1. ~Waiting("ab", p) BY DEF Waiting
<1>2. Released("ab", p) BY <1>0, <1>1 DEF TreeInv, Machine
<1>3. Holds(ab_alldata[p], 0) BY <1>2 DEF Gathered, Has, MayRead
<1>4. ASSUME NEW q \in Proc PROVE ab_alldata[p][StringOf[q]] = mine[q]
  <2>1. q \in Below(0) BY BeforeRoot
  <2>2. ab_alldata[p][Position(q) - Position(0) + 1] = mine[q] BY <1>3, <2>1 DEF Holds
  <2>3. Position(q) - Position(0) + 1 = StringOf[q]
    <3>1. Position(q) \in 1 .. N /\ Position(0) = 1 /\ N \in Nat BY Positions, PositionRoot, ProcFacts
    <3>2. StringOf[q] = Position(q) BY StringsInTreeOrder
    <3> QED BY <3>1, <3>2
  <2> QED BY <2>2, <2>3
<1>5. \A q \in Proc : CallsToReceive(p)[q] = mine[q][p] BY <1>4 DEF CallsToReceive, AllCallsSent
<1>6. CallsToReceive(p) = [q \in Proc |-> CallsToReceive(p)[q]] BY DEF CallsToReceive
<1>7. \A q \in Proc : mine[q][p] \in Nat BY DEF Typed, Counts
<1> QED BY <1>5, <1>6, <1>7 DEF Counts

LEMMA AllUnpacked == ASSUME Typed, TreeInv, Gathered PROVE Unpacked
BY Unpacks DEF Unpacked

LEMMA ToldMain ==
  ASSUME Typed, TreeInv, Gathered, Told, NEW p \in Proc, MainStep(p)
  PROVE  Told'
<1> SUFFICES ASSUME NEW x \in Proc, NEW q \in Proc, pc'[x] \in Informed, round'[q] = round'[x]
             PROVE  calls_to_receive'[x][q] = mine'[q][x] BY DEF Told
<1>1. CASE BeginFullBarrier(p)
  <2>1. /\ pc[p] = "run" /\ pc' = [pc EXCEPT ![p] = "gather"]
        /\ round' = [round EXCEPT ![p] = @ + 1]
        /\ mine' = [mine EXCEPT ![p] = callssent[p]] /\ calls_to_receive' = calls_to_receive
    BY <1>1 DEF BeginFullBarrier, Goto, count_vars
  <2>2. /\ x # p /\ pc[x] \in Informed /\ round'[x] = round[x]
        /\ q # p => mine'[q] = mine[q] /\ round'[q] = round[q]
        /\ q = p => round'[q] = round[q] + 1 BY <2>1 DEF Typed, Informed
  <2>3. round[x] <= round[p] BY <2>1, <2>2, NothingOfOutsiders
  <2>4. round[x] \in Nat /\ round[p] \in Nat BY Types
  <2>5. q # p BY <2>2, <2>3, <2>4
  <2> QED BY <2>1, <2>2, <2>5 DEF Told
<1>2. CASE ~BeginFullBarrier(p)
  <2>1. mine' = mine /\ round' = round BY <1>2, MineStays
  <2>2. CASE x # p
    <3>1. pc'[x] = pc[x] BY <2>2, PcMoves
    <3>2. calls_to_receive'[x] = calls_to_receive[x]
      BY <2>2 DEF Typed, MainStep, BeginFullBarrier, AllGather, ClearCallsToReceive,
         FillCallsToReceive, ResetIncomplete, ClearComplete, Activate, Pass, CheckIncomplete,
         Deactivate, Barrier, Return, count_vars
    <3> QED BY <2>1, <3>1, <3>2 DEF Told
  <2>3. CASE x = p
    <3>1. CASE FillCallsToReceive(p)
      <4>1. pc[p] = "fill" /\ calls_to_receive' = [calls_to_receive EXCEPT ![p] = CallsToReceive(p)]
        BY <3>1 DEF FillCallsToReceive
      <4>2. calls_to_receive'[p] = CallsToReceive(p) BY <4>1 DEF Typed
      <4> QED BY <2>1, <2>3, <4>1, <4>2, Unpacks
    <3>2. CASE ~FillCallsToReceive(p)
      <4>1. pc[p] \in Informed
        BY <1>2, <2>3, <3>2 DEF Typed, Informed, MainStep, AllGather, ClearCallsToReceive,
           ResetIncomplete, ClearComplete, Activate, Pass, CheckIncomplete, Deactivate, Barrier,
           Return, Goto
      <4>2. calls_to_receive' = calls_to_receive
        BY <1>2, <2>3, <3>2, <4>1 DEF Informed, MainStep, AllGather, ClearCallsToReceive,
           ResetIncomplete, ClearComplete, Activate, Pass, CheckIncomplete, Deactivate, Barrier,
           Return, count_vars
      <4> QED BY <2>1, <2>3, <4>1, <4>2 DEF Told
    <3> QED BY <3>1, <3>2
  <2> QED BY <2>2, <2>3
<1> QED BY <1>1, <1>2

LEMMA ToldStep ==
  ASSUME Typed, TreeInv, Gathered, Told, [Next]_vars
  PROVE  Told'
<1>1. ASSUME NEW p \in Proc, MainStep(p) PROVE Told' BY <1>1, ToldMain
<1>2. ASSUME NEW p \in Proc, \/ ControlStep(p)
                             \/ \E q \in Proc : RemoteCall(p, q) 
                             \/ \E h \in Handlers : HandlerStep(p, h)
      PROVE  Told'
  <2>1. mine' = mine /\ round' = round BY <1>2, MineStays
  <2>2. \A x \in Proc : pc'[x] = pc[x] \/ (pc[x] = "asleep" /\ pc'[x] = "check") BY <1>2, PcMoves
  <2>3. calls_to_receive' = calls_to_receive
    BY <1>2 DEF ControlStep, ChildToParentBarrierTrigger, ForwardRelease, TakeRelease, RemoteCall,
       HandlerStep, ReceiveCall, CallReturns, IncCallsReceived, LookAgain, Compare, SetBit,
       DecIncomplete, count_vars
  <2> QED BY ZenonT(60), <2>1, <2>2, <2>3 DEF Told, Informed
<1>3. CASE UNCHANGED vars BY <1>3 DEF vars, count_vars, Told
<1> QED BY <1>1, <1>2, <1>3 DEF Next, Terminated

LEMMA TypedStep ==
  ASSUME Typed, TreeInv, Gathered, [Next]_vars
  PROVE  Typed'
<1>1. ASSUME NEW p \in Proc, ControlStep(p) PROVE Typed'
  <2>1. ASSUME NEW msg \in BagToSet(control)
        PROVE  msg.tree \in Tree /\ (msg.op # "trigger" => msg.val \in {1, -1})
    <3>1. msg.tree \in Tree BY MessageFacts
    <3>2. ASSUME msg.op # "trigger" PROVE msg.val \in {1, -1}
      <4>1. msg.to \in Proc /\ msg.val = -barrier_sense[msg.tree][msg.to] BY <3>2, MessageFacts
      <4>2. barrier_sense[msg.tree][msg.to] \in {1, -1} BY <3>1, <4>1, Types
      <4> QED BY <4>1, <4>2
    <3> QED BY <3>1, <3>2
  <2> QED BY <1>1, <2>1, TypedControl
<1>2. CASE UNCHANGED vars BY <1>2 DEF vars, Typed, tree_vars, count_vars, call_vars
<1> QED BY <1>1, <1>2, AllUnpacked, TypedMain, TypedRemoteCall, TypedHandler DEF Next, Terminated

-----------------------------------------------------------------------------
(* The count of machines that are not complete stays one.                  *)

\* Each handler on its way to decrease the count does it for a machine of its own.
OneEach(p) ==
  \A h \in Decreasing(p) :
    /\ handler[p][h].from \in procs_complete[p]
    /\ \A g \in Decreasing(p) : handler[p][g].from = handler[p][h].from => g = h

InRange(p) == num_proc_recvs_incomplete[p] \in 0 .. N

\* Where Counter(p) says what the count is, and that it stays there.
Counted == {"clear", "activate", "pass", "check", "asleep", "deactivate"}
Stale(p) == pc[p] \in Counted \/ InRange(p)

\* What a machine has told the others is what it has issued.
MineIsSent == \A p \in Proc : pc[p] # "run" => mine[p] = callssent[p]

LEMMA CountInit == Init => MineIsSent /\ \A p \in Proc : OneEach(p) /\ Stale(p)
<1> SUFFICES ASSUME Init PROVE MineIsSent /\ \A p \in Proc : OneEach(p) /\ Stale(p) OBVIOUS
<1>1. N \in Nat BY ProcFacts
<1>2. \A p \in Proc : Decreasing(p) = {} BY DEF Init, Decreasing, Idle
<1> QED BY <1>1, <1>2 DEF Init, MineIsSent, OneEach, Stale, InRange

LEMMA MineIsSentStep ==
  ASSUME Typed, MineIsSent, [Next]_vars
  PROVE  MineIsSent'
<1>1. ASSUME NEW p \in Proc, MainStep(p) PROVE MineIsSent'
  <2>1. callssent' = callssent BY <1>1 DEF MainStep, BeginFullBarrier, AllGather, ClearCallsToReceive,
       FillCallsToReceive, ResetIncomplete, ClearComplete, Activate, Pass, CheckIncomplete,
       Deactivate, Barrier, Return, call_vars
  <2>2. CASE BeginFullBarrier(p) BY <2>2, <2>1 DEF BeginFullBarrier, Goto, MineIsSent, Typed
  <2>3. CASE ~BeginFullBarrier(p)
    <3>1. mine' = mine BY <1>1, <2>3, MineStays
    <3>2. \A x \in Proc \ {p} : pc'[x] = pc[x] BY <1>1, PcMoves
    <3>3. pc[p] # "run" BY <1>1, <2>3 DEF MainStep, AllGather, ClearCallsToReceive,
         FillCallsToReceive, ResetIncomplete, ClearComplete, Activate, Pass, CheckIncomplete,
         Deactivate, Barrier, Return
    <3> QED BY <2>1, <3>1, <3>2, <3>3 DEF MineIsSent
  <2> QED BY <2>2, <2>3
<1>2. ASSUME NEW p \in Proc, \/ ControlStep(p)
                             \/ \E h \in Handlers : HandlerStep(p, h)
      PROVE  MineIsSent'
  <2>1. callssent' = callssent
    BY <1>2 DEF ControlStep, ChildToParentBarrierTrigger, ForwardRelease, TakeRelease,
       HandlerStep, ReceiveCall, CallReturns, IncCallsReceived, LookAgain, Compare, SetBit,
       DecIncomplete, call_vars
  <2>2. mine' = mine BY <1>2, MineStays
  <2>3. \A x \in Proc : pc'[x] = pc[x] \/ (pc[x] = "asleep" /\ pc'[x] = "check") BY <1>2, PcMoves
  <2> QED BY SMTT(30), <2>1, <2>2, <2>3 DEF MineIsSent
<1>3. ASSUME NEW p \in Proc, NEW q \in Proc, RemoteCall(p, q) PROVE MineIsSent'
  BY <1>3 DEF RemoteCall, MineIsSent, Typed
<1>4. CASE UNCHANGED vars BY <1>4 DEF vars, call_vars, MineIsSent
<1> QED BY <1>1, <1>2, <1>3, <1>4 DEF Next, Terminated

LEMMA CountMain ==
  ASSUME Typed, NEW p \in Proc, Waits(p), OneEach(p), MainStep(p)
  PROVE  OneEach(p)' /\ num_proc_recvs_incomplete' \in [Proc -> Int]
         /\ (num_proc_recvs_incomplete'[p] # num_proc_recvs_incomplete[p] =>
               pc'[p] \in {"clear", "check"})
<1>1. handler' = handler BY DEF MainStep, BeginFullBarrier, AllGather, ClearCallsToReceive,
     FillCallsToReceive, ResetIncomplete, ClearComplete, Activate, Pass, CheckIncomplete,
     Deactivate, Barrier, Return
<1>2. Decreasing(p)' = Decreasing(p) BY <1>1 DEF Decreasing
<1>3. CASE ClearComplete(p)
  <2>1. pc[p] = "clear" /\ num_proc_recvs_incomplete' = num_proc_recvs_incomplete
    BY <1>3 DEF ClearComplete
  <2>2. Decreasing(p) = {} BY <2>1 DEF Waits, Over, Between
  <2> QED BY <1>2, <2>1, <2>2 DEF OneEach, Typed
<1>4. CASE Pass(p)
  <2>1. procs_complete[p] \subseteq procs_complete'[p] BY <1>4 DEF Pass, Typed
  <2>2. pc'[p] = "check" BY <1>4 DEF Pass, Goto, Typed
  <2>3. num_proc_recvs_incomplete' \in [Proc -> Int] BY ProcFacts, <1>4 DEF Pass, Typed
  <2> QED BY <1>1, <1>2, <2>1, <2>2, <2>3 DEF OneEach
<1>5. CASE ResetIncomplete(p)
  <2>1. pc'[p] = "clear" /\ procs_complete' = procs_complete BY <1>5 DEF ResetIncomplete, Goto, Typed
  <2>2. num_proc_recvs_incomplete' \in [Proc -> Int] BY <1>5, ProcFacts DEF ResetIncomplete, Typed
  <2> QED BY <1>1, <1>2, <2>1, <2>2 DEF OneEach
<1>6. CASE ~ClearComplete(p) /\ ~Pass(p) /\ ~ResetIncomplete(p)
  <2>1. UNCHANGED <<procs_complete, num_proc_recvs_incomplete>>
    BY <1>6 DEF MainStep, BeginFullBarrier, AllGather, ClearCallsToReceive,
       FillCallsToReceive, Activate, CheckIncomplete, Deactivate, Barrier, Return, count_vars
  <2> QED BY <1>1, <1>2, <2>1 DEF OneEach, Typed
<1> QED BY <1>3, <1>4, <1>5, <1>6

LEMMA CountHandler ==
  ASSUME Typed, NEW p \in Proc, Waits(p), OneEach(p), NEW h \in Handlers, HandlerStep(p, h)
  PROVE  OneEach(p)'
         /\ (num_proc_recvs_incomplete'[p] # num_proc_recvs_incomplete[p] =>
               pc'[p] \in {"activate", "pass", "check", "asleep"})
<1>1. PICK s \in HandlerState : handler' = [handler EXCEPT ![p][h] = s] BY HandlerMoves
<1>2. handler'[p][h] = s /\ \A g \in Handlers : g # h => handler'[p][g] = handler[p][g]
  BY ZenonT(120), <1>1, HandlerChanges
<1>3. procs_complete[p] \subseteq procs_complete'[p]
  BY DEF HandlerStep, ReceiveCall, CallReturns, IncCallsReceived, LookAgain, Compare, SetBit,
     DecIncomplete, count_vars, Typed
<1>4. OneEach(p)'
  <2>1. CASE s.at # "dec" BY <1>2, <1>3, <2>1 DEF OneEach, Decreasing
  <2>2. CASE s.at = "dec"
    <3>1. \A label : HandlerGoto(p, h, label) => handler'[p][h].at = label BY Goes
    <3>2. SetBit(p, h)
      <4>0. handler \in [Proc -> [Handlers -> HandlerState]] /\ handler[p][h] \in HandlerState
        BY DEF Typed
      <4>1. ~IncCallsReceived(p, h)
        <5> SUFFICES ASSUME IncCallsReceived(p, h) PROVE handler'[p][h].at # "dec" BY <1>2, <2>2
        <5>1. handler'[p][h] = [handler[p][h] EXCEPT
                                  !.at = IF @ = "inc" THEN "counted" ELSE "compare",
                                  !.t  = callsreceived[p][handler[p][h].from] + 1]
          BY <4>0 DEF IncCallsReceived
        <5>2. handler'[p][h].at = IF handler[p][h].at = "inc" THEN "counted" ELSE "compare"
          BY <4>0, <5>1 DEF HandlerState
        <5> QED BY <5>2
      <4>3. ~ReceiveCall(p, h) BY <1>2, <2>2, <4>0 DEF ReceiveCall
      <4>2. ~CallReturns(p, h) /\ ~LookAgain(p, h) /\ ~Compare(p, h) /\ ~DecIncomplete(p, h)
        BY <1>2, <2>2, <3>1 DEF CallReturns, LookAgain, Compare, DecIncomplete
      <4> QED BY <4>1, <4>2, <4>3 DEF HandlerStep
    <3>3. PICK q : q = handler[p][h].from OBVIOUS
    <3>4. /\ procs_complete' = [procs_complete EXCEPT ![p] = @ \cup {q}]
          /\ HandlerGoto(p, h, IF q \in procs_complete[p] THEN "idle" ELSE "dec")
      BY <3>2, <3>3 DEF SetBit
    <3>5. q \notin procs_complete[p] BY <1>2, <2>2, <3>1, <3>4
    <3>6. s.from = q BY <1>2, <3>3, <3>4, Goes
    <3>7. procs_complete'[p] = procs_complete[p] \cup {q} BY <3>4 DEF Typed
    <3>8. \A g \in Decreasing(p)' : g = h \/ (g \in Decreasing(p) /\ handler'[p][g] = handler[p][g])
      BY <1>2 DEF Decreasing
    <3>9. \A g \in Decreasing(p) : handler[p][g].from \in procs_complete[p] /\ handler[p][g].from # q
      BY <3>5 DEF OneEach
    <3> QED BY <1>2, <3>6, <3>7, <3>8, <3>9 DEF OneEach
  <2> QED BY <2>1, <2>2
<1>5. ASSUME num_proc_recvs_incomplete'[p] # num_proc_recvs_incomplete[p]
      PROVE  pc'[p] \in {"activate", "pass", "check", "asleep"}
  <2>1. DecIncomplete(p, h)
    BY <1>5 DEF HandlerStep, ReceiveCall, CallReturns, IncCallsReceived, LookAgain, Compare, SetBit,
       count_vars
  <2>2. h \in Decreasing(p) BY <2>1 DEF DecIncomplete, Decreasing, HandlerAt
  <2>3. pc[p] \notin Between BY <2>2 DEF Waits, Over
  <2>4. pc[p] \in {"activate", "pass", "check", "asleep"} BY <2>3 DEF Between, Typed, MainLabels
  <2>5. pc'[p] = pc[p] \/ pc'[p] = "check" BY <2>1 DEF DecIncomplete, Goto, Typed
  <2> QED BY <2>4, <2>5
<1> QED BY <1>4, <1>5

\* As many handlers as machines that are complete, at most.
LEMMA CountIs ==
  ASSUME Typed, NEW p \in Proc, Waits(p), OneEach(p)
  PROVE  pc[p] \in Counted => InRange(p)
<1> DEFINE D == Decreasing(p)
           C == procs_complete[p]
<1>0. N \in Nat BY ProcFacts
<1>1. IsFiniteSet(D) /\ Cardinality(D) \in Nat BY HandlerSets DEF Decreasing
<1>2. C \in SUBSET Proc BY DEF Typed
<1>3. IsFiniteSet(C) /\ Cardinality(C) \in 0 .. N BY <1>2, ProcFacts
<1>4. Cardinality(D) <= Cardinality(C)
  <2> SUFFICES ASSUME Cardinality(C) < Cardinality(D) PROVE FALSE BY <1>0, <1>1, <1>3
  <2> DEFINE f == [h \in D |-> handler[p][h].from]
  <2>1. f \in [D -> C] BY DEF OneEach
  <2>2. \A x \in D : f[x] = handler[p][x].from OBVIOUS
  <2> HIDE DEF f, C, D
  <2>3. \E x, y \in D : x # y /\ f[x] = f[y] BY <1>1, <1>3, <2>1, FS_PigeonHole
  <2> QED BY <2>2, <2>3 DEF OneEach, D
<1>5. CASE pc[p] = "clear" BY <1>0, <1>5 DEF Waits, Counter, InRange
<1>6. CASE pc[p] \in {"activate", "pass", "check", "asleep", "deactivate"}
  <2>1. num_proc_recvs_incomplete[p] = N - Cardinality(C) + Cardinality(D) BY <1>6 DEF Waits, Counter
  <2> HIDE DEF C, D
  <2>2. num_proc_recvs_incomplete[p] \in 0 .. N BY <1>0, <1>1, <1>3, <1>4, <2>1
  <2> QED BY <2>2 DEF InRange
<1> QED BY <1>5, <1>6 DEF Counted

LEMMA CountStep ==
  ASSUME Typed, [Next]_vars, NEW p \in Proc, Waits(p), OneEach(p), Stale(p)
  PROVE  OneEach(p)' /\ Stale(p)'
<1>0. InRange(p) BY CountIs DEF Stale
<1>1. ASSUME num_proc_recvs_incomplete'[p] # num_proc_recvs_incomplete[p] => pc'[p] \in Counted
      PROVE  Stale(p)'
  <2>1. CASE num_proc_recvs_incomplete'[p] = num_proc_recvs_incomplete[p]
    BY <1>0, <2>1 DEF InRange, Stale
  <2>2. CASE num_proc_recvs_incomplete'[p] # num_proc_recvs_incomplete[p]
    BY <1>1, <2>2 DEF Stale, Counted
  <2> QED BY <2>1, <2>2
<1>2. CASE MainStep(p) BY <1>2, CountMain, <1>1 DEF Counted
<1>3. ASSUME NEW h \in Handlers, HandlerStep(p, h) PROVE OneEach(p)' /\ Stale(p)'
  BY <1>3, CountHandler, <1>1 DEF Counted
<1>4. CASE UNCHANGED Local(p) BY <1>4, <1>1 DEF Local, OneEach, Decreasing
<1> QED BY <1>2, <1>3, <1>4, LocalSteps

-----------------------------------------------------------------------------
(* The invariant, and what it says of the properties.                      *)

Inductive ==
  /\ Typed /\ TreeInv /\ Gathered /\ Told /\ CallsConserved /\ MineIsSent
  /\ \A p \in Proc : Waits(p) /\ OneEach(p) /\ Stale(p)

LEMMA InductiveStep == Inductive /\ [Next]_vars => Inductive'
<1> SUFFICES ASSUME Inductive, [Next]_vars PROVE Inductive' OBVIOUS
<1>1. Typed /\ TreeInv /\ Gathered /\ Told /\ CallsConserved /\ MineIsSent BY DEF Inductive
<1>2. Unpacked BY <1>1, AllUnpacked
<1>3. ASSUME NEW p \in Proc PROVE (Waits(p) /\ OneEach(p) /\ Stale(p))'
  <2>1. Waits(p) /\ OneEach(p) /\ Stale(p) BY <1>3 DEF Inductive
  <2> QED BY <1>1, <1>2, <1>3, <2>1, WaitsStep, CountStep
<1> QED BY <1>1, <1>3, TypedStep, TreeStep, GatheredStep, ToldStep, CallsConservedStep,
           MineIsSentStep DEF Inductive

LEMMA Invariance == Spec => []Inductive
<1>1. Init => Inductive BY TypedInit, TreeInit, GatheredInit, WaitsInit, CountInit DEF Inductive
<1> QED BY <1>1, InductiveStep, PTL DEF Spec

LEMMA WellTyped ==
  ASSUME Inductive
  PROVE  TypeOK
<1>1. Typed /\ TreeInv /\ Gathered BY DEF Inductive
<1>2. child_barrier_counter \in [Tree -> [Proc -> 0 .. Branch]]
  <2>1. ASSUME NEW b \in Tree, NEW p \in Proc PROVE child_barrier_counter[b][p] \in 0 .. Branch
    <3>1. child_barrier_counter[b][p] = IF barrier_sense[b][p] = 1
            THEN Cardinality(Early(b, p)) ELSE numchild(p) - Cardinality(Early(b, p))
      BY <1>1 DEF TreeInv, Machine
    <3>2. Early(b, p) \in SUBSET Children(N, Branch, p) BY DEF Early
    <3>3. Cardinality(Early(b, p)) \in Nat /\ Cardinality(Early(b, p)) <= numchild(p) BY <3>2, NumChild
    <3>4. numchild(p) \in 0 .. Branch /\ Branch \in Nat BY ChildrenOf, ConstantsAssumption
    <3>5. CASE barrier_sense[b][p] = 1
      <4>1. child_barrier_counter[b][p] = Cardinality(Early(b, p)) BY <3>1, <3>5
      <4> QED BY <3>3, <3>4, <4>1
    <3>6. CASE barrier_sense[b][p] # 1
      <4>1. child_barrier_counter[b][p] = numchild(p) - Cardinality(Early(b, p)) BY <3>1, <3>6
      <4> QED BY <3>3, <3>4, <4>1
    <3> QED BY <3>5, <3>6
  <2> QED BY <1>1, <2>1 DEF Typed
<1>3. \A p \in Proc : num_proc_recvs_incomplete[p] \in 0 .. N
  BY <1>1, CountIs DEF Inductive, Stale, InRange
<1>4. num_proc_recvs_incomplete \in [Proc -> 0 .. N] BY <1>1, <1>3 DEF Typed
<1>5. \A msg \in BagToSet(control) : control[msg] = 1 BY <1>1 DEF TreeInv, Unique
<1>6. \A p \in Proc : /\ ab_children_data[p] \in [Children(N, Branch, p) -> Seq(Counts)]
                      /\ ab_alldata[p] \in Seq(Counts) BY <1>1 DEF Gathered, StringsTyped
<1> QED BY <1>1, <1>2, <1>4, <1>5, <1>6 DEF TypeOK, Typed, HandlerState, HandlerLabels

\* all_gather() tells every machine what the others have sent it: from the loop that
\* sums up calls_to_receive on, machine p expects of q in the same round exactly what
\* q has counted in calls_sent_to_target, whatever the order of the control calls.
THEOREM GatherDelivers == Spec => []GatherAgrees
<1>1. Inductive => GatherAgrees BY DEF Inductive, Told, GatherAgrees, Informed
<1> QED BY <1>1, Invariance, PTL

\* No machine leaves full_barrier() before every call that was issued to it before the
\* barrier has been run, except calls of a machine one of whose earlier calls a thread
\* was still counting for an earlier full_barrier() when this one began.
THEOREM ReturnsAfterCalls == Spec => []CompletedUnlessLate
<1>1. Inductive => CompletedUnlessLate BY WaitsComplete DEF Inductive
<1> QED BY <1>1, Invariance, PTL

\* No wake-up is lost, however late a handler is: a main thread that waits on
\* full_barrier_cond has calls to come from some machine, or a handler that has counted
\* the last of them and has yet to set the bit or to decrease the count.
THEOREM SleepsOnlyForCalls == Spec => []WakesWhenComplete
<1>1. Inductive => WakesWhenComplete BY WaitsComplete DEF Inductive
<1> QED BY <1>1, Invariance, PTL

\* num_proc_recvs_incomplete counts the machines whose bits are not set, and the
\* handlers that have set a bit and not decreased it yet; it never goes below zero,
\* and a late handler does not upset it.
THEOREM CountIsExact == Spec => []IncompleteCounted
<1>1. Inductive => IncompleteCounted
  <2> SUFFICES ASSUME Inductive PROVE IncompleteCounted OBVIOUS
  <2>1. TypeOK BY WellTyped
  <2>2. ASSUME NEW p \in Proc, pc[p] \in {"pass", "check", "asleep", "deactivate"}
        PROVE  num_proc_recvs_incomplete[p] =
                 N - Cardinality(procs_complete[p])
                   + Cardinality({h \in Handlers : HandlerAt(p, h, "dec")})
    <3>1. Decreasing(p) = {h \in Handlers : HandlerAt(p, h, "dec")} BY DEF Decreasing, HandlerAt
    <3> QED BY <2>2, <3>1 DEF Inductive, Waits, Counter
  <2> QED BY <2>1, <2>2 DEF IncompleteCounted
<1> QED BY <1>1, Invariance, PTL

-----------------------------------------------------------------------------
(* The full barrier is a call barrier.                                     *)

\* The handlers of p that run a call of q.
Running(p, q) == {h \in Handlers : HandlerAt(p, h, "running") /\ handler[p][h].from = q}

LEMMA ExecutedIs ==
  ASSUME Typed, NEW p \in Proc, NEW q \in Proc
  PROVE  /\ Executed(q, p) = callssent[q][p] - inflight[q][p] - Cardinality(Running(p, q))
         /\ callssent[q][p] \in Nat /\ inflight[q][p] \in Nat
         /\ Running(p, q) \in SUBSET Handlers /\ Cardinality(Running(p, q)) \in Nat
<1>1. Running(p, q) \in SUBSET Handlers BY DEF Running
<1> QED BY <1>1, HandlerSets DEF Executed, Running, Typed, Counts

\* The handlers of p that run a call of q or count it.
Busy(p, q) == {h \in Handlers : ~HandlerAt(p, h, "idle") /\ handler[p][h].from = q}

LEMMA SettledIs ==
  ASSUME Typed, NEW p \in Proc, NEW q \in Proc
  PROVE  /\ Settled(q, p) = callssent[q][p] - inflight[q][p] - Cardinality(Busy(p, q))
         /\ Busy(p, q) \in SUBSET Handlers /\ Cardinality(Busy(p, q)) \in Nat
<1>1. Busy(p, q) \in SUBSET Handlers BY DEF Busy
<1> QED BY <1>1, HandlerSets DEF Settled, Busy

\* A call that has been run and is still being counted.
LEMMA Unsettled ==
  ASSUME Typed, NEW p \in Proc, NEW h \in Handlers, NEW q \in Proc, handler[p][h].from = q,
         ~HandlerAt(p, h, "idle"), ~HandlerAt(p, h, "running")
  PROVE  Settled(q, p) < Executed(q, p)
<1>1. Running(p, q) \subseteq Busy(p, q) \ {h} /\ h \in Busy(p, q) BY DEF Running, Busy, HandlerAt
<1>2. IsFiniteSet(Busy(p, q) \ {h}) /\ Cardinality(Busy(p, q) \ {h}) = Cardinality(Busy(p, q)) - 1
  BY <1>1, SettledIs, HandlerSets, FS_RemoveElement
<1>3. Cardinality(Running(p, q)) <= Cardinality(Busy(p, q)) - 1 BY <1>1, <1>2, FS_Subset
<1> QED BY <1>3, ExecutedIs, SettledIs

\* How many calls have been run, and what that depends on.
LEMMA RanSame ==
  ASSUME callssent' = callssent, inflight' = inflight,
         \A p, q \in Proc : Running(p, q)' = Running(p, q)
  PROVE  \A p, q \in Proc : Executed(p, q)' = Executed(p, q)
<1>1. \A p, q \in Proc : Executed(p, q) = callssent[p][q] - inflight[p][q] - Cardinality(Running(q, p))
  BY DEF Executed, Running
<1>2. \A p, q \in Proc :
        Executed(p, q)' = callssent'[p][q] - inflight'[p][q] - Cardinality(Running(q, p)')
  BY DEF Executed, Running
<1> QED BY <1>1, <1>2

LEMMA SettledSame ==
  ASSUME callssent' = callssent, inflight' = inflight,
         \A p, q \in Proc : Busy(p, q)' = Busy(p, q)
  PROVE  \A p, q \in Proc : Settled(p, q)' = Settled(p, q)
<1>1. \A p, q \in Proc : Settled(p, q) = callssent[p][q] - inflight[p][q] - Cardinality(Busy(q, p))
  BY DEF Settled, Busy
<1>2. \A p, q \in Proc :
        Settled(p, q)' = callssent'[p][q] - inflight'[p][q] - Cardinality(Busy(q, p)')
  BY DEF Settled, Busy
<1> QED BY <1>1, <1>2

LEMMA LeftSame ==
  ASSUME round' = round, \A p \in Proc : pc'[p] = "run" <=> pc[p] = "run"
  PROVE  \A p \in Proc : Left(p)' = Left(p) BY DEF Left

LEMMA Stutters ==
  ASSUME round' = round, callssent' = callssent, late' = late,
         \A p \in Proc : Left(p)' = Left(p),
         \A p, q \in Proc : Executed(p, q)' = Executed(p, q) /\ Settled(p, q)' = Settled(p, q)
  PROVE  UNCHANGED CB!vars
<1>1. [p \in Proc |-> Left(p)]' = [p \in Proc |-> Left(p)] OBVIOUS
<1>2. [p \in Proc |-> [q \in Proc |-> Executed(p, q)]]' = [p \in Proc |-> [q \in Proc |-> Executed(p, q)]]
  OBVIOUS
<1>3. [p \in Proc |-> [q \in Proc |-> Settled(p, q)]]' = [p \in Proc |-> [q \in Proc |-> Settled(p, q)]]
  OBVIOUS
<1> QED BY <1>1, <1>2, <1>3 DEF CB!vars

\* The handlers that run a call after one of them has done a step.
LEMMA RunningMoves ==
  ASSUME NEW p \in Proc, NEW h \in Handlers, NEW s, handler'[p][h] = s,
         \A y \in Proc, g \in Handlers : y # p \/ g # h => handler'[y][g] = handler[y][g],
         NEW x \in Proc, NEW q \in Proc
  PROVE  Running(x, q)' = IF x # p THEN Running(x, q)
                          ELSE IF s.at = "running" /\ s.from = q THEN Running(x, q) \cup {h}
                          ELSE Running(x, q) \ {h}
<1>1. handler'[p][h] = s /\ \A y \in Proc, g \in Handlers : y # p \/ g # h => handler'[y][g] = handler[y][g]
  OBVIOUS
<1>2. \A g \in Handlers : g \in Running(x, q)' <=> handler'[x][g].at = "running" /\ handler'[x][g].from = q
  BY DEF Running, HandlerAt
<1>3. \A g \in Handlers : g \in Running(x, q) <=> handler[x][g].at = "running" /\ handler[x][g].from = q
  BY DEF Running, HandlerAt
<1>4. Running(x, q)' \subseteq Handlers /\ Running(x, q) \subseteq Handlers BY DEF Running
<1>5. CASE x # p
  <2>1. \A g \in Handlers : handler'[x][g] = handler[x][g] BY <1>1, <1>5
  <2>2. \A g \in Handlers : g \in Running(x, q)' <=> g \in Running(x, q) BY <1>2, <1>3, <2>1
  <2>3. Running(x, q)' = Running(x, q) BY <1>4, <2>2
  <2> QED BY <1>5, <2>3
<1>6. CASE x = p /\ s.at = "running" /\ s.from = q BY <1>1, <1>2, <1>3, <1>4, <1>6
<1>7. CASE x = p /\ ~(s.at = "running" /\ s.from = q) BY <1>1, <1>2, <1>3, <1>4, <1>7
<1> QED BY <1>5, <1>6, <1>7

\* Those that run a call or count one.
LEMMA BusyMoves ==
  ASSUME NEW p \in Proc, NEW h \in Handlers, NEW s, handler'[p][h] = s,
         \A y \in Proc, g \in Handlers : y # p \/ g # h => handler'[y][g] = handler[y][g],
         NEW x \in Proc, NEW q \in Proc
  PROVE  Busy(x, q)' = IF x # p THEN Busy(x, q)
                       ELSE IF s.at # "idle" /\ s.from = q THEN Busy(x, q) \cup {h}
                       ELSE Busy(x, q) \ {h}
<1>1. handler'[p][h] = s /\ \A y \in Proc, g \in Handlers : y # p \/ g # h => handler'[y][g] = handler[y][g]
  OBVIOUS
<1>2. \A g \in Handlers : g \in Busy(x, q)' <=> handler'[x][g].at # "idle" /\ handler'[x][g].from = q
  BY DEF Busy, HandlerAt
<1>3. \A g \in Handlers : g \in Busy(x, q) <=> handler[x][g].at # "idle" /\ handler[x][g].from = q
  BY DEF Busy, HandlerAt
<1>4. Busy(x, q)' \subseteq Handlers /\ Busy(x, q) \subseteq Handlers BY DEF Busy
<1>5. CASE x # p
  <2>1. \A g \in Handlers : handler'[x][g] = handler[x][g] BY <1>1, <1>5
  <2>2. \A g \in Handlers : g \in Busy(x, q)' <=> g \in Busy(x, q) BY <1>2, <1>3, <2>1
  <2>3. Busy(x, q)' = Busy(x, q) BY <1>4, <2>2
  <2> QED BY <1>5, <2>3
<1>6. CASE x = p /\ s.at # "idle" /\ s.from = q BY <1>1, <1>2, <1>3, <1>4, <1>6
<1>7. CASE x = p /\ ~(s.at # "idle" /\ s.from = q) BY <1>1, <1>2, <1>3, <1>4, <1>7
<1> QED BY <1>5, <1>6, <1>7

LEMMA HandlerMaps ==
  ASSUME Typed, NEW p \in Proc, NEW h \in Handlers, HandlerStep(p, h)
  PROVE  CB!Next \/ UNCHANGED CB!vars
<1>1. PICK s \in HandlerState : handler' = [handler EXCEPT ![p][h] = s] BY HandlerMoves
<1>2. /\ handler'[p][h] = s
      /\ \A y \in Proc, g \in Handlers : y # p \/ g # h => handler'[y][g] = handler[y][g]
  BY ZenonT(40), <1>1, HandlerChanges
<1>3. ASSUME NEW x \in Proc, NEW q \in Proc
      PROVE  Running(x, q)' = IF x # p THEN Running(x, q)
                              ELSE IF s.at = "running" /\ s.from = q THEN Running(x, q) \cup {h}
                              ELSE Running(x, q) \ {h} BY <1>2, RunningMoves
<1>9. ASSUME NEW x \in Proc, NEW q \in Proc
      PROVE  Busy(x, q)' = IF x # p THEN Busy(x, q)
                           ELSE IF s.at # "idle" /\ s.from = q THEN Busy(x, q) \cup {h}
                           ELSE Busy(x, q) \ {h} BY <1>2, BusyMoves
<1>4. round' = round /\ callssent' = callssent /\ late' = late
  BY DEF HandlerStep, ReceiveCall, CallReturns, IncCallsReceived, LookAgain, Compare, SetBit,
     DecIncomplete, call_vars
<1>5. \A x \in Proc : Left(x)' = Left(x) BY PcMoves, <1>4, LeftSame
<1>6. CASE ReceiveCall(p, h)
  <2>1. PICK q \in Proc :
          /\ handler[p][h].at = "idle" /\ inflight[q][p] > 0
          /\ inflight' = [inflight EXCEPT ![q][p] = @ - 1]
          /\ handler' = [handler EXCEPT ![p][h] = [at |-> "running", from |-> q, t |-> 0]]
    BY <1>6 DEF ReceiveCall, HandlerAt
  <2>2. s.at = "running" /\ s.from = q BY <1>2, <2>1 DEF Typed
  <2>3. \A x, y \in Proc : x # p \/ y # q => Running(x, y)' = Running(x, y)
    BY <2>1, <1>3, <2>2 DEF Running, HandlerAt
  <2>4. Cardinality(Running(p, q)') = Cardinality(Running(p, q)) + 1
    <3>1. h \notin Running(p, q) /\ Running(p, q) \in SUBSET Handlers BY <2>1 DEF Running, HandlerAt
    <3>2. Running(p, q)' = Running(p, q) \cup {h} BY <1>3, <2>2
    <3> QED BY <3>1, <3>2, HandlerSets
  <2>5. /\ inflight'[q][p] = inflight[q][p] - 1
        /\ \A x, y \in Proc : x # q \/ y # p => inflight'[x][y] = inflight[x][y]
    <3>1. inflight \in [Proc -> [Proc -> Nat]] BY DEF Typed, Counts
    <3>2. inflight[q][p] - 1 \in Nat BY <2>1, <3>1
    <3>3. PICK n \in Nat : n = inflight[q][p] - 1 BY <3>2
    <3>4. inflight' = [inflight EXCEPT ![q][p] = n] BY <2>1, <3>1, <3>3
    <3>5. /\ inflight'[q][p] = n
          /\ \A x, y \in Proc : x # q \/ y # p => inflight'[x][y] = inflight[x][y] BY <3>1, <3>4, Update
    <3> QED BY <3>3, <3>5
  <2>6. ASSUME NEW x \in Proc, NEW y \in Proc PROVE Executed(x, y)' = Executed(x, y)
    <3>1. Executed(x, y)' = callssent[x][y] - inflight'[x][y] - Cardinality(Running(y, x)')
      BY <1>4 DEF Executed, Running
    <3>2. /\ Executed(x, y) = callssent[x][y] - inflight[x][y] - Cardinality(Running(y, x))
          /\ callssent[x][y] \in Nat /\ inflight[x][y] \in Nat /\ Cardinality(Running(y, x)) \in Nat
      BY ExecutedIs
    <3>3. CASE x = q /\ y = p
      <4>1. Executed(x, y)' = callssent[x][y] - (inflight[x][y] - 1) - (Cardinality(Running(y, x)) + 1)
        BY <2>4, <2>5, <3>1, <3>3
      <4> QED BY <3>2, <4>1
    <3>4. CASE x # q \/ y # p BY <2>3, <2>5, <3>1, <3>2, <3>4
    <3> QED BY <3>3, <3>4
  <2>7. ASSUME NEW x \in Proc, NEW y \in Proc PROVE Settled(x, y)' = Settled(x, y)
    <3>1. Settled(x, y)' = callssent[x][y] - inflight'[x][y] - Cardinality(Busy(y, x)')
      BY <1>4 DEF Settled, Busy
    <3>2. /\ Settled(x, y) = callssent[x][y] - inflight[x][y] - Cardinality(Busy(y, x))
          /\ callssent[x][y] \in Nat /\ inflight[x][y] \in Nat /\ Cardinality(Busy(y, x)) \in Nat
      BY SettledIs, ExecutedIs
    <3>3. CASE x = q /\ y = p
      <4>1. h \notin Busy(p, q) /\ Busy(p, q) \in SUBSET Handlers BY <2>1 DEF Busy, HandlerAt
      <4>2. Busy(p, q)' = Busy(p, q) \cup {h} BY <1>9, <2>2
      <4>3. Cardinality(Busy(p, q)') = Cardinality(Busy(p, q)) + 1 BY <4>1, <4>2, HandlerSets
      <4>4. Settled(x, y)' = callssent[x][y] - (inflight[x][y] - 1) - (Cardinality(Busy(y, x)) + 1)
        BY <2>5, <3>1, <3>3, <4>3
      <4> QED BY <3>2, <4>4
    <3>4. CASE x # q \/ y # p
      <4>1. Busy(y, x)' = Busy(y, x) BY <1>9, <2>1, <2>2, <3>4 DEF Busy, HandlerAt
      <4> QED BY <2>5, <3>1, <3>2, <3>4, <4>1
    <3> QED BY <3>3, <3>4
  <2> QED BY <1>4, <1>5, <2>6, <2>7, Stutters
<1>7. CASE CallReturns(p, h)
  <2>1. PICK q \in Proc : q = handler[p][h].from BY DEF Typed, HandlerState
  <2>2. /\ h \in Running(p, q) /\ inflight' = inflight
        /\ \E label \in {"inc", "inc in effect"} : HandlerGoto(p, h, label)
    BY <1>7, <2>1 DEF CallReturns, Running, HandlerAt, call_vars
  <2>3. s.at # "running" BY ZenonT(120), <1>2, <2>2, Goes
  <2>4. \A x, y \in Proc : x # p \/ y # q => Running(x, y)' = Running(x, y)
    BY <2>1, <1>3, <2>3 DEF Running
  <2>5. Cardinality(Running(p, q)') = Cardinality(Running(p, q)) - 1
    <3>1. Running(p, q) \in SUBSET Handlers BY DEF Running
    <3>2. Running(p, q)' = Running(p, q) \ {h} BY <1>3, <2>3
    <3> QED BY <2>2, <3>1, <3>2, HandlerSets
  <2>6. \A x, y \in Proc :
          /\ Executed(x, y)' = callssent[x][y] - inflight[x][y] - Cardinality(Running(y, x)')
          /\ Executed(x, y) = callssent[x][y] - inflight[x][y] - Cardinality(Running(y, x))
          /\ callssent[x][y] \in Nat /\ inflight[x][y] \in Nat /\ Cardinality(Running(y, x)) \in Nat
    BY <1>4, <2>2, ExecutedIs DEF Executed, Running
  <2>7. Executed(q, p)' = Executed(q, p) + 1 /\ Executed(q, p) < callssent[q][p]
    <3>1. Cardinality(Running(p, q)) # 0 BY <2>2, HandlerSets DEF Running
    <3>2. Executed(q, p)' = callssent[q][p] - inflight[q][p] - (Cardinality(Running(p, q)) - 1)
      BY <2>5, <2>6
    <3>3. /\ callssent[q][p] \in Nat /\ inflight[q][p] \in Nat /\ Cardinality(Running(p, q)) \in Nat
          /\ Executed(q, p) = callssent[q][p] - inflight[q][p] - Cardinality(Running(p, q)) BY <2>6
    <3> QED BY <3>1, <3>2, <3>3
  <2>8. \A x, y \in Proc : x # q \/ y # p => Executed(x, y)' = Executed(x, y) BY <2>4, <2>6
  <2>10. \A x, y \in Proc : Settled(x, y)' = Settled(x, y)
    <3>1. s.at # "idle" /\ s.from = q BY ZenonT(120), <1>2, <2>1, <2>2, Goes
    <3>2. \A x, y \in Proc : Busy(x, y)' = Busy(x, y)
      <4>1. h \in Busy(p, q) BY <2>2 DEF Busy, Running, HandlerAt
      <4>2. \A y \in Proc : y # q => h \notin Busy(p, y) BY <2>1 DEF Busy
      <4> QED BY <1>9, <3>1, <4>1, <4>2
    <3> QED BY <1>4, <2>2, <3>2, SettledSame
  <2>9. CB!Execute(q, p)
    <3> DEFINE ran == [x \in Proc |-> [y \in Proc |-> Executed(x, y)]]
               Ran == [x \in Proc |-> [y \in Proc |-> Executed(x, y)']]
    <3>1. ran[q][p] < callssent[q][p] BY <2>7
    <3>2. Ran = [ran EXCEPT ![q][p] = @ + 1] BY <2>7, <2>8
    <3>3. [x \in Proc |-> Left(x)]' = [x \in Proc |-> Left(x)] BY <1>5
    <3>4. [x \in Proc |-> [y \in Proc |-> Settled(x, y)]]' = [x \in Proc |-> [y \in Proc |-> Settled(x, y)]]
      BY <2>10
    <3> QED BY <1>4, <3>1, <3>2, <3>3, <3>4 DEF CB!Execute
  <2> QED BY <2>9 DEF CB!Next
<1>8. CASE ~ReceiveCall(p, h) /\ ~CallReturns(p, h)
  <2>1. inflight' = inflight
    BY <1>8 DEF HandlerStep, IncCallsReceived, LookAgain, Compare, SetBit, DecIncomplete, call_vars
  <2>2. handler[p][h].at # "running"
    BY <1>8 DEF HandlerStep, IncCallsReceived, LookAgain, Compare, SetBit, DecIncomplete, HandlerAt
  <2>3. s.at # "running"
    <3>1. CASE IncCallsReceived(p, h) BY ZenonT(60), <3>1, <1>2 DEF Typed, IncCallsReceived, HandlerState
    <3>2. CASE ~IncCallsReceived(p, h)
      <4>1. \E label \in {"compare", "idle", "set bit", "dec"} : HandlerGoto(p, h, label)
        BY <1>8, <3>2 DEF HandlerStep, LookAgain, Compare, SetBit, DecIncomplete
      <4> QED BY ZenonT(40), <1>2, <4>1, Goes
    <3> QED BY <3>1, <3>2
  <2>4. \A x, y \in Proc : Running(x, y)' = Running(x, y) BY <2>2, <1>3, <2>3 DEF Running, HandlerAt
  <2>5. \A x, y \in Proc : Executed(x, y)' = Executed(x, y) BY <1>4, <2>1, <2>4, RanSame
  <2>6. PICK q \in Proc : q = handler[p][h].from BY DEF Typed, HandlerState
  <2>7. s.from = q /\ handler[p][h].at # "idle"
    <3>1. CASE IncCallsReceived(p, h) BY ZenonT(60), <3>1, <1>2, <2>6 DEF Typed, IncCallsReceived, HandlerState
    <3>2. CASE ~IncCallsReceived(p, h)
      <4>1. /\ \E label \in {"compare", "idle", "set bit", "dec"} : HandlerGoto(p, h, label)
            /\ handler[p][h].at # "idle"
        BY <1>8, <3>2 DEF HandlerStep, LookAgain, Compare, SetBit, DecIncomplete, HandlerAt
      <4> QED BY ZenonT(40), <1>2, <2>6, <4>1, Goes
    <3> QED BY <3>1, <3>2
  <2>8. h \in Busy(p, q) BY <2>6, <2>7 DEF Busy, HandlerAt
  <2>9. CASE s.at # "idle"
    <3>1. \A x, y \in Proc : Busy(x, y)' = Busy(x, y) BY <1>9, <2>6, <2>7, <2>8, <2>9 DEF Busy
    <3>2. \A x, y \in Proc : Settled(x, y)' = Settled(x, y) BY <1>4, <2>1, <3>1, SettledSame
    <3> QED BY <1>4, <1>5, <2>5, <3>2, Stutters
  <2>10. CASE s.at = "idle"
    <3>1. Busy(p, q)' = Busy(p, q) \ {h} BY <1>9, <2>10
    <3>2. \A x, y \in Proc : x # p \/ y # q => Busy(x, y)' = Busy(x, y)
      BY <1>9, <2>6, <2>10 DEF Busy
    <3>3. \A x, y \in Proc :
            /\ Settled(x, y)' = callssent[x][y] - inflight[x][y] - Cardinality(Busy(y, x)')
            /\ Settled(x, y) = callssent[x][y] - inflight[x][y] - Cardinality(Busy(y, x))
            /\ callssent[x][y] \in Nat /\ inflight[x][y] \in Nat /\ Cardinality(Busy(y, x)) \in Nat
      BY <1>4, <2>1, SettledIs, ExecutedIs DEF Settled, Busy
    <3>4. Cardinality(Busy(p, q)') = Cardinality(Busy(p, q)) - 1
      BY <2>8, <3>1, HandlerSets DEF Busy
    <3>5. Settled(q, p)' = callssent[q][p] - inflight[q][p] - (Cardinality(Busy(p, q)) - 1)
      BY <3>3, <3>4
    <3>6. Settled(q, p)' = Settled(q, p) + 1 BY <3>3, <3>5
    <3>7. \A x, y \in Proc : x # q \/ y # p => Settled(x, y)' = Settled(x, y) BY <3>2, <3>3
    <3>8. Settled(q, p) < Executed(q, p) BY <2>2, <2>6, <2>7, Unsettled DEF HandlerAt
    <3>9. CB!Settle(q, p)
      <4> DEFINE done == [x \in Proc |-> [y \in Proc |-> Settled(x, y)]]
                 Done == [x \in Proc |-> [y \in Proc |-> Settled(x, y)']]
                 ran == [x \in Proc |-> [y \in Proc |-> Executed(x, y)]]
      <4>1. done[q][p] < ran[q][p] BY <3>8
      <4>2. Done = [done EXCEPT ![q][p] = @ + 1] BY <3>6, <3>7
      <4>3. [x \in Proc |-> Left(x)]' = [x \in Proc |-> Left(x)] BY <1>5
      <4>4. ran' = ran BY <2>5
      <4> QED BY <1>4, <4>1, <4>2, <4>3, <4>4 DEF CB!Settle
    <3> QED BY <3>9 DEF CB!Next
  <2> QED BY <2>9, <2>10
<1> QED BY <1>6, <1>7, <1>8

LEMMA ExecutedSame ==
  ASSUME callssent' = callssent, inflight' = inflight, handler' = handler
  PROVE  \A p, q \in Proc : Executed(p, q)' = Executed(p, q) /\ Settled(p, q)' = Settled(p, q)
<1>1. \A p, q \in Proc : Running(p, q)' = Running(p, q) BY DEF Running, HandlerAt
<1>2. \A p, q \in Proc : Busy(p, q)' = Busy(p, q) BY DEF Busy, HandlerAt
<1> QED BY <1>1, <1>2, RanSame, SettledSame

LEMMA EnterMaps ==
  ASSUME Typed, NEW p \in Proc, BeginFullBarrier(p)
  PROVE  CB!Enter(p)
<1>1. /\ pc[p] = "run" /\ pc' = [pc EXCEPT ![p] = "gather"]
      /\ round' = [round EXCEPT ![p] = @ + 1]
      /\ late' = [late EXCEPT ![p] = CountedLate(p)]
      /\ callssent' = callssent /\ inflight' = inflight /\ handler' = handler
  BY DEF BeginFullBarrier, Goto, call_vars
<1>2. round \in [Proc -> Nat] /\ pc \in [Proc -> MainLabels] BY ConstantsAssumption DEF Typed
<1>3. ASSUME NEW x \in Proc PROVE Left(x)' = Left(x)
  <2>1. CASE x = p
    <3>1. pc'[p] = "gather" /\ round'[p] = round[p] + 1 /\ round[p] \in Nat BY <1>1, <1>2
    <3>2. Left(p)' = round'[p] - 1 /\ Left(p) = round[p] BY <1>1, <3>1 DEF Left
    <3>3. Left(p)' = Left(p) BY <3>1, <3>2
    <3> QED BY <2>1, <3>3
  <2>2. CASE x # p BY <1>1, <1>2, <2>2 DEF Left
  <2> QED BY <2>1, <2>2
<1>4. [x \in Proc |-> Left(x)]' = [x \in Proc |-> Left(x)] BY <1>3
<1>5. [x \in Proc |-> [q \in Proc |-> Executed(x, q)]]' = [x \in Proc |-> [q \in Proc |-> Executed(x, q)]]
  BY <1>1, ExecutedSame
<1>6. ~([x \in Proc |-> Left(x)][p] < round[p]) BY <1>1, <1>2 DEF Left
<1>7. [x \in Proc |-> [q \in Proc |-> Settled(x, q)]]' = [x \in Proc |-> [q \in Proc |-> Settled(x, q)]]
  BY <1>1, ExecutedSame
<1>8. CountedLate(p) \in SUBSET CB!Unsettled(p)
  <2>1. \A q \in CountedLate(p) : q \in Proc /\ Settled(q, p) < Executed(q, p)
    BY Unsettled DEF CountedLate, Alerted, HandlerAt
  <2> QED BY <2>1 DEF CB!Unsettled
<1> QED BY <1>1, <1>4, <1>5, <1>6, <1>7, <1>8 DEF CB!Enter, CB!Inside

LEMMA IssueMaps ==
  ASSUME Typed, NEW p \in Proc, NEW q \in Proc, RemoteCall(p, q)
  PROVE  CB!Issue(p, q)
<1>1. /\ pc[p] = "run" /\ pc' = pc /\ round' = round /\ handler' = handler /\ late' = late
      /\ callssent' = [callssent EXCEPT ![p][q] = @ + 1]
      /\ inflight' = [inflight EXCEPT ![p][q] = @ + 1] BY DEF RemoteCall
<1>2. round \in [Proc -> Nat] BY ConstantsAssumption DEF Typed
<1>3. [x \in Proc |-> Left(x)]' = [x \in Proc |-> Left(x)] BY <1>1, LeftSame
<1>4. ~([x \in Proc |-> Left(x)][p] < round[p]) BY <1>1, <1>2 DEF Left
<1>5. ASSUME NEW x \in Proc, NEW y \in Proc
      PROVE  Executed(x, y)' = Executed(x, y) /\ Settled(x, y)' = Settled(x, y)
  <2>0. callssent \in [Proc -> [Proc -> Nat]] /\ inflight \in [Proc -> [Proc -> Nat]]
    BY DEF Typed, Counts
  <2>1. PICK n \in Nat, m \in Nat : n = callssent[p][q] /\ m = inflight[p][q] BY <2>0
  <2>2. /\ callssent' = [callssent EXCEPT ![p][q] = n + 1] /\ n + 1 \in Nat
        /\ inflight' = [inflight EXCEPT ![p][q] = m + 1] /\ m + 1 \in Nat BY <1>1, <2>1
  <2>3. /\ callssent'[p][q] = n + 1
        /\ x # p \/ y # q => callssent'[x][y] = callssent[x][y] BY <2>0, <2>2, Update
  <2>4. /\ inflight'[p][q] = m + 1
        /\ x # p \/ y # q => inflight'[x][y] = inflight[x][y] BY <2>0, <2>2, Update
  <2>5. callssent'[x][y] - inflight'[x][y] = callssent[x][y] - inflight[x][y]
    <3>1. CASE x = p /\ y = q
      <4>1. (n + 1) - (m + 1) = n - m OBVIOUS
      <4> QED BY <2>1, <2>3, <2>4, <3>1, <4>1
    <3>2. CASE x # p \/ y # q BY <2>3, <2>4, <3>2
    <3> QED BY <3>1, <3>2
  <2>6. Running(y, x)' = Running(y, x) /\ Busy(y, x)' = Busy(y, x)
    BY <1>1 DEF Running, Busy, HandlerAt
  <2>7. /\ Executed(x, y)' = callssent'[x][y] - inflight'[x][y] - Cardinality(Running(y, x))
        /\ Settled(x, y)' = callssent'[x][y] - inflight'[x][y] - Cardinality(Busy(y, x))
    BY <2>6 DEF Executed, Running, Settled, Busy
  <2> QED BY <2>5, <2>7, ExecutedIs, SettledIs
<1>6. /\ [x \in Proc |-> [y \in Proc |-> Executed(x, y)]]' = [x \in Proc |-> [y \in Proc |-> Executed(x, y)]]
      /\ [x \in Proc |-> [y \in Proc |-> Settled(x, y)]]' = [x \in Proc |-> [y \in Proc |-> Settled(x, y)]]
  BY <1>5
<1> QED BY <1>1, <1>3, <1>4, <1>6 DEF CB!Issue, CB!Inside

\* A machine that leaves finds everybody in the barrier, and the first one to leave
\* finds all calls run, but for those that a machine may have missed.
Leaving(p) == pc[p] = "barrier wait" /\ Released("bar", p)

LEMMA LeaverFinds ==
  ASSUME Inductive, NEW p \in Proc, Leaving(p)
  PROVE  /\ \A q \in Proc : round[q] >= round[p]
         /\ (\A q \in Proc : Left(q) < round[p]) =>
              \A y \in Proc : \A x \in Proc \ late[y] : Executed(x, y) = callssent[x][y]
<1>0. "bar" \in Tree BY DEF Tree
<1>1. Typed /\ TreeInv /\ Told /\ CallsConserved /\ MineIsSent /\ CompletedUnlessLate
  BY WaitsComplete DEF Inductive
<1>2. Freed("bar", p) = round[p] BY DEF Freed, Entered, Leaving
<1>3. ASSUME NEW q \in Proc
      PROVE  round[p] \in Nat /\ round[q] \in Nat /\ Entered("bar", q) \in Int
             /\ Entered("bar", q) >= round[p] /\ round[q] >= Entered("bar", q)
  <2>1. round[p] \in Nat /\ round[q] \in Nat /\ Entered("bar", q) \in Int BY <1>1, TwoTrees
  <2>2. Freed("bar", p) <= Entered("bar", q) BY <1>0, <1>1, FreedByRoot
  <2>3. Entered("bar", q) <= Entered("ab", q) /\ Entered("ab", q) <= round[q] /\ Entered("ab", q) \in Int
    BY <1>1, TwoTrees
  <2>4. PICK e \in Int, a \in Int : e = Entered("bar", q) /\ a = Entered("ab", q) BY <2>1, <2>3
  <2>5. round[p] <= e /\ e <= a /\ a <= round[q] BY <1>2, <2>2, <2>3, <2>4
  <2>6. e >= round[p] /\ round[q] >= e BY <2>1, <2>5
  <2> QED BY <2>1, <2>4, <2>6
<1>4. ASSUME \A q \in Proc : Left(q) < round[p], NEW y \in Proc, NEW x \in Proc \ late[y]
      PROVE  Executed(x, y) = callssent[x][y]
  <2>1. ASSUME NEW q \in Proc PROVE pc[q] = "barrier wait" /\ round[q] = round[p]
    <3>1. Left(q) < round[p] BY <1>4
    <3>2. PICK r \in Nat, k \in Nat, e \in Int :
            /\ r = round[q] /\ k = round[p] /\ e = Entered("bar", q) /\ e >= k /\ r >= e BY <1>3
    <3>3. pc[q] # "run"
      <4>1. pc[q] = "run" => Left(q) = r BY <3>2 DEF Left
      <4>2. Left(q) # r BY <3>1, <3>2
      <4> QED BY <4>1, <4>2
    <3>4. Left(q) = r - 1 BY <3>2, <3>3 DEF Left
    <3>7. r - 1 < k /\ e >= k /\ r >= e BY <3>1, <3>2, <3>4
    <3>5. pc[q] = "barrier wait"
      <4>1. pc[q] # "barrier wait" => e = r - 1 BY <1>1, <3>2, <3>3, TwoTrees
      <4>2. e # r - 1 BY <3>7
      <4> QED BY <4>1, <4>2
    <3>6. r = k BY <3>7
    <3> QED BY <3>2, <3>5, <3>6
  <2>2. mine[x] = callssent[x] BY <1>1, <2>1 DEF MineIsSent
  <2>3. calls_to_receive[y][x] = mine[x][y] BY <1>1, <2>1 DEF Told, Informed
  <2>4. Executed(x, y) >= calls_to_receive[y][x] BY <1>1, <2>1 DEF CompletedUnlessLate
  <2>5. Executed(x, y) <= callssent[x][y] /\ Executed(x, y) \in Int BY <1>1, ExecutedAtLeast
  <2>6. callssent[x][y] \in Nat BY <1>1, ExecutedIs
  <2>7. Executed(x, y) >= callssent[x][y] BY <2>2, <2>3, <2>4
  <2>8. PICK i \in Int, k \in Nat : i = Executed(x, y) /\ k = callssent[x][y] BY <2>5, <2>6
  <2>9. i <= k /\ i >= k BY <2>5, <2>7, <2>8
  <2>10. i = k BY <2>9
  <2> QED BY <2>8, <2>10
<1>5. \A q \in Proc : round[q] >= round[p] BY <1>3
<1> QED BY <1>4, <1>5

LEMMA LeaveMaps ==
  ASSUME Inductive, NEW p \in Proc, Return(p)
  PROVE  CB!Leave(p)
<1>1. /\ pc[p] = "barrier wait" /\ Released("bar", p) /\ pc' = [pc EXCEPT ![p] = "run"]
      /\ round' = round /\ callssent' = callssent /\ inflight' = inflight /\ handler' = handler
      /\ late' = late
  BY DEF Return, Goto, call_vars
<1>2. round \in [Proc -> Nat] /\ pc \in [Proc -> MainLabels] /\ Typed
  BY ConstantsAssumption DEF Typed, Inductive
<1> DEFINE left == [x \in Proc |-> Left(x)]
           ran == [x \in Proc |-> [y \in Proc |-> Executed(x, y)]]
<1>3. Left(p) = round[p] - 1 /\ Left(p)' = round[p] /\ round[p] \in Nat BY <1>1, <1>2 DEF Left
<1>4. left[p] < round[p] BY <1>3
<1>5. \A q \in Proc : round[q] >= round[p] BY <1>1, LeaverFinds DEF Leaving
<1>6. (\A q \in Proc : left[q] < round[p]) =>
        \A y \in Proc : \A x \in Proc \ late[y] : ran[x][y] = callssent[x][y]
  <2> SUFFICES ASSUME \A q \in Proc : left[q] < round[p]
               PROVE  \A y \in Proc : \A x \in Proc \ late[y] : ran[x][y] = callssent[x][y] OBVIOUS
  <2>1. \A q \in Proc : Left(q) < round[p] OBVIOUS
  <2>2. \A y \in Proc : \A x \in Proc \ late[y] : Executed(x, y) = callssent[x][y]
    BY <1>1, <2>1, LeaverFinds DEF Leaving
  <2> QED BY <2>2
<1>7. left' = [left EXCEPT ![p] = @ + 1]
  <2>1. \A x \in Proc : x # p => Left(x)' = Left(x) BY <1>1, <1>2 DEF Left
  <2>2. left[p] + 1 = Left(p)' BY <1>3
  <2>3. left' = [x \in Proc |-> IF x = p THEN left[p] + 1 ELSE Left(x)] BY <2>1, <2>2
  <2>4. [left EXCEPT ![p] = @ + 1] = [x \in Proc |-> IF x = p THEN left[p] + 1 ELSE Left(x)] OBVIOUS
  <2> QED BY <2>3, <2>4
<1>8. ran' = ran BY <1>1, ExecutedSame
<1>9. [x \in Proc |-> [y \in Proc |-> Settled(x, y)]]' = [x \in Proc |-> [y \in Proc |-> Settled(x, y)]]
  BY <1>1, ExecutedSame
<1> QED BY <1>1, <1>4, <1>5, <1>6, <1>7, <1>8, <1>9 DEF CB!Leave, CB!Inside

LEMMA StepMaps ==
  ASSUME Inductive, [Next]_vars
  PROVE  [CB!Next]_(CB!vars)
<1>0. Typed BY DEF Inductive
<1>1. ASSUME NEW p \in Proc, MainStep(p) PROVE [CB!Next]_(CB!vars)
  <2>1. CASE BeginFullBarrier(p) BY <1>0, <2>1, EnterMaps DEF CB!Next
  <2>2. CASE Return(p) BY <2>2, LeaveMaps DEF CB!Next
  <2>3. CASE ~BeginFullBarrier(p) /\ ~Return(p)
    <3>1. round' = round /\ callssent' = callssent /\ inflight' = inflight /\ handler' = handler /\ late' = late
      BY <1>1, <2>3 DEF MainStep, AllGather, ClearCallsToReceive, FillCallsToReceive,
         ResetIncomplete, ClearComplete, Activate, Pass, CheckIncomplete, Deactivate, Barrier, call_vars
    <3>2. pc[p] # "run" /\ pc'[p] # "run"
      BY <1>0, <1>1, <2>3 DEF Typed, MainStep, AllGather, ClearCallsToReceive, FillCallsToReceive,
         ResetIncomplete, ClearComplete, Activate, Pass, CheckIncomplete, Deactivate, Barrier, Goto
    <3>3. \A x \in Proc : pc'[x] = "run" <=> pc[x] = "run" BY <1>0, <1>1, <3>2, PcMoves
    <3> QED BY <3>1, <3>3, LeftSame, ExecutedSame, Stutters
  <2> QED BY <2>1, <2>2, <2>3
<1>2. ASSUME NEW p \in Proc, ControlStep(p) PROVE [CB!Next]_(CB!vars)
  <2>1. round' = round /\ callssent' = callssent /\ inflight' = inflight /\ handler' = handler /\ late' = late /\ pc' = pc
    BY <1>2 DEF ControlStep, ChildToParentBarrierTrigger, ForwardRelease, TakeRelease, call_vars
  <2> QED BY <2>1, LeftSame, ExecutedSame, Stutters
<1>3. ASSUME NEW p \in Proc, NEW h \in Handlers, HandlerStep(p, h) PROVE [CB!Next]_(CB!vars)
  BY <1>0, <1>3, HandlerMaps
<1>4. ASSUME NEW p \in Proc, NEW q \in Proc, RemoteCall(p, q) PROVE [CB!Next]_(CB!vars)
  BY <1>0, <1>4, IssueMaps DEF CB!Next
<1>5. CASE UNCHANGED vars
  <2>1. round' = round /\ callssent' = callssent /\ inflight' = inflight /\ handler' = handler /\ late' = late /\ pc' = pc
    BY <1>5 DEF vars, call_vars
  <2> QED BY <2>1, LeftSame, ExecutedSame, Stutters
<1> QED BY <1>1, <1>2, <1>3, <1>4, <1>5 DEF Next, Terminated

LEMMA InitMaps == Init => CB!Init
<1> SUFFICES ASSUME Init PROVE CB!Init OBVIOUS
<1>1. \A p \in Proc : Left(p) = 0 BY DEF Init, Left
<1>2. \A p, q \in Proc : Executed(p, q) = 0 /\ Settled(p, q) = 0
  <2>1. \A p, q \in Proc : Running(p, q) = {} /\ Busy(p, q) = {}
    BY DEF Init, Running, Busy, HandlerAt, Idle
  <2>2. Cardinality({}) = 0 BY FS_EmptySet
  <2>3. \A p, q \in Proc :
          /\ Executed(p, q) = callssent[p][q] - inflight[p][q] - Cardinality(Running(q, p))
          /\ Settled(p, q) = callssent[p][q] - inflight[p][q] - Cardinality(Busy(q, p))
    BY DEF Executed, Running, Settled, Busy
  <2>4. \A p, q \in Proc : callssent[p][q] = 0 /\ inflight[p][q] = 0 BY DEF Init, NoCalls
  <2> QED BY SMTT(30), <2>1, <2>2, <2>3, <2>4
<1>3. [p \in Proc |-> Left(p)] = [p \in Proc |-> 0] BY <1>1
<1>4. /\ [p \in Proc |-> [q \in Proc |-> Executed(p, q)]] = [p \in Proc |-> [q \in Proc |-> 0]]
      /\ [p \in Proc |-> [q \in Proc |-> Settled(p, q)]] = [p \in Proc |-> [q \in Proc |-> 0]] BY <1>2
<1> QED BY <1>3, <1>4 DEF Init, NoCalls, CB!Init

\* full_barrier() is a call barrier: every step of the counters, the tree barriers and
\* the handlers is a step of CallBarrier or changes nothing it sees, and what a machine
\* leaves without is only what CallBarrier lets it miss.
THEOREM FullBarrierIsCallBarrier == Spec => ImplementsCallBarrier
<1>1. Inductive /\ [Next]_vars => [CB!Next]_(CB!vars) BY StepMaps
<1> QED BY <1>1, InitMaps, Invariance, PTL DEF Spec, ImplementsCallBarrier, CB!Spec
=============================================================================
