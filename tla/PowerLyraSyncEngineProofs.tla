--------------------- MODULE PowerLyraSyncEngineProofs ---------------------
(***************************************************************************)
(* Where vertex programs gather and scatter, every mirror holds the data   *)
(* of its master, for every graph, cut, number of machines and program,    *)
(* whether or not the machines agree about when to stop.                   *)
(*                                                                         *)
(* The barriers keep the machines within one phase of each other (InStep); *)
(* a machine leaves an exchange only when nobody has anything left to send *)
(* (Quiet); only masters are applied (Masters); so that an update is on    *)
(* its way only from a machine that applies to one that has not left that  *)
(* phase, and it carries the data of its master (Carried).                 *)
(*                                                                         *)
(* A replica applies or is updated once in an iteration (AppliedOnce), by  *)
(* one apply (OneAhead), and tells its neighbours when it scatters: until  *)
(* then their gather caches are exactly one apply behind (CachesBehind).   *)
(*                                                                         *)
(* The phases of all machines together are super-steps on the graph that   *)
(* is not cut: the bits say who is still to be visited (Due, Blank,        *)
(* Cleared), records come in the phase that sends them (Delivered), every  *)
(* replica with an edge to gather from is told to (Activated, Covered),    *)
(* and what the master has added up, what is on its way and what is still  *)
(* to be gathered make every contribution once (Summed, Fresh).            *)
(***************************************************************************)
EXTENDS PowerLyraSyncEngine, TLAPS

Phases == {"test", "clear", "exchange", "receive", "reduce", "gather", "apply",
           "scatter", "exit", "ended"}
Exchanging == {"exchange", "receive", "gather", "apply"}

Shape ==
  /\ phase \in [Machine -> Phases]
  /\ arrived \in [Machine -> BOOLEAN]
  /\ passed \in [Machine -> Nat]
  /\ DOMAIN data = Replica
  /\ todo \subseteq Replica
  /\ has_message \subseteq Replica
  /\ \A x \in message_exchange : x.vertex \in Vertex /\ x.to = Hash[x.vertex]
  /\ \A c \in signal_calls : c.vertex \in Vertex
  /\ \A x \in update_exchange : x.vertex \in Vertex /\ x.to \in Mirrors(x.vertex)

\* The phases that follow a barrier or a reduction.
After(p, q) ==
  \/ p = "clear" /\ q = "exchange"
  \/ p = "exchange" /\ q = "receive"
  \/ p = "receive" /\ q = "reduce"
  \/ p = "reduce" /\ q \in {"gather", "exit"}
  \/ p = "gather" /\ q = "apply"
  \/ p = "apply" /\ q = "scatter"
  \/ p = "scatter" /\ q \in {"test", "clear", "exit"}
  \/ p = "exit" /\ q = "ended"

\* Those of machines that have passed equally many.
Alike(p, q) ==
  \/ p = q
  \/ p \in {"test", "clear", "exit"} /\ q \in {"test", "clear", "exit"}
  \/ p \in {"gather", "exit"} /\ q \in {"gather", "exit"}

InStep ==
  /\ \A k \in Machine : phase[k] = "test" => ~arrived[k]
  /\ \A j, k \in Machine : passed[j] = passed[k] => Alike(phase[j], phase[k])
  /\ \A j, k \in Machine : passed[j] > passed[k] =>
       passed[j] = passed[k] + 1 /\ arrived[k] /\ After(phase[k], phase[j])

\* Whoever has arrived at the end of an exchange has seen everyone finish.
Quiet ==
  \A j, k \in Machine : arrived[k] /\ phase[k] \in Exchanging =>
    /\ passed[j] >= passed[k]
    /\ passed[j] = passed[k] => todo \cap On(j) = {}

\* Mirrors have no messages once they have been sent, and are not applied.
Masters ==
  /\ \A r \in active_superstep : IsMaster(r)
  /\ \A r \in has_message : /\ phase[r[1]] = "receive" => IsMaster(r)
                            /\ phase[r[1]] = "exchange" => IsMaster(r) \/ r \in todo
  /\ MastersOnly

\* An update is on its way from a machine that applies, to one that has not yet
\* left the phase, and is the last of its vertex.
Carried ==
  /\ \A x \in update_exchange :
       /\ phase[Hash[x.vertex]] = "apply"
       /\ \/ phase[x.to] = "apply" /\ ~arrived[x.to]
          \/ phase[x.to] = "gather" /\ arrived[x.to]
       /\ Master(x.vertex) \notin todo
       /\ x.data = data[Master(x.vertex)]
  /\ \A x, y \in update_exchange : x.to = y.to /\ x.vertex = y.vertex => x = y

\* A mirror is as its master, or is about to be.
Copied ==
  \A v \in Vertex : \A k \in Mirrors(v) :
    \/ data[<<k, v>>] = data[Master(v)]
    \/ \E x \in update_exchange : x.to = k /\ x.vertex = v

IInv == Shape /\ InStep /\ Quiet /\ Masters /\ Carried /\ Copied

-----------------------------------------------------------------------------
(* What the actions have in common.                                        *)

\* A machine leaves phase p for q, and waits there at once or not.
LeavesFor(k, p, q, w) ==
  Leave(k, p) /\ After(p, q) /\ Go(k, q, w) /\ (q \in Exchanging \cup {"test"} => ~w)

\* A machine has tested whether to go on.
Decides(k, q) == phase[k] = "test" /\ Go(k, q, TRUE) /\ UNCHANGED passed

\* Every step of the main loop is one of three.
LEMMA LoopSteps ==
  ASSUME NEW k \in Machine, MainLoop(k)
  PROVE  \/ \E p, q \in Phases, w \in BOOLEAN : LeavesFor(k, p, q, w)
         \/ \E q \in {"clear", "exit"} : Decides(k, q)
         \/ Arrive(k)
<1> USE DEF LeavesFor, After, Phases, Exchanging
<1>1. CASE NextIteration(k)  BY <1>1 DEF NextIteration, Decides
<1>2. CASE Quit(k)           BY <1>2 DEF Quit, Decides
<1>3. CASE StartExchange(k) BY <1>3 DEF StartExchange, Begin
<1>4. CASE StartReceive(k) BY <1>4 DEF StartReceive, Begin
<1>5. CASE Reduce(k) BY <1>5 DEF Reduce
<1>6. CASE StartGather(k) BY <1>6 DEF StartGather, Begin
<1>7. CASE StartApply(k) BY <1>7 DEF StartApply, Begin
<1>8. CASE StartScatter(k) BY <1>8 DEF StartScatter, Begin
<1>9. CASE EndIteration(k) BY <1>9 DEF EndIteration
<1>10. CASE End(k) BY <1>10 DEF End
<1>11. CASE Arrive(k)  BY <1>11
<1> QED BY <1>1, <1>2, <1>3, <1>4, <1>5, <1>6, <1>7, <1>8, <1>9, <1>10, <1>11 DEF MainLoop

\* Nothing but the main loop moves a machine on.
LEMMA OthersStay ==
  ASSUME \/ \E k \in Machine : Handle(k)
         \/ \E r \in todo : ExecuteVertex(r)
         \/ internal_signal_rpc
         \/ UNCHANGED vars
  PROVE  UNCHANGED step_vars
<1>1. ASSUME NEW k \in Machine, Handle(k) PROVE UNCHANGED step_vars
  BY <1>1 DEF Handle, RecvMessage, RecvActiv, RecvAccum, RecvUpdate, rpc_stop
<1>2. ASSUME NEW r \in todo, ExecuteVertex(r) PROVE UNCHANGED step_vars
  BY <1>2 DEF ExecuteVertex, ExchangeMessage, ReceiveMessage, ExecuteGather, ExecuteApply, ExecuteScatter
<1> QED BY <1>1, <1>2 DEF internal_signal_rpc, vars

-----------------------------------------------------------------------------
(* The machines keep together.                                             *)

\* A barrier lets a machine go one phase further.
LEMMA LeavingInStep ==
  ASSUME Shape, InStep, NEW k \in Machine, NEW p \in Phases, NEW q \in Phases,
         NEW w \in BOOLEAN, LeavesFor(k, p, q, w)
  PROVE  InStep'
<1>1. /\ phase[k] = p /\ arrived[k] /\ AllArrived(k) /\ After(p, q) /\ (q = "test" => ~w)
      /\ phase' = [phase EXCEPT ![k] = q]
      /\ arrived' = [arrived EXCEPT ![k] = w]
      /\ passed' = [passed EXCEPT ![k] = @ + 1] BY DEF LeavesFor, Leave, Go
<1>2. /\ phase'[k] = q /\ arrived'[k] = w /\ passed'[k] = passed[k] + 1
      /\ \A j \in Machine : j # k => /\ phase'[j] = phase[j]
                                     /\ arrived'[j] = arrived[j]
                                     /\ passed'[j] = passed[j]
      /\ \A j \in Machine : passed[j] \in Nat BY <1>1 DEF Shape
<1>3. \A j \in Machine : \/ passed[j] = passed[k] + 1 /\ After(p, phase[j])
                         \/ passed[j] = passed[k] /\ phase[j] = p /\ arrived[j]
  BY <1>1, <1>2 DEF AllArrived, InStep
<1>4. \A j \in Machine : phase'[j] = "test" => ~arrived'[j] BY <1>1, <1>2 DEF InStep
<1>5. \A s, t \in Phases : After(p, s) /\ After(p, t) => Alike(s, t) BY DEF After, Alike
<1>6. ASSUME NEW i \in Machine, NEW j \in Machine, passed'[i] = passed'[j]
      PROVE  Alike(phase'[i], phase'[j])
  <2>1. CASE i = k /\ j = k  BY <2>1 DEF Alike
  <2>2. CASE i = k /\ j # k
    <3>1. passed[j] = passed[k] + 1  BY <1>2, <1>6, <2>2
    <3>2. After(p, phase[j])  BY <1>2, <1>3, <3>1
    <3> QED BY <1>1, <1>2, <1>5, <2>2, <3>2 DEF Shape
  <2>3. CASE i # k /\ j = k
    <3>1. passed[i] = passed[k] + 1  BY <1>2, <1>6, <2>3
    <3>2. After(p, phase[i])  BY <1>2, <1>3, <3>1
    <3> QED BY <1>1, <1>2, <1>5, <2>3, <3>2 DEF Shape
  <2>4. CASE i # k /\ j # k  BY <1>2, <1>6, <2>4 DEF InStep
  <2> QED BY <2>1, <2>2, <2>3, <2>4
<1>7. ASSUME NEW i \in Machine, NEW j \in Machine, passed'[i] > passed'[j]
      PROVE  passed'[i] = passed'[j] + 1 /\ arrived'[j] /\ After(phase'[j], phase'[i])
  <2>1. CASE i = k /\ j # k
    <3>1. passed[j] = passed[k] /\ phase[j] = p /\ arrived[j]  BY <1>2, <1>3, <1>7, <2>1
    <3> QED BY <1>1, <1>2, <2>1, <3>1
  <2>2. CASE i # k /\ j = k  BY <1>2, <1>3, <1>7, <2>2
  <2>3. CASE i # k /\ j # k  BY <1>2, <1>7, <2>3 DEF InStep
  <2>4. CASE i = j  BY <1>2, <1>7, <2>4
  <2> QED BY <2>1, <2>2, <2>3, <2>4
<1> QED BY <1>4, <1>6, <1>7 DEF InStep

LEMMA StepsInStep ==
  ASSUME Shape, InStep, [Next]_vars
  PROVE  InStep'
<1>1. ASSUME NEW k \in Machine, NEW q \in {"clear", "exit"}, Decides(k, q)
      PROVE  InStep'
  <2>1. /\ phase[k] = "test" /\ ~arrived[k]
        /\ phase' = [phase EXCEPT ![k] = q] /\ arrived' = [arrived EXCEPT ![k] = TRUE]
        /\ passed' = passed BY <1>1 DEF Decides, Go, InStep
  <2>2. /\ phase'[k] = q /\ arrived'[k]
        /\ \A j \in Machine : j # k => phase'[j] = phase[j] /\ arrived'[j] = arrived[j]
        /\ \A j \in Machine : passed[j] \in Nat BY <2>1 DEF Shape
  <2>3. \A j \in Machine : ~ (passed[j] > passed[k])  BY <2>1 DEF InStep
  <2>4. \A j \in Machine : After(phase[j], "test") => After(phase[j], q) BY DEF After
  <2>5. \A j \in Machine : Alike(phase[j], "test") => Alike(phase[j], q) /\ Alike(q, phase[j])
    BY DEF Alike
  <2>6. \A i, j \in Machine : passed[i] = passed[j] => Alike(phase'[i], phase'[j])
    BY <2>1, <2>2, <2>5 DEF InStep, Alike
  <2>7. \A i, j \in Machine : passed[i] > passed[j] =>
          passed[i] = passed[j] + 1 /\ arrived'[j] /\ After(phase'[j], phase'[i])
    BY <2>1, <2>2, <2>3, <2>4 DEF InStep
  <2> QED BY <2>1, <2>2, <2>6, <2>7 DEF InStep
<1>2. ASSUME NEW k \in Machine, Arrive(k) PROVE InStep' BY <1>2 DEF Arrive, InStep, Shape
<1>3. ASSUME NEW k \in Machine, MainLoop(k) PROVE InStep' BY <1>1, <1>2, <1>3, LoopSteps, LeavingInStep
<1>4. CASE UNCHANGED step_vars  BY <1>4 DEF step_vars, InStep
<1> QED BY <1>3, <1>4, OthersStay DEF Next, step_vars, vars

-----------------------------------------------------------------------------
(* Shapes.                                                                 *)

LEMMA ReplicaFacts ==
  /\ \A r \in Replica : /\ r[1] \in Machine /\ r[2] \in Vertex /\ r = <<r[1], r[2]>>
                        /\ IsMaster(r) <=> r[1] = Hash[r[2]]
                        /\ IsMaster(r) \/ r[1] \in Mirrors(r[2])
  /\ \A v \in Vertex : /\ Hash[v] \in Machine /\ Master(v) \in Replica
                       /\ Master(v)[1] = Hash[v] /\ Master(v)[2] = v
  /\ \A v \in Vertex : \A k \in Mirrors(v) : k \in Machine /\ k # Hash[v] /\ <<k, v>> \in Replica
<1>1. Hash \in [Vertex -> Machine] /\ Edge \subseteq {e \in Vertex \X Vertex : e[1] # e[2]}
  BY EngineAssumption, EdgeAssumption
<1>2. \A v \in Vertex : Machines(v) \subseteq Machine BY <1>1 DEF Machines, Place, Along
<1>3. Replica \subseteq Machine \X Vertex BY DEF Replica
<1> QED BY <1>1, <1>2, <1>3 DEF Replica, Master, IsMaster, Mirrors, Machines

\* Only the main loop gives machines something to visit, each to itself.
LEMMA LoopTodo ==
  ASSUME NEW k \in Machine, MainLoop(k)
  PROVE  \E R \in SUBSET On(k) : todo' = todo \cup R
<1>1. ASSUME UNCHANGED todo PROVE \E R \in SUBSET On(k) : todo' = todo \cup R
  <2>1. todo' = todo \cup {} /\ {} \in SUBSET On(k)  BY <1>1
  <2> QED BY <2>1
<1>2. ASSUME NEW p, NEW bits, Begin(k, p, bits)
      PROVE  \E R \in SUBSET On(k) : todo' = todo \cup R BY <1>2 DEF Begin
<1> QED BY <1>1, <1>2
        DEF MainLoop, NextIteration, Quit, StartExchange, StartReceive, Reduce, StartGather,
            StartApply, StartScatter, EndIteration, End, Arrive

\* A call may give its master something to visit, as long as no machine has flushed.
LEMMA CallTodo ==
  ASSUME Shape, internal_signal_rpc
  PROVE  \E q \in Replica :
           /\ IsMaster(q) /\ q[1] \in Machine
           /\ \/ todo' = todo
              \/ /\ todo' = todo \cup {q} /\ phase[q[1]] = "receive"
                 /\ \A j \in Machine : phase[j] = "receive" => ~arrived[j]
<1>1. PICK c \in signal_calls : todo' \in SeenLate(Master(c.vertex)) BY DEF internal_signal_rpc
<1>2. /\ Master(c.vertex) \in Replica /\ IsMaster(Master(c.vertex))
      /\ Master(c.vertex)[1] \in Machine BY <1>1, ReplicaFacts DEF Shape, IsMaster
<1> QED BY <1>1, <1>2 DEF SeenLate

LEMMA TodoGrows ==
  ASSUME [Next]_vars
  PROVE  \/ \E k \in Machine : MainLoop(k)
         \/ todo' \subseteq todo /\ UNCHANGED step_vars
         \/ internal_signal_rpc /\ UNCHANGED step_vars
<1>1. ASSUME NEW k \in Machine, Handle(k) PROVE UNCHANGED todo
  BY <1>1 DEF Handle, RecvMessage, RecvActiv, RecvAccum, RecvUpdate, rpc_stop
<1>2. ASSUME NEW r \in todo, ExecuteVertex(r) PROVE todo' \subseteq todo
  BY <1>2 DEF ExecuteVertex, ExchangeMessage, ReceiveMessage, ExecuteGather, ExecuteApply,
              ExecuteScatter, Visit
<1> QED BY <1>1, <1>2, OthersStay DEF Next, vars

LEMMA StepShape ==
  ASSUME Shape, [Next]_vars
  PROVE  /\ phase' \in [Machine -> Phases]
         /\ arrived' \in [Machine -> BOOLEAN]
         /\ passed' \in [Machine -> Nat]
<1>1. ASSUME NEW k \in Machine, NEW p \in Phases, NEW q \in Phases, NEW w \in BOOLEAN,
             LeavesFor(k, p, q, w)
      PROVE  /\ phase' \in [Machine -> Phases]
             /\ arrived' \in [Machine -> BOOLEAN]
             /\ passed' \in [Machine -> Nat] BY <1>1 DEF LeavesFor, Leave, Go, Shape
<1>2. ASSUME NEW k \in Machine, NEW q \in {"clear", "exit"}, Decides(k, q)
      PROVE  /\ phase' \in [Machine -> Phases]
             /\ arrived' \in [Machine -> BOOLEAN]
             /\ passed' \in [Machine -> Nat] BY <1>2 DEF Decides, Go, Shape, Phases
<1>3. ASSUME NEW k \in Machine, Arrive(k)
      PROVE  /\ phase' \in [Machine -> Phases]
             /\ arrived' \in [Machine -> BOOLEAN]
             /\ passed' \in [Machine -> Nat] BY <1>3 DEF Arrive, Shape
<1>4. CASE \E k \in Machine : MainLoop(k)  BY <1>1, <1>2, <1>3, <1>4, LoopSteps
<1>5. CASE UNCHANGED step_vars  BY <1>5 DEF step_vars, Shape
<1> QED BY <1>4, <1>5, TodoGrows

LEMMA ShapeKept ==
  ASSUME Shape, [Next]_vars
  PROVE  Shape'
<1> USE DEF Shape
<1>1. todo' \subseteq Replica BY TodoGrows, LoopTodo, CallTodo DEF On
<1>2. DOMAIN data' = Replica
  <2>1. ASSUME NEW k \in Machine, MainLoop(k) PROVE UNCHANGED data
    BY <2>1 DEF MainLoop, NextIteration, Quit, StartExchange, StartReceive, Reduce, StartGather,
                StartApply, StartScatter, EndIteration, End, Arrive
  <2>2. ASSUME NEW k \in Machine, Handle(k) PROVE DOMAIN data' = Replica
    BY <2>2 DEF Handle, RecvMessage, RecvActiv, RecvAccum, RecvUpdate, rpc_stop
  <2>3. ASSUME NEW r \in todo, ExecuteVertex(r) PROVE DOMAIN data' = Replica
    BY <2>3 DEF ExecuteVertex, ExchangeMessage, ReceiveMessage, ExecuteGather, ExecuteApply,
                ExecuteScatter
  <2> QED BY <2>1, <2>2, <2>3 DEF Next, internal_signal_rpc, vars
<1>3. ASSUME NEW k \in Machine, MainLoop(k)
      PROVE  /\ has_message' \subseteq has_message
             /\ UNCHANGED <<message_exchange, signal_calls, update_exchange>>
  BY <1>3 DEF MainLoop, NextIteration, Quit, StartExchange, StartReceive, Reduce, StartGather,
              StartApply, StartScatter, EndIteration, End, Arrive, exchange_vars, calls, message_vars
<1>4. ASSUME NEW k \in Machine, Handle(k)
      PROVE  /\ has_message' \subseteq Replica
             /\ message_exchange' \subseteq message_exchange
             /\ update_exchange' \subseteq update_exchange
             /\ UNCHANGED signal_calls
  <2>1. CASE RecvMessage(k)
    BY <2>1, ReplicaFacts DEF RecvMessage, Signalled, exchanges_but_message, calls, Master
  <2> QED BY <1>4, <2>1 DEF Handle, RecvActiv, RecvAccum, RecvUpdate, rpc_stop, message_vars, calls,
                exchanges_but_activ, exchanges_but_accum, exchanges_but_update, exchange_vars
<1>5. ASSUME NEW r \in todo, ExecuteVertex(r)
      PROVE  /\ has_message' \subseteq Replica
             /\ \A x \in message_exchange' : x.vertex \in Vertex /\ x.to = Hash[x.vertex]
             /\ \A c \in signal_calls' : c.vertex \in Vertex
             /\ \A x \in update_exchange' : x.vertex \in Vertex /\ x.to \in Mirrors(x.vertex)
  <2> USE DEF message_vars, calls, exchanges_but_message, exchanges_but_activ,
              exchanges_but_accum, exchanges_but_update, exchange_vars
  <2>0. r[2] \in Vertex  BY ReplicaFacts
  <2>1. CASE ExchangeMessage(r)  BY <2>0, <2>1 DEF ExchangeMessage
  <2>2. CASE ReceiveMessage(r)   BY <2>2 DEF ReceiveMessage
  <2>3. CASE ExecuteGather(r)    BY <2>3 DEF ExecuteGather
  <2>4. CASE ExecuteApply(r)     BY <2>0, <2>4 DEF ExecuteApply, Updates
  <2>5. CASE ExecuteScatter(r)
    <3>1. \A e \in ScatteredEdges(r) : Other(e, r[2]) \in Vertex
      BY EdgeAssumption DEF ScatteredEdges, Local, Other
    <3>2. ASSUME NEW E, SignalNeighbours(r, E) PROVE has_message' \subseteq Replica
      BY <3>2 DEF SignalNeighbours, Neighbours
    <3>3. ASSUME NEW E \in SUBSET ScatteredEdges(r), SignalById(r, E)
          PROVE  has_message' \subseteq Replica /\ \A c \in signal_calls' : c.vertex \in Vertex
      BY <3>1, <3>2, <3>3 DEF SignalById
    <3>4. UNCHANGED <<message_exchange, update_exchange>>  BY <2>5 DEF ExecuteScatter
    <3>5. has_message' \subseteq Replica /\ \A c \in signal_calls' : c.vertex \in Vertex
      <4> DEFINE E == IF vertex_programs[r].signals THEN ScatteredEdges(r) ELSE {}
      <4>1. E \in SUBSET ScatteredEdges(r)  OBVIOUS
      <4>2. \/ SignalById(r, E)
            \/ SignalNeighbours(r, E) /\ UNCHANGED signal_calls BY <2>5 DEF ExecuteScatter
      <4> HIDE DEF E
      <4> QED BY <3>2, <3>3, <4>1, <4>2
    <3> QED BY <3>4, <3>5
  <2> QED BY <1>5, <2>1, <2>2, <2>3, <2>4, <2>5 DEF ExecuteVertex
<1>6. CASE internal_signal_rpc BY <1>1, <1>2, <1>6, ReplicaFacts, StepShape
     DEF internal_signal_rpc, Signalled, exchange_vars
<1>7. CASE UNCHANGED vars  BY <1>7 DEF vars, message_vars, exchange_vars, calls, step_vars
<1> QED BY <1>1, <1>2, <1>3, <1>4, <1>5, <1>6, <1>7, StepShape DEF Next

-----------------------------------------------------------------------------
(* An exchange is over for everyone at once.                               *)

LEMMA QuietKept ==
  ASSUME Shape, InStep, Quiet, [Next]_vars
  PROVE  Quiet'
<1>1. CASE todo' \subseteq todo /\ UNCHANGED step_vars BY <1>1 DEF Quiet, step_vars, On
<1>2. ASSUME NEW k \in Machine, MainLoop(k), NEW R \in SUBSET On(k), todo' = todo \cup R
      PROVE  Quiet'
  <2>0. \A j \in Machine : j # k => todo' \cap On(j) = todo \cap On(j) BY <1>2 DEF On
  <2>1. ASSUME NEW p \in Phases, NEW q \in Phases, NEW w \in BOOLEAN, LeavesFor(k, p, q, w)
        PROVE  Quiet'
    <3>1. /\ phase'[k] = q /\ arrived'[k] = w /\ passed'[k] = passed[k] + 1
          /\ q \in Exchanging => ~w
          /\ \A j \in Machine : j # k => /\ phase'[j] = phase[j]
                                         /\ arrived'[j] = arrived[j]
                                         /\ passed'[j] = passed[j]
          /\ \A j \in Machine : passed[j] \in Nat BY <2>1 DEF LeavesFor, Leave, Go, Shape
    <3>2. ASSUME NEW i \in Machine, NEW j \in Machine, arrived'[i], phase'[i] \in Exchanging
          PROVE  /\ passed'[j] >= passed'[i]
                 /\ passed'[j] = passed'[i] => todo' \cap On(j) = {}
      <4>1. i # k  BY <3>1, <3>2
      <4>2. /\ passed[j] >= passed[i] /\ passed[k] >= passed[i]
            /\ passed[j] = passed[i] => todo \cap On(j) = {} BY <3>1, <3>2, <4>1 DEF Quiet
      <4>3. CASE j = k  BY <3>1, <4>1, <4>2, <4>3
      <4>4. CASE j # k  BY <2>0, <3>1, <4>1, <4>2, <4>4
      <4> QED BY <4>3, <4>4
    <3> QED BY <3>2 DEF Quiet
  <2>2. ASSUME NEW q \in {"clear", "exit"}, Decides(k, q) PROVE Quiet'
    <3>1. /\ phase[k] = "test" /\ phase'[k] = q /\ passed' = passed
          /\ \A j \in Machine : j # k => phase'[j] = phase[j] /\ arrived'[j] = arrived[j]
      BY <2>2 DEF Decides, Go, Shape
    <3>2. \A i \in Machine : i # k /\ phase[i] \in Exchanging => passed[i] # passed[k]
      BY <3>1 DEF InStep, Alike, Exchanging
    <3> QED BY <2>0, <3>1, <3>2 DEF Quiet, Exchanging
  <2>3. ASSUME Arrive(k) PROVE Quiet'
    <3>1. /\ phase' = phase /\ passed' = passed /\ todo' = todo
          /\ arrived' = [arrived EXCEPT ![k] = TRUE]
          /\ phase[k] \in Exchanging => Flushed(k) BY <2>3 DEF Arrive, Exchanging
    <3>2. phase[k] \in Exchanging =>
            \A j \in Machine : passed[j] = passed[k] /\ todo \cap On(j) = {} BY <3>1 DEF Flushed, Visited
    <3> QED BY <3>1, <3>2 DEF Quiet, Shape
  <2> QED BY <1>2, <2>1, <2>2, <2>3, LoopSteps
<1>3. CASE internal_signal_rpc /\ UNCHANGED step_vars
  <2>1. PICK q \in Replica :
          /\ q[1] \in Machine
          /\ \/ todo' = todo
             \/ /\ todo' = todo \cup {q} /\ phase[q[1]] = "receive"
                /\ \A j \in Machine : phase[j] = "receive" => ~arrived[j] BY <1>3, CallTodo
  <2>2. \A j, k \in Machine :
          passed[j] = passed[k] /\ phase[j] = "receive" => phase[k] = "receive"
    BY DEF InStep, Alike
  <2>3. \A j \in Machine : q \in On(j) => j = q[1]  BY DEF On
  <2> QED BY <1>3, <2>1, <2>2, <2>3 DEF Quiet, step_vars
<1> QED BY <1>1, <1>2, <1>3, LoopTodo, TodoGrows

-----------------------------------------------------------------------------
(* The assertions l_is_master() of receive_messages(), execute_applys().   *)

LEMMA MastersKept ==
  ASSUME Shape, InStep, Quiet, Masters, [Next]_vars
  PROVE  Masters'
<1> USE DEF Masters, MastersOnly
<1>1. ASSUME NEW k \in Machine, MainLoop(k) PROVE Masters'
  <2>1. \A r \in On(k) : r[1] = k BY DEF On
  <2>2. arrived[k] /\ phase[k] \in Exchanging => todo \cap On(k) = {} BY DEF Quiet, Shape
  <2>3. CASE StartExchange(k)
    <3>1. /\ phase' = [phase EXCEPT ![k] = "exchange"]
          /\ todo' = todo \cup ({r \in has_message : ~IsMaster(r)} \cap On(k))
          /\ UNCHANGED <<has_message, active_superstep>>
      BY <2>3 DEF StartExchange, Begin, Go, message_vars, active_vars
    <3> QED BY <2>1, <3>1 DEF Shape, On
  <2>4. CASE StartReceive(k)
    <3>1. /\ phase' = [phase EXCEPT ![k] = "receive"]
          /\ todo' = todo \cup (has_message \cap On(k))
          /\ UNCHANGED <<has_message, active_superstep>>
          /\ arrived[k] /\ phase[k] = "exchange"
      BY <2>4 DEF StartReceive, Begin, Go, Leave, message_vars, active_vars
    <3>2. todo \cap On(k) = {}  BY <2>2, <3>1 DEF Exchanging
    <3>3. \A r \in has_message \cap On(k) : IsMaster(r)  BY <2>1, <3>1, <3>2
    <3> QED BY <2>1, <3>1, <3>2, <3>3 DEF Shape, On
  <2>5. CASE StartApply(k)
    <3>1. /\ phase' = [phase EXCEPT ![k] = "apply"]
          /\ todo' = todo \cup (active_superstep \cap On(k))
          /\ UNCHANGED <<has_message, active_superstep>>
          /\ arrived[k] /\ phase[k] = "gather" BY <2>5 DEF StartApply, Begin, Go, Leave, message_vars
    <3>2. todo \cap On(k) = {}  BY <2>2, <3>1 DEF Exchanging
    <3> QED BY <2>1, <3>1, <3>2 DEF Shape, On
  <2>6. CASE Arrive(k) BY <2>6 DEF Arrive, message_vars, active_vars
  <2>7. ASSUME has_message' \subseteq has_message, active_superstep' \subseteq active_superstep,
               NEW q \in Phases \ {"exchange", "receive", "apply"},
               phase' = [phase EXCEPT ![k] = q]
        PROVE  Masters'
    <3>1. PICK R \in SUBSET On(k) : todo' = todo \cup R  BY <1>1, LoopTodo
    <3> QED BY <2>1, <2>7, <3>1 DEF Shape
  <2> QED BY <1>1, <2>3, <2>4, <2>5, <2>6, <2>7
          DEF MainLoop, NextIteration, Quit, Reduce, StartGather, StartScatter, EndIteration, End,
              Begin, Go, Phases, message_vars, active_vars
<1>2. ASSUME NEW r \in todo, ExecuteVertex(r) PROVE Masters'
  <2>1. phase' = phase BY <1>2, OthersStay DEF step_vars
  <2>2. CASE ExchangeMessage(r) BY <2>1, <2>2 DEF ExchangeMessage, Visit, active_vars
  <2>3. CASE ReceiveMessage(r) BY <2>1, <2>3 DEF ReceiveMessage, Visit
  <2>4. CASE ExecuteGather(r) BY <2>1, <2>4 DEF ExecuteGather, Visit, message_vars, active_vars
  <2>5. CASE ExecuteApply(r) BY <2>1, <2>5 DEF ExecuteApply, Visit, message_vars
  <2>6. CASE ExecuteScatter(r)
    <3>1. /\ phase[r[1]] = "scatter" /\ todo' = todo \ {r} /\ active_superstep' = active_superstep
          /\ \E E : has_message' = has_message \cup Neighbours(r, E)
      BY <2>6 DEF ExecuteScatter, Visit, SignalById, SignalNeighbours, active_vars
    <3>2. ASSUME NEW E, NEW q \in Neighbours(r, E) PROVE q[1] = r[1] BY DEF Neighbours, Between
    <3> QED BY <2>1, <3>1, <3>2
  <2> QED BY <1>2, <2>2, <2>3, <2>4, <2>5, <2>6 DEF ExecuteVertex
<1>3. ASSUME NEW k \in Machine, Handle(k) PROVE Masters'
  <2>1. phase' = phase /\ todo' = todo
    BY <1>3, OthersStay DEF step_vars, Handle, RecvMessage, RecvActiv, RecvAccum, RecvUpdate, rpc_stop
  <2>2. CASE RecvMessage(k)
    BY <2>1, <2>2, ReplicaFacts DEF RecvMessage, Signalled, Shape, active_vars, IsMaster, Master
  <2> QED BY <1>3, <2>1, <2>2 DEF Handle, RecvActiv, RecvAccum, RecvUpdate, rpc_stop,
                                  message_vars, active_vars
<1>4. CASE internal_signal_rpc
  <2>1. PICK c \in signal_calls : has_message' = has_message \cup {Master(c.vertex)}
    BY <1>4 DEF internal_signal_rpc, Signalled
  <2>2. IsMaster(Master(c.vertex))  BY <2>1, ReplicaFacts DEF Shape, IsMaster
  <2>3. UNCHANGED <<phase, active_superstep>>  BY <1>4 DEF internal_signal_rpc, active_vars, step_vars
  <2>4. PICK q \in Replica : IsMaster(q) /\ (todo' = todo \/ todo' = todo \cup {q}) BY <1>4, CallTodo
  <2> QED BY <2>1, <2>2, <2>3, <2>4
<1>5. CASE UNCHANGED vars BY <1>5 DEF vars, message_vars, active_vars, step_vars
<1> QED BY <1>1, <1>2, <1>3, <1>4, <1>5 DEF Next

-----------------------------------------------------------------------------
(* Updates on their way.                                                   *)

\* A machine leaves the apply phase when all its updates have arrived.
LEMMA NoneLeftBehind ==
  ASSUME Shape, InStep, Carried, NEW k \in Machine, Leave(k, "apply"),
         NEW x \in update_exchange
  PROVE  Hash[x.vertex] # k
<1> SUFFICES ASSUME Hash[x.vertex] = k PROVE FALSE OBVIOUS
<1>1. x.to \in Machine  BY ReplicaFacts DEF Shape
<1>2. \/ passed[x.to] > passed[k]
      \/ passed[x.to] = passed[k] /\ phase[x.to] = "apply" /\ arrived[x.to] BY <1>1 DEF Leave, AllArrived
<1>3. phase[x.to] \in {"apply", "gather"} BY DEF Carried
<1>4. CASE passed[x.to] > passed[k] BY <1>1, <1>3, <1>4 DEF InStep, After, Leave
<1>5. CASE passed[x.to] = passed[k] /\ phase[x.to] = "apply" /\ arrived[x.to] BY <1>5 DEF Carried
<1> QED BY <1>2, <1>4, <1>5

\* Where the other machines are while one of them still applies.
LEMMA OthersWait ==
  ASSUME Shape, InStep, Quiet, NEW r \in todo, phase[r[1]] = "apply", NEW j \in Machine
  PROVE  \/ phase[j] = "apply" /\ ~arrived[j]
         \/ phase[j] = "gather" /\ arrived[j]
<1> DEFINE s == r[1]
<1>1. s \in Machine /\ r \in todo \cap On(s) BY ReplicaFacts DEF Shape, On
<1>2. \A i \in Machine : passed[i] \in Nat BY DEF Shape
<1>3. CASE passed[j] > passed[s] BY <1>1, <1>3 DEF InStep, Quiet, Exchanging
<1>4. CASE passed[j] = passed[s] BY <1>1, <1>4 DEF InStep, Alike, Quiet, Exchanging
<1>5. CASE passed[s] > passed[j] BY <1>1, <1>5 DEF InStep, After
<1> QED BY <1>1, <1>2, <1>3, <1>4, <1>5

LEMMA LoopCarried ==
  ASSUME Shape, InStep, Quiet, Carried, NEW k \in Machine, MainLoop(k)
  PROVE  Carried'
<1>1. UNCHANGED <<update_exchange, data>>
  BY DEF MainLoop, NextIteration, Quit, StartExchange, StartReceive, Reduce, StartGather,
         StartApply, StartScatter, EndIteration, End, Arrive, exchange_vars
<1>2. PICK R \in SUBSET On(k) : todo' = todo \cup R BY LoopTodo
<1>3. SUFFICES ASSUME NEW x \in update_exchange
               PROVE  /\ phase'[Hash[x.vertex]] = "apply"
                      /\ \/ phase'[x.to] = "apply" /\ ~arrived'[x.to]
                         \/ phase'[x.to] = "gather" /\ arrived'[x.to]
                      /\ Master(x.vertex) \notin todo' BY <1>1 DEF Carried, Master
<1>4. x.to \in Machine /\ Hash[x.vertex] \in Machine /\ x.vertex \in Vertex BY ReplicaFacts DEF Shape
<1>5. /\ phase[Hash[x.vertex]] = "apply"
      /\ \/ phase[x.to] = "apply" /\ ~arrived[x.to]
         \/ phase[x.to] = "gather" /\ arrived[x.to]
      /\ Master(x.vertex) \notin todo BY DEF Carried
<1>6. ASSUME Hash[x.vertex] # k PROVE Master(x.vertex) \notin todo' BY <1>2, <1>5, <1>6 DEF On, Master
<1>7. ASSUME NEW p \in Phases, NEW q \in Phases, NEW w \in BOOLEAN, LeavesFor(k, p, q, w)
      PROVE  /\ phase'[Hash[x.vertex]] = "apply"
             /\ \/ phase'[x.to] = "apply" /\ ~arrived'[x.to]
                \/ phase'[x.to] = "gather" /\ arrived'[x.to]
             /\ Master(x.vertex) \notin todo'
  <2>1. /\ phase[k] = p /\ arrived[k] /\ After(p, q)
        /\ phase'[k] = q /\ arrived'[k] = w /\ (q \in Exchanging => ~w)
        /\ \A j \in Machine : j # k => phase'[j] = phase[j] /\ arrived'[j] = arrived[j]
    BY <1>7 DEF LeavesFor, Leave, Go, Shape
  <2>2. Hash[x.vertex] # k
    <3>1. CASE p = "apply"  BY <1>7, <3>1, NoneLeftBehind DEF LeavesFor
    <3>2. CASE p # "apply"  BY <1>5, <2>1, <3>2
    <3> QED BY <3>1, <3>2
  <2>3. CASE x.to = k BY <1>4, <1>5, <1>6, <2>1, <2>2, <2>3 DEF After, Exchanging
  <2>4. CASE x.to # k BY <1>4, <1>5, <1>6, <2>1, <2>2, <2>4
  <2> QED BY <2>3, <2>4
<1>8. ASSUME NEW q \in {"clear", "exit"}, Decides(k, q)
      PROVE  /\ phase'[Hash[x.vertex]] = "apply"
             /\ \/ phase'[x.to] = "apply" /\ ~arrived'[x.to]
                \/ phase'[x.to] = "gather" /\ arrived'[x.to]
             /\ Master(x.vertex) \notin todo'
  <2>1. /\ phase[k] = "test"
        /\ \A j \in Machine : j # k => phase'[j] = phase[j] /\ arrived'[j] = arrived[j]
    BY <1>8 DEF Decides, Go, Shape
  <2> QED BY <1>4, <1>5, <1>6, <2>1
<1>9. ASSUME Arrive(k)
      PROVE  /\ phase'[Hash[x.vertex]] = "apply"
             /\ \/ phase'[x.to] = "apply" /\ ~arrived'[x.to]
                \/ phase'[x.to] = "gather" /\ arrived'[x.to]
             /\ Master(x.vertex) \notin todo' BY <1>9, <1>5, <1>4 DEF Arrive, Shape, Flushed
<1> QED BY <1>7, <1>8, <1>9, LoopSteps

LEMMA ApplyCarried ==
  ASSUME Shape, InStep, Quiet, Masters, Carried, Copied, NEW r \in todo, ExecuteApply(r)
  PROVE  Carried' /\ Copied'
<1>1. r \in Replica /\ r[2] \in Vertex /\ r = Master(r[2]) /\ phase[r[1]] = "apply"
  BY ReplicaFacts DEF ExecuteApply, Visit, Shape, Masters, MastersOnly, IsMaster
<1>2. PICK new, program, scatters :
        /\ data' = [data EXCEPT ![r] = new]
        /\ update_exchange' = update_exchange \cup Updates(r[2], new, program, scatters)
  BY DEF ExecuteApply
<1>3. phase' = phase /\ arrived' = arrived /\ todo' = todo \ {r} BY DEF ExecuteApply, Visit, step_vars
<1>4. data'[r] = new /\ \A q \in Replica : q # r => data'[q] = data[q] BY <1>1, <1>2 DEF Shape
<1>5. \A x \in update_exchange : x.vertex \in Vertex /\ x.vertex # r[2] BY <1>1 DEF Carried, Shape
<1>6. \A x \in Updates(r[2], new, program, scatters) :
        x.vertex = r[2] /\ x.data = new /\ x.to \in Mirrors(r[2]) BY DEF Updates
<1>7. \A x, y \in Updates(r[2], new, program, scatters) : x.to = y.to => x = y BY DEF Updates
<1>8. Carried'
  <2>1. ASSUME NEW x \in update_exchange
        PROVE  /\ phase'[Hash[x.vertex]] = "apply"
               /\ \/ phase'[x.to] = "apply" /\ ~arrived'[x.to]
                  \/ phase'[x.to] = "gather" /\ arrived'[x.to]
               /\ Master(x.vertex) \notin todo'
               /\ x.data = data'[Master(x.vertex)]
    BY <1>1, <1>3, <1>4, <1>5, ReplicaFacts DEF Carried, Master
  <2>2. ASSUME NEW x \in Updates(r[2], new, program, scatters)
        PROVE  /\ phase'[Hash[x.vertex]] = "apply"
               /\ \/ phase'[x.to] = "apply" /\ ~arrived'[x.to]
                  \/ phase'[x.to] = "gather" /\ arrived'[x.to]
               /\ Master(x.vertex) \notin todo'
               /\ x.data = data'[Master(x.vertex)]
    <3>1. x.vertex = r[2] /\ x.data = new /\ x.to \in Machine  BY <1>1, <1>6, ReplicaFacts
    <3>2. r[1] = Hash[r[2]]  BY <1>1, ReplicaFacts
    <3> QED BY <1>1, <1>3, <1>4, <3>1, <3>2, OthersWait
  <2>3. \A x, y \in update_exchange' : x.to = y.to /\ x.vertex = y.vertex => x = y
    BY <1>2, <1>5, <1>6, <1>7 DEF Carried
  <2> QED BY <1>2, <2>1, <2>2, <2>3 DEF Carried, Master
<1>9. ASSUME NEW v \in Vertex, NEW k \in Mirrors(v)
      PROVE  \/ data'[<<k, v>>] = data'[Master(v)]
             \/ \E x \in update_exchange' : x.to = k /\ x.vertex = v
  <2>1. CASE v = r[2]
    <3>1. [to |-> k, vertex |-> v, data |-> new, scatters |-> scatters, program |-> program]
            \in update_exchange' BY <1>2, <2>1 DEF Updates
    <3> QED BY <3>1
  <2>2. CASE v # r[2]
    <3>1. <<k, v>> # r /\ Master(v) # r  BY <1>1, <2>2, ReplicaFacts DEF Master
    <3> QED BY <1>2, <1>4, <3>1, ReplicaFacts DEF Copied
  <2> QED BY <2>1, <2>2
<1> QED BY <1>8, <1>9 DEF Copied, Master

LEMMA UpdateCarried ==
  ASSUME Shape, Carried, Copied, NEW k \in Machine, RecvUpdate(k)
  PROVE  Carried' /\ Copied'
<1>1. PICK x \in update_exchange :
        /\ x.to = k
        /\ update_exchange' = update_exchange \ {x}
        /\ data' = [data EXCEPT ![<<k, x.vertex>>] = x.data] BY DEF RecvUpdate
<1>2. phase' = phase /\ arrived' = arrived /\ todo' = todo BY DEF RecvUpdate, step_vars
<1>3. x.vertex \in Vertex /\ k \in Mirrors(x.vertex) BY <1>1 DEF Shape
<1>4. /\ data'[<<k, x.vertex>>] = x.data
      /\ \A q \in Replica : q # <<k, x.vertex>> => data'[q] = data[q]
  BY <1>1, <1>3, ReplicaFacts DEF Shape
<1>5. \A v \in Vertex : data'[Master(v)] = data[Master(v)]
  <2> TAKE v \in Vertex
  <2>1. Master(v) # <<k, x.vertex>>  BY <1>3, ReplicaFacts DEF Master
  <2> QED BY <1>4, <2>1, ReplicaFacts
<1>6. Carried' BY <1>1, <1>2, <1>5 DEF Shape, Carried, Master
<1>7. ASSUME NEW v \in Vertex, NEW j \in Mirrors(v)
      PROVE  \/ data'[<<j, v>>] = data'[Master(v)]
             \/ \E y \in update_exchange' : y.to = j /\ y.vertex = v
  <2>1. CASE j = k /\ v = x.vertex BY <1>1, <1>4, <1>5, <2>1 DEF Carried
  <2>2. CASE ~ (j = k /\ v = x.vertex)
    <3>1. <<j, v>> # <<k, x.vertex>>  BY <2>2
    <3>2. data'[<<j, v>>] = data[<<j, v>>] /\ data'[Master(v)] = data[Master(v)]
      BY <1>4, <1>5, <3>1, ReplicaFacts
    <3> QED BY <1>1, <2>2, <3>2 DEF Copied
  <2> QED BY <2>1, <2>2
<1> QED BY <1>6, <1>7 DEF Copied, Master

\* No other step touches data, sends an update or changes phase.
LEMMA UpdatesKept ==
  ASSUME Shape, InStep, Quiet, Masters, Carried, Copied, [Next]_vars
  PROVE  Carried' /\ Copied'
<1>1. ASSUME UNCHANGED <<update_exchange, data, phase, arrived>>, todo' \subseteq todo
      PROVE  Carried' /\ Copied' BY <1>1 DEF Carried, Copied, Master
<1>2. ASSUME NEW k \in Machine, MainLoop(k) PROVE Carried' /\ Copied'
  <2>1. UNCHANGED <<update_exchange, data>>
    BY <1>2 DEF MainLoop, NextIteration, Quit, StartExchange, StartReceive, Reduce, StartGather,
                StartApply, StartScatter, EndIteration, End, Arrive, exchange_vars
  <2> QED BY <1>2, <2>1, LoopCarried DEF Copied, Master
<1>3. ASSUME NEW k \in Machine, Handle(k) PROVE Carried' /\ Copied'
  <2>1. CASE RecvUpdate(k)  BY <2>1, UpdateCarried
  <2>2. CASE ~ RecvUpdate(k)
    <3>1. UNCHANGED <<update_exchange, data, phase, arrived, todo>>
      BY <1>3, <2>2 DEF Handle, RecvMessage, RecvActiv, RecvAccum, rpc_stop, step_vars,
           exchange_vars, exchanges_but_message, exchanges_but_activ, exchanges_but_accum
    <3> QED BY <1>1, <3>1
  <2> QED BY <2>1, <2>2
<1>4. ASSUME NEW r \in todo, ExecuteVertex(r) PROVE Carried' /\ Copied'
  <2>1. CASE ExecuteApply(r)  BY <2>1, ApplyCarried
  <2>2. CASE ~ ExecuteApply(r)
    <3>1. UNCHANGED <<update_exchange, data, phase, arrived>> /\ todo' \subseteq todo
      BY <1>4, <2>2 DEF ExecuteVertex, ExchangeMessage, ReceiveMessage, ExecuteGather,
           ExecuteScatter, Visit, step_vars, exchange_vars, exchanges_but_message,
           exchanges_but_activ, exchanges_but_accum
    <3> QED BY <1>1, <3>1
  <2> QED BY <2>1, <2>2
<1>5. CASE internal_signal_rpc
  <2>1. UNCHANGED <<update_exchange, data, phase, arrived>>
    BY <1>5 DEF internal_signal_rpc, step_vars, exchange_vars
  <2>2. PICK q \in Replica :
          todo' = todo \/ (todo' = todo \cup {q} /\ IsMaster(q) /\ phase[q[1]] = "receive")
    BY <1>5, CallTodo
  <2>3. \A x \in update_exchange : Master(x.vertex) \notin todo'
    BY <2>2, ReplicaFacts DEF Carried, Shape
  <2> QED BY <2>1, <2>3 DEF Carried, Copied, Master
<1>6. CASE UNCHANGED vars BY <1>1, <1>6 DEF vars, step_vars, exchange_vars
<1> QED BY <1>2, <1>3, <1>4, <1>5, <1>6 DEF Next

-----------------------------------------------------------------------------

LEMMA Inductive == Spec => []IInv
<1>1. Init => IInv
  <2> SUFFICES ASSUME Init PROVE IInv OBVIOUS
  <2> USE DEF Init, PerReplica, PerMachine
  <2>1. Shape BY EngineAssumption, ReplicaFacts DEF Shape, Phases
  <2>2. \A k \in Machine : phase[k] = "test" /\ ~arrived[k] /\ passed[k] = 0 OBVIOUS
  <2>3. InStep /\ Quiet  BY <2>2 DEF InStep, Quiet, Alike
  <2>4. Masters BY <2>2, ReplicaFacts, <2>1 DEF Masters, MastersOnly, Shape
  <2>5. Carried  BY DEF Carried
  <2>6. Copied  BY ReplicaFacts DEF Copied
  <2> QED BY <2>1, <2>3, <2>4, <2>5, <2>6 DEF IInv
<1>2. IInv /\ [Next]_vars => IInv'
  BY ShapeKept, StepsInStep, QuietKept, MastersKept, UpdatesKept DEF IInv
<1> QED BY <1>1, <1>2, PTL DEF Spec

\* Where programs gather and scatter, every mirror holds what its master has:
\* what start() notes after execute_applys(), "any changes to the vertex data
\* have been synchronized with all mirrors".
THEOREM MirrorsSynchronized == Spec => []MirrorsCurrent
<1>1. IInv => MirrorsCurrent
  <2> SUFFICES ASSUME IInv, NEW r \in Replica, phase[r[1]] \in {"gather", "scatter"},
                      ~arrived[r[1]]
               PROVE  data[r] = data[Master(r[2])] BY DEF MirrorsCurrent
  <2>1. CASE IsMaster(r)  BY <2>1 DEF IsMaster
  <2>2. CASE ~ IsMaster(r) BY <2>2, ReplicaFacts DEF IInv, Carried, Copied
  <2> QED BY <2>1, <2>2
<1> QED BY <1>1, Inductive, PTL

\* receive_messages() and execute_applys() meet only masters: their assertions
\* ASSERT_TRUE(graph.l_is_master(lvid)) never fail.
THEOREM OnlyMastersApply == Spec => []MastersOnly
<1>1. IInv => MastersOnly  BY DEF IInv, Masters
<1> QED BY <1>1, Inductive, PTL

-----------------------------------------------------------------------------
(* Gather caches.                                                          *)

\* The edges whose contributions the cache of a replica adds up, and where each
\* comes from.
Cares(q) == Along(q[2], mode.gather) \cap Local(q[1])
Source(q, e) == <<q[1], Other(e, q[2])>>

\* A replica that has new data and has still to tell its neighbours.
Owes(u) ==
  \/ phase[u[1]] = "apply" /\ u \in active_minorstep
  \/ phase[u[1]] = "scatter" /\ u \in todo

CacheShape ==
  /\ mode \in Modes
  /\ \A r \in Replica : data[r].applies \in Int
  /\ gather_cache \in [Replica -> [Edge -> Int]]
  /\ has_cache \subseteq Replica
  /\ mode.cache = "no" => has_cache = {}

\* Who has arrived at the end of the scatter phase has visited everything.
Scattered ==
  \A k \in Machine : arrived[k] /\ phase[k] = "scatter" => todo \cap On(k) = {}

\* Every update is one apply ahead of the mirror it goes to, and makes a mirror
\* scatter that has neighbours to tell.
OneAhead ==
  \A x \in update_exchange :
    /\ x.data.applies = data[<<x.to, x.vertex>>].applies + 1
    /\ mode.cache # "no" /\ mode.scatter # {} => x.scatters

\* A replica that is to scatter has its data of this iteration.
AppliedOnce ==
  \A r \in Replica : r \in active_minorstep /\ phase[r[1]] = "apply" =>
    /\ r \notin todo
    /\ \A x \in update_exchange : ~ (x.to = r[1] /\ x.vertex = r[2])
    /\ \/ IsMaster(r)
       \/ phase[Hash[r[2]]] = "apply" /\ Master(r[2]) \notin todo
       \/ phase[Hash[r[2]]] = "scatter" /\ arrived[r[1]]

\* A cache lacks exactly the applies of which it is still to be told.
CachesBehind ==
  \A q \in has_cache :
    gather_cache[q] =
      [e \in Edge |-> IF e \notin Cares(q) THEN 0
                      ELSE IF Owes(Source(q, e)) THEN data[Source(q, e)].applies - 1
                      ELSE data[Source(q, e)].applies]

CInv == CacheShape /\ Scattered /\ OneAhead /\ AppliedOnce /\ CachesBehind

\* No step of the main loop touches data, caches or updates.
LEMMA LoopLeaves ==
  ASSUME NEW k \in Machine, MainLoop(k)
  PROVE  UNCHANGED <<mode, data, gather_cache, has_cache, update_exchange>>
BY DEF MainLoop, NextIteration, Quit, StartExchange, StartReceive, Reduce, StartGather,
       StartApply, StartScatter, EndIteration, End, Arrive, cache_vars, exchange_vars

LEMMA ModeStays ==
  ASSUME [Next]_vars
  PROVE  mode' = mode
<1>1. ASSUME NEW k \in Machine, MainLoop(k) PROVE mode' = mode  BY <1>1, LoopLeaves
<1>2. ASSUME NEW k \in Machine, Handle(k) PROVE mode' = mode
  BY <1>2 DEF Handle, RecvMessage, RecvActiv, RecvAccum, RecvUpdate, rpc_stop
<1>3. ASSUME NEW r \in todo, ExecuteVertex(r) PROVE mode' = mode
  BY <1>3 DEF ExecuteVertex, ExchangeMessage, ReceiveMessage, ExecuteGather, ExecuteApply, ExecuteScatter
<1> QED BY <1>1, <1>2, <1>3 DEF Next, internal_signal_rpc, vars

\* The other end of a gathered edge is a replica of the same machine, and it
\* scatters along that edge if the program keeps caches.
LEMMA SourceFacts ==
  ASSUME mode \in Modes, NEW q \in Replica, NEW e \in Cares(q)
  PROVE  /\ Source(q, e) \in Replica
         /\ Source(q, e)[1] = q[1]
         /\ e \in Edge /\ e \in Local(q[1])
         /\ Other(e, Source(q, e)[2]) = q[2]
         /\ mode.cache # "no" => e \in Along(Source(q, e)[2], mode.scatter)
<1>1. /\ e \in Edge /\ e[1] \in Vertex /\ e[2] \in Vertex /\ e[1] # e[2]
      /\ Place(e) = q[1]
      /\ \/ "in" \in mode.gather /\ e[2] = q[2]
         \/ "out" \in mode.gather /\ e[1] = q[2] BY EdgeAssumption DEF Cares, Along, Local
<1>2. q[1] \in Machine  BY ReplicaFacts
<1>3. Other(e, q[2]) \in Vertex /\ Other(e, Other(e, q[2])) = q[2] BY <1>1 DEF Other
<1>4. e \in Along(Other(e, q[2]), {"in", "out"}) BY <1>1 DEF Along, Other
<1>5. <<q[1], Other(e, q[2])>> \in Replica BY <1>1, <1>2, <1>3, <1>4 DEF Replica, Machines
<1>6. mode.cache # "no" => e \in Along(Other(e, q[2]), mode.scatter)
  BY <1>1, CachingAssumption DEF Along, Other
<1> QED BY <1>1, <1>3, <1>5, <1>6 DEF Source, Local

-----------------------------------------------------------------------------

LEMMA CacheShapeKept ==
  ASSUME Shape, CacheShape, OneAhead, [Next]_vars
  PROVE  CacheShape'
<1> USE DEF CacheShape
<1>0. mode' = mode  BY ModeStays
<1>1. ASSUME NEW k \in Machine, MainLoop(k) PROVE CacheShape' BY <1>0, <1>1, LoopLeaves
<1>2. ASSUME NEW k \in Machine, RecvUpdate(k) PROVE CacheShape'
  <2>1. PICK x \in update_exchange : x.to = k /\ data' = [data EXCEPT ![<<k, x.vertex>>] = x.data]
    BY <1>2 DEF RecvUpdate
  <2>2. <<k, x.vertex>> \in Replica  BY <2>1, ReplicaFacts DEF Shape
  <2>3. x.data.applies \in Int  BY <2>1, <2>2 DEF OneAhead
  <2>4. \A r \in Replica : data'[r].applies \in Int  BY <2>1, <2>3 DEF Shape
  <2>5. UNCHANGED cache_vars  BY <1>2 DEF RecvUpdate
  <2> QED BY <1>0, <2>4, <2>5 DEF cache_vars
<1>3. ASSUME NEW k \in Machine, Handle(k), ~ RecvUpdate(k) PROVE CacheShape'
  BY <1>0, <1>3 DEF Handle, RecvMessage, RecvActiv, RecvAccum, rpc_stop, cache_vars
<1>4. ASSUME NEW r \in todo, ExecuteVertex(r) PROVE CacheShape'
  <2>0. r \in Replica  BY DEF Shape
  <2>1. CASE ExecuteApply(r) BY <2>1, <2>0, <1>0 DEF ExecuteApply, Applied, Shape, cache_vars
  <2>2. CASE ExecuteGather(r)
    <3>1. LocalTotal(r) \in [Edge -> Int]
      <4>1. \A e \in GatheredEdges(r) : data[<<r[1], Other(e, r[2])>>].applies \in Int
        <5> SUFFICES ASSUME NEW e \in GatheredEdges(r)
                     PROVE  <<r[1], Other(e, r[2])>> \in Replica OBVIOUS
        <5>1. e \in Cares(r)  BY DEF GatheredEdges, gather_edges, Along, Cares
        <5> QED BY <2>0, <5>1, SourceFacts DEF Source
      <4> QED BY <4>1 DEF LocalTotal
    <3>2. /\ data' = data
          /\ \/ UNCHANGED <<gather_cache, has_cache>>
             \/ /\ gather_cache' = [gather_cache EXCEPT ![r] = LocalTotal(r)]
                /\ has_cache' = has_cache \cup {r}
                /\ mode.cache # "no" BY <2>2 DEF ExecuteGather, Cached
    <3> QED BY <1>0, <2>0, <3>1, <3>2
  <2>3. CASE ExecuteScatter(r)
    <3>1. data' = data  BY <2>3 DEF ExecuteScatter
    <3>2. CASE PostDelta(r, ScatteredEdges(r)) BY <1>0, <3>1, <3>2 DEF PostDelta
    <3>3. CASE ClearGatherCache(r, ScatteredEdges(r)) BY <1>0, <3>1, <3>3 DEF ClearGatherCache, Zero
    <3>4. CASE UNCHANGED cache_vars BY <1>0, <3>1, <3>4 DEF cache_vars
    <3> QED BY <2>3, <3>2, <3>3, <3>4 DEF ExecuteScatter, CachesFollow
  <2>4. CASE ExchangeMessage(r) \/ ReceiveMessage(r)
    BY <1>0, <2>4 DEF ExchangeMessage, ReceiveMessage, cache_vars
  <2> QED BY <1>4, <2>1, <2>2, <2>3, <2>4 DEF ExecuteVertex
<1>5. CASE internal_signal_rpc  BY <1>0, <1>5 DEF internal_signal_rpc, cache_vars
<1>6. CASE UNCHANGED vars  BY <1>6 DEF vars, cache_vars
<1> QED BY <1>1, <1>2, <1>3, <1>4, <1>5, <1>6 DEF Next

\* A machine arrives only when it has visited everything.
LEMMA ScatteredKept ==
  ASSUME Shape, InStep, Scattered, [Next]_vars
  PROVE  Scattered'
<1>1. CASE todo' \subseteq todo /\ UNCHANGED step_vars BY <1>1 DEF Scattered, step_vars, On
<1>2. ASSUME NEW k \in Machine, MainLoop(k), NEW R \in SUBSET On(k), todo' = todo \cup R
      PROVE  Scattered'
  <2>0. \A j \in Machine : j # k => todo' \cap On(j) = todo \cap On(j) BY <1>2 DEF On
  <2>1. ASSUME Arrive(k) PROVE Scattered' BY <2>1 DEF Arrive, Visited, Scattered, Shape
  <2>2. CASE ~ Arrive(k)
    <3>1. /\ \A j \in Machine : j # k => phase'[j] = phase[j] /\ arrived'[j] = arrived[j]
          /\ ~ (phase'[k] = "scatter" /\ arrived'[k])
      BY <1>2, <2>2 DEF MainLoop, NextIteration, Quit, StartExchange, StartReceive, Reduce,
         StartGather, StartApply, StartScatter, EndIteration, End, Begin, Go, Leave, Shape
    <3> QED BY <2>0, <3>1 DEF Scattered
  <2> QED BY <2>1, <2>2
<1>3. CASE internal_signal_rpc /\ UNCHANGED step_vars
  <2>1. PICK q \in Replica :
          todo' = todo \/ (todo' = todo \cup {q} /\ phase[q[1]] = "receive") BY <1>3, CallTodo
  <2> QED BY <1>3, <2>1 DEF Scattered, step_vars, On
<1> QED BY <1>1, <1>2, <1>3, LoopTodo, TodoGrows

LEMMA OneAheadKept ==
  ASSUME IInv, CacheShape, OneAhead, [Next]_vars
  PROVE  OneAhead'
<1> USE DEF IInv
<1>0. mode' = mode  BY ModeStays
<1>1. ASSUME UNCHANGED <<update_exchange, data>> PROVE OneAhead' BY <1>0, <1>1 DEF OneAhead
<1>2. ASSUME NEW k \in Machine, RecvUpdate(k) PROVE OneAhead'
  <2>1. PICK x \in update_exchange :
          /\ x.to = k
          /\ update_exchange' = update_exchange \ {x}
          /\ data' = [data EXCEPT ![<<k, x.vertex>>] = x.data] BY <1>2 DEF RecvUpdate
  <2>2. ASSUME NEW y \in update_exchange'
        PROVE  y \in update_exchange /\ data'[<<y.to, y.vertex>>] = data[<<y.to, y.vertex>>]
    BY <2>1, ReplicaFacts DEF Carried, Shape
  <2> QED BY <1>0, <2>2 DEF OneAhead
<1>3. ASSUME NEW r \in todo, ExecuteApply(r) PROVE OneAhead'
  <2>1. r \in Replica /\ r[2] \in Vertex /\ r = Master(r[2])
    BY <1>3, ReplicaFacts DEF ExecuteApply, Visit, Shape, Masters, MastersOnly, IsMaster
  <2> DEFINE new == Applied(data[r], vertex_programs[r].message, gather_accum[r])
  <2>6. PICK signals \in BOOLEAN :
          LET program == [vertex_programs[r] EXCEPT !.signals = signals]
              scatters == scatter_edges(mode, program) # {}
              kept == IF scatters THEN program ELSE DefaultProgram
          IN  update_exchange' = update_exchange \cup Updates(r[2], new, kept, scatters)
    BY <1>3 DEF ExecuteApply
  <2> DEFINE program == [vertex_programs[r] EXCEPT !.signals = signals]
             scatters == scatter_edges(mode, program) # {}
             kept == IF scatters THEN program ELSE DefaultProgram
  <2>2. /\ data' = [data EXCEPT ![r] = new]
        /\ update_exchange' = update_exchange \cup Updates(r[2], new, kept, scatters)
    BY <1>3, <2>6 DEF ExecuteApply
  <2>3. mode.cache # "no" /\ mode.scatter # {} => scatters BY DEF scatter_edges
  <2>4. new.applies = data[r].applies + 1 BY DEF Applied
  <2> HIDE DEF new, scatters, program, kept
  <2>5. ASSUME NEW x \in update_exchange'
        PROVE  /\ x.data.applies = data'[<<x.to, x.vertex>>].applies + 1
               /\ mode.cache # "no" /\ mode.scatter # {} => x.scatters
    <3>1. CASE x \in update_exchange
      <4>1. <<x.to, x.vertex>> \in Replica /\ <<x.to, x.vertex>> # Master(r[2])
        BY <2>1, <3>1, ReplicaFacts DEF Shape, Master
      <4> QED BY <2>1, <2>2, <3>1, <4>1 DEF OneAhead, Shape
    <3>2. CASE x \notin update_exchange
      <4>1. PICK j \in Mirrors(r[2]) :
              x = [to |-> j, vertex |-> r[2], data |-> new, scatters |-> scatters,
                   program |-> kept] BY <2>2, <3>2 DEF Updates
      <4>2. x.to = j /\ x.vertex = r[2] /\ x.data = new /\ x.scatters = scatters BY <4>1
      <4>3. data[<<j, r[2]>>] = data[r] BY <1>3, <2>1 DEF Copied, Carried
      <4>4. <<j, r[2]>> \in Replica /\ <<j, r[2]>> # r BY <2>1, ReplicaFacts DEF Master
      <4>5. data'[<<j, r[2]>>] = data[r]  BY <2>1, <2>2, <4>3, <4>4 DEF Shape
      <4> QED BY <2>3, <2>4, <4>2, <4>5
    <3> QED BY <3>1, <3>2
  <2> QED BY <1>0, <2>5 DEF OneAhead
<1>4. ASSUME NEW k \in Machine, Handle(k), ~ RecvUpdate(k)
      PROVE  UNCHANGED <<update_exchange, data>>
  BY <1>4 DEF Handle, RecvMessage, RecvActiv, RecvAccum, rpc_stop, exchange_vars,
              exchanges_but_message, exchanges_but_activ, exchanges_but_accum
<1>5. ASSUME NEW r \in todo, ExecuteVertex(r), ~ ExecuteApply(r)
      PROVE  UNCHANGED <<update_exchange, data>>
  BY <1>5 DEF ExecuteVertex, ExchangeMessage, ReceiveMessage, ExecuteGather, ExecuteScatter,
              exchange_vars, exchanges_but_message, exchanges_but_activ, exchanges_but_accum
<1> QED BY <1>1, <1>2, <1>3, <1>4, <1>5, LoopLeaves DEF Next, internal_signal_rpc, vars, exchange_vars

-----------------------------------------------------------------------------
(* What is to scatter.                                                     *)

\* What a step of the main loop does to the phases, and to the bits of those
\* that are to scatter.
LEMMA LoopApplies ==
  ASSUME Shape, NEW k \in Machine, MainLoop(k), NEW j \in Machine, phase'[j] = "apply"
  PROVE  /\ \/ phase[j] = "apply" /\ (j # k => arrived'[j] = arrived[j])
            \/ j = k /\ StartApply(k)
         /\ phase[j] = "apply" => (arrived[j] => arrived'[j])
         /\ active_minorstep' \cap On(j) \subseteq active_minorstep
         /\ j = k /\ StartApply(k) => active_minorstep' \cap On(j) = {}
<1> USE DEF Go, Begin, Leave, Shape, On, active_vars
<1>1. CASE StartApply(k)  BY <1>1 DEF StartApply
<1>2. CASE NextIteration(k) \/ Quit(k) \/ StartExchange(k) \/ StartReceive(k)
  BY <1>2 DEF NextIteration, Quit, StartExchange, StartReceive
<1>3. CASE Reduce(k) BY <1>3 DEF Reduce
<1>4. CASE StartGather(k)  BY <1>4 DEF StartGather
<1>5. CASE StartScatter(k) \/ EndIteration(k) \/ End(k) BY <1>5 DEF StartScatter, EndIteration, End
<1>6. CASE Arrive(k) BY <1>6 DEF Arrive, StartApply
<1> QED BY <1>1, <1>2, <1>3, <1>4, <1>5, <1>6 DEF MainLoop

LEMMA LoopAppliedOnce ==
  ASSUME IInv, AppliedOnce, NEW k \in Machine, MainLoop(k)
  PROVE  AppliedOnce'
<1> USE DEF IInv
<1>1. SUFFICES ASSUME NEW r \in Replica, r \in active_minorstep', phase'[r[1]] = "apply"
               PROVE  /\ r \notin todo'
                      /\ \A x \in update_exchange : ~ (x.to = r[1] /\ x.vertex = r[2])
                      /\ \/ IsMaster(r)
                         \/ phase'[Hash[r[2]]] = "apply" /\ Master(r[2]) \notin todo'
                         \/ phase'[Hash[r[2]]] = "scatter" /\ arrived'[r[1]]
  BY LoopLeaves DEF AppliedOnce, IsMaster, Master
<1> DEFINE j == r[1]
           h == Hash[r[2]]
<1>2. r \in Replica /\ j \in Machine /\ h \in Machine /\ r \in On(j) BY ReplicaFacts DEF On
<1>3. /\ phase[j] = "apply" /\ r \in active_minorstep
      /\ j # k => arrived'[j] = arrived[j]
      /\ arrived[j] => arrived'[j] BY <1>1, <1>2, LoopApplies
<1>4. PICK R \in SUBSET On(k) : todo' = todo \cup R BY LoopTodo
<1>5. /\ r \notin todo
      /\ \A x \in update_exchange : ~ (x.to = j /\ x.vertex = r[2])
      /\ \/ IsMaster(r)
         \/ phase[h] = "apply" /\ Master(r[2]) \notin todo
         \/ phase[h] = "scatter" /\ arrived[j] BY <1>3 DEF AppliedOnce
<1>6. phase'[j] = "apply" /\ j = k => todo' = todo
  BY <1>3, <1>1 DEF MainLoop, NextIteration, Quit, StartExchange, StartReceive, Reduce,
         StartGather, StartApply, StartScatter, EndIteration, End, Begin, Go, Leave, Arrive, Shape
<1>7. r \notin todo' BY <1>1, <1>4, <1>5, <1>6 DEF On
<1>8. CASE IsMaster(r)  BY <1>5, <1>7, <1>8
<1>9. CASE h # k
  <2>1. phase'[h] = phase[h]
    BY <1>2, <1>9 DEF MainLoop, NextIteration, Quit, StartExchange, StartReceive, Reduce,
         StartGather, StartApply, StartScatter, EndIteration, End, Begin, Go, Leave, Arrive, Shape
  <2>2. Master(r[2]) \notin todo => Master(r[2]) \notin todo' BY <1>4, <1>9 DEF On, Master
  <2> QED BY <1>3, <1>5, <1>7, <2>1, <2>2
<1>10. CASE h = k /\ phase[k] = "apply" /\ Master(r[2]) \notin todo
  <2>1. CASE StartScatter(k)
    <3>1. phase'[k] = "scatter" /\ Leave(k, "apply")  BY <2>1 DEF StartScatter, Begin, Go, Shape
    <3>2. passed[j] = passed[k] /\ arrived[j] BY <1>2, <1>3, <3>1 DEF Leave, AllArrived, InStep, After
    <3> QED BY <1>3, <1>5, <1>7, <1>10, <3>1, <3>2
  <2>2. CASE ~ StartScatter(k)
    <3>1. Arrive(k)
      BY <1>10, <2>2 DEF MainLoop, NextIteration, Quit, StartExchange, StartReceive, Reduce,
         StartGather, StartApply, EndIteration, End, Leave
    <3>2. phase' = phase /\ todo' = todo  BY <3>1 DEF Arrive
    <3> QED BY <1>5, <1>7, <1>10, <3>2
  <2> QED BY <2>1, <2>2
<1>11. CASE h = k /\ phase[k] = "scatter" /\ arrived[j]
  <2>1. phase'[k] = "scatter"
    <3>1. CASE EndIteration(k)
      <4>1. passed[j] >= passed[k]  BY <1>2, <3>1 DEF EndIteration, Leave, AllArrived, Shape
      <4>2. passed[j] # passed[k]  BY <1>2, <1>3, <1>11 DEF InStep, Alike
      <4>3. passed[j] > passed[k]  BY <1>2, <4>1, <4>2 DEF Shape
      <4> QED BY <1>2, <1>3, <1>11, <4>3 DEF InStep, After
    <3>2. CASE Arrive(k)  BY <1>11, <3>2 DEF Arrive
    <3> QED BY <1>11, <3>1, <3>2 DEF MainLoop, NextIteration, Quit, StartExchange, StartReceive,
         Reduce, StartGather, StartApply, StartScatter, End, Leave
  <2> QED BY <1>3, <1>5, <1>7, <1>11, <2>1
<1> QED BY <1>5, <1>8, <1>9, <1>10, <1>11

LEMMA AppliedOnceKept ==
  ASSUME IInv, CacheShape, OneAhead, AppliedOnce, [Next]_vars
  PROVE  AppliedOnce'
<1> USE DEF IInv
<1>1. ASSUME UNCHANGED <<phase, arrived, update_exchange>>, todo' \subseteq todo,
             \A r \in Replica : r \in active_minorstep' /\ phase[r[1]] = "apply"
                                  => r \in active_minorstep
      PROVE  AppliedOnce' BY <1>1 DEF AppliedOnce, IsMaster, Master
<1>2. ASSUME NEW k \in Machine, RecvUpdate(k) PROVE AppliedOnce'
  <2>1. PICK x \in update_exchange :
          /\ x.to = k
          /\ update_exchange' = update_exchange \ {x}
          /\ active_minorstep' \subseteq active_minorstep \cup {<<k, x.vertex>>} BY <1>2 DEF RecvUpdate
  <2>2. phase' = phase /\ arrived' = arrived /\ todo' = todo BY <1>2 DEF RecvUpdate, step_vars
  <2>3. SUFFICES ASSUME NEW r \in Replica, r \in active_minorstep', phase[r[1]] = "apply"
                 PROVE  /\ r \notin todo
                        /\ \A y \in update_exchange' : ~ (y.to = r[1] /\ y.vertex = r[2])
                        /\ \/ IsMaster(r)
                           \/ phase[Hash[r[2]]] = "apply" /\ Master(r[2]) \notin todo
                           \/ phase[Hash[r[2]]] = "scatter" /\ arrived[r[1]]
    BY <2>2 DEF AppliedOnce, IsMaster, Master
  <2>4. CASE r \in active_minorstep BY <2>1, <2>3, <2>4 DEF AppliedOnce
  <2>5. CASE r = <<k, x.vertex>>
    <3>1. r[1] = k /\ r[2] = x.vertex /\ k \in Mirrors(x.vertex) /\ x.vertex \in Vertex
      BY <2>1, <2>5 DEF Shape
    <3>2. ~ IsMaster(r)  BY <3>1, ReplicaFacts
    <3>3. r \notin todo  BY <2>3, <3>2 DEF Masters, MastersOnly
    <3>4. \A y \in update_exchange' : ~ (y.to = r[1] /\ y.vertex = r[2]) BY <2>1, <3>1 DEF Carried
    <3>5. phase[Hash[r[2]]] = "apply" /\ Master(r[2]) \notin todo BY <3>1 DEF Carried
    <3> QED BY <3>3, <3>4, <3>5
  <2> QED BY <2>1, <2>3, <2>4, <2>5
<1>3. ASSUME NEW r \in todo, ExecuteApply(r) PROVE AppliedOnce'
  <2>1. r \in Replica /\ r[2] \in Vertex /\ r = Master(r[2]) /\ phase[r[1]] = "apply"
    BY <1>3, ReplicaFacts DEF ExecuteApply, Visit, Shape, Masters, MastersOnly, IsMaster
  <2>2. PICK new, program, scatters :
          update_exchange' = update_exchange \cup Updates(r[2], new, program, scatters)
    BY <1>3 DEF ExecuteApply
  <2>3. /\ phase' = phase /\ arrived' = arrived /\ todo' = todo \ {r}
        /\ active_minorstep' \subseteq active_minorstep \cup {r}
    BY <1>3 DEF ExecuteApply, Visit, step_vars
  <2>4. \A x \in Updates(r[2], new, program, scatters) :
          x.vertex = r[2] /\ x.to \in Mirrors(r[2]) BY DEF Updates
  <2>5. SUFFICES ASSUME NEW q \in Replica, q \in active_minorstep', phase[q[1]] = "apply"
                 PROVE  /\ q \notin todo'
                        /\ \A y \in update_exchange' : ~ (y.to = q[1] /\ y.vertex = q[2])
                        /\ \/ IsMaster(q)
                           \/ phase[Hash[q[2]]] = "apply" /\ Master(q[2]) \notin todo'
                           \/ phase[Hash[q[2]]] = "scatter" /\ arrived[q[1]]
    BY <2>3 DEF AppliedOnce, IsMaster, Master
  <2>6. CASE q = r
    <3>1. q[1] = Hash[q[2]] /\ IsMaster(q)  BY <2>1, <2>6, ReplicaFacts
    <3>2. \A y \in update_exchange' : ~ (y.to = q[1] /\ y.vertex = q[2])
      BY <2>1, <2>2, <2>4, <2>6, <3>1, ReplicaFacts DEF Shape
    <3> QED BY <2>3, <2>6, <3>1, <3>2
  <2>7. CASE q # r
    <3>1. /\ q \notin todo
          /\ \A y \in update_exchange : ~ (y.to = q[1] /\ y.vertex = q[2])
          /\ \/ IsMaster(q)
             \/ phase[Hash[q[2]]] = "apply" /\ Master(q[2]) \notin todo
             \/ phase[Hash[q[2]]] = "scatter" /\ arrived[q[1]] BY <2>3, <2>5, <2>7 DEF AppliedOnce
    <3>2. q[2] # r[2]
      <4>1. phase[Hash[r[2]]] = "apply"  BY <2>1, ReplicaFacts
      <4> QED BY <1>3, <2>1, <2>7, <3>1, <4>1, ReplicaFacts DEF IsMaster
    <3>3. \A y \in update_exchange' : ~ (y.to = q[1] /\ y.vertex = q[2]) BY <2>2, <2>4, <3>1, <3>2
    <3> QED BY <2>3, <3>1, <3>3
  <2> QED BY <2>6, <2>7
<1>4. ASSUME NEW k \in Machine, Handle(k), ~ RecvUpdate(k) PROVE AppliedOnce'
  <2>1. UNCHANGED <<phase, arrived, update_exchange, todo>>
    BY <1>4 DEF Handle, RecvMessage, RecvActiv, RecvAccum, rpc_stop, exchange_vars, step_vars,
              exchanges_but_message, exchanges_but_activ, exchanges_but_accum
  <2>2. CASE RecvActiv(k) BY <2>2, <1>1, <2>1 DEF RecvActiv
  <2>3. CASE ~ RecvActiv(k)
    <3>1. active_minorstep' = active_minorstep
      BY <1>4, <2>3 DEF Handle, RecvMessage, RecvAccum, rpc_stop, active_vars
    <3> QED BY <1>1, <2>1, <3>1
  <2> QED BY <2>2, <2>3
<1>5. ASSUME NEW r \in todo, ExecuteVertex(r), ~ ExecuteApply(r) PROVE AppliedOnce'
  <2>1. /\ UNCHANGED <<phase, arrived, update_exchange>> /\ todo' \subseteq todo
        /\ \A q \in Replica : q \in active_minorstep' /\ phase[q[1]] = "apply"
                                => q \in active_minorstep
    BY <1>5 DEF ExecuteVertex, ExchangeMessage, ReceiveMessage, ExecuteGather, ExecuteScatter,
              exchange_vars, exchanges_but_message, exchanges_but_activ, exchanges_but_accum,
              Visit, step_vars, active_vars
  <2> QED BY <1>1, <2>1
<1>6. CASE internal_signal_rpc
  <2>1. UNCHANGED <<phase, arrived, update_exchange, active_minorstep>>
    BY <1>6 DEF internal_signal_rpc, step_vars, exchange_vars, active_vars
  <2>2. PICK q \in Replica : todo' = todo \/ (todo' = todo \cup {q} /\ phase[q[1]] = "receive")
    BY <1>6, CallTodo
  <2>3. \A r : phase[r[1]] = "apply" => (r \in todo' <=> r \in todo)  BY <2>2
  <2> QED BY <2>1, <2>3, ReplicaFacts DEF AppliedOnce, Master, IsMaster
<1>7. CASE UNCHANGED vars BY <1>1, <1>7 DEF vars, step_vars, exchange_vars, active_vars
<1>8. ASSUME NEW k \in Machine, MainLoop(k) PROVE AppliedOnce' BY <1>8, LoopAppliedOnce
<1> QED BY <1>2, <1>3, <1>4, <1>5, <1>6, <1>7, <1>8 DEF Next

-----------------------------------------------------------------------------
(* Caches.                                                                 *)

\* A barrier leaves everyone owing what it owed.
LEMMA LoopOwes ==
  ASSUME IInv, Scattered, NEW k \in Machine, MainLoop(k), NEW u \in Replica
  PROVE  Owes(u)' <=> Owes(u)
<1> USE DEF Go, Begin, Leave, On, active_vars, Owes
<1>0. /\ Shape /\ Quiet /\ u[1] \in Machine
      /\ phase \in [Machine -> Phases] BY ReplicaFacts DEF IInv, Shape
<1>1. CASE u[1] # k
  <2>1. phase'[u[1]] = phase[u[1]]
    BY <1>0, <1>1 DEF MainLoop, NextIteration, Quit, StartExchange, StartReceive, Reduce,
       StartGather, StartApply, StartScatter, EndIteration, End, Arrive
  <2>2. PICK R \in SUBSET On(k) : todo' = todo \cup R  BY LoopTodo
  <2>3. u \in todo' <=> u \in todo  BY <1>1, <2>2
  <2>4. u \in active_minorstep' <=> u \in active_minorstep
    BY <1>1 DEF MainLoop, NextIteration, Quit, StartExchange, StartReceive, Reduce,
       StartGather, StartApply, StartScatter, EndIteration, End, Arrive
  <2> QED BY <2>1, <2>3, <2>4
<1>2. CASE u[1] = k
  <2>1. CASE StartApply(k)  BY <1>0, <1>2, <2>1 DEF StartApply
  <2>2. CASE StartScatter(k) BY <1>0, <2>2, <1>2 DEF StartScatter, Quiet, Exchanging
  <2>3. CASE EndIteration(k) BY <2>3, <1>0, <1>2 DEF EndIteration, Scattered
  <2>4. CASE NextIteration(k) \/ Quit(k) \/ StartExchange(k) \/ StartReceive(k)
    BY <1>0, <1>2, <2>4 DEF NextIteration, Quit, StartExchange, StartReceive
  <2>5. CASE Reduce(k) \/ StartGather(k) \/ End(k) BY <1>0, <1>2, <2>5 DEF Reduce, StartGather, End
  <2>6. CASE Arrive(k)  BY <2>6 DEF Arrive
  <2> QED BY <2>1, <2>2, <2>3, <2>4, <2>5, <2>6 DEF MainLoop
<1> QED BY <1>1, <1>2

\* The caches lag by one apply behind whoever owes it to them.
LEMMA CachesBehindKept ==
  ASSUME IInv, CInv, [Next]_vars
  PROVE  CachesBehind'
<1> USE DEF IInv, CInv
<1>0. mode' = mode /\ mode \in Modes  BY ModeStays DEF CacheShape
<1>20. \A q \in has_cache : q \in Replica /\ gather_cache[q] \in [Edge -> Int] BY DEF CacheShape
\* Nothing is new for the caches that are left.
<1>1. ASSUME has_cache' \subseteq has_cache,
             \A q \in has_cache' :
               /\ gather_cache'[q] = gather_cache[q]
               /\ \A e \in Cares(q) :
                    /\ data'[Source(q, e)] = data[Source(q, e)]
                    /\ Owes(Source(q, e))' <=> Owes(Source(q, e))
      PROVE  CachesBehind' BY <1>0, <1>1 DEF CachesBehind, Cares, Source, Owes
<1>2. ASSUME NEW k \in Machine, MainLoop(k) PROVE CachesBehind'
  <2>1. \A q \in has_cache : \A e \in Cares(q) : Source(q, e) \in Replica BY <1>0, <1>20, SourceFacts
  <2>2. UNCHANGED <<data, gather_cache, has_cache>>  BY <1>2, LoopLeaves
  <2>3. \A u \in Replica : Owes(u)' <=> Owes(u)  BY <1>2, LoopOwes
  <2> QED BY <1>1, <2>1, <2>2, <2>3 DEF Owes
\* A replica gets new data, which it has still to tell its neighbours.
<1>3. ASSUME NEW u \in Replica, UNCHANGED cache_vars,
             ~ Owes(u), data'[u].applies = data[u].applies + 1,
             mode.cache # "no" /\ mode.scatter # {} => Owes(u)',
             \A w \in Replica : w # u => data'[w] = data[w] /\ (Owes(w)' <=> Owes(w))
      PROVE  CachesBehind'
  <2>1. has_cache' = has_cache /\ gather_cache' = gather_cache  BY <1>3 DEF cache_vars
  <2>2. SUFFICES ASSUME NEW q \in has_cache
                 PROVE  gather_cache[q] =
                          [e \in Edge |-> IF e \notin Cares(q) THEN 0
                                          ELSE IF Owes(Source(q, e))' THEN data'[Source(q, e)].applies - 1
                                          ELSE data'[Source(q, e)].applies]
    BY <1>0, <2>1 DEF CachesBehind, Cares, Source, Owes
  <2>3. gather_cache[q] =
          [e \in Edge |-> IF e \notin Cares(q) THEN 0
                          ELSE IF Owes(Source(q, e)) THEN data[Source(q, e)].applies - 1
                          ELSE data[Source(q, e)].applies] BY <2>2 DEF CachesBehind
  <2>4. mode.cache # "no"  BY <2>2 DEF CacheShape
  <2>5. ASSUME NEW e \in Cares(q)
        PROVE  (IF Owes(Source(q, e)) THEN data[Source(q, e)].applies - 1
                                      ELSE data[Source(q, e)].applies)
               = (IF Owes(Source(q, e))' THEN data'[Source(q, e)].applies - 1
                                         ELSE data'[Source(q, e)].applies)
    <3> DEFINE w == Source(q, e)
    <3>1. w \in Replica /\ e \in Along(w[2], mode.scatter) BY <1>0, <1>20, <2>4, SourceFacts
    <3> HIDE DEF w
    <3>2. data[u].applies \in Int  BY DEF CacheShape
    <3>3. CASE w = u
      <4>1. mode.scatter # {}  BY <3>1 DEF Along
      <4>2. ~ Owes(w) /\ Owes(w)'  BY <1>3, <2>4, <3>3, <4>1
      <4>3. data'[w].applies - 1 = data[w].applies  BY <1>3, <3>2, <3>3
      <4> QED BY <4>2, <4>3 DEF w
    <3>4. CASE w # u BY <1>3, <3>1, <3>4 DEF w
    <3> QED BY <3>3, <3>4
  <2> QED BY <2>3, <2>5
<1>4. ASSUME NEW r \in todo, ExecuteApply(r) PROVE CachesBehind'
  <2>1. r \in Replica /\ phase[r[1]] = "apply" BY <1>4 DEF ExecuteApply, Visit, Shape
  <2>2. /\ phase' = phase /\ todo' = todo \ {r} /\ UNCHANGED cache_vars
        /\ \/ active_minorstep' = active_minorstep \cup {r}
           \/ active_minorstep' = active_minorstep /\ ~ (mode.cache # "no" /\ mode.scatter # {})
    BY <1>4 DEF ExecuteApply, Visit, step_vars, scatter_edges
  <2>3. PICK m, t : data' = [data EXCEPT ![r] = Applied(data[r], m, t)] BY <1>4 DEF ExecuteApply
  <2>4. /\ data'[r].applies = data[r].applies + 1
        /\ \A w \in Replica : w # r => data'[w] = data[w] BY <2>1, <2>3 DEF Applied, Shape
  <2>5. ~ Owes(r)  BY <1>4, <2>1 DEF Owes, AppliedOnce
  <2>6. mode.cache # "no" /\ mode.scatter # {} => Owes(r)' BY <2>1, <2>2 DEF Owes
  <2>7. \A w \in Replica : w # r => (Owes(w)' <=> Owes(w)) BY <2>2 DEF Owes
  <2> QED BY <1>3, <2>1, <2>2, <2>4, <2>5, <2>6, <2>7 DEF Owes
<1>5. ASSUME NEW k \in Machine, RecvUpdate(k) PROVE CachesBehind'
  <2>1. PICK x \in update_exchange :
          /\ x.to = k
          /\ data' = [data EXCEPT ![<<k, x.vertex>>] = x.data]
          /\ \/ active_minorstep' = active_minorstep \cup {<<k, x.vertex>>}
             \/ active_minorstep' = active_minorstep /\ ~ x.scatters BY <1>5 DEF RecvUpdate
  <2>2. phase' = phase /\ todo' = todo /\ UNCHANGED cache_vars /\ phase[k] = "apply"
    BY <1>5 DEF RecvUpdate, step_vars
  <2> DEFINE r == <<k, x.vertex>>
  <2>3. r \in Replica /\ r[1] = k /\ r[2] = x.vertex  BY <2>1, ReplicaFacts DEF Shape
  <2>4. data[r].applies \in Int /\ x.data.applies = data[r].applies + 1
    BY <2>1, <2>3 DEF OneAhead, CacheShape
  <2> HIDE DEF r
  <2>5. /\ data'[r].applies = data[r].applies + 1
        /\ \A w \in Replica : w # r => data'[w] = data[w] BY <2>1, <2>3, <2>4 DEF Shape, r
  <2>6. ~ Owes(r)  BY <2>1, <2>2, <2>3 DEF Owes, AppliedOnce
  <2>7. mode.cache # "no" /\ mode.scatter # {} => Owes(r)' BY <2>1, <2>2, <2>3 DEF Owes, OneAhead, r
  <2>8. \A w \in Replica : w # r => (Owes(w)' <=> Owes(w)) BY <2>1, <2>2 DEF Owes, r
  <2> QED BY <1>3, <2>2, <2>3, <2>5, <2>6, <2>7, <2>8 DEF Owes
<1>6. ASSUME NEW r \in todo, ExecuteScatter(r) PROVE CachesBehind'
  <2> DEFINE E == ScatteredEdges(r)
  <2>1. r \in Replica /\ r[2] \in Vertex /\ phase[r[1]] = "scatter" /\ Owes(r)
    BY <1>6, ReplicaFacts DEF ExecuteScatter, Visit, Shape, Owes
  <2>2. UNCHANGED <<data, phase, active_minorstep>> /\ todo' = todo \ {r} /\ CachesFollow(r, E)
    BY <1>6 DEF ExecuteScatter, Visit, step_vars, active_vars
  <2>3. \A w \in Replica : w # r => (Owes(w)' <=> Owes(w)) BY <2>2 DEF Owes
  <2>4. ~ Owes(r)'  BY <2>1, <2>2 DEF Owes
  <2>5. ASSUME NEW q \in Replica, NEW e \in Edge, mode.cache # "no"
        PROVE  e \in Between(E, r, q) \cap Along(q[2], mode.gather)
                 <=> e \in Cares(q) /\ Source(q, e) = r
    <3>1. E = Along(r[2], mode.scatter) \cap Local(r[1]) BY <2>5 DEF ScatteredEdges, scatter_edges
    <3>2. ASSUME e \in Cares(q), Source(q, e) = r
          PROVE  e \in Between(E, r, q) \cap Along(q[2], mode.gather)
      <4>1. /\ r[1] = q[1] /\ e \in Local(r[1])
            /\ Other(e, r[2]) = q[2] /\ e \in Along(r[2], mode.scatter) BY <1>0, <2>5, <3>2, SourceFacts
      <4>2. q = <<q[1], q[2]>>  BY ReplicaFacts
      <4> QED BY <3>1, <3>2, <4>1, <4>2 DEF Between, Cares
    <3>3. ASSUME e \in Between(E, r, q), e \in Along(q[2], mode.gather)
          PROVE  e \in Cares(q) /\ Source(q, e) = r
      <4>1. e \in Local(r[1]) /\ e \in Along(r[2], mode.scatter) /\ q = <<r[1], Other(e, r[2])>>
        BY <3>1, <3>3 DEF Between
      <4>2. e[1] # e[2] /\ (e[1] = r[2] \/ e[2] = r[2]) BY <4>1, EdgeAssumption DEF Along
      <4>3. Other(e, Other(e, r[2])) = r[2]  BY <4>2 DEF Other
      <4>4. q[1] = r[1] /\ q[2] = Other(e, r[2]) /\ r = <<r[1], r[2]>> BY <2>1, <4>1, ReplicaFacts
      <4> QED BY <3>3, <4>1, <4>3, <4>4 DEF Cares, Source
    <3> QED BY <3>2, <3>3
  <2> HIDE DEF E
  <2>6. CASE mode.cache = "no" BY <2>2, <2>6 DEF CachesFollow, cache_vars, CacheShape, CachesBehind
  <2>7. CASE mode.cache # "no" /\ ClearGatherCache(r, E)
    <3>1. has_cache' = has_cache \ Neighbours(r, E)  BY <2>7 DEF ClearGatherCache
    <3>2. ASSUME NEW q \in has_cache'
          PROVE  /\ q \in Replica /\ gather_cache'[q] = gather_cache[q]
                 /\ Between(E, r, q) = {} BY <1>20, <2>7, <3>1 DEF ClearGatherCache, Neighbours
    <3>3. ASSUME NEW q \in has_cache', NEW e \in Cares(q)
          PROVE  Source(q, e) \in Replica /\ Source(q, e) # r
      <4>1. q \in Replica /\ Between(E, r, q) = {}  BY <3>2
      <4>2. e \in Edge /\ Source(q, e) \in Replica  BY <1>0, <4>1, SourceFacts
      <4> QED BY <2>5, <2>7, <4>1, <4>2
    <3>4. \A q \in has_cache' : \A e \in Cares(q) :
            data'[Source(q, e)] = data[Source(q, e)] /\ (Owes(Source(q, e))' <=> Owes(Source(q, e)))
      BY <2>2, <2>3, <3>3 DEF Owes
    <3> QED BY <1>1, <3>1, <3>2, <3>4 DEF Owes
  <2>8. CASE mode.cache # "no" /\ PostDelta(r, E)
    <3>1. SUFFICES ASSUME NEW q \in has_cache
                   PROVE  gather_cache'[q] =
                            [e \in Edge |-> IF e \notin Cares(q) THEN 0
                                            ELSE IF Owes(Source(q, e))' THEN data[Source(q, e)].applies - 1
                                            ELSE data[Source(q, e)].applies]
      BY <1>0, <2>2, <2>8 DEF PostDelta, CachesBehind, Cares, Source, Owes
    <3>2. q \in Replica  BY <1>20
    <3>3. gather_cache'[q] =
            [e \in Edge |-> gather_cache[q][e] + IF e \in Cares(q) /\ Source(q, e) = r THEN 1 ELSE 0]
      <4>1. gather_cache'[q] =
              [e \in Edge |-> gather_cache[q][e]
                 + IF e \in Between(E, r, q) \cap Along(q[2], mode.gather) THEN 1 ELSE 0]
        BY <2>8, <3>1, <3>2 DEF PostDelta
      <4> QED BY <2>5, <2>8, <3>2, <4>1
    <3>4. \A e \in Edge : gather_cache[q][e] =
            IF e \notin Cares(q) THEN 0
            ELSE IF Owes(Source(q, e)) THEN data[Source(q, e)].applies - 1
            ELSE data[Source(q, e)].applies BY ZenonT(60), <3>1 DEF CachesBehind
    <3>5. ASSUME NEW e \in Edge
          PROVE  gather_cache[q][e] + (IF e \in Cares(q) /\ Source(q, e) = r THEN 1 ELSE 0) =
                   IF e \notin Cares(q) THEN 0
                   ELSE IF Owes(Source(q, e))' THEN data[Source(q, e)].applies - 1
                   ELSE data[Source(q, e)].applies
      <4>1. CASE e \notin Cares(q)  BY <3>4, <4>1
      <4>2. CASE e \in Cares(q)
        <5> DEFINE w == Source(q, e)
        <5>1. w \in Replica  BY <1>0, <3>2, <4>2, SourceFacts
        <5> HIDE DEF w
        <5>2. data[w].applies \in Int  BY <5>1 DEF CacheShape
        <5>3. gather_cache[q][e] = IF Owes(w) THEN data[w].applies - 1 ELSE data[w].applies
          BY <3>4, <4>2 DEF w
        <5>4. CASE w = r
          <6>1. gather_cache[q][e] = data[w].applies - 1 /\ ~ Owes(w)' BY <2>1, <2>4, <5>3, <5>4
          <6>2. gather_cache[q][e] + 1 = data[w].applies  BY <5>2, <6>1
          <6> QED BY <4>2, <5>4, <6>1, <6>2 DEF w
        <5>5. CASE w # r
          <6>1. Owes(w)' <=> Owes(w)  BY <2>3, <5>1, <5>5
          <6>2. gather_cache[q][e] + 0 = gather_cache[q][e]  BY <5>2, <5>3
          <6> QED BY <4>2, <5>3, <5>5, <6>1, <6>2 DEF w
        <5> QED BY <5>4, <5>5
      <4> QED BY <4>1, <4>2
    <3> QED BY <3>3, <3>5
  <2> QED BY <2>2, <2>6, <2>7, <2>8 DEF CachesFollow
\* A vertex gathers and may keep the result.
<1>7. ASSUME NEW r \in todo, ExecuteGather(r) PROVE CachesBehind'
  <2>1. /\ r \in Replica /\ phase[r[1]] = "gather" /\ todo' = todo \ {r}
        /\ UNCHANGED <<data, phase, active_minorstep>>
    BY <1>7 DEF ExecuteGather, Visit, Shape, step_vars, active_vars
  <2>2. \A w \in Replica : Owes(w)' <=> Owes(w) BY <2>1 DEF Owes
  <2>3. \A q \in has_cache : \A e \in Cares(q) : Source(q, e) \in Replica BY <1>0, <1>20, SourceFacts
  <2>4. CASE UNCHANGED cache_vars BY <1>1, <2>1, <2>2, <2>3, <2>4 DEF Owes, cache_vars
  <2>5. CASE /\ gather_cache' = [gather_cache EXCEPT ![r] = LocalTotal(r)]
             /\ has_cache' = has_cache \cup {r}
             /\ r \notin has_cache /\ GatheredEdges(r) # {}
    <3>1. GatheredEdges(r) = Cares(r) BY <2>5 DEF GatheredEdges, gather_edges, Along, Cares
    <3>2. \A e \in Cares(r) : ~ Owes(Source(r, e))' BY <2>1 DEF Owes, Source
    <3>3. gather_cache'[r] =
            [e \in Edge |-> IF e \notin Cares(r) THEN 0
                            ELSE IF Owes(Source(r, e))' THEN data[Source(r, e)].applies - 1
                            ELSE data[Source(r, e)].applies]
      <4>1. gather_cache'[r] =
              [e \in Edge |-> IF e \in Cares(r) THEN data[Source(r, e)].applies ELSE 0]
        BY <2>1, <2>5, <3>1 DEF LocalTotal, Source, CacheShape
      <4> QED BY <3>2, <4>1
    <3>4. ASSUME NEW q \in has_cache
          PROVE  gather_cache'[q] =
                   [e \in Edge |-> IF e \notin Cares(q) THEN 0
                                   ELSE IF Owes(Source(q, e))' THEN data[Source(q, e)].applies - 1
                                   ELSE data[Source(q, e)].applies]
      <4>1. gather_cache'[q] = gather_cache[q] BY <1>20, <2>5, <3>4 DEF CacheShape
      <4>2. gather_cache[q] =
              [e \in Edge |-> IF e \notin Cares(q) THEN 0
                              ELSE IF Owes(Source(q, e)) THEN data[Source(q, e)].applies - 1
                              ELSE data[Source(q, e)].applies] BY <3>4 DEF CachesBehind
      <4>3. \A e \in Cares(q) : Owes(Source(q, e))' <=> Owes(Source(q, e)) BY <2>2, <2>3, <3>4
      <4> QED BY <4>1, <4>2, <4>3
    <3>5. SUFFICES ASSUME NEW q \in has_cache'
                   PROVE  gather_cache'[q] =
                            [e \in Edge |-> IF e \notin Cares(q) THEN 0
                                            ELSE IF Owes(Source(q, e))' THEN data[Source(q, e)].applies - 1
                                            ELSE data[Source(q, e)].applies]
      BY <1>0, <2>1 DEF CachesBehind, Cares, Source, Owes
    <3> QED BY <2>5, <3>3, <3>4
  <2>6. \/ UNCHANGED cache_vars
        \/ /\ gather_cache' = [gather_cache EXCEPT ![r] = LocalTotal(r)]
           /\ has_cache' = has_cache \cup {r}
           /\ r \notin has_cache /\ GatheredEdges(r) # {} BY <1>7 DEF ExecuteGather, Cached, cache_vars
  <2> QED BY <2>4, <2>5, <2>6
\* The other steps have nothing to do with caches.
<1>8. ASSUME UNCHANGED <<data, cache_vars>>, \A w \in Replica : Owes(w)' <=> Owes(w)
      PROVE  CachesBehind'
  <2>1. \A q \in has_cache : \A e \in Cares(q) : Source(q, e) \in Replica BY <1>0, <1>20, SourceFacts
  <2> QED BY <1>1, <1>8, <2>1 DEF Owes, cache_vars
<1>9. ASSUME NEW k \in Machine, Handle(k), ~ RecvUpdate(k) PROVE CachesBehind'
  <2>1. UNCHANGED <<data, cache_vars, phase, todo>>
    BY <1>9 DEF Handle, RecvMessage, RecvActiv, RecvAccum, rpc_stop, step_vars
  <2>2. CASE RecvActiv(k) BY <2>2, <2>1, <1>8 DEF RecvActiv, Owes
  <2>3. CASE ~ RecvActiv(k)
    <3>1. active_minorstep' = active_minorstep
      BY <1>9, <2>3 DEF Handle, RecvMessage, RecvAccum, rpc_stop, active_vars
    <3>2. \A w \in Replica : Owes(w)' <=> Owes(w)  BY <2>1, <3>1 DEF Owes
    <3> QED BY <1>8, <2>1, <3>2 DEF Owes
  <2> QED BY <2>2, <2>3
<1>10. ASSUME NEW r \in todo, ExchangeMessage(r) \/ ReceiveMessage(r) PROVE CachesBehind'
  <2>1. UNCHANGED <<data, cache_vars, phase>> /\ todo' = todo \ {r}
    BY <1>10 DEF ExchangeMessage, ReceiveMessage, Visit, step_vars
  <2>2. /\ phase[r[1]] \in {"exchange", "receive"}
        /\ active_minorstep' \cup {r} = active_minorstep \cup {r}
    BY <1>10 DEF ExchangeMessage, ReceiveMessage, Visit, active_vars
  <2>3. \A w \in Replica : Owes(w)' <=> Owes(w)  BY <2>1, <2>2 DEF Owes
  <2> QED BY <1>8, <2>1, <2>3 DEF Owes
<1>11. CASE internal_signal_rpc \/ UNCHANGED vars
  <2>1. UNCHANGED <<data, cache_vars, phase, active_minorstep>>
    BY <1>11 DEF internal_signal_rpc, vars, step_vars, active_vars
  <2>2. \A w \in Replica : phase[w[1]] # "receive" => (w \in todo' <=> w \in todo)
    <3>1. CASE internal_signal_rpc  BY <3>1, CallTodo DEF IInv
    <3> QED BY <1>11, <3>1 DEF vars
  <2>3. \A w \in Replica : Owes(w)' <=> Owes(w)  BY <2>1, <2>2 DEF Owes
  <2> QED BY <1>8, <2>1, <2>3 DEF Owes
<1> QED BY <1>2, <1>4, <1>5, <1>6, <1>7, <1>9, <1>10, <1>11 DEF Next, ExecuteVertex

-----------------------------------------------------------------------------

LEMMA CachesInit ==
  ASSUME Init
  PROVE  CInv
<1> USE DEF Init, PerReplica, PerMachine
<1>1. CacheShape BY EngineAssumption DEF CacheShape, Zero, InitialData
<1>2. Scattered /\ OneAhead /\ AppliedOnce /\ CachesBehind
  BY DEF Scattered, OneAhead, AppliedOnce, CachesBehind
<1> QED BY <1>1, <1>2 DEF CInv

LEMMA CachesNext ==
  ASSUME IInv, CInv, [Next]_vars
  PROVE  CInv' BY CacheShapeKept, ScatteredKept, OneAheadKept, AppliedOnceKept, CachesBehindKept
   DEF IInv, CInv

\* A cached gather is what a new gather of the same edges would give: the caches
\* of start() stay right through deltas and clearings ("must either clear or
\* update the cache values of neighboring vertices").
THEOREM CachesStayExact == Spec => []CachesExact
<1>1. Init => CInv  BY CachesInit
<1>2. IInv /\ CInv /\ [Next]_vars => CInv'  BY CachesNext
<1>3. IInv /\ CInv => CachesExact
  <2> SUFFICES ASSUME IInv, CInv, NEW r \in has_cache, phase[r[1]] = "gather"
               PROVE  gather_cache[r] =
                        [e \in Edge |-> IF e \in Along(r[2], mode.gather) \cap Local(r[1])
                                        THEN data[<<r[1], Other(e, r[2])>>].applies ELSE 0]
    BY DEF CachesExact
  <2>1. \A e \in Cares(r) : ~ Owes(Source(r, e))  BY DEF Owes, Source
  <2> QED BY <2>1 DEF CInv, CachesBehind, Cares, Source
<1>4. Spec => []IInv  BY Inductive
<1> QED BY <1>1, <1>2, <1>3, <1>4, PTL DEF Spec

-----------------------------------------------------------------------------
(* Super-steps.                                                            *)

\* What is known of the other variables' values.
BShape ==
  /\ vertex_programs \in [Replica -> Program]
  /\ messages \in [Replica -> SUBSET Message]
  /\ gather_accum \in [Replica -> [Edge -> Int]]
  /\ num_active_vertices \in [Machine -> Nat]
  /\ active_superstep \subseteq Replica /\ active_minorstep \subseteq Replica
  /\ \A r \in Replica : data[r].applies >= 1
  /\ \A x \in message_exchange : x.message \in SUBSET Message
  /\ signal_calls = {} /\ ~mode.by_id
  /\ \A x \in activ_exchange :
       x.vertex \in Vertex /\ x.to \in Mirrors(x.vertex) /\ x.program \in Program
  /\ \A x \in accum_exchange :
       /\ x.vertex \in Vertex /\ x.to = Hash[x.vertex] /\ x.from \in Mirrors(x.vertex)
       /\ x.accum \in [Edge -> Int]
  /\ \A x \in update_exchange : x.program \in Program /\ x.scatters \in BOOLEAN
  /\ mode.plain => /\ \A r \in Replica : messages[r] = {}
                   /\ \A x \in message_exchange : x.message = {}

\* The bits that brought a replica into a phase, until it has been visited.
Due ==
  \A r \in todo :
    /\ phase[r[1]] \in {"exchange", "receive", "gather", "apply", "scatter"}
    /\ phase[r[1]] = "exchange" => r \in has_message
    /\ phase[r[1]] = "receive" => r \in has_message /\ r \notin active_superstep
    /\ phase[r[1]] = "gather" => r \in active_minorstep
    /\ phase[r[1]] = "apply" => r \in active_superstep

\* What the beginning of an iteration has cleared.
Blank ==
  \A r \in Replica :
    /\ phase[r[1]] \in {"clear", "exchange"} => r \notin active_superstep \cup active_minorstep
    /\ phase[r[1]] \in {"clear", "exchange", "receive", "reduce"} => r \notin has_gather_accum

\* Once messages are received nobody has any until a vertex scatters.
Cleared ==
  \A r \in has_message : phase[r[1]] \notin {"reduce", "gather"}

\* Records reach a machine in the phase p they are sent in, or before it leaves o.
Comes(k, p, o) ==
  \/ phase[k] = p /\ ~arrived[k]
  \/ phase[k] = o

Delivered ==
  /\ \A x \in message_exchange : Comes(x.to, "exchange", "clear")
  /\ \A x \in activ_exchange : Comes(x.to, "receive", "exchange")
  /\ \A x \in accum_exchange :
       /\ Comes(x.to, "gather", "reduce")
       /\ phase[x.from] = "gather"
       /\ <<x.from, x.vertex>> \notin todo

\* All machines find the same when they look whether anyone is active.
Counted ==
  /\ \A k \in Machine : num_active_vertices[k] = 0 <=> active_superstep \cap On(k) = {}
  /\ \A j \in Machine : phase[j] = "gather" => ~NoneActive
  /\ \A j, k \in Machine : phase[j] = "exit" => /\ phase[k] # "gather"
                                                /\ phase[k] = "reduce" => NoneActive

\* The edges from which the active vertex v gathers.
Gathers(v) == gather_edges(mode, vertex_programs[Master(v)])
Part(v, e) == <<Place(e), v>>

\* Only replicas of active vertices gather, in the direction of the master; unless
\* all do.
Activated ==
  ~mode.sched_allv =>
    /\ \A q \in Replica :
         \/ q \in active_minorstep /\ phase[q[1]] \in {"receive", "reduce"}
         \/ q \in todo /\ phase[q[1]] = "gather"
         => /\ Master(q[2]) \in active_superstep
            /\ gather_edges(mode, vertex_programs[q]) = Gathers(q[2]) /\ Gathers(q[2]) # {}
    /\ \A x \in activ_exchange :
         /\ Master(x.vertex) \in active_superstep
         /\ gather_edges(mode, x.program) = Gathers(x.vertex) /\ Gathers(x.vertex) # {}

Receiving(v) ==
  Master(v) \in active_superstep /\ phase[Hash[v]] \in {"receive", "reduce", "gather"}

\* Wherever an active vertex has an edge to gather from, its replica will.
Covered ==
  \A v \in Vertex : Receiving(v) =>
    \A e \in Along(v, Gathers(v)) :
      /\ phase[Place(e)] \in {"exchange", "receive"} =>
           \/ mode.sched_allv
           \/ Part(v, e) \in active_minorstep
           \/ \E x \in activ_exchange : x.to = Place(e) /\ x.vertex = v
      /\ phase[Place(e)] = "reduce" => Part(v, e) \in active_minorstep

\* What the master has been given along e so far.
Given(v, e) == IF Master(v) \in has_gather_accum THEN gather_accum[Master(v)][e] ELSE 0
Waits(q) == phase[q[1]] # "gather" \/ q \in todo
Sent(v, k) == \E x \in accum_exchange : x.vertex = v /\ x.from = k
Value(v, e) == data[Master(Other(e, v))].applies

\* Every edge has contributed to the sum once, or its contribution is on its way, or
\* its replica has still to gather.
Summed ==
  \A v \in Vertex : Receiving(v) /\ (\A k \in Machine : phase[k] # "apply") =>
    /\ \A e \in Edge :
         Given(v, e) = IF e \in Along(v, Gathers(v)) /\ ~ Waits(Part(v, e)) /\ ~ Sent(v, Place(e))
                       THEN Value(v, e) ELSE 0
    /\ \A x \in accum_exchange : x.vertex = v =>
         \A e \in Edge :
           x.accum[e] = IF e \in Along(v, Gathers(v)) /\ Place(e) = x.from
                        THEN Value(v, e) ELSE 0

\* No two sums of a replica are on their way, and nothing is left of an old sum that a
\* new one does not replace.
Fresh ==
  /\ \A x, y \in accum_exchange : x.vertex = y.vertex /\ x.from = y.from => x = y
  /\ \A x \in accum_exchange :
       /\ ~mode.sched_allv => Master(x.vertex) \in active_superstep
       /\ \A e \in Edge : x.accum[e] # 0 => e \in Along(x.vertex, mode.gather)
  /\ \A v \in Vertex :
       /\ \A e \in Edge : gather_accum[Master(v)][e] # 0 => e \in Along(v, mode.gather)
       /\ ~mode.sched_allv /\ gather_accum[Master(v)] # Zero =>
            /\ Master(v) \in has_gather_accum \cap active_superstep
            /\ \/ phase[Hash[v]] = "gather"
               \/ phase[Hash[v]] = "apply" /\ Master(v) \in todo

\* What the steps keep that make the super-steps.
BInv == /\ BShape /\ Due /\ Blank /\ Cleared /\ Delivered /\ Counted /\ Activated /\ Covered /\ Summed
        /\ Fresh

-----------------------------------------------------------------------------
(* Where the machines are.                                                 *)

\* While a machine has replicas to visit, no other is ahead of it, and those behind
\* wait for it.
LEMMA Where ==
  ASSUME IInv, Scattered, Counted, NEW r \in todo, NEW j \in Machine
  PROVE  /\ phase[r[1]] = "exchange" => 
              \/ phase[j] = "exchange" /\ ~arrived[j]
              \/ phase[j] = "clear"
         /\ phase[r[1]] = "receive" =>
              \/ phase[j] = "receive" /\ ~arrived[j]
              \/ phase[j] = "exchange" /\ arrived[j]
         /\ phase[r[1]] = "gather" => \/ phase[j] = "gather" /\ ~arrived[j]
                                      \/ phase[j] = "reduce"
         /\ phase[r[1]] = "apply" =>
              \/ phase[j] = "apply" /\ ~arrived[j]
              \/ phase[j] = "gather" /\ arrived[j]
         /\ phase[r[1]] = "scatter" =>
              \/ phase[j] = "scatter"
              \/ phase[j] = "apply" /\ arrived[j]
<1> DEFINE s == r[1]
<1>1. s \in Machine /\ r \in todo \cap On(s) BY ReplicaFacts DEF IInv, Shape, On
<1>2. \A i \in Machine : passed[i] \in Nat BY DEF IInv, Shape
<1>3. phase[s] \in {"exchange", "receive", "gather", "apply", "scatter"} => ~arrived[s]
  BY <1>1 DEF IInv, Quiet, Scattered, Exchanging
<1>4. SUFFICES ASSUME phase[s] \in {"exchange", "receive", "gather", "apply", "scatter"}
               PROVE  \/ /\ phase[j] = phase[s]
                         /\ phase[s] # "scatter" => ~arrived[j]
                      \/ arrived[j] /\ After(phase[j], phase[s]) BY <1>4 DEF After
<1>5. CASE passed[j] > passed[s]  BY <1>1, <1>3, <1>4, <1>5 DEF IInv, InStep
<1>6. CASE passed[j] = passed[s]
  <2>1. phase[j] = phase[s] BY <1>1, <1>4, <1>6 DEF IInv, InStep, Alike, Counted
  <2>2. phase[s] # "scatter" => ~arrived[j] BY <1>1, <1>4, <1>6, <2>1 DEF IInv, Quiet, Exchanging
  <2> QED BY <2>1, <2>2
<1>7. CASE passed[s] > passed[j]  BY <1>1, <1>7 DEF IInv, InStep
<1> QED BY <1>1, <1>2, <1>5, <1>6, <1>7

Ended == \E k \in Machine : phase[k] \in {"exit", "ended"}
Ahead(k) == \A j \in Machine : passed[j] <= passed[k]

LEMMA StageNow ==
  ASSUME Shape, InStep, NEW k \in Machine, Ahead(k), ~Ended
  PROVE  Stage = IF phase[k] \in {"apply", "scatter"} THEN phase[k] ELSE "receive"
<1> DEFINE a == CHOOSE i \in Machine : \A j \in Machine : passed[j] <= passed[i]
<1>1. a \in Machine /\ \A j \in Machine : passed[j] <= passed[a] BY Zenon DEF Ahead
<1>2. passed[a] = passed[k] BY <1>1 DEF Ahead, Shape
<1>3. phase[a] = phase[k] \/ (phase[a] \notin {"apply", "scatter"} /\ phase[k] \notin {"apply", "scatter"})
  BY <1>1, <1>2 DEF InStep, Alike
<1>4. Stage = IF phase[a] \in {"apply", "scatter"} THEN phase[a] ELSE "receive" BY DEF Stage, Ended
<1> QED BY <1>3, <1>4

LEMMA StageNext ==
  ASSUME Shape', InStep', NEW k \in Machine, Ahead(k)', ~Ended'
  PROVE  Stage' = IF phase'[k] \in {"apply", "scatter"} THEN phase'[k] ELSE "receive"
<1> DEFINE a == CHOOSE i \in Machine : \A j \in Machine : passed'[j] <= passed'[i]
<1>1. a \in Machine /\ \A j \in Machine : passed'[j] <= passed'[a] BY Zenon DEF Ahead
<1>2. passed'[a] = passed'[k] BY <1>1 DEF Ahead, Shape
<1>3. phase'[a] = phase'[k]
      \/ (phase'[a] \notin {"apply", "scatter"} /\ phase'[k] \notin {"apply", "scatter"})
  BY <1>1, <1>2 DEF InStep, Alike
<1>4. Stage' = IF phase'[a] \in {"apply", "scatter"} THEN phase'[a] ELSE "receive" BY DEF Stage, Ended
<1> QED BY <1>3, <1>4

-----------------------------------------------------------------------------
(* Shapes.                                                                 *)

LEMMA EdgeFacts ==
  /\ \A e \in Edge : /\ e[1] \in Vertex /\ e[2] \in Vertex /\ e[1] # e[2]
                     /\ Place(e) \in Machine
  /\ \A d : \A v \in Vertex : \A e \in Along(v, d) :
       e \in Edge /\ Part(v, e) \in Replica /\ Other(e, v) \in Vertex /\ Other(e, v) # v
  /\ \A e \in Edge, v \in Vertex : Other(e, v) \in Vertex
<1>1. \A e \in Edge : e[1] \in Vertex /\ e[2] \in Vertex /\ e[1] # e[2] BY EdgeAssumption
<1>2. \A e \in Edge : Place(e) \in Machine BY <1>1, EngineAssumption DEF Place
<1>3. ASSUME NEW v \in Vertex, NEW d, NEW e \in Along(v, d)
      PROVE  e \in Edge /\ Part(v, e) \in Replica /\ Other(e, v) \in Vertex /\ Other(e, v) # v
  <2>1. e \in Edge /\ (e[1] = v \/ e[2] = v) BY DEF Along
  <2>2. e \in Along(v, {"in", "out"}) BY <2>1 DEF Along
  <2>3. Place(e) \in Machines(v) BY <2>2 DEF Machines
  <2> QED BY <1>1, <1>2, <2>1, <2>3 DEF Part, Replica, Other
<1>4. \A e \in Edge, v \in Vertex : Other(e, v) \in Vertex BY <1>1 DEF Other
<1> QED BY <1>1, <1>2, <1>3, <1>4

LEMMA LocalTotals ==
  ASSUME mode \in Modes, CacheShape, NEW r \in Replica
  PROVE  LocalTotal(r) \in [Edge -> Int]
<1>1. \A e \in GatheredEdges(r) : data[<<r[1], Other(e, r[2])>>].applies \in Int
  <2> SUFFICES ASSUME NEW e \in GatheredEdges(r)
               PROVE  <<r[1], Other(e, r[2])>> \in Replica BY DEF CacheShape
  <2>1. e \in Cares(r)  BY DEF GatheredEdges, gather_edges, Along, Cares
  <2> QED BY <2>1, SourceFacts DEF Source
<1> QED BY <1>1 DEF LocalTotal

LEMMA BShapeKept ==
  ASSUME IInv, CacheShape, OneAhead, BShape, [Next]_vars
  PROVE  BShape'
<1> USE DEF BShape, IInv
<1>0. mode' = mode /\ mode \in Modes  BY ModeStays DEF CacheShape
<1>1. ASSUME NEW k \in Machine, MainLoop(k) PROVE BShape'
  <2>1. /\ UNCHANGED <<data, vertex_programs, messages, gather_accum, exchange_vars, signal_calls>>
        /\ active_superstep' \subseteq active_superstep
        /\ active_minorstep' \subseteq active_minorstep \cup On(k)
        /\ \/ UNCHANGED num_active_vertices
           \/ num_active_vertices' = [num_active_vertices EXCEPT ![k] = 0]
    BY <1>1 DEF MainLoop, NextIteration, Quit, StartExchange, StartReceive, Reduce, StartGather,
       StartApply, StartScatter, EndIteration, End, Arrive, message_vars, gather_vars, active_vars, calls
  <2>2. num_active_vertices' \in [Machine -> Nat]  BY <2>1
  <2>3. active_minorstep' \subseteq Replica  BY <2>1 DEF On
  <2> QED BY <1>0, <2>1, <2>2, <2>3 DEF exchange_vars
<1>2. ASSUME NEW k \in Machine, Handle(k) PROVE BShape'
  <2> USE DEF exchanges_but_message, exchanges_but_activ, exchanges_but_accum,
              exchanges_but_update, message_vars, gather_vars, active_vars, calls
  <2>1. CASE RecvMessage(k)
    <3>1. PICK x \in message_exchange :
            /\ message_exchange' = message_exchange \ {x}
            /\ Signalled(<<k, x.vertex>>, x.message) BY <2>1 DEF RecvMessage
    <3>2. messages' \in [Replica -> SUBSET Message] BY <3>1 DEF Signalled
    <3>3. mode.plain => \A r \in Replica : messages'[r] = {} BY <3>1 DEF Signalled
    <3> QED BY <1>0, <2>1, <3>1, <3>2, <3>3 DEF RecvMessage
  <2>2. CASE RecvActiv(k) BY <2>2, ReplicaFacts, <1>0 DEF RecvActiv
  <2>3. CASE RecvAccum(k)
    <3>1. PICK x \in accum_exchange :
            /\ x.to = k
            /\ accum_exchange' = accum_exchange \ {x}
            /\ Accumulate(<<k, x.vertex>>, x.accum) BY <2>3 DEF RecvAccum
    <3>2. gather_accum' \in [Replica -> [Edge -> Int]]
      <4>1. \A a, b \in [Edge -> Int] : Plus(a, b) \in [Edge -> Int]  BY DEF Plus
      <4>2. \/ gather_accum' = [gather_accum EXCEPT ![<<k, x.vertex>>] =
                                 Plus(gather_accum[<<k, x.vertex>>], x.accum)]
            \/ gather_accum' = [gather_accum EXCEPT ![<<k, x.vertex>>] = x.accum] BY <3>1 DEF Accumulate
      <4>3. <<k, x.vertex>> \in Replica  BY <3>1, ReplicaFacts DEF Master
      <4>4. Plus(gather_accum[<<k, x.vertex>>], x.accum) \in [Edge -> Int] BY <3>1, <4>1, <4>3
      <4> QED BY <3>1, <4>2, <4>4
    <3> QED BY <1>0, <2>3, <3>1, <3>2 DEF RecvAccum
  <2>4. CASE RecvUpdate(k)
    <3>1. PICK x \in update_exchange :
            /\ x.to = k
            /\ update_exchange' = update_exchange \ {x}
            /\ data' = [data EXCEPT ![<<k, x.vertex>>] = x.data]
            /\ \/ /\ vertex_programs' = [vertex_programs EXCEPT ![<<k, x.vertex>>] = x.program]
                  /\ active_minorstep' = active_minorstep \cup {<<k, x.vertex>>}
               \/ UNCHANGED <<vertex_programs, active_minorstep>> BY <2>4 DEF RecvUpdate
    <3>2. <<k, x.vertex>> \in Replica  BY <3>1, ReplicaFacts DEF Shape
    <3>3. vertex_programs' \in [Replica -> Program] /\ active_minorstep' \subseteq Replica BY <3>1, <3>2
    <3>4. x.data.applies >= 1 BY SMTT(30), <3>1, <3>2 DEF OneAhead, CacheShape
    <3>5. \A r \in Replica : data'[r].applies >= 1 BY <3>1, <3>2, <3>4 DEF Shape
    <3> QED BY <1>0, <2>4, <3>1, <3>3, <3>5 DEF RecvUpdate
  <2>5. CASE rpc_stop(k)  BY <1>0, <2>5 DEF rpc_stop, exchange_vars
  <2> QED BY <1>2, <2>1, <2>2, <2>3, <2>4, <2>5 DEF Handle
<1>3. ASSUME NEW r \in todo, ExecuteVertex(r) PROVE BShape'
  <2> USE DEF exchanges_but_message, exchanges_but_activ, exchanges_but_accum,
              exchanges_but_update, message_vars, gather_vars, active_vars, calls
  <2>0. r \in Replica /\ r[2] \in Vertex /\ r = <<r[1], r[2]>> /\ r[1] \in Machine
        /\ (~IsMaster(r) => r[1] \in Mirrors(r[2])) BY ReplicaFacts DEF Shape
  <2>1. CASE ExchangeMessage(r)
    <3>1. /\ message_exchange' = message_exchange \cup
               {[to |-> Hash[r[2]], from |-> r[1], vertex |-> r[2], message |-> messages[r]]}
          /\ messages' = [messages EXCEPT ![r] = {}] BY <2>1 DEF ExchangeMessage
    <3>2. messages' \in [Replica -> SUBSET Message]  BY <3>1
    <3>3. \A x \in message_exchange' : x.message \in SUBSET Message  BY <2>0, <3>1
    <3>4. mode.plain => /\ \A q \in Replica : messages'[q] = {}
                        /\ \A x \in message_exchange' : x.message = {} BY <2>0, <3>1
    <3> QED BY <1>0, <2>1, <3>2, <3>3, <3>4 DEF ExchangeMessage
  <2>2. CASE ReceiveMessage(r)
    <3> DEFINE program == [vertex_programs[r] EXCEPT !.message = messages[r]]
    <3>1. /\ active_superstep' = active_superstep \cup {r}
          /\ num_active_vertices' = [num_active_vertices EXCEPT ![r[1]] = @ + 1]
          /\ vertex_programs' = [vertex_programs EXCEPT ![r] = program]
          /\ messages' = [messages EXCEPT ![r] = {}]
          /\ active_minorstep' \subseteq active_minorstep \cup {r}
          /\ activ_exchange' \subseteq activ_exchange \cup
               {[to |-> j, vertex |-> r[2], program |-> program] :
                   j \in GatherMirrors(r[2], program)} BY <2>2 DEF ReceiveMessage
    <3>2. program \in Program  BY <2>0 DEF Program
    <3> HIDE DEF program
    <3>3. /\ messages' \in [Replica -> SUBSET Message]
          /\ vertex_programs' \in [Replica -> Program]
          /\ num_active_vertices' \in [Machine -> Nat]
          /\ active_superstep' \subseteq Replica /\ active_minorstep' \subseteq Replica
      BY <2>0, <3>1, <3>2
    <3>4. mode.plain => \A q \in Replica : messages'[q] = {} BY <2>0, <3>1
    <3>5. \A x \in activ_exchange' :
            x.vertex \in Vertex /\ x.to \in Mirrors(x.vertex) /\ x.program \in Program
      BY <2>0, <3>1, <3>2 DEF GatherMirrors
    <3> QED BY <1>0, <2>2, <3>3, <3>4, <3>5 DEF ReceiveMessage
  <2>3. CASE ExecuteGather(r)
    <3> DEFINE accum == IF Cached(r) THEN gather_cache[r] ELSE LocalTotal(r)
    <3>1. accum \in [Edge -> Int]  BY <1>0, <2>0, LocalTotals DEF CacheShape
    <3>2. /\ SendAccum(r, accum)
          /\ \/ UNCHANGED vertex_programs
             \/ vertex_programs' = [vertex_programs EXCEPT ![r] = DefaultProgram]
      BY <2>3 DEF ExecuteGather
    <3> HIDE DEF accum
    <3>3. vertex_programs' \in [Replica -> Program]
      <4>1. DefaultProgram \in Program  BY DEF DefaultProgram, Program
      <4> QED BY <3>2, <4>1
    <3>4. gather_accum' \in [Replica -> [Edge -> Int]] BY <3>1, <3>2 DEF SendAccum, Accumulate, Plus
    <3>5. ASSUME NEW x \in accum_exchange', x \notin accum_exchange
          PROVE  /\ x.vertex \in Vertex /\ x.to = Hash[x.vertex] /\ x.from \in Mirrors(x.vertex)
                 /\ x.accum \in [Edge -> Int]
      <4>1. /\ ~IsMaster(r)
            /\ x = [to |-> Hash[r[2]], from |-> r[1], vertex |-> r[2], accum |-> accum]
        BY <3>2, <3>5 DEF SendAccum
      <4> QED BY <2>0, <3>1, <4>1
    <3> QED BY <1>0, <2>3, <3>3, <3>4, <3>5 DEF ExecuteGather
  <2>4. CASE ExecuteApply(r)
    <3> DEFINE new == Applied(data[r], vertex_programs[r].message, gather_accum[r])
    <3>1. /\ data' = [data EXCEPT ![r] = new]
          /\ gather_accum' = [gather_accum EXCEPT ![r] = Zero] BY <2>4 DEF ExecuteApply
    <3>2. new.applies >= 1  BY <2>0 DEF Applied, CacheShape
    <3>3. PICK signals \in BOOLEAN :
            LET program == [vertex_programs[r] EXCEPT !.signals = signals]
                scatters == scatter_edges(mode, program) # {}
                kept == IF scatters THEN program ELSE DefaultProgram
            IN
            /\ vertex_programs' = [vertex_programs EXCEPT ![r] = kept]
            /\ active_minorstep' = active_minorstep \cup (IF scatters THEN {r} ELSE {})
            /\ update_exchange' = update_exchange \cup Updates(r[2], new, kept, scatters)
      BY <2>4 DEF ExecuteApply
    <3> DEFINE program == [vertex_programs[r] EXCEPT !.signals = signals]
               scatters == scatter_edges(mode, program) # {}
               kept == IF scatters THEN program ELSE DefaultProgram
    <3>4. kept \in Program /\ scatters \in BOOLEAN BY <2>0 DEF Program, DefaultProgram
    <3>5. /\ vertex_programs' = [vertex_programs EXCEPT ![r] = kept]
          /\ active_minorstep' \subseteq active_minorstep \cup {r}
          /\ update_exchange' = update_exchange \cup Updates(r[2], new, kept, scatters) BY <3>3
    <3> HIDE DEF kept, scatters, program, new
    <3>6. \A q \in Replica : data'[q].applies >= 1  BY <3>1, <3>2 DEF Shape
    <3>7. \A x \in update_exchange' : x.program \in Program /\ x.scatters \in BOOLEAN
      BY <3>4, <3>5 DEF Updates
    <3>8. /\ vertex_programs' \in [Replica -> Program]
          /\ active_minorstep' \subseteq Replica
          /\ gather_accum' \in [Replica -> [Edge -> Int]] BY <2>0, <3>1, <3>4, <3>5 DEF Zero
    <3> QED BY <1>0, <2>4, <3>6, <3>7, <3>8 DEF ExecuteApply
  <2>5. CASE ExecuteScatter(r)
    <3> DEFINE E == IF vertex_programs[r].signals THEN ScatteredEdges(r) ELSE {}
    <3>1. /\ SignalNeighbours(r, E) /\ UNCHANGED signal_calls
          /\ vertex_programs' = [vertex_programs EXCEPT ![r] = DefaultProgram] BY <2>5 DEF ExecuteScatter
    <3>2. E \subseteq Edge  BY DEF ScatteredEdges, Along
    <3> HIDE DEF E
    <3>3. ASSUME NEW F \in SUBSET Edge, SignalNeighbours(r, F)
          PROVE  /\ messages' \in [Replica -> SUBSET Message]
                 /\ mode.plain => \A q \in Replica : messages'[q] = {}
      BY <3>3 DEF Between, Message, SignalNeighbours
    <3>4. /\ messages' \in [Replica -> SUBSET Message]
          /\ mode.plain => \A q \in Replica : messages'[q] = {}
          /\ signal_calls' = {} BY <3>1, <3>2, <3>3
    <3>5. vertex_programs' \in [Replica -> Program] BY <3>1 DEF Program, DefaultProgram
    <3> QED BY <1>0, <2>5, <3>4, <3>5 DEF ExecuteScatter, exchange_vars
  <2> QED BY <1>3, <2>1, <2>2, <2>3, <2>4, <2>5 DEF ExecuteVertex
<1>4. CASE internal_signal_rpc  BY <1>4 DEF internal_signal_rpc
<1>5. CASE UNCHANGED vars BY <1>5 DEF vars, exchange_vars, message_vars, gather_vars, active_vars, calls
<1> QED BY <1>1, <1>2, <1>3, <1>4, <1>5 DEF Next

-----------------------------------------------------------------------------
(* What steps do to the bits.                                              *)

\* A machine moves nobody but itself.
LEMMA LoopBits ==
  ASSUME Shape, NEW k \in Machine, MainLoop(k)
  PROVE  /\ UNCHANGED <<mode, data, vertex_programs, messages, gather_accum, cache_vars,
                        exchange_vars, calls>>
         /\ \A j \in Machine : j # k => /\ phase'[j] = phase[j] /\ arrived'[j] = arrived[j]
                                        /\ passed'[j] = passed[j]
                                        /\ num_active_vertices'[j] = num_active_vertices[j]
         /\ \A r \in Replica : r[1] # k =>
              /\ r \in todo' <=> r \in todo
              /\ r \in has_message' <=> r \in has_message
              /\ r \in active_superstep' <=> r \in active_superstep
              /\ r \in active_minorstep' <=> r \in active_minorstep
              /\ r \in has_gather_accum' <=> r \in has_gather_accum
<1> USE DEF Go, Begin, Leave, On, message_vars, gather_vars, active_vars
<1>1. CASE NextIteration(k)  BY <1>1 DEF NextIteration
<1>2. CASE Quit(k)           BY <1>2 DEF Quit
<1>3. CASE StartExchange(k)  BY <1>3 DEF StartExchange
<1>4. CASE StartReceive(k)   BY <1>4 DEF StartReceive
<1>5. CASE Reduce(k)         BY <1>5 DEF Reduce
<1>6. CASE StartGather(k) BY <1>6 DEF StartGather, Phases, Shape
<1>7. CASE StartApply(k)     BY <1>7 DEF StartApply
<1>8. CASE StartScatter(k)   BY <1>8 DEF StartScatter
<1>9. CASE EndIteration(k)   BY <1>9 DEF EndIteration
<1>10. CASE End(k)           BY <1>10 DEF End
<1>11. CASE Arrive(k)        BY <1>11 DEF Arrive
<1> QED BY <1>1, <1>2, <1>3, <1>4, <1>5, <1>6, <1>7, <1>8, <1>9, <1>10, <1>11 DEF MainLoop

\* What it does to itself; it has nobody left to visit.
LEMMA LoopSelf ==
  ASSUME Shape, BShape, Quiet, Scattered, Due, NEW k \in Machine, MainLoop(k), ~Arrive(k)
  PROVE  /\ todo \cap On(k) = {}
         /\ \/ /\ phase[k] = "test" /\ phase'[k] = "clear"
               /\ num_active_vertices'[k] = 0 /\ UNCHANGED <<todo, passed, has_message>>
               /\ active_superstep' = active_superstep \ On(k)
               /\ active_minorstep' = active_minorstep \ On(k)
               /\ has_gather_accum' = has_gather_accum \ On(k)
            \/ /\ \/ phase[k] = "test" /\ phase'[k] = "exit" /\ UNCHANGED <<todo, passed, has_message>>
                  \/ /\ phase[k] = "clear" /\ phase'[k] = "exchange" /\ ~arrived'[k]
                     /\ todo' = todo \cup ({r \in has_message : ~IsMaster(r)} \cap On(k))
                     /\ UNCHANGED has_message
                  \/ /\ phase[k] = "exchange" /\ phase'[k] = "receive" /\ ~arrived'[k]
                     /\ todo' = todo \cup (has_message \cap On(k))
                     /\ UNCHANGED has_message
                  \/ /\ phase[k] = "reduce" /\ phase'[k] = "exit" /\ NoneActive
                     /\ UNCHANGED <<todo, has_message>>
                  \/ /\ phase[k] = "reduce" /\ phase'[k] = "gather" /\ ~NoneActive /\ ~arrived'[k]
                     /\ todo' = todo \cup (active_minorstep \cap On(k))
                     /\ UNCHANGED has_message
                  \/ /\ phase[k] = "apply" /\ phase'[k] = "scatter" /\ ~arrived'[k]
                     /\ todo' = todo \cup (active_minorstep \cap On(k))
                     /\ UNCHANGED has_message
                  \/ /\ phase[k] = "scatter" /\ phase'[k] = "test"
                     /\ UNCHANGED <<todo, has_message>>
                  \/ phase[k] = "exit" /\ phase'[k] = "ended" /\ UNCHANGED <<todo, has_message>>
               /\ UNCHANGED <<active_vars, has_gather_accum>>
            \/ /\ phase[k] = "receive" /\ phase'[k] = "reduce"
               /\ active_minorstep' = active_minorstep \cup (IF mode.sched_allv THEN On(k) ELSE {})
               /\ has_message' = has_message \ On(k)
               /\ UNCHANGED <<todo, active_superstep, num_active_vertices, has_gather_accum>>
            \/ /\ phase[k] = "gather" /\ phase'[k] = "apply" /\ ~arrived'[k]
               /\ todo' = todo \cup (active_superstep \cap On(k))
               /\ active_minorstep' = active_minorstep \ On(k)
               /\ UNCHANGED <<active_superstep, num_active_vertices, has_gather_accum, has_message>>
<1> USE DEF Go, Begin, Leave, message_vars, gather_vars, active_vars
<1>0. phase \in [Machine -> Phases] /\ arrived \in [Machine -> BOOLEAN]  BY DEF Shape
<1>1. CASE NextIteration(k)
  <2>1. phase[k] = "test"  BY <1>1 DEF NextIteration
  <2>2. todo \cap On(k) = {}  BY <2>1 DEF Due, On
  <2> QED BY <1>0, <1>1, <2>1, <2>2 DEF NextIteration, Shape, BShape
<1>2. CASE Quit(k) BY <1>2, <1>0 DEF Quit, Due, On
<1>3. CASE StartExchange(k) BY <1>3, <1>0 DEF StartExchange, Due, On
<1>4. CASE StartReceive(k) BY <1>4, <1>0 DEF StartReceive, Quiet, Exchanging
<1>5. CASE Reduce(k) BY <1>5, <1>0 DEF Reduce, Quiet, Exchanging
<1>6. CASE StartGather(k) BY <1>6, <1>0 DEF StartGather, Due, On
<1>7. CASE StartApply(k) BY <1>7, <1>0 DEF StartApply, Quiet, Exchanging
<1>8. CASE StartScatter(k) BY <1>8, <1>0 DEF StartScatter, Quiet, Exchanging
<1>9. CASE EndIteration(k) BY <1>9, <1>0 DEF EndIteration, Scattered
<1>10. CASE End(k) BY <1>10, <1>0 DEF End, Due, On
<1> QED BY <1>1, <1>2, <1>3, <1>4, <1>5, <1>6, <1>7, <1>8, <1>9, <1>10 DEF MainLoop

\* A visit.
LEMMA VisitBits ==
  ASSUME Shape, NEW r \in todo, ExecuteVertex(r)
  PROVE  /\ UNCHANGED <<step_vars, mode>> /\ todo' = todo \ {r}
         /\ IF phase[r[1]] = "exchange" THEN has_message' = has_message \ {r}
                                        ELSE has_message \subseteq has_message'
         /\ IF phase[r[1]] = "receive"
            THEN /\ active_superstep' = active_superstep \cup {r}
                 /\ num_active_vertices' =
                      [num_active_vertices EXCEPT ![r[1]] = num_active_vertices[r[1]] + 1]
            ELSE UNCHANGED <<active_superstep, num_active_vertices>>
         /\ IF phase[r[1]] \in {"receive", "apply"}
            THEN /\ active_minorstep \subseteq active_minorstep'
                 /\ active_minorstep' \subseteq active_minorstep \cup {r}
            ELSE UNCHANGED active_minorstep
         /\ IF phase[r[1]] = "gather"
            THEN /\ has_gather_accum \subseteq has_gather_accum'
                 /\ has_gather_accum' \subseteq has_gather_accum \cup {r}
            ELSE UNCHANGED has_gather_accum
<1> USE DEF Visit, message_vars, gather_vars, active_vars
<1>1. CASE ExchangeMessage(r)  BY <1>1 DEF ExchangeMessage
<1>2. CASE ReceiveMessage(r)   BY <1>2 DEF ReceiveMessage
<1>3. CASE ExecuteGather(r)    BY <1>3 DEF ExecuteGather, SendAccum, Accumulate
<1>4. CASE ExecuteApply(r) BY <1>4 DEF ExecuteApply
<1>5. CASE ExecuteScatter(r)   BY <1>5 DEF ExecuteScatter, SignalById, SignalNeighbours
<1> QED BY <1>1, <1>2, <1>3, <1>4, <1>5 DEF ExecuteVertex

\* A record, or a call.
LEMMA HandleBits ==
  ASSUME Shape, BShape,
         \/ \E k \in Machine : Handle(k)
         \/ internal_signal_rpc
         \/ UNCHANGED vars
  PROVE  /\ UNCHANGED <<step_vars, mode, todo, active_superstep, num_active_vertices>>
         /\ has_message \subseteq has_message' /\ has_message' \subseteq Replica
         /\ active_minorstep \subseteq active_minorstep'
         /\ \A q \in active_minorstep' \ active_minorstep : phase[q[1]] \in {"receive", "apply"}
         /\ has_gather_accum \subseteq has_gather_accum'
         /\ \A q \in has_gather_accum' \ has_gather_accum : phase[q[1]] = "gather"
<1> USE DEF message_vars, gather_vars, active_vars
<1>1. ASSUME NEW k \in Machine, RecvMessage(k)
      PROVE  has_message \subseteq has_message' /\ has_message' \subseteq Replica
  BY <1>1, ReplicaFacts DEF RecvMessage, Signalled, Shape, Master
<1>2. CASE \E k \in Machine : RecvMessage(k)  BY <1>1, <1>2 DEF RecvMessage, Signalled
<1>3. CASE \E k \in Machine : RecvActiv(k)    BY <1>3 DEF RecvActiv, Shape
<1>4. CASE \E k \in Machine : RecvAccum(k) BY <1>4 DEF RecvAccum, Accumulate, Shape
<1>5. CASE \E k \in Machine : RecvUpdate(k) BY <1>5 DEF RecvUpdate, Shape
<1>6. CASE \E k \in Machine : rpc_stop(k)     BY <1>6 DEF rpc_stop, Shape
<1>7. CASE internal_signal_rpc BY <1>7 DEF internal_signal_rpc, BShape
<1>8. CASE UNCHANGED vars  BY <1>8 DEF vars, step_vars, Shape
<1> QED BY <1>2, <1>3, <1>4, <1>5, <1>6, <1>7, <1>8 DEF Handle

LEMMA NextSteps ==
  ASSUME [Next]_vars
  PROVE  \/ \E k \in Machine : MainLoop(k)
         \/ \E r \in todo : ExecuteVertex(r)
         \/ \E k \in Machine : Handle(k)
         \/ internal_signal_rpc
         \/ UNCHANGED vars BY DEF Next

LEMMA DueKept ==
  ASSUME IInv, Scattered, BShape, Due, Blank, [Next]_vars
  PROVE  Due'
<1> USE DEF IInv
<1>1. ASSUME NEW k \in Machine, MainLoop(k) PROVE Due'
  <2>1. SUFFICES ASSUME NEW r \in todo'
                 PROVE  /\ phase'[r[1]] \in {"exchange", "receive", "gather", "apply", "scatter"}
                        /\ phase'[r[1]] = "exchange" => r \in has_message'
                        /\ phase'[r[1]] = "receive" => r \in has_message' /\ r \notin active_superstep'
                        /\ phase'[r[1]] = "gather" => r \in active_minorstep'
                        /\ phase'[r[1]] = "apply" => r \in active_superstep' BY DEF Due
  <2>2. r \in Replica /\ r[1] \in Machine BY <2>1, ShapeKept, ReplicaFacts, <1>1 DEF Shape, Next
  <2>3. CASE r[1] # k  BY <1>1, <2>1, <2>2, <2>3, LoopBits DEF Due
  <2>4. CASE Arrive(k) BY <2>1, <2>4 DEF Arrive, Due, message_vars, active_vars
  <2>5. CASE r[1] = k /\ ~Arrive(k)
    <3>1. r \notin todo  BY <1>1, <2>2, <2>5, LoopSelf DEF On
    <3> QED BY <1>1, <2>1, <2>2, <2>5, <3>1, LoopSelf DEF Blank, active_vars
  <2> QED BY <2>3, <2>4, <2>5
<1>2. ASSUME NEW r \in todo, ExecuteVertex(r) PROVE Due' BY <1>2, VisitBits DEF Due, step_vars
<1>3. CASE (\E k \in Machine : Handle(k)) \/ internal_signal_rpc \/ UNCHANGED vars
  BY <1>3, HandleBits DEF Due, step_vars
<1> QED BY <1>1, <1>2, <1>3, NextSteps

LEMMA BlankKept ==
  ASSUME IInv, Scattered, BShape, Due, Blank, [Next]_vars
  PROVE  Blank'
<1> USE DEF IInv
<1>1. ASSUME NEW k \in Machine, MainLoop(k) PROVE Blank'
  <2>1. SUFFICES ASSUME NEW r \in Replica
                 PROVE  /\ phase'[r[1]] \in {"clear", "exchange"} =>
                             r \notin active_superstep' \cup active_minorstep'
                        /\ phase'[r[1]] \in {"clear", "exchange", "receive", "reduce"} =>
                             r \notin has_gather_accum' BY DEF Blank
  <2>2. r[1] \in Machine  BY ReplicaFacts
  <2>3. CASE r[1] # k  BY <1>1, <2>2, <2>3, LoopBits DEF Blank
  <2>4. CASE Arrive(k)  BY <2>4 DEF Arrive, Blank, gather_vars, active_vars
  <2>5. CASE r[1] = k /\ ~Arrive(k) BY <2>5, <1>1, LoopSelf DEF On, Blank, active_vars
  <2> QED BY <2>3, <2>4, <2>5
<1>2. ASSUME NEW r \in todo, ExecuteVertex(r) PROVE Blank' BY <1>2, VisitBits DEF Blank, step_vars
<1>3. CASE (\E k \in Machine : Handle(k)) \/ internal_signal_rpc \/ UNCHANGED vars
  BY <1>3, HandleBits DEF Blank, step_vars
<1> QED BY <1>1, <1>2, <1>3, NextSteps

-----------------------------------------------------------------------------
(* Records.                                                                *)

\* A machine goes on when it is let go, and does not wait at once where it has work.
LEMMA LoopMoves ==
  ASSUME Shape, InStep, NEW k \in Machine, MainLoop(k)
  PROVE  \/ Arrive(k)
         \/ phase[k] = "test" /\ phase'[k] \in {"clear", "exit"} /\ UNCHANGED passed
         \/ /\ arrived[k] /\ AllArrived(k)
            /\ After(phase[k], phase'[k])
            /\ phase'[k] \in Exchanging => ~arrived'[k]
            /\ \A j \in Machine :
                 \/ passed[j] = passed[k] + 1 /\ After(phase[k], phase[j])
                 \/ passed[j] = passed[k] /\ phase[j] = phase[k] /\ arrived[j]
<1>1. ASSUME NEW p \in Phases, NEW q \in Phases, NEW w \in BOOLEAN, LeavesFor(k, p, q, w)
      PROVE  /\ arrived[k] /\ AllArrived(k)
             /\ After(phase[k], phase'[k])
             /\ phase'[k] \in Exchanging => ~arrived'[k]
             /\ \A j \in Machine :
                  \/ passed[j] = passed[k] + 1 /\ After(phase[k], phase[j])
                  \/ passed[j] = passed[k] /\ phase[j] = phase[k] /\ arrived[j]
  BY <1>1 DEF LeavesFor, Leave, Go, Shape, AllArrived, InStep
<1>2. ASSUME NEW q \in {"clear", "exit"}, Decides(k, q)
      PROVE  phase[k] = "test" /\ phase'[k] \in {"clear", "exit"} /\ UNCHANGED passed
  BY <1>2 DEF Decides, Go, Shape
<1> QED BY <1>1, <1>2, LoopSteps

\* What a visit sends.
LEMMA VisitSends ==
  ASSUME Shape, NEW r \in todo, ExecuteVertex(r)
  PROVE  /\ \A x \in message_exchange' \ message_exchange :
              phase[r[1]] = "exchange" /\ x.vertex = r[2] /\ x.to = Hash[r[2]]
         /\ \A x \in activ_exchange' \ activ_exchange :
              phase[r[1]] = "receive" /\ x.vertex = r[2] /\ x.to \in Mirrors(r[2])
         /\ \A x \in accum_exchange' \ accum_exchange :
              /\ phase[r[1]] = "gather"
              /\ x.vertex = r[2] /\ x.from = r[1] /\ x.to = Hash[r[2]]
<1> USE DEF Visit, calls, exchanges_but_message, exchanges_but_activ, exchanges_but_accum,
            exchanges_but_update, exchange_vars
<1>1. CASE ExchangeMessage(r)  BY <1>1 DEF ExchangeMessage
<1>2. CASE ReceiveMessage(r) BY <1>2 DEF ReceiveMessage, GatherMirrors
<1>3. CASE ExecuteGather(r) BY <1>3 DEF ExecuteGather, SendAccum
<1>4. CASE ExecuteApply(r)     BY <1>4 DEF ExecuteApply
<1>5. CASE ExecuteScatter(r)   BY <1>5 DEF ExecuteScatter
<1> QED BY <1>1, <1>2, <1>3, <1>4, <1>5 DEF ExecuteVertex

LEMMA HandleSends ==
  ASSUME \/ \E k \in Machine : Handle(k)
         \/ internal_signal_rpc
         \/ UNCHANGED vars
  PROVE  /\ message_exchange' \subseteq message_exchange
         /\ activ_exchange' \subseteq activ_exchange
         /\ accum_exchange' \subseteq accum_exchange
         /\ update_exchange' \subseteq update_exchange
<1> USE DEF calls, exchanges_but_message, exchanges_but_activ, exchanges_but_accum,
            exchanges_but_update, exchange_vars
<1>1. ASSUME NEW k \in Machine, Handle(k)
      PROVE  /\ message_exchange' \subseteq message_exchange
             /\ activ_exchange' \subseteq activ_exchange
             /\ accum_exchange' \subseteq accum_exchange
             /\ update_exchange' \subseteq update_exchange
  <2>1. CASE RecvMessage(k)  BY <2>1 DEF RecvMessage
  <2>2. CASE RecvActiv(k)    BY <2>2 DEF RecvActiv
  <2>3. CASE RecvAccum(k)    BY <2>3 DEF RecvAccum
  <2>4. CASE RecvUpdate(k)   BY <2>4 DEF RecvUpdate
  <2>5. CASE rpc_stop(k)     BY <2>5 DEF rpc_stop
  <2> QED BY <1>1, <2>1, <2>2, <2>3, <2>4, <2>5 DEF Handle
<1>2. CASE internal_signal_rpc  BY <1>2 DEF internal_signal_rpc
<1>3. CASE UNCHANGED vars       BY <1>3 DEF vars
<1> QED BY <1>1, <1>2, <1>3

\* A record that comes stays so until its machine has received it.
LEMMA LoopComes ==
  ASSUME Shape, InStep, NEW k \in Machine, MainLoop(k), NEW j \in Machine,
         NEW p \in Exchanging, NEW o \in Phases,
         Comes(j, p, o), o \notin Exchanging \cup {"test"} \/ o = "exchange",
         j = k /\ Arrive(k) => phase[k] # p,
         \A q : phase[j] = o /\ After(o, q) /\ q = phase'[j] => q = p
  PROVE  Comes(j, p, o)'
<1>1. CASE j # k BY <1>1, LoopBits DEF Comes
<1>2. CASE j = k /\ Arrive(k) BY <1>2 DEF Arrive, Comes
<1>3. CASE j = k /\ ~Arrive(k) BY <1>3, LoopMoves DEF Comes, Exchanging
<1> QED BY <1>1, <1>2, <1>3

LEMMA DeliveredKept ==
  ASSUME IInv, Scattered, BShape, Due, Counted, Delivered, [Next]_vars
  PROVE  Delivered'
<1> USE DEF IInv
<1>1. ASSUME NEW k \in Machine, MainLoop(k) PROVE Delivered'
  <2>1. UNCHANGED <<exchange_vars, calls>>  BY <1>1, LoopBits
  <2>2. Arrive(k) => /\ \A x \in message_exchange : x.to = k => phase[k] # "exchange"
                     /\ \A x \in activ_exchange : x.to = k => phase[k] # "receive"
                     /\ \A x \in accum_exchange : x.to = k => phase[k] # "gather" BY DEF Arrive, Flushed
  <2>3. ASSUME NEW x \in message_exchange PROVE Comes(x.to, "exchange", "clear")'
    <3>1. x.to \in Machine  BY ReplicaFacts DEF Shape
    <3>2. Comes(x.to, "exchange", "clear")  BY DEF Delivered
    <3> QED BY <1>1, <2>2, <3>1, <3>2, LoopComes DEF Exchanging, Phases, After
  <2>4. ASSUME NEW x \in activ_exchange PROVE Comes(x.to, "receive", "exchange")'
    <3>1. x.to \in Machine  BY ReplicaFacts DEF BShape
    <3>2. Comes(x.to, "receive", "exchange")  BY DEF Delivered
    <3> QED BY <1>1, <2>2, <3>1, <3>2, LoopComes DEF Exchanging, Phases, After
  <2>5. ASSUME NEW x \in accum_exchange
        PROVE  /\ Comes(x.to, "gather", "reduce")'
               /\ phase'[x.from] = "gather"
               /\ <<x.from, x.vertex>> \notin todo'
    <3>1. x.to \in Machine /\ x.from \in Machine /\ x.vertex \in Vertex BY ReplicaFacts DEF BShape
    <3>2. /\ Comes(x.to, "gather", "reduce") /\ phase[x.from] = "gather"
          /\ <<x.from, x.vertex>> \notin todo BY DEF Delivered
    <3>3. x.to = k /\ phase[k] = "reduce" /\ phase'[k] = "exit" => Arrive(k)
      BY <1>1, <3>1, <3>2, LoopSelf DEF Counted
    <3>4. x.from = k => Arrive(k)
      <4>1. SUFFICES ASSUME x.from = k, ~Arrive(k) PROVE FALSE OBVIOUS
      <4>2. \/ passed[x.to] = passed[k] + 1 /\ After("gather", phase[x.to])
            \/ phase[x.to] = "gather" /\ arrived[x.to] BY <1>1, <3>1, <3>2, <4>1, LoopMoves
      <4> QED BY <3>2, <4>2 DEF Comes, After
    <3>5. Comes(x.to, "gather", "reduce")'
      <4>1. Arrive(k) => phase' = phase  BY DEF Arrive
      <4>2. ASSUME phase[x.to] = "reduce", NEW q, After("reduce", q), q = phase'[x.to]
            PROVE  q = "gather"
        <5>1. x.to = k /\ ~Arrive(k)  BY <1>1, <3>1, <4>1, <4>2, LoopBits DEF After
        <5> QED BY <3>3, <4>2, <5>1 DEF After
      <4>3. x.to = k /\ Arrive(k) => phase[k] # "gather"  BY <2>2
      <4> HIDE DEF Exchanging, Phases
      <4>4. "gather" \in Exchanging /\ "reduce" \in Phases /\ "reduce" \notin Exchanging \cup {"test"}
        BY DEF Exchanging, Phases
      <4> QED BY <1>1, <3>1, <3>2, <4>2, <4>3, <4>4, LoopComes
    <3>6. phase'[x.from] = "gather" BY <1>1, <3>1, <3>2, <3>4, LoopBits DEF Arrive
    <3>7. <<x.from, x.vertex>> \notin todo'
      <4>1. CASE x.from = k  BY <3>2, <3>4, <4>1 DEF Arrive
      <4>2. CASE x.from # k
        <5>1. PICK R \in SUBSET On(k) : todo' = todo \cup R  BY <1>1, LoopTodo
        <5> QED BY <3>2, <4>2, <5>1 DEF On
      <4> QED BY <4>1, <4>2
    <3> QED BY <3>5, <3>6, <3>7
  <2>7. /\ message_exchange' = message_exchange /\ activ_exchange' = activ_exchange
        /\ accum_exchange' = accum_exchange
    BY <2>1 DEF exchange_vars
  <2> QED BY <2>3, <2>4, <2>5, <2>7 DEF Delivered
<1>2. ASSUME NEW r \in todo, ExecuteVertex(r) PROVE Delivered'
  <2>1. UNCHANGED <<phase, arrived>> /\ todo' = todo \ {r} BY <1>2, VisitBits DEF step_vars
  <2>2. r \in Replica /\ r = <<r[1], r[2]>> /\ r[2] \in Vertex  BY ReplicaFacts DEF Shape
  <2>3. \A j \in Mirrors(r[2]) : j \in Machine  BY <2>2, ReplicaFacts
  <2>4. Hash[r[2]] \in Machine  BY <2>2, ReplicaFacts
  <2>5. ASSUME NEW x \in message_exchange' PROVE Comes(x.to, "exchange", "clear")
    BY <1>2, <2>4, <2>5, VisitSends, Where DEF Delivered, Comes
  <2>6. ASSUME NEW x \in activ_exchange' PROVE Comes(x.to, "receive", "exchange")
    <3>1. CASE x \in activ_exchange  BY <3>1 DEF Delivered
    <3>2. CASE x \notin activ_exchange
      <4>1. phase[r[1]] = "receive" /\ x.to \in Mirrors(r[2])  BY <1>2, <2>6, <3>2, VisitSends
      <4>2. x.to \in Machine  BY <2>3, <4>1
      <4> QED BY <4>1, <4>2, Where DEF Comes
    <3> QED BY <3>1, <3>2
  <2>7. ASSUME NEW x \in accum_exchange'
        PROVE  /\ Comes(x.to, "gather", "reduce")
               /\ phase[x.from] = "gather"
               /\ <<x.from, x.vertex>> \notin todo'
    <3>1. CASE x \in accum_exchange  BY <2>1, <3>1 DEF Delivered
    <3>2. CASE x \notin accum_exchange
      <4>1. phase[r[1]] = "gather" /\ x.vertex = r[2] /\ x.from = r[1] /\ x.to = Hash[r[2]]
        BY <1>2, <2>7, <3>2, VisitSends
      <4>2. Comes(x.to, "gather", "reduce")  BY <2>4, <4>1, Where DEF Comes
      <4> QED BY <2>1, <2>2, <4>1, <4>2
    <3> QED BY <3>1, <3>2
  <2> QED BY <2>1, <2>5, <2>6, <2>7 DEF Delivered, Comes
<1>3. CASE (\E k \in Machine : Handle(k)) \/ internal_signal_rpc \/ UNCHANGED vars
  BY <1>3, HandleBits, HandleSends DEF step_vars, Delivered, Comes
<1> QED BY <1>1, <1>2, <1>3, NextSteps

-----------------------------------------------------------------------------
(* Counting.                                                               *)

LEMMA CountedKept ==
  ASSUME IInv, Scattered, BShape, Due, Counted, [Next]_vars
  PROVE  Counted'
<1> USE DEF IInv
<1>1. ASSUME NEW k \in Machine, MainLoop(k) PROVE Counted'
  <2>1. CASE Arrive(k) BY <2>1 DEF Arrive, Counted, NoneActive, active_vars
  <2>2. CASE ~Arrive(k)
    <3>1. \A j \in Machine : j # k => /\ phase'[j] = phase[j]
                                      /\ num_active_vertices'[j] = num_active_vertices[j]
      BY <1>1, LoopBits
    <3>2. ASSUME NEW j \in Machine
          PROVE  num_active_vertices'[j] = 0 <=> active_superstep' \cap On(j) = {}
      <4>1. CASE phase[k] = "test" /\ phase'[k] = "clear"
        <5>1. num_active_vertices'[k] = 0 /\ active_superstep' = active_superstep \ On(k)
          BY <1>1, <2>2, <4>1, LoopSelf
        <5>2. j # k => active_superstep' \cap On(j) = active_superstep \cap On(j) BY <5>1 DEF On
        <5> QED BY <3>1, <5>1, <5>2 DEF Counted
      <4>2. CASE UNCHANGED <<active_superstep, num_active_vertices>>  BY <4>2 DEF Counted
      <4> QED BY <1>1, <2>2, <4>1, <4>2, LoopSelf DEF active_vars
    <3>3. NoneActive => NoneActive' BY <1>1, <2>2, <3>1, LoopSelf DEF NoneActive, active_vars
    <3>4. \A j \in Machine : phase[j] = "gather" => phase[k] # "test" BY DEF Shape, InStep, Alike, After
    <3>5. phase[k] # "test" => UNCHANGED num_active_vertices BY <1>1, <2>2, LoopSelf DEF active_vars
    <3>6. ASSUME NEW j \in Machine, phase'[j] = "gather" PROVE ~NoneActive'
      <4>1. CASE phase[j] = "gather"  BY <3>4, <3>5, <4>1 DEF Counted, NoneActive
      <4>2. CASE phase[j] # "gather"
        <5>1. j = k  BY <3>1, <3>6, <4>2
        <5> QED BY <1>1, <2>2, <3>5, <3>6, <4>2, <5>1, LoopSelf DEF NoneActive
      <4> QED BY <4>1, <4>2
    <3>7. ASSUME NEW i \in Machine, NEW j \in Machine, phase'[i] = "exit"
          PROVE  phase'[j] # "gather" /\ (phase'[j] = "reduce" => NoneActive')
      <4>1. CASE phase[i] = "exit" /\ j # k  BY <3>1, <3>3, <4>1 DEF Counted
      <4>2. CASE phase[i] = "exit" /\ j = k
        <5>1. phase[k] = "receive" => phase[i] # "exit" BY <1>1, <2>2, LoopMoves DEF After
        <5>2. phase'[k] # "reduce"  BY <1>1, <2>2, <4>2, <5>1, LoopSelf
        <5>3. phase'[k] # "gather" BY <1>1, <2>2, <4>2, LoopSelf DEF Counted
        <5> QED BY <4>2, <5>2, <5>3
      <4>3. CASE phase[i] # "exit"
        <5>1. i = k  BY <3>1, <3>7, <4>3
        <5>2. CASE phase[k] = "test"
          <6>1. phase[j] \notin {"gather", "reduce"} BY <5>2 DEF Shape, InStep, Alike, After
          <6> QED BY <3>1, <3>7, <5>1, <6>1
        <5>3. CASE phase[k] = "reduce" /\ NoneActive
          <6>1. phase[j] # "gather"  BY <5>3 DEF Counted
          <6> QED BY <3>1, <3>3, <3>7, <5>1, <5>3, <6>1
        <5> QED BY <1>1, <2>2, <3>7, <5>1, <5>2, <5>3, LoopSelf
      <4> QED BY <4>1, <4>2, <4>3
    <3> QED BY <3>2, <3>6, <3>7 DEF Counted, On
  <2> QED BY <2>1, <2>2
<1>2. ASSUME NEW r \in todo, ExecuteVertex(r) PROVE Counted'
  <2>1. phase' = phase  BY <1>2, VisitBits DEF step_vars
  <2>2. CASE phase[r[1]] # "receive" BY <1>2, <2>1, <2>2, VisitBits DEF Counted, NoneActive, On
  <2>3. CASE phase[r[1]] = "receive"
    <3>1. r \in Replica /\ r[1] \in Machine  BY ReplicaFacts DEF Shape
    <3>2. \A j \in Machine : phase[j] \in {"receive", "exchange"} BY <2>3, Where
    <3>3. /\ active_superstep' = active_superstep \cup {r}
          /\ num_active_vertices' =
               [num_active_vertices EXCEPT ![r[1]] = num_active_vertices[r[1]] + 1]
      BY <1>2, <2>3, VisitBits
    <3>4. ASSUME NEW j \in Machine
          PROVE  num_active_vertices'[j] = 0 <=> active_superstep' \cap On(j) = {}
      <4>1. CASE j = r[1] BY <3>1, <3>3, <4>1 DEF BShape, On
      <4>2. CASE j # r[1] BY <3>1, <3>3, <4>2 DEF BShape, On, Counted
      <4> QED BY <4>1, <4>2
    <3> QED BY <2>1, <3>2, <3>4 DEF Counted, On
  <2> QED BY <2>2, <2>3
<1>3. CASE (\E k \in Machine : Handle(k)) \/ internal_signal_rpc \/ UNCHANGED vars
  BY <1>3, HandleBits DEF Counted, NoneActive, On, step_vars
<1> QED BY <1>1, <1>2, <1>3, NextSteps

-----------------------------------------------------------------------------
(* Activation.                                                             *)

LEMMA AtTest ==
  ASSUME Shape, InStep, NEW k \in Machine, phase[k] = "test", NEW j \in Machine
  PROVE  phase[j] \in {"test", "clear", "exit", "scatter"} BY DEF Shape, InStep, Alike, After

\* The replicas that gather, or will.
ToGather(q) ==
  \/ q \in active_minorstep /\ phase[q[1]] \in {"receive", "reduce"}
  \/ q \in todo /\ phase[q[1]] = "gather"

\* Who is active has had its place in the super-step.
LEMMA LoopActive ==
  ASSUME IInv, Scattered, BShape, Due, Delivered, Blank, NEW k \in Machine, MainLoop(k), ~mode.sched_allv
  PROVE  /\ \A q \in Replica : ToGather(q)' => ToGather(q)
         /\ \A q \in Replica : Master(q[2]) \in active_superstep /\ ToGather(q) =>
              Master(q[2]) \in active_superstep'
         /\ \A x \in activ_exchange : Master(x.vertex) \in active_superstep =>
              Master(x.vertex) \in active_superstep'
<1> USE DEF IInv
<1>1. CASE Arrive(k)  BY <1>1 DEF Arrive, ToGather, active_vars
<1>2. CASE ~Arrive(k)
  <2>1. ASSUME NEW q \in Replica, ToGather(q)' PROVE ToGather(q)
    <3>1. q[1] \in Machine  BY ReplicaFacts
    <3>2. CASE q[1] # k  BY <2>1, <3>1, <3>2, LoopBits DEF ToGather
    <3>3. CASE q[1] = k
      <4>1. q \in On(k) /\ q \notin todo  BY <1>2, <3>3, LoopSelf DEF On
      <4>2. phase[k] = "exchange" => q \notin active_minorstep BY <3>3 DEF Blank
      <4> QED BY <1>2, <2>1, <3>3, <4>1, <4>2, LoopSelf DEF ToGather, active_vars
    <3> QED BY <3>2, <3>3
  <2>2. phase[k] # "test" => active_superstep' = active_superstep BY <1>2, LoopSelf DEF active_vars
  <2>3. ASSUME phase[k] = "test"
        PROVE  activ_exchange = {} /\ \A q \in Replica : ~ToGather(q)
    <3>1. \A j \in Machine : phase[j] \in {"test", "clear", "exit", "scatter"} BY <2>3, AtTest
    <3>2. \A q \in Replica : ~ToGather(q)  BY <3>1, ReplicaFacts DEF ToGather
    <3>3. ASSUME NEW x \in activ_exchange PROVE FALSE BY ReplicaFacts, <3>1 DEF BShape, Delivered, Comes
    <3> QED BY <3>2, <3>3
  <2> QED BY <2>1, <2>2, <2>3
<1> QED BY <1>1, <1>2

LEMMA ActivatedKept ==
  ASSUME IInv, Scattered, Counted, BShape, Due, Delivered, Blank, Activated, [Next]_vars
  PROVE  Activated'
<1> USE DEF IInv
<1> SUFFICES ASSUME ~mode.sched_allv
             PROVE  /\ \A q \in Replica : ToGather(q)' =>
                         /\ Master(q[2]) \in active_superstep'
                         /\ gather_edges(mode, vertex_programs'[q]) = Gathers(q[2])'
                         /\ Gathers(q[2])' # {}
                    /\ \A x \in activ_exchange' :
                         /\ Master(x.vertex) \in active_superstep'
                         /\ gather_edges(mode, x.program) = Gathers(x.vertex)'
                         /\ Gathers(x.vertex)' # {} BY ModeStays DEF Activated, ToGather
<1>0. /\ mode' = mode
      /\ \A q \in Replica : ToGather(q) =>
           /\ Master(q[2]) \in active_superstep
           /\ gather_edges(mode, vertex_programs[q]) = Gathers(q[2]) /\ Gathers(q[2]) # {}
      /\ \A x \in activ_exchange :
           /\ Master(x.vertex) \in active_superstep
           /\ gather_edges(mode, x.program) = Gathers(x.vertex) /\ Gathers(x.vertex) # {}
  BY ModeStays DEF Activated, ToGather
<1> DEFINE Holds ==
      /\ \A q \in Replica : ToGather(q)' =>
           /\ Master(q[2]) \in active_superstep'
           /\ gather_edges(mode, vertex_programs'[q]) = Gathers(q[2])'
           /\ Gathers(q[2])' # {}
      /\ \A x \in activ_exchange' :
           /\ Master(x.vertex) \in active_superstep'
           /\ gather_edges(mode, x.program) = Gathers(x.vertex)'
           /\ Gathers(x.vertex)' # {}
<1>a. ASSUME vertex_programs' = vertex_programs, active_superstep' = active_superstep,
             activ_exchange' \subseteq activ_exchange,
             \A q \in Replica : ToGather(q)' => ToGather(q)
      PROVE  Holds BY <1>0, <1>a DEF Gathers
<1>1. ASSUME NEW k \in Machine, MainLoop(k) PROVE Holds
  <2>1. vertex_programs' = vertex_programs /\ activ_exchange' = activ_exchange
    BY <1>1, LoopBits DEF exchange_vars
  <2> QED BY <1>0, <1>1, <2>1, LoopActive DEF Gathers
\* Nobody gathers while a replica applies or scatters.
<1>b. ASSUME NEW r \in todo, phase[r[1]] \in {"apply", "scatter"}
      PROVE  activ_exchange = {} /\ \A q \in Replica : ~ToGather(q)
  <2>1. \A j \in Machine : \/ phase[j] \in {"apply", "scatter"}
                           \/ phase[j] = "gather" /\ arrived[j] BY <1>b, Where
  <2>2. ASSUME NEW q \in Replica PROVE ~ToGather(q)
    BY ReplicaFacts, <2>1 DEF On, ToGather, Quiet, Exchanging
  <2>3. ASSUME NEW x \in activ_exchange PROVE FALSE BY ZenonT(60), ReplicaFacts, <2>1 DEF BShape, Delivered, Comes
  <2> QED BY <2>2, <2>3
<1>2. ASSUME NEW r \in todo, ExecuteVertex(r) PROVE Holds
  <2>0. /\ r \in Replica /\ r[1] \in Machine /\ r = <<r[1], r[2]>> /\ r[2] \in Vertex
        /\ phase' = phase /\ todo' = todo \ {r} BY <1>2, VisitBits, ReplicaFacts DEF Shape, step_vars
  <2>1. CASE ExchangeMessage(r)
    BY <2>1, <1>a, <2>0 DEF ExchangeMessage, exchanges_but_message, ToGather, active_vars
  <2>2. CASE ReceiveMessage(r)
    <3> DEFINE program == [vertex_programs[r] EXCEPT !.message = messages[r]]
    <3>1. /\ phase[r[1]] = "receive" /\ r \notin active_superstep /\ Master(r[2]) = r
      BY <2>2 DEF ReceiveMessage, Visit, Due, Masters, MastersOnly, IsMaster
    <3>2. /\ active_superstep' = active_superstep \cup {r}
          /\ vertex_programs' = [vertex_programs EXCEPT ![r] = program]
          /\ active_minorstep' = active_minorstep \cup
                                   (IF gather_edges(mode, program) # {} THEN {r} ELSE {})
          /\ activ_exchange' = activ_exchange \cup
               {[to |-> j, vertex |-> r[2], program |-> program] : j \in GatherMirrors(r[2], program)}
      BY <2>2 DEF ReceiveMessage
    <3> HIDE DEF program
    <3>3. vertex_programs'[r] = program /\ \A q \in Replica : q # r => vertex_programs'[q] = vertex_programs[q]
      BY <2>0, <3>2 DEF BShape
    <3>4. Gathers(r[2])' = gather_edges(mode, program)  BY <1>0, <3>1, <3>3 DEF Gathers, Master
    <3>5. ASSUME NEW v \in Vertex, Master(v) \in active_superstep
          PROVE  Gathers(v)' = Gathers(v) /\ v # r[2]
      <4>1. Master(v) # r /\ Master(v) \in Replica  BY <3>1, <3>5, ReplicaFacts
      <4> QED BY <1>0, <3>1, <3>3, <4>1 DEF Gathers, Master
    <3>6. ASSUME NEW q \in Replica, ToGather(q)'
          PROVE  /\ Master(q[2]) \in active_superstep'
                 /\ gather_edges(mode, vertex_programs'[q]) = Gathers(q[2])' /\ Gathers(q[2])' # {}
      <4>1. CASE ToGather(q)
        <5>1. q[2] \in Vertex /\ Master(q[2]) \in active_superstep  BY <1>0, <4>1, ReplicaFacts
        <5>2. q # r  BY <3>5, <5>1
        <5> QED BY <1>0, <3>2, <3>3, <3>5, <4>1, <5>1, <5>2
      <4>2. CASE ~ToGather(q)
        <5>1. q = r /\ gather_edges(mode, program) # {} BY <2>0, <3>2, <3>6, <4>2 DEF ToGather
        <5> QED BY <3>1, <3>2, <3>3, <3>4, <5>1
      <4> QED BY <4>1, <4>2
    <3>7. ASSUME NEW x \in activ_exchange'
          PROVE  /\ Master(x.vertex) \in active_superstep'
                 /\ gather_edges(mode, x.program) = Gathers(x.vertex)' /\ Gathers(x.vertex)' # {}
      <4>1. CASE x \in activ_exchange
        <5>1. x.vertex \in Vertex /\ Master(x.vertex) \in active_superstep BY <1>0, <4>1 DEF BShape
        <5> QED BY <1>0, <3>2, <3>5, <4>1, <5>1
      <4>2. CASE x \notin activ_exchange
        <5>1. PICK j \in GatherMirrors(r[2], program) :
                x = [to |-> j, vertex |-> r[2], program |-> program] BY <3>2, <3>7, <4>2
        <5>2. gather_edges(mode, program) # {}  BY <5>1 DEF GatherMirrors
        <5> QED BY <3>1, <3>2, <3>4, <5>1, <5>2
      <4> QED BY <4>1, <4>2
    <3> QED BY <3>6, <3>7
  <2>3. CASE ExecuteGather(r)
    <3>1. /\ phase[r[1]] = "gather" /\ UNCHANGED <<active_vars, activ_exchange>>
          /\ \A q \in Replica : q # r \/ IsMaster(r) => vertex_programs'[q] = vertex_programs[q]
      BY <2>0, <2>3 DEF ExecuteGather, Visit, exchanges_but_accum, BShape
    <3>2. ASSUME NEW v \in Vertex PROVE Gathers(v)' = Gathers(v)
      BY ReplicaFacts, <1>0, <3>1 DEF IsMaster, Gathers, Master
    <3>3. ASSUME NEW q \in Replica, ToGather(q)' PROVE ToGather(q) /\ q # r /\ q[2] \in Vertex
      BY <2>0, <3>1, <3>3, ReplicaFacts DEF ToGather, active_vars
    <3>4. \A x \in activ_exchange : x.vertex \in Vertex  BY DEF BShape
    <3> QED BY <1>0, <3>1, <3>2, <3>3, <3>4 DEF active_vars
  <2>4. CASE ExecuteApply(r) BY <2>4, <1>b, <2>0 DEF ExecuteApply, Visit, exchanges_but_update, ToGather
  <2>5. CASE ExecuteScatter(r)
    <3>1. phase[r[1]] = "scatter" /\ activ_exchange' = activ_exchange
          /\ active_minorstep' = active_minorstep
      BY <2>5 DEF ExecuteScatter, Visit, exchange_vars, active_vars
    <3>2. activ_exchange = {} /\ \A q \in Replica : ~ToGather(q)  BY <1>b, <3>1
    <3> QED BY <2>0, <3>1, <3>2 DEF ToGather
  <2> QED BY <1>2, <2>1, <2>2, <2>3, <2>4, <2>5 DEF ExecuteVertex
<1>3. ASSUME NEW k \in Machine, Handle(k) PROVE Holds
  <2>0. UNCHANGED <<phase, todo, active_superstep>>  BY <1>3, HandleBits DEF step_vars
  <2>1. CASE RecvMessage(k) \/ RecvAccum(k) \/ rpc_stop(k)
    <3>1. UNCHANGED <<vertex_programs, active_minorstep, activ_exchange>>
      BY <2>1 DEF RecvMessage, RecvAccum, rpc_stop, active_vars, exchange_vars,
                  exchanges_but_message, exchanges_but_accum
    <3> QED BY <1>a, <2>0, <3>1 DEF ToGather
  <2>2. CASE RecvActiv(k)
    <3>1. PICK x \in activ_exchange :
            /\ x.to = k
            /\ activ_exchange' = activ_exchange \ {x}
            /\ vertex_programs' = [vertex_programs EXCEPT ![<<k, x.vertex>>] = x.program]
            /\ active_minorstep' = active_minorstep \cup {<<k, x.vertex>>} BY <2>2 DEF RecvActiv
    <3>2. x.vertex \in Vertex /\ <<k, x.vertex>> \in Replica /\ ~IsMaster(<<k, x.vertex>>)
      BY <3>1, ReplicaFacts DEF BShape
    <3>3. \A q \in Replica : vertex_programs'[q] = IF q = <<k, x.vertex>> THEN x.program
                                                   ELSE vertex_programs[q] BY <3>1, <3>2 DEF BShape
    <3>4. ASSUME NEW v \in Vertex PROVE Gathers(v)' = Gathers(v)
      <4>1. Master(v) \in Replica /\ Master(v) # <<k, x.vertex>> BY <3>2, ReplicaFacts DEF IsMaster
      <4> QED BY <1>0, <3>3, <4>1 DEF Gathers, Master
    <3>5. ASSUME NEW q \in Replica, ToGather(q)'
          PROVE  /\ Master(q[2]) \in active_superstep'
                 /\ gather_edges(mode, vertex_programs'[q]) = Gathers(q[2])' /\ Gathers(q[2])' # {}
      <4>1. CASE q = <<k, x.vertex>>  BY <1>0, <2>0, <3>2, <3>3, <3>4, <4>1
      <4>2. CASE q # <<k, x.vertex>>
        <5>1. ToGather(q) /\ q[2] \in Vertex BY <2>0, <3>1, <3>5, <4>2, ReplicaFacts DEF ToGather
        <5> QED BY <1>0, <2>0, <3>3, <3>4, <4>2, <5>1
      <4> QED BY <4>1, <4>2
    <3>6. \A y \in activ_exchange' : y \in activ_exchange /\ y.vertex \in Vertex  BY <3>1 DEF BShape
    <3> QED BY <1>0, <2>0, <3>4, <3>5, <3>6
  <2>3. CASE RecvUpdate(k)
    <3>1. PICK x \in update_exchange :
            /\ phase[k] = "apply" /\ x.to = k
            /\ \/ /\ vertex_programs' = [vertex_programs EXCEPT ![<<k, x.vertex>>] = x.program]
                  /\ active_minorstep' = active_minorstep \cup {<<k, x.vertex>>}
               \/ UNCHANGED <<vertex_programs, active_minorstep>> BY <2>3 DEF RecvUpdate
    <3>2. x.vertex \in Vertex /\ <<k, x.vertex>> \in Replica /\ ~IsMaster(<<k, x.vertex>>)
      BY <3>1, ReplicaFacts DEF Shape
    <3>3. \A q \in Replica : q # <<k, x.vertex>> => vertex_programs'[q] = vertex_programs[q]
      BY <3>1, <3>2 DEF BShape
    <3>4. ASSUME NEW v \in Vertex PROVE Gathers(v)' = Gathers(v)
      <4>1. Master(v) \in Replica /\ Master(v) # <<k, x.vertex>> BY <3>2, ReplicaFacts DEF IsMaster
      <4> QED BY <1>0, <3>3, <4>1 DEF Gathers, Master
    <3>5. ASSUME NEW q \in Replica, ToGather(q)'
          PROVE  ToGather(q) /\ q # <<k, x.vertex>> /\ q[2] \in Vertex
      BY <2>0, <3>1, <3>5, ReplicaFacts DEF ToGather
    <3>6. activ_exchange' = activ_exchange /\ \A y \in activ_exchange : y.vertex \in Vertex
      BY <2>3 DEF RecvUpdate, exchanges_but_update, BShape
    <3> QED BY <1>0, <2>0, <3>3, <3>4, <3>5, <3>6
  <2> QED BY <1>3, <2>1, <2>2, <2>3 DEF Handle
<1>4. CASE internal_signal_rpc  BY <1>4 DEF internal_signal_rpc, BInv, BShape
<1>5. CASE UNCHANGED vars
  <2>1. UNCHANGED <<vertex_programs, active_vars, activ_exchange, phase, todo>>
    BY <1>5 DEF vars, exchange_vars, step_vars
  <2> QED BY <1>a, <2>1 DEF ToGather, active_vars
<1> QED BY <1>1, <1>2, <1>3, <1>4, <1>5, NextSteps

-----------------------------------------------------------------------------
(* Covering.                                                               *)

\* What is received is for mirrors.
LEMMA HandlePrograms ==
  ASSUME Shape, BShape, NEW k \in Machine, Handle(k), NEW v \in Vertex
  PROVE  vertex_programs'[Master(v)] = vertex_programs[Master(v)]
<1>0. Master(v) \in Replica  BY ReplicaFacts
<1>1. CASE RecvMessage(k) \/ RecvAccum(k) \/ rpc_stop(k) BY <1>1 DEF RecvMessage, RecvAccum, rpc_stop
<1>2. CASE RecvActiv(k) BY <1>2, ReplicaFacts, <1>0 DEF RecvActiv, BShape, Master
<1>3. CASE RecvUpdate(k) BY <1>3, ReplicaFacts, <1>0 DEF RecvUpdate, Shape, Master, BShape
<1> QED BY <1>1, <1>2, <1>3 DEF Handle

\* Only a visit changes the program of a master.
LEMMA MasterPrograms ==
  ASSUME IInv, BShape, [Next]_vars, NEW v \in Vertex
  PROVE  \/ /\ vertex_programs'[Master(v)] = vertex_programs[Master(v)]
            /\ Gathers(v)' = Gathers(v)
         \/ /\ Master(v) \in todo /\ ExecuteVertex(Master(v))
            /\ phase[Hash[v]] \in {"receive", "apply", "scatter"}
<1> USE DEF IInv
<1>0. Master(v) \in Replica /\ Master(v)[1] = Hash[v] /\ IsMaster(Master(v)) /\ mode' = mode
  BY ReplicaFacts, ModeStays DEF IsMaster
<1>1. SUFFICES \/ vertex_programs'[Master(v)] = vertex_programs[Master(v)]
               \/ /\ Master(v) \in todo /\ ExecuteVertex(Master(v))
                  /\ phase[Hash[v]] \in {"receive", "apply", "scatter"} BY <1>0 DEF Gathers
<1>2. ASSUME NEW k \in Machine, MainLoop(k)
      PROVE  vertex_programs' = vertex_programs BY <1>2, LoopBits
<1>3. ASSUME NEW k \in Machine, Handle(k)
      PROVE  vertex_programs'[Master(v)] = vertex_programs[Master(v)] BY <1>3, HandlePrograms
<1>4. ASSUME NEW r \in todo, ExecuteVertex(r)
      PROVE  \/ vertex_programs'[Master(v)] = vertex_programs[Master(v)]
             \/ r = Master(v) /\ phase[Hash[v]] \in {"receive", "apply", "scatter"}
  <2>1. r \in Replica  BY DEF Shape
  <2>2. CASE ExchangeMessage(r)  BY <2>2 DEF ExchangeMessage
  <2>3. CASE ReceiveMessage(r) BY <2>3, <1>0, <2>1 DEF ReceiveMessage, Visit, BShape
  <2>4. CASE ExecuteGather(r) BY <2>4, <1>0, <2>1 DEF ExecuteGather, BShape
  <2>5. CASE ExecuteApply(r) BY <2>5, <1>0, <2>1 DEF ExecuteApply, Visit, BShape
  <2>6. CASE ExecuteScatter(r) BY <2>6, <1>0, <2>1 DEF ExecuteScatter, Visit, BShape
  <2> QED BY <1>4, <2>2, <2>3, <2>4, <2>5, <2>6 DEF ExecuteVertex
<1>5. CASE internal_signal_rpc  BY <1>5 DEF internal_signal_rpc
<1>6. CASE UNCHANGED vars  BY <1>6 DEF vars
<1> QED BY <1>2, <1>3, <1>4, <1>5, <1>6, NextSteps

\* The mirrors that a master activates are enough.
LEMMA EnoughMirrors ==
  ASSUME NEW v \in Vertex, NEW program, NEW e \in Along(v, gather_edges(mode, program)),
         Place(e) # Hash[v]
  PROVE  Place(e) \in GatherMirrors(v, program)
<1> DEFINE d == gather_edges(mode, program)
<1>0. e \in Along(v, d)  OBVIOUS
<1> HIDE DEF d
<1>1. e \in Edge /\ (("in" \in d /\ e[2] = v) \/ ("out" \in d /\ e[1] = v)) BY <1>0 DEF Along
<1>2. Place(e) \in Mirrors(v) BY <1>1 DEF Mirrors, Machines, Along
<1>3. "out" \in d \/ High(v) BY <1>1 DEF Place, High
<1>4. d # {}  BY <1>1
<1> QED BY <1>2, <1>3, <1>4 DEF GatherMirrors, d

\* What remains to be told of who gathers along e.
Reached(v, e) ==
  /\ phase[Place(e)] \in {"exchange", "receive"} =>
       \/ mode.sched_allv
       \/ Part(v, e) \in active_minorstep
       \/ \E x \in activ_exchange : x.to = Place(e) /\ x.vertex = v
  /\ phase[Place(e)] = "reduce" => Part(v, e) \in active_minorstep

LEMMA LoopReached ==
  ASSUME IInv, Scattered, BShape, Due, Blank, Delivered, NEW k \in Machine, MainLoop(k),
         NEW v \in Vertex, Receiving(v)'
  PROVE  /\ Receiving(v)
         /\ \A e \in Edge : Part(v, e) \in Replica /\ Reached(v, e) => Reached(v, e)'
<1> USE DEF IInv
<1>0. /\ UNCHANGED <<mode, activ_exchange>>
      /\ Hash[v] \in Machine /\ Master(v) \in Replica /\ Master(v)[1] = Hash[v]
  BY LoopBits, ReplicaFacts DEF exchange_vars
<1>1. CASE Arrive(k) BY <1>0, <1>1 DEF Arrive, Receiving, Reached, active_vars, Part, Place, InDegree
<1>2. CASE ~Arrive(k)
  <2>1. active_superstep' \subseteq active_superstep  BY <1>2, LoopSelf DEF active_vars
  <2>2. Master(v) \in active_superstep  BY <2>1 DEF Receiving
  <2>3. Receiving(v)
    <3>1. CASE Hash[v] # k  BY <1>0, <2>2, <3>1, LoopBits DEF Receiving
    <3>2. CASE Hash[v] = k
      <4>1. phase[k] # "exchange"  BY <1>0, <2>2, <3>2 DEF Blank
      <4> QED BY <1>2, <2>2, <3>2, <4>1, LoopSelf DEF Receiving
    <3> QED BY <3>1, <3>2
  <2>4. ASSUME NEW e \in Edge, Part(v, e) \in Replica, Reached(v, e) PROVE Reached(v, e)'
    <3>0. Place(e) \in Machine /\ Part(v, e)[1] = Place(e) /\ Place(e)' = Place(e)
          /\ Part(v, e)' = Part(v, e) BY EdgeFacts DEF Part, Place, InDegree
    <3>1. CASE Place(e) # k
      <4>1. /\ Part(v, e) \in active_minorstep' <=> Part(v, e) \in active_minorstep
            /\ phase'[Place(e)] = phase[Place(e)] BY <2>4, <3>0, <3>1, LoopBits
      <4> QED BY <1>0, <2>4, <3>0, <4>1 DEF Reached
    <3>2. CASE Place(e) = k
      <4>0. Part(v, e) \in On(k)  BY <2>4, <3>0, <3>2 DEF On
      <4>1. phase[k] # "clear" BY <1>0, <1>2, <2>3, LoopMoves DEF Receiving, After
      <4>2. CASE phase[k] = "exchange"
        <5>1. phase'[k] = "receive" /\ active_minorstep' = active_minorstep
          BY <1>2, <4>2, LoopSelf DEF active_vars
        <5> QED BY <1>0, <2>4, <3>0, <3>2, <4>2, <5>1 DEF Reached
      <4>3. CASE phase[k] = "receive"
        <5>1. phase'[k] = "reduce" /\ active_minorstep' = active_minorstep \cup
                                       (IF mode.sched_allv THEN On(k) ELSE {}) BY <1>2, <4>3, LoopSelf
        <5>2. arrived[k]  BY <1>2, <4>3, LoopMoves
        <5>3. \A x \in activ_exchange : x.to # k  BY <4>3, <5>2 DEF Delivered, Comes
        <5>4. Part(v, e) \in active_minorstep' BY <2>4, <3>0, <3>2, <4>0, <4>3, <5>1, <5>3 DEF Reached
        <5> QED BY <3>0, <3>2, <5>1, <5>4 DEF Reached
      <4>4. CASE phase[k] \notin {"clear", "exchange", "receive"}
        <5>1. phase'[k] \notin {"exchange", "receive", "reduce"} BY <1>2, <4>4, LoopSelf
        <5> QED BY <3>0, <3>2, <5>1 DEF Reached
      <4> QED BY <4>1, <4>2, <4>3, <4>4
    <3> QED BY <3>1, <3>2
  <2> QED BY <2>3, <2>4
<1> QED BY <1>1, <1>2

LEMMA CoveredKept ==
  ASSUME IInv, Scattered, Counted, BShape, Due, Blank, Delivered, Covered, [Next]_vars
  PROVE  Covered'
<1> USE DEF IInv
<1> SUFFICES ASSUME NEW v \in Vertex, Receiving(v)', NEW e \in Edge,
                    e \in Along(v, Gathers(v)')
             PROVE  Reached(v, e)' BY DEF Covered, Reached, Along
<1>0. /\ mode' = mode
      /\ Part(v, e) \in Replica /\ Place(e) \in Machine /\ Part(v, e) = <<Place(e), v>>
      /\ Part(v, e)' = Part(v, e) /\ Place(e)' = Place(e)
      /\ Hash[v] \in Machine /\ Master(v) \in Replica /\ Master(v)[1] = Hash[v]
      /\ Master(v)[2] = v BY ModeStays, EdgeFacts, ReplicaFacts DEF Part, Place, InDegree
<1>1. Receiving(v) /\ Gathers(v)' = Gathers(v) => Reached(v, e) BY DEF Covered, Reached
<1>2. ASSUME NEW k \in Machine, MainLoop(k) PROVE Reached(v, e)'
  <2>1. Gathers(v)' = Gathers(v)  BY <1>0, <1>2, LoopBits DEF Gathers
  <2> QED BY <1>0, <1>1, <1>2, <2>1, LoopReached
<1>3. ASSUME UNCHANGED <<phase, active_superstep>>, active_minorstep \subseteq active_minorstep',
             Gathers(v)' = Gathers(v),
             \A x \in activ_exchange \ activ_exchange' : <<x.to, x.vertex>> \in active_minorstep'
      PROVE  Reached(v, e)' BY <1>0, <1>1, <1>3 DEF Reached, Receiving
<1>4. ASSUME NEW r \in todo, ExecuteVertex(r) PROVE Reached(v, e)'
  <2>0. r \in Replica /\ r = <<r[1], r[2]>> /\ phase' = phase
    BY <1>4, VisitBits, ReplicaFacts DEF Shape, step_vars
  <2>1. CASE ExchangeMessage(r)
    <3>1. UNCHANGED <<vertex_programs, active_vars, activ_exchange>>
      BY <2>1 DEF ExchangeMessage, exchanges_but_message
    <3> QED BY <1>0, <1>3, <2>0, <3>1 DEF active_vars, Gathers
  <2>2. CASE ReceiveMessage(r)
    <3> DEFINE program == [vertex_programs[r] EXCEPT !.message = messages[r]]
    <3>1. /\ phase[r[1]] = "receive" /\ Master(r[2]) = r
      BY <2>2 DEF ReceiveMessage, Visit, Masters, MastersOnly, IsMaster
    <3>2. /\ active_superstep' = active_superstep \cup {r}
          /\ vertex_programs' = [vertex_programs EXCEPT ![r] = program]
          /\ IF mode.sched_allv THEN UNCHANGED <<active_minorstep, activ_exchange>>
             ELSE /\ active_minorstep' =
                       active_minorstep \cup (IF gather_edges(mode, program) # {} THEN {r} ELSE {})
                  /\ activ_exchange' = activ_exchange \cup
                       {[to |-> j, vertex |-> r[2], program |-> program] :
                           j \in GatherMirrors(r[2], program)} BY <2>2 DEF ReceiveMessage
    <3> HIDE DEF program
    <3>3. active_minorstep \subseteq active_minorstep' /\ activ_exchange \subseteq activ_exchange'
      BY <3>2
    <3>4. CASE v # r[2]
      <4>1. Master(v) # r  BY <1>0, <3>4
      <4>2. Receiving(v) /\ Gathers(v)' = Gathers(v)
        BY <1>0, <2>0, <3>2, <4>1 DEF Receiving, Gathers, BShape
      <4> QED BY <1>0, <1>1, <2>0, <3>3, <4>2 DEF Reached
    <3>5. CASE v = r[2]
      <4>1. Gathers(v)' = gather_edges(mode, program) BY <1>0, <2>0, <3>1, <3>2, <3>5 DEF Gathers, BShape
      <4>2. phase[Place(e)] # "reduce"  BY <1>0, <3>1, Where
      <4>3. CASE Place(e) = Hash[v]
        <5>1. Part(v, e) = r  BY <1>0, <3>1, <3>5, <4>3 DEF Master
        <5>2. gather_edges(mode, program) # {}  BY <4>1 DEF Along
        <5> QED BY <1>0, <2>0, <3>2, <4>2, <5>1, <5>2 DEF Reached
      <4>4. CASE Place(e) # Hash[v]
        <5>1. Place(e) \in GatherMirrors(v, program)  BY <4>1, <4>4, EnoughMirrors
        <5>2. mode.sched_allv \/ \E x \in activ_exchange' : x.to = Place(e) /\ x.vertex = v
          <6> DEFINE x == [to |-> Place(e), vertex |-> r[2], program |-> program]
          <6>0. Place(e) \in GatherMirrors(r[2], program)  BY <3>5, <5>1
          <6>1. mode.sched_allv \/ x \in activ_exchange' BY <3>2, <6>0
          <6>2. x.to = Place(e) /\ x.vertex = v  BY <3>5
          <6> HIDE DEF x
          <6> QED BY <6>1, <6>2
        <5> QED BY <1>0, <2>0, <4>2, <5>2 DEF Reached
      <4> QED BY <4>3, <4>4
    <3> QED BY <3>4, <3>5
  <2>3. CASE ExecuteGather(r)
    <3>1. UNCHANGED <<active_vars, activ_exchange>> /\ phase[r[1]] = "gather"
      BY <2>3 DEF ExecuteGather, exchanges_but_accum, Visit
    <3>2. phase[Hash[v]] \notin {"receive", "apply", "scatter"}  BY <1>0, <3>1, Where
    <3>3. Gathers(v)' = Gathers(v)  BY <3>2, MasterPrograms
    <3> QED BY <1>3, <2>0, <3>1, <3>3 DEF active_vars
  <2>4. CASE ExecuteApply(r) \/ ExecuteScatter(r)
    <3>1. phase[r[1]] \in {"apply", "scatter"}  BY <2>4 DEF ExecuteApply, ExecuteScatter, Visit
    <3>2. phase[Place(e)] \notin {"exchange", "receive", "reduce"}  BY <1>0, <3>1, Where
    <3> QED BY <1>0, <2>0, <3>2 DEF Reached
  <2> QED BY <1>4, <2>1, <2>2, <2>3, <2>4 DEF ExecuteVertex
<1>5. ASSUME \/ \E k \in Machine : Handle(k)
             \/ internal_signal_rpc
             \/ UNCHANGED vars
      PROVE  Reached(v, e)'
  <2>1. UNCHANGED <<phase, active_superstep, todo>> /\ active_minorstep \subseteq active_minorstep'
    BY <1>5, HandleBits DEF step_vars
  <2>2. \A x \in activ_exchange \ activ_exchange' : <<x.to, x.vertex>> \in active_minorstep'
    <3>1. ASSUME NEW k \in Machine, RecvActiv(k)
          PROVE  \A x \in activ_exchange \ activ_exchange' : <<x.to, x.vertex>> \in active_minorstep'
      BY <3>1 DEF RecvActiv
    <3>2. ASSUME NEW k \in Machine, Handle(k), ~RecvActiv(k)
          PROVE  activ_exchange' = activ_exchange
      BY <3>2 DEF Handle, RecvMessage, RecvAccum, RecvUpdate, rpc_stop, exchange_vars,
                  exchanges_but_message, exchanges_but_accum, exchanges_but_update
    <3>3. internal_signal_rpc \/ UNCHANGED vars => activ_exchange' = activ_exchange
      BY DEF internal_signal_rpc, vars, exchange_vars
    <3> QED BY <1>5, <3>1, <3>2, <3>3
  <2>3. Gathers(v)' = Gathers(v)
    <3>1. CASE \E k \in Machine : Handle(k) BY <1>0, <3>1, HandlePrograms DEF Gathers
    <3>2. CASE internal_signal_rpc \/ UNCHANGED vars BY <1>0, <3>2 DEF internal_signal_rpc, vars, Gathers
    <3> QED BY <1>5, <3>1, <3>2
  <2> QED BY <1>3, <2>1, <2>2, <2>3
<1> QED BY <1>2, <1>4, <1>5, NextSteps

-----------------------------------------------------------------------------
(* Summing.                                                                *)

\* With sched_allv mirrors gather with programs that have not been given the messages,
\* so what they gather must not depend on them.
AlwaysGathers == \A m \in Modes : m.sched_allv => ~m.lazy

\* The programs signal vertices, not ids: no barrier waits for the calls of signal_vid().
ByVertex == \A m \in Modes : ~m.by_id

\* What a replica contributes.
Accum(r) == IF Cached(r) THEN gather_cache[r] ELSE LocalTotal(r)

LEMMA Contribution ==
  ASSUME IInv, CInv, Activated, AlwaysGathers, NEW r \in todo, phase[r[1]] = "gather"
  PROVE  /\ Gathers(r[2]) = mode.gather
         /\ GatheredEdges(r) = Cares(r)
         /\ ~mode.sched_allv => Master(r[2]) \in active_superstep
         /\ \A e \in Edge : Accum(r)[e] = IF e \in Cares(r) THEN Value(r[2], e) ELSE 0
<1> USE DEF IInv, CInv
<1>1. r \in Replica /\ r[1] \in Machine /\ r[2] \in Vertex /\ r \in todo \cap On(r[1])
  BY ReplicaFacts DEF Shape, On
<1>2. mode \in Modes  BY DEF CacheShape
<1>3. /\ gather_edges(mode, vertex_programs[r]) = mode.gather
      /\ Gathers(r[2]) = mode.gather
      /\ ~mode.sched_allv => Master(r[2]) \in active_superstep
  <2>1. CASE mode.sched_allv BY <1>2, <2>1 DEF AlwaysGathers, gather_edges, Gathers
  <2>2. CASE ~mode.sched_allv BY <1>1, <2>2 DEF Activated, gather_edges, Gathers
  <2> QED BY <2>1, <2>2
<1>4. GatheredEdges(r) = Cares(r) BY <1>3 DEF GatheredEdges, Cares
<1>5. ~arrived[r[1]]  BY <1>1 DEF Quiet, Exchanging
<1>6. ASSUME NEW q \in Replica, q[1] = r[1]
      PROVE  data[q] = data[Master(q[2])] BY <1>5, <1>6, ReplicaFacts DEF Carried, Copied, IsMaster
<1>7. \A e \in Cares(r) : data[Source(r, e)].applies = Value(r[2], e)
  BY <1>1, <1>2, <1>6, SourceFacts DEF Source, Value
<1>8. CASE Cached(r)
  <2>1. \A e \in Cares(r) : ~ Owes(Source(r, e))  BY DEF Owes, Source
  <2>2. gather_cache[r] =
          [e \in Edge |-> IF e \notin Cares(r) THEN 0
                          ELSE IF Owes(Source(r, e)) THEN data[Source(r, e)].applies - 1
                          ELSE data[Source(r, e)].applies] BY <1>8 DEF Cached, CachesBehind
  <2> QED BY <1>3, <1>4, <1>7, <1>8, <2>1, <2>2 DEF Accum
<1>9. CASE ~Cached(r)
  <2>1. Accum(r) = [e \in Edge |-> IF e \in Cares(r) THEN data[Source(r, e)].applies ELSE 0]
    BY <1>4, <1>9 DEF Accum, LocalTotal, Source
  <2> QED BY <1>3, <1>4, <1>7, <2>1
<1> QED BY <1>8, <1>9

\* What a master has been given grows by what is accumulated.
LEMMA Accumulated ==
  ASSUME BShape, NEW u \in Vertex, NEW a \in [Edge -> Int], Accumulate(Master(u), a)
  PROVE  /\ \A e \in Edge : Given(u, e)' = Given(u, e) + a[e]
         /\ \A v \in Vertex \ {u} : /\ gather_accum'[Master(v)] = gather_accum[Master(v)]
                                    /\ Master(v) \in has_gather_accum' <=> Master(v) \in has_gather_accum
         /\ \A v \in Vertex \ {u} : \A e \in Edge : Given(v, e)' = Given(v, e)
         /\ Master(u) \in has_gather_accum'
         /\ \A e \in Edge : \/ gather_accum'[Master(u)][e] = gather_accum[Master(u)][e] + a[e]
                            \/ gather_accum'[Master(u)][e] = a[e]
<1>1. Master(u) \in Replica /\ \A v \in Vertex : Master(v) \in Replica /\ (v # u => Master(v) # Master(u))
  BY ReplicaFacts DEF Master
<1>2. gather_accum[Master(u)] \in [Edge -> Int]  BY <1>1 DEF BShape
<1>3. gather_accum'[Master(u)] = IF Master(u) \in has_gather_accum
                                 THEN Plus(gather_accum[Master(u)], a) ELSE a
  BY <1>1 DEF Accumulate, BShape
<1>4. \A v \in Vertex \ {u} : /\ gather_accum'[Master(v)] = gather_accum[Master(v)]
                              /\ Master(v) \in has_gather_accum' <=> Master(v) \in has_gather_accum
  BY <1>1 DEF Accumulate, BShape
<1>5. Master(u) \in has_gather_accum'  BY DEF Accumulate
<1>6. ASSUME NEW e \in Edge
      PROVE  /\ Given(u, e)' = Given(u, e) + a[e]
             /\ \/ gather_accum'[Master(u)][e] = gather_accum[Master(u)][e] + a[e]
                \/ gather_accum'[Master(u)][e] = a[e]
  <2>1. a[e] \in Int /\ gather_accum[Master(u)][e] \in Int  BY <1>2
  <2>2. CASE Master(u) \in has_gather_accum BY <1>3, <2>2, <1>5 DEF Plus, Given, Master
  <2>3. CASE Master(u) \notin has_gather_accum
    <3>1. gather_accum'[Master(u)] = a  BY <1>3, <2>3
    <3> QED BY <1>5, <2>1, <2>3, <3>1 DEF Given, Master
  <2> QED BY <2>2, <2>3
<1>7. ASSUME NEW v \in Vertex \ {u}, NEW e \in Edge PROVE Given(v, e)' = Given(v, e)
  BY <1>4 DEF Given, Master
<1> QED BY <1>4, <1>5, <1>6, <1>7

\* How a gather passes it on.
LEMMA GatherEffect ==
  ASSUME IInv, CInv, BShape, Activated, AlwaysGathers, NEW r \in todo, ExecuteGather(r)
  PROVE  /\ phase[r[1]] = "gather" /\ todo' = todo \ {r}
         /\ UNCHANGED <<mode, data, active_vars, phase>>
         /\ \/ Cares(r) = {} /\ UNCHANGED <<gather_vars, accum_exchange>>
            \/ /\ r = Master(r[2]) /\ Accumulate(r, Accum(r)) /\ UNCHANGED accum_exchange
            \/ /\ ~IsMaster(r) /\ UNCHANGED gather_vars
               /\ accum_exchange' = accum_exchange \cup
                    {[to |-> Hash[r[2]], from |-> r[1], vertex |-> r[2], accum |-> Accum(r)]}
<1>1. phase[r[1]] = "gather" /\ SendAccum(r, Accum(r)) BY DEF ExecuteGather, Visit, Accum
<1>2. GatheredEdges(r) = Cares(r)  BY <1>1, Contribution
<1>3. todo' = todo \ {r} /\ UNCHANGED <<mode, data, active_vars, phase>>
  BY DEF ExecuteGather, Visit, step_vars
<1> QED BY <1>1, <1>2, <1>3 DEF SendAccum, IsMaster

LEMMA AccumShape ==
  ASSUME CInv, IInv, NEW r \in todo
  PROVE  Accum(r) \in [Edge -> Int] BY LocalTotals DEF CInv, IInv, CacheShape, Shape, Accum

LEMMA FreshKept ==
  ASSUME IInv, CInv, BInv, AlwaysGathers, [Next]_vars
  PROVE  Fresh'
<1> USE DEF IInv, CInv, BInv
<1>0. mode' = mode  BY ModeStays
<1> DEFINE
      Once == \A x, y \in accum_exchange : x.vertex = y.vertex /\ x.from = y.from => x = y
      Sent1(x) == /\ ~mode.sched_allv => Master(x.vertex) \in active_superstep
                  /\ \A e \in Edge : x.accum[e] # 0 => e \in Along(x.vertex, mode.gather)
      Kept(v) == /\ \A e \in Edge : gather_accum[Master(v)][e] # 0 => e \in Along(v, mode.gather)
                 /\ ~mode.sched_allv /\ gather_accum[Master(v)] # Zero =>
                      /\ Master(v) \in has_gather_accum \cap active_superstep
                      /\ \/ phase[Hash[v]] = "gather"
                         \/ phase[Hash[v]] = "apply" /\ Master(v) \in todo
<1>a. Fresh <=> Once /\ (\A x \in accum_exchange : Sent1(x)) /\ \A v \in Vertex : Kept(v) BY DEF Fresh
<1>b. SUFFICES Once' /\ (\A x \in accum_exchange' : Sent1(x)') /\ \A v \in Vertex : Kept(v)' BY DEF Fresh
<1>c. \A v \in Vertex : /\ Hash[v] \in Machine /\ Master(v) \in Replica
                        /\ Master(v)[1] = Hash[v] /\ Master(v)[2] = v BY ReplicaFacts
<1>1. ASSUME NEW k \in Machine, MainLoop(k)
      PROVE  Once' /\ (\A x \in accum_exchange' : Sent1(x)') /\ \A v \in Vertex : Kept(v)'
  <2>0. UNCHANGED <<accum_exchange, gather_accum>> BY <1>1, LoopBits DEF exchange_vars
  <2>1. CASE Arrive(k) BY <1>a, <2>1 DEF Arrive, gather_vars, active_vars, exchange_vars
  <2>2. CASE ~Arrive(k)
    <3>1. ASSUME NEW x \in accum_exchange PROVE Sent1(x)'
      <4>1. x.to \in Machine /\ phase[x.to] \in {"gather", "reduce"}
        BY ReplicaFacts DEF Delivered, Comes, BShape
      <4>2. phase[k] # "test"  BY <4>1, AtTest
      <4>3. active_superstep' = active_superstep  BY <1>1, <2>2, <4>2, LoopSelf DEF active_vars
      <4> QED BY <1>0, <1>a, <4>3
    <3>2. ASSUME NEW v \in Vertex PROVE Kept(v)'
      <4>1. CASE Hash[v] # k
        <5>1. /\ phase'[Hash[v]] = phase[Hash[v]]
              /\ Master(v) \in todo' <=> Master(v) \in todo
              /\ Master(v) \in active_superstep' <=> Master(v) \in active_superstep
              /\ Master(v) \in has_gather_accum' <=> Master(v) \in has_gather_accum
          BY <1>1, <1>c, <4>1, LoopBits
        <5> QED BY <1>0, <1>a, <2>0, <5>1 DEF Master
      <4>2. CASE Hash[v] = k
        <5>1. ASSUME ~mode.sched_allv, gather_accum[Master(v)] # Zero
              PROVE  /\ Master(v) \in has_gather_accum' \cap active_superstep'
                     /\ phase'[Hash[v]] = "apply" /\ Master(v) \in todo'
          <6>1. /\ Master(v) \in has_gather_accum \cap active_superstep
                /\ \/ phase[k] = "gather"
                   \/ phase[k] = "apply" /\ Master(v) \in todo BY <1>a, <4>2, <5>1
          <6>2. Master(v) \in On(k) /\ Master(v) \notin todo BY <1>1, <1>c, <2>2, <4>2, LoopSelf DEF On
          <6> QED BY <1>1, <2>2, <4>2, <6>1, <6>2, LoopSelf
        <5> QED BY <1>0, <1>a, <2>0, <5>1 DEF Master
      <4> QED BY <4>1, <4>2
    <3> QED BY <1>a, <2>0, <3>1, <3>2
  <2> QED BY <2>1, <2>2
\* Nothing else takes anyone out of the super-step.
<1>d. ASSUME UNCHANGED <<gather_vars, accum_exchange, phase>>,
             active_superstep \subseteq active_superstep',
             \A v \in Vertex : Master(v) \in todo /\ phase[Hash[v]] = "apply" => Master(v) \in todo'
      PROVE  Once' /\ (\A x \in accum_exchange' : Sent1(x)') /\ \A v \in Vertex : Kept(v)'
  BY <1>0, <1>a, <1>d DEF gather_vars, Master
<1>2. ASSUME NEW r \in todo, ExecuteVertex(r)
      PROVE  Once' /\ (\A x \in accum_exchange' : Sent1(x)') /\ \A v \in Vertex : Kept(v)'
  <2>0. /\ r \in Replica /\ r = <<r[1], r[2]>> /\ phase' = phase /\ todo' = todo \ {r}
        /\ r[2] \in Vertex /\ r[1] \in Machine
        /\ active_superstep \subseteq active_superstep'
    BY <1>2, VisitBits, ReplicaFacts DEF Shape, step_vars
  <2>1. CASE ExchangeMessage(r) \/ ReceiveMessage(r) \/ ExecuteScatter(r)
    <3>1. UNCHANGED <<gather_vars, accum_exchange>> /\ phase[r[1]] # "apply"
      BY <2>1 DEF ExchangeMessage, ReceiveMessage, ExecuteScatter, exchanges_but_message,
         exchanges_but_activ, exchange_vars, Visit
    <3>2. \A v \in Vertex : phase[Hash[v]] = "apply" => Master(v) # r BY <1>c, <3>1
    <3> QED BY <1>d, <2>0, <3>1, <3>2
  <2>2. CASE ExecuteApply(r)
    <3>1. /\ gather_accum' = [gather_accum EXCEPT ![r] = Zero]
          /\ UNCHANGED <<has_gather_accum, active_superstep, accum_exchange>>
      BY <2>2 DEF ExecuteApply, exchanges_but_update
    <3>2. ASSUME NEW v \in Vertex PROVE Kept(v)'
      <4>1. CASE Master(v) = r BY <2>0, <3>1, <4>1 DEF BShape, Zero, Master
      <4>2. CASE Master(v) # r
        <5>1. gather_accum'[Master(v)] = gather_accum[Master(v)] BY <1>c, <2>0, <3>1, <4>2 DEF BShape
        <5> QED BY <1>0, <1>a, <2>0, <3>1, <4>2, <5>1 DEF Master
      <4> QED BY <4>1, <4>2
    <3> QED BY <1>0, <1>a, <3>1, <3>2
  <2>3. CASE ExecuteGather(r)
    <3> DEFINE a == Accum(r)
    <3>1. /\ phase[r[1]] = "gather" /\ UNCHANGED active_vars
          /\ \/ Cares(r) = {} /\ UNCHANGED <<gather_vars, accum_exchange>>
             \/ /\ r = Master(r[2]) /\ Accumulate(r, a) /\ UNCHANGED accum_exchange
             \/ /\ ~IsMaster(r) /\ UNCHANGED gather_vars
                /\ accum_exchange' = accum_exchange \cup
                     {[to |-> Hash[r[2]], from |-> r[1], vertex |-> r[2], accum |-> a]}
      BY <2>3, GatherEffect
    <3>2. /\ \A e \in Edge : a[e] # 0 => e \in Along(r[2], mode.gather)
          /\ ~mode.sched_allv => Master(r[2]) \in active_superstep BY <3>1, Contribution DEF Cares
    <3>3. a \in [Edge -> Int]  BY AccumShape
    <3> HIDE DEF a
    <3>4. CASE UNCHANGED <<gather_vars, accum_exchange>>
      <4>1. \A v \in Vertex : phase[Hash[v]] = "apply" => Master(v) # r BY <1>c, <3>1
      <4> QED BY <1>d, <2>0, <3>4, <4>1
    <3>5. CASE r = Master(r[2]) /\ Accumulate(r, a) /\ UNCHANGED accum_exchange
      <4>1. ASSUME NEW v \in Vertex PROVE Kept(v)'
        <5>1. CASE v = r[2]
          <6>1. /\ Master(v) \in has_gather_accum'
                /\ \A e \in Edge : \/ gather_accum'[Master(v)][e] = gather_accum[Master(v)][e] + a[e]
                                   \/ gather_accum'[Master(v)][e] = a[e]
            BY <2>0, <3>3, <3>5, <5>1, Accumulated
          <6>2. gather_accum[Master(v)] \in [Edge -> Int]  BY <1>c DEF BShape
          <6>3. ASSUME NEW e \in Edge, gather_accum'[Master(v)][e] # 0
                PROVE  e \in Along(v, mode.gather)
            <7>1. a[e] # 0 \/ gather_accum[Master(v)][e] # 0 BY <3>3, <6>1, <6>2, <6>3
            <7> QED BY <1>a, <3>2, <5>1, <7>1
          <6>4. phase'[Hash[v]] = "gather"  BY <1>c, <2>0, <3>1, <3>5, <5>1
          <6> QED BY <1>0, <2>0, <3>2, <5>1, <6>1, <6>3, <6>4 DEF Master
        <5>2. CASE v # r[2]
          <6>1. /\ gather_accum'[Master(v)] = gather_accum[Master(v)]
                /\ Master(v) \in has_gather_accum' <=> Master(v) \in has_gather_accum
            BY <2>0, <3>3, <3>5, <5>2, Accumulated
          <6>2. Master(v) # r  BY <1>c, <5>2
          <6> QED BY <1>0, <1>a, <1>c, <2>0, <6>1, <6>2 DEF Master
        <5> QED BY <5>1, <5>2
      <4> QED BY <1>0, <1>a, <2>0, <3>5, <4>1
    <3>6. CASE /\ ~IsMaster(r) /\ UNCHANGED gather_vars
               /\ accum_exchange' = accum_exchange \cup
                    {[to |-> Hash[r[2]], from |-> r[1], vertex |-> r[2], accum |-> a]}
      <4>1. \A v \in Vertex : Kept(v)'
        <5>1. \A v \in Vertex : Master(v) # r  BY <1>c, <3>6 DEF IsMaster
        <5> QED BY <1>0, <1>a, <2>0, <3>6, <5>1 DEF gather_vars, Master
      <4>2. \A x \in accum_exchange' : Sent1(x)'
        <5>1. \A x \in accum_exchange : Sent1(x)'  BY <1>0, <1>a, <2>0
        <5>2. ASSUME NEW x, x = [to |-> Hash[r[2]], from |-> r[1], vertex |-> r[2], accum |-> a]
              PROVE  Sent1(x)'
          <6>1. x.vertex = r[2] /\ x.accum = a  BY <5>2
          <6> QED BY <1>0, <2>0, <3>2, <6>1
        <5> QED BY <3>6, <5>1, <5>2
      <4>3. Once' BY <2>0, <1>a, <3>6 DEF Delivered
      <4> QED BY <4>1, <4>2, <4>3
    <3> QED BY <3>1, <3>4, <3>5, <3>6
  <2> QED BY <1>2, <2>1, <2>2, <2>3 DEF ExecuteVertex
<1>3. ASSUME NEW k \in Machine, RecvAccum(k)
      PROVE  Once' /\ (\A x \in accum_exchange' : Sent1(x)') /\ \A v \in Vertex : Kept(v)'
  <2>0. UNCHANGED <<phase, todo, active_superstep>> BY <1>3 DEF RecvAccum, step_vars, active_vars
  <2>1. PICK x \in accum_exchange :
          /\ x.to = k /\ phase[k] = "gather"
          /\ accum_exchange' = accum_exchange \ {x}
          /\ Accumulate(<<k, x.vertex>>, x.accum) BY <1>3 DEF RecvAccum
  <2> DEFINE u == x.vertex
  <2>2. u \in Vertex /\ <<k, u>> = Master(u) /\ x.accum \in [Edge -> Int] /\ Hash[u] = k
    BY <2>1 DEF BShape, Master
  <2>3. Sent1(x)  BY <1>a
  <2>4. ASSUME NEW v \in Vertex PROVE Kept(v)'
    <3>1. CASE v = u
      <4>1. /\ Master(v) \in has_gather_accum'
            /\ \A e \in Edge : \/ gather_accum'[Master(v)][e] = gather_accum[Master(v)][e] + x.accum[e]
                               \/ gather_accum'[Master(v)][e] = x.accum[e]
        BY <2>1, <2>2, <3>1, Accumulated
      <4>2. gather_accum[Master(v)] \in [Edge -> Int]  BY <1>c DEF BShape
      <4>3. ASSUME NEW e \in Edge, gather_accum'[Master(v)][e] # 0
            PROVE  e \in Along(v, mode.gather)
        <5>1. x.accum[e] # 0 \/ gather_accum[Master(v)][e] # 0 BY <2>2, <4>1, <4>2, <4>3
        <5> QED BY <1>a, <2>3, <3>1, <5>1
      <4> QED BY <1>0, <2>0, <2>1, <2>2, <2>3, <3>1, <4>1, <4>3 DEF Master
    <3>2. CASE v # u
      <4>1. /\ gather_accum'[Master(v)] = gather_accum[Master(v)]
            /\ Master(v) \in has_gather_accum' <=> Master(v) \in has_gather_accum
        BY <2>1, <2>2, <3>2, Accumulated
      <4> QED BY <1>0, <1>a, <2>0, <4>1 DEF Master
    <3> QED BY <3>1, <3>2
  <2> QED BY <1>0, <1>a, <2>0, <2>1, <2>4
<1>4. CASE \/ \E k \in Machine : Handle(k) /\ ~RecvAccum(k)
           \/ internal_signal_rpc
           \/ UNCHANGED vars
  <2>1. UNCHANGED <<phase, todo, active_superstep>> BY <1>4, HandleBits DEF step_vars
  <2>2. UNCHANGED <<gather_vars, accum_exchange>>
    BY <1>4 DEF Handle, RecvMessage, RecvActiv, RecvUpdate, rpc_stop, internal_signal_rpc, vars,
       exchange_vars, exchanges_but_message, exchanges_but_activ, exchanges_but_update
  <2> QED BY <1>d, <2>1, <2>2
<1> QED BY <1>1, <1>2, <1>3, <1>4, NextSteps DEF Handle

\* What has been added up of the edges of v.
SummedOf(v) ==
  /\ \A e \in Edge :
       Given(v, e) = IF e \in Along(v, Gathers(v)) /\ ~ Waits(Part(v, e)) /\ ~ Sent(v, Place(e))
                     THEN Value(v, e) ELSE 0
  /\ \A x \in accum_exchange : x.vertex = v =>
       \A e \in Edge :
         x.accum[e] = IF e \in Along(v, Gathers(v)) /\ Place(e) = x.from THEN Value(v, e) ELSE 0
NoneApplies == \A k \in Machine : phase[k] # "apply"

\* It stays when nothing that it depends on changes.
LEMMA SummedStays ==
  ASSUME NEW v \in Vertex, SummedOf(v),
         \A e \in Edge : /\ Given(v, e)' = Given(v, e)
                         /\ e \in Along(v, Gathers(v)) => Waits(Part(v, e))' = Waits(Part(v, e)),
         Gathers(v)' = Gathers(v),
         \A u \in Vertex : data'[Master(u)] = data[Master(u)],
         {x \in accum_exchange' : x.vertex = v} = {x \in accum_exchange : x.vertex = v}
  PROVE  SummedOf(v)'
<1>1. \A e \in Edge : Value(v, e)' = Value(v, e) BY EdgeFacts DEF Value, Master, Other
<1>2. \A k : Sent(v, k)' <=> Sent(v, k) BY DEF Sent
<1>3. \A e \in Edge : Place(e)' = Place(e) /\ Part(v, e)' = Part(v, e) BY DEF Place, InDegree, Part
<1>4. Along(v, Gathers(v))' = Along(v, Gathers(v)) BY DEF Along
<1>5. ASSUME NEW e \in Edge
      PROVE  Given(v, e)' = IF e \in Along(v, Gathers(v))' /\ ~ Waits(Part(v, e))' /\ ~ Sent(v, Place(e))'
                            THEN Value(v, e)' ELSE 0
  <2>1. Sent(v, Place(e))' <=> Sent(v, Place(e))  BY <1>2, <1>3 DEF Sent
  <2>2. e \in Along(v, Gathers(v)) => (Waits(Part(v, e))' <=> Waits(Part(v, e))) OBVIOUS
  <2> QED BY <1>1, <1>4, <2>1, <2>2 DEF SummedOf
<1>6. ASSUME NEW x \in accum_exchange', x.vertex = v, NEW e \in Edge
      PROVE  x.accum[e] = IF e \in Along(v, Gathers(v))' /\ Place(e)' = x.from THEN Value(v, e)' ELSE 0
  <2>1. x \in accum_exchange  BY <1>6
  <2> QED BY <1>1, <1>3, <1>4, <1>6, <2>1 DEF SummedOf
<1> QED BY <1>5, <1>6 DEF SummedOf

LEMMA SummedKept ==
  ASSUME IInv, CInv, BInv, AlwaysGathers, [Next]_vars
  PROVE  Summed'
<1> USE DEF IInv, CInv, BInv
<1>0. mode' = mode  BY ModeStays
<1> SUFFICES ASSUME NEW v \in Vertex, Receiving(v)', NoneApplies'
             PROVE  SummedOf(v)' BY DEF Summed, SummedOf, NoneApplies
<1>a. Receiving(v) /\ NoneApplies => SummedOf(v) BY DEF Summed, SummedOf, NoneApplies
<1>c. /\ Hash[v] \in Machine /\ Master(v) \in Replica
      /\ Master(v)[1] = Hash[v] /\ Master(v)[2] = v BY ReplicaFacts
<1>d. ASSUME NEW e \in Edge
      PROVE  /\ Place(e) \in Machine /\ Part(v, e) = <<Place(e), v>>
             /\ \A d : e \in Along(v, d) => Part(v, e) \in Replica
             /\ Place(e)' = Place(e) /\ Part(v, e)' = Part(v, e) BY EdgeFacts DEF Part, Place, InDegree
<1>1. ASSUME NEW k \in Machine, MainLoop(k) PROVE SummedOf(v)'
  <2>0. UNCHANGED <<vertex_programs, accum_exchange, gather_accum, data>>
    BY <1>1, LoopBits DEF exchange_vars
  <2>1. Gathers(v)' = Gathers(v)  BY <1>0, <2>0 DEF Gathers, Master
  <2>2. Receiving(v)  BY <1>1, LoopReached
  <2>3. NoneApplies
    <3>1. SUFFICES ASSUME NEW j \in Machine, phase[j] = "apply" PROVE FALSE BY DEF NoneApplies
    <3>2. j = k /\ ~Arrive(k) BY <1>1, <3>1, LoopBits DEF NoneApplies, Arrive
    <3>3. Hash[v] # k => phase'[Hash[v]] = phase[Hash[v]]  BY <1>1, <1>c, LoopBits
    <3>4. phase'[Hash[v]] \in {"scatter", "apply"} BY <1>1, <1>c, <3>1, <3>2, <3>3, LoopMoves DEF After
    <3> QED BY <3>4 DEF Receiving
  <2>4. Master(v) \in has_gather_accum' <=> Master(v) \in has_gather_accum
    <3>1. CASE Hash[v] # k  BY <1>1, <1>c, <3>1, LoopBits
    <3>2. CASE Hash[v] = k
      <4>1. phase[k] # "test"  BY <2>2, <3>2 DEF Receiving
      <4> QED BY <1>1, <4>1, LoopSelf DEF Arrive, gather_vars
    <3> QED BY <3>1, <3>2
  <2>5. \A e \in Edge : Given(v, e)' = Given(v, e) BY <2>0, <2>4 DEF Given, Master
  <2>6. ASSUME NEW e \in Edge, e \in Along(v, Gathers(v))
        PROVE  Waits(Part(v, e))' = Waits(Part(v, e))
    <3> DEFINE q == Part(v, e)
    <3>1. q \in Replica /\ q[1] = Place(e)  BY <1>d, <2>6
    <3>2. CASE Place(e) # k
      <4>1. phase'[q[1]] = phase[q[1]] /\ (q \in todo' <=> q \in todo)
        BY <1>1, <1>d, <3>1, <3>2, LoopBits
      <4> QED BY <1>d, <4>1 DEF Waits
    <3>3. CASE Place(e) = k
      <4>1. CASE Arrive(k)  BY <1>d, <4>1 DEF Arrive, Waits
      <4>2. CASE ~Arrive(k)
        <5>1. phase[k] # "gather" BY <1>1, <4>2, LoopSelf DEF NoneApplies
        <5>2. CASE phase[k] = "reduce"
          <6>1. q \in active_minorstep BY <1>d, <2>2, <2>6, <3>3, <5>2 DEF Covered
          <6>2. phase'[k] = "gather" => q \in todo'
            BY <1>1, <3>1, <3>3, <4>2, <5>2, <6>1, LoopSelf DEF On
          <6> QED BY <1>d, <3>1, <3>3, <5>1, <6>2 DEF Waits
        <5>3. CASE phase[k] # "reduce"
          <6>1. phase'[k] # "gather"  BY <1>1, <4>2, <5>3, LoopSelf
          <6> QED BY <1>d, <3>1, <3>3, <5>1, <6>1 DEF Waits
        <5> QED BY <5>2, <5>3
      <4> QED BY <4>1, <4>2
    <3> QED BY <3>2, <3>3
  <2> QED BY <1>a, <2>0, <2>1, <2>2, <2>3, <2>5, <2>6, SummedStays
<1>2. ASSUME NEW r \in todo, ExecuteVertex(r) PROVE SummedOf(v)'
  <2>0. /\ r \in Replica /\ r = <<r[1], r[2]>> /\ phase' = phase /\ todo' = todo \ {r}
        /\ r[2] \in Vertex /\ r[1] \in Machine BY <1>2, VisitBits, ReplicaFacts DEF Shape, step_vars
  <2>1. phase[r[1]] \in {"receive", "gather"}
    <3>1. phase[Hash[v]] \in {"receive", "reduce", "gather"}  BY <2>0 DEF Receiving
    <3>2. phase[r[1]] # "exchange"  BY <1>c, <3>1, Where
    <3>3. phase[r[1]] # "apply"  BY <2>0 DEF NoneApplies
    <3>4. phase[r[1]] # "scatter"  BY <1>c, <3>1, Where
    <3> QED BY <3>2, <3>3, <3>4 DEF Due
\* Before anyone gathers.
  <2>2. CASE phase[r[1]] = "receive"
    <3>1. \A j \in Machine : phase[j] \in {"receive", "exchange"}  BY <2>2, Where
    <3>2. accum_exchange' = {}
      <4>1. ASSUME NEW x \in accum_exchange' PROVE FALSE
        <5>1. x \in accum_exchange  BY <1>2, <2>2, <4>1, VisitSends
        <5>2. x.to \in Machine /\ phase[x.to] \in {"gather", "reduce"}
          BY <5>1, ReplicaFacts DEF Delivered, Comes, BShape
        <5> QED BY <3>1, <5>2
      <4> QED BY <4>1
    <3>3. Master(v) \notin has_gather_accum'
      <4>1. phase[Master(v)[1]] \in {"clear", "exchange", "receive", "reduce"}  BY <1>c, <3>1
      <4> QED BY <1>2, <1>c, <2>2, <4>1, VisitBits DEF Blank
    <3>4. \A e \in Edge : Given(v, e)' = 0  BY <3>3 DEF Given, Master
    <3>5. ASSUME NEW e \in Edge PROVE Waits(Part(v, e))' BY <1>d, <2>0, <3>1 DEF Waits
    <3> QED BY <3>2, <3>4, <3>5 DEF SummedOf
  <2>3. CASE phase[r[1]] = "gather"
    <3> DEFINE a == Accum(r)
               u == r[2]
    <3>0. ExecuteGather(r)
      BY <1>2, <2>3 DEF ExecuteVertex, ExchangeMessage, ReceiveMessage, ExecuteApply,
         ExecuteScatter, Visit
    <3>1. /\ UNCHANGED <<data, active_superstep>>
          /\ \/ Cares(r) = {} /\ UNCHANGED <<gather_vars, accum_exchange>>
             \/ /\ r = Master(u) /\ Accumulate(r, a) /\ UNCHANGED accum_exchange
             \/ /\ ~IsMaster(r) /\ UNCHANGED gather_vars
                /\ accum_exchange' = accum_exchange \cup
                     {[to |-> Hash[u], from |-> r[1], vertex |-> u, accum |-> a]}
      BY <3>0, GatherEffect DEF active_vars
    <3>2. /\ Gathers(u) = mode.gather
          /\ \A e \in Edge : a[e] = IF e \in Cares(r) THEN Value(u, e) ELSE 0 BY <2>3, Contribution
    <3>3. a \in [Edge -> Int]  BY AccumShape
    <3> HIDE DEF a
    <3>4. Gathers(v)' = Gathers(v)
      <4>1. phase[Hash[v]] \notin {"receive", "apply", "scatter"}  BY <1>c, <2>3, Where
      <4> QED BY <4>1, MasterPrograms
    <3>5. Receiving(v) /\ NoneApplies BY <2>0, <3>1 DEF Receiving, NoneApplies
    <3>6. SummedOf(v)  BY <1>a, <3>5
    <3>7. ASSUME NEW e \in Edge
          PROVE  /\ Waits(Part(v, e))' <=> Waits(Part(v, e)) /\ Part(v, e) # r
                 /\ Part(v, e) = r => Waits(Part(v, e)) BY <1>d, <2>0, <2>3 DEF Waits
    <3>8. \A e \in Edge : Part(v, e) = r => v = u /\ Place(e) = r[1] BY <1>d, <2>0
    <3>9. CASE v # u
      <4>1. \A e \in Edge : Given(v, e)' = Given(v, e)
        <5>1. CASE UNCHANGED gather_vars  BY <5>1 DEF gather_vars, Given, Master
        <5>2. CASE r = Master(u) /\ Accumulate(r, a) BY <2>0, <3>3, <3>9, <5>2, Accumulated
        <5> QED BY <3>1, <5>1, <5>2
      <4>2. {x \in accum_exchange' : x.vertex = v} = {x \in accum_exchange : x.vertex = v} BY <3>1, <3>9
      <4>3. \A e \in Edge : Waits(Part(v, e))' = Waits(Part(v, e)) BY <3>7, <3>8, <3>9 DEF Waits
      <4> QED BY <3>1, <3>4, <3>6, <4>1, <4>2, <4>3, SummedStays
    <3>10. CASE v = u
      <4>0. /\ \A e \in Edge : Value(v, e)' = Value(v, e)
            /\ Along(v, Gathers(v))' = Along(v, Gathers(v)) BY <3>1, <3>4 DEF Value, Along, Other, Master
      <4>1. ASSUME NEW e \in Edge
            PROVE  e \in Cares(r) <=> e \in Along(v, Gathers(v)) /\ Place(e) = r[1]
        BY <3>2, <3>10 DEF Cares, Local
      <4>2. CASE Cares(r) = {} /\ UNCHANGED <<gather_vars, accum_exchange>>
        <5>1. \A e \in Edge : e \in Along(v, Gathers(v)) => Waits(Part(v, e))' = Waits(Part(v, e))
          BY <3>7, <3>8, <4>1, <4>2 DEF Waits
        <5>2. \A e \in Edge : Given(v, e)' = Given(v, e) BY <4>2 DEF gather_vars, Given, Master
        <5> QED BY <3>1, <3>4, <3>6, <4>2, <5>1, <5>2, SummedStays
      <4>3. CASE r = Master(u) /\ Accumulate(r, a) /\ UNCHANGED accum_exchange
        <5>1. ASSUME NEW e \in Edge
              PROVE  Given(v, e)' = IF e \in Along(v, Gathers(v))' /\ ~ Waits(Part(v, e))'
                                         /\ ~ Sent(v, Place(e))'
                                    THEN Value(v, e)' ELSE 0
          <6>1. Given(v, e)' = Given(v, e) + a[e] BY <3>3, <3>10, <4>3, Accumulated
          <6>2. Sent(v, Place(e))' <=> Sent(v, Place(e)) BY <1>d, <4>3 DEF Sent
          <6>3. Given(v, e) \in Int BY <1>c DEF Given, BShape
          <6>4. CASE e \in Cares(r)
            <7>1. e \in Along(v, Gathers(v)) /\ Place(e) = r[1] /\ Part(v, e) = r
              BY <1>d, <2>0, <3>10, <4>1, <6>4
            <7>2. Given(v, e) = 0  BY <3>6, <3>7, <7>1 DEF SummedOf
            <7>3. ~ Sent(v, Place(e)) BY <3>10, <4>3, <7>1, ReplicaFacts DEF Sent, BShape
            <7>4. a[e] = Value(v, e) /\ a[e] \in Int  BY <3>2, <3>3, <3>10, <6>4
            <7> QED BY <3>7, <4>0, <6>1, <6>2, <7>1, <7>2, <7>3, <7>4
          <6>5. CASE e \notin Cares(r)
            <7>1. a[e] = 0  BY <3>2, <6>5
            <7>2. Given(v, e)' = Given(v, e)  BY <6>1, <6>3, <7>1
            <7>3. e \in Along(v, Gathers(v)) => Part(v, e) # r  BY <1>d, <3>8, <4>1, <6>5
            <7> QED BY <3>6, <3>7, <4>0, <6>2, <7>2, <7>3 DEF SummedOf
          <6> QED BY <6>4, <6>5
        <5>2. ASSUME NEW x \in accum_exchange', x.vertex = v, NEW e \in Edge
              PROVE  x.accum[e] = IF e \in Along(v, Gathers(v))' /\ Place(e)' = x.from
                                  THEN Value(v, e)' ELSE 0 BY <1>d, <3>6, <4>0, <4>3, <5>2 DEF SummedOf
        <5> QED BY <5>1, <5>2 DEF SummedOf
      <4>4. CASE /\ ~IsMaster(r) /\ UNCHANGED gather_vars
                 /\ accum_exchange' = accum_exchange \cup
                      {[to |-> Hash[u], from |-> r[1], vertex |-> u, accum |-> a]}
        <5>1. ASSUME NEW e \in Edge
              PROVE  Given(v, e)' = IF e \in Along(v, Gathers(v))' /\ ~ Waits(Part(v, e))'
                                         /\ ~ Sent(v, Place(e))'
                                    THEN Value(v, e)' ELSE 0
          <6>1. Given(v, e)' = Given(v, e) BY <4>4 DEF gather_vars, Given, Master
          <6>2. Sent(v, Place(e))' <=> Sent(v, Place(e)) \/ Place(e) = r[1]
            <7>1. \A x \in accum_exchange : x \in accum_exchange'  BY <4>4
            <7>2. [to |-> Hash[u], from |-> r[1], vertex |-> u, accum |-> a] \in accum_exchange' BY <4>4
            <7>3. \A x \in accum_exchange' : x \in accum_exchange \/ x.from = r[1] BY <4>4
            <7> QED BY <1>d, <3>10, <7>1, <7>2, <7>3 DEF Sent
          <6>3. CASE Place(e) = r[1]
            <7>1. Part(v, e) = r  BY <1>d, <2>0, <3>10, <6>3
            <7>2. Given(v, e) = 0  BY <3>6, <3>7, <7>1 DEF SummedOf
            <7> QED BY <6>1, <6>2, <6>3, <7>2
          <6>4. CASE Place(e) # r[1]
            <7>1. Part(v, e) # r  BY <3>8, <6>4
            <7> QED BY <3>6, <3>7, <4>0, <6>1, <6>2, <6>4, <7>1 DEF SummedOf
          <6> QED BY <6>3, <6>4
        <5>2. ASSUME NEW x \in accum_exchange', x.vertex = v, NEW e \in Edge
              PROVE  x.accum[e] = IF e \in Along(v, Gathers(v))' /\ Place(e)' = x.from
                                  THEN Value(v, e)' ELSE 0
          <6>1. CASE x \in accum_exchange BY <1>d, <3>6, <4>0, <5>2, <6>1 DEF SummedOf
          <6>2. CASE x \notin accum_exchange
            <7>1. x.accum = a /\ x.from = r[1]  BY <4>4, <5>2, <6>2
            <7> QED BY <1>d, <3>2, <3>10, <4>0, <4>1, <7>1
          <6> QED BY <6>1, <6>2
        <5> QED BY <5>1, <5>2 DEF SummedOf
      <4> QED BY <3>1, <4>2, <4>3, <4>4
    <3> QED BY <3>9, <3>10
  <2> QED BY <2>1, <2>2, <2>3
<1>3. ASSUME NEW k \in Machine, RecvAccum(k) PROVE SummedOf(v)'
  <2>0. UNCHANGED <<phase, todo, active_superstep, data, vertex_programs>>
    BY <1>3 DEF RecvAccum, step_vars, active_vars
  <2>1. PICK x \in accum_exchange :
          /\ x.to = k
          /\ accum_exchange' = accum_exchange \ {x}
          /\ Accumulate(<<k, x.vertex>>, x.accum) BY <1>3 DEF RecvAccum
  <2> DEFINE u == x.vertex
  <2>2. u \in Vertex /\ <<k, u>> = Master(u) /\ x.accum \in [Edge -> Int] /\ Hash[u] = k
        /\ x.from \in Machine /\ phase[x.from] = "gather" /\ <<x.from, u>> \notin todo
    BY <2>1, ReplicaFacts DEF BShape, Master, Delivered
  <2>3. Gathers(v)' = Gathers(v)  BY <1>0, <2>0 DEF Gathers, Master
  <2>4. SummedOf(v)  BY <1>a, <2>0 DEF Receiving, NoneApplies
  <2>5. \A e \in Edge : Waits(Part(v, e))' = Waits(Part(v, e)) BY <1>d, <2>0 DEF Waits
  <2>6. CASE v # u
    <3>1. \A e \in Edge : Given(v, e)' = Given(v, e) BY <2>1, <2>2, <2>6, Accumulated
    <3>2. {y \in accum_exchange' : y.vertex = v} = {y \in accum_exchange : y.vertex = v} BY <2>1, <2>6
    <3> QED BY <2>0, <2>3, <2>4, <2>5, <3>1, <3>2, SummedStays
  <2>7. CASE v = u
    <3>0. /\ \A e \in Edge : Value(v, e)' = Value(v, e)
          /\ Along(v, Gathers(v))' = Along(v, Gathers(v)) BY <2>0, <2>3 DEF Value, Along, Other, Master
    <3>1. ASSUME NEW e \in Edge
          PROVE  Given(v, e)' = IF e \in Along(v, Gathers(v))' /\ ~ Waits(Part(v, e))'
                                     /\ ~ Sent(v, Place(e))'
                                THEN Value(v, e)' ELSE 0
      <4>1. Given(v, e)' = Given(v, e) + x.accum[e] BY <2>1, <2>2, <2>7, Accumulated
      <4>2. x.accum[e] = IF e \in Along(v, Gathers(v)) /\ Place(e) = x.from THEN Value(v, e) ELSE 0
        BY <2>4, <2>7 DEF SummedOf
      <4>3. Given(v, e) \in Int /\ x.accum[e] \in Int  BY <1>c, <2>2 DEF Given, BShape
      <4>4. CASE Place(e) = x.from
        <5>1. Sent(v, Place(e))  BY <2>7, <4>4 DEF Sent
        <5>2. ~ Sent(v, Place(e))' BY <1>d, <2>1, <2>7, <4>4 DEF Sent, Fresh
        <5>3. ~ Waits(Part(v, e))'  BY <1>d, <2>0, <2>2, <2>7, <4>4 DEF Waits
        <5>4. Given(v, e) = 0  BY <2>4, <5>1 DEF SummedOf
        <5> QED BY <3>0, <4>1, <4>2, <4>3, <4>4, <5>2, <5>3, <5>4
      <4>5. CASE Place(e) # x.from
        <5>1. Sent(v, Place(e))' <=> Sent(v, Place(e)) BY <2>1, <4>5, <1>d DEF Sent
        <5>2. Given(v, e)' = Given(v, e)  BY <4>1, <4>2, <4>3, <4>5
        <5> QED BY <2>4, <2>5, <3>0, <5>1, <5>2 DEF SummedOf
      <4> QED BY <4>4, <4>5
    <3>2. ASSUME NEW y \in accum_exchange', y.vertex = v, NEW e \in Edge
          PROVE  y.accum[e] = IF e \in Along(v, Gathers(v))' /\ Place(e)' = y.from
                              THEN Value(v, e)' ELSE 0
      <4>1. y \in accum_exchange  BY <2>1, <3>2
      <4> QED BY <1>d, <2>4, <3>0, <3>2, <4>1 DEF SummedOf
    <3> QED BY <3>1, <3>2 DEF SummedOf
  <2> QED BY <2>6, <2>7
<1>4. CASE \/ \E k \in Machine : Handle(k) /\ ~RecvAccum(k)
           \/ internal_signal_rpc
           \/ UNCHANGED vars
  <2>1. UNCHANGED <<phase, todo, active_superstep>> BY <1>4, HandleBits DEF step_vars
  <2>2. \A k \in Machine : ~RecvUpdate(k) BY <2>1 DEF RecvUpdate, NoneApplies
  <2>3. UNCHANGED <<data, gather_vars, accum_exchange>>
    BY <1>4, <2>2 DEF Handle, RecvMessage, RecvActiv, rpc_stop, internal_signal_rpc, vars,
       exchange_vars, exchanges_but_message, exchanges_but_activ
  <2>4. Gathers(v)' = Gathers(v)
    <3>1. CASE \E k \in Machine : Handle(k) BY <3>1, HandlePrograms, <1>0 DEF Gathers, Master
    <3>2. CASE internal_signal_rpc \/ UNCHANGED vars
      BY <1>0, <3>2 DEF internal_signal_rpc, vars, Gathers, Master
    <3> QED BY <1>4, <3>1, <3>2
  <2>5. SummedOf(v)  BY <1>a, <2>1 DEF Receiving, NoneApplies
  <2>6. \A e \in Edge : /\ Given(v, e)' = Given(v, e)
                        /\ Waits(Part(v, e))' = Waits(Part(v, e))
    BY <1>d, <2>1, <2>3 DEF Given, gather_vars, Waits, Master
  <2> QED BY <2>3, <2>4, <2>5, <2>6, SummedStays
<1> QED BY <1>1, <1>2, <1>3, <1>4, NextSteps DEF Handle

\* Messages are for the replicas of the machine that signals.
LEMMA VisitSignals ==
  ASSUME Shape, NEW r \in todo, ExecuteVertex(r), NEW q \in has_message' \ has_message
  PROVE  q \in Replica /\ q[1] = r[1] /\ phase[r[1]] = "scatter"
<1>1. CASE ExecuteScatter(r)
  <2>1. PICK F : has_message' = has_message \cup Neighbours(r, F)
    BY <1>1 DEF ExecuteScatter, SignalById, SignalNeighbours
  <2>2. q \in Replica /\ Between(F, r, q) # {}  BY <2>1 DEF Neighbours
  <2>3. q = <<r[1], q[2]>>  BY <2>2, ReplicaFacts DEF Between
  <2> QED BY <1>1, <2>2, <2>3 DEF ExecuteScatter, Visit
<1>2. CASE ~ExecuteScatter(r)
  BY <1>2 DEF ExecuteVertex, ExchangeMessage, ReceiveMessage, ExecuteGather, ExecuteApply, message_vars
<1> QED BY <1>1, <1>2

LEMMA ClearedKept ==
  ASSUME IInv, Scattered, BShape, Due, Delivered, Cleared, [Next]_vars
  PROVE  Cleared'
<1> USE DEF IInv
<1> SUFFICES ASSUME NEW q \in has_message'
             PROVE  phase'[q[1]] \notin {"reduce", "gather"} BY DEF Cleared
<1>1. ASSUME NEW k \in Machine, MainLoop(k)
      PROVE  phase'[q[1]] \notin {"reduce", "gather"}
  <2>1. CASE Arrive(k)  BY <2>1 DEF Arrive, Cleared, message_vars
  <2>2. CASE ~Arrive(k)
    <3>1. q \in has_message  BY <1>1, <2>2, LoopSelf
    <3>2. q \in Replica /\ q[1] \in Machine  BY <3>1, ReplicaFacts DEF Shape
    <3>3. CASE q[1] # k  BY <1>1, <3>1, <3>2, <3>3, LoopBits DEF Cleared
    <3>4. CASE q[1] = k
      <4>1. q \in On(k)  BY <3>2, <3>4 DEF On
      <4>2. phase[k] \notin {"reduce", "gather"}  BY <3>1, <3>4 DEF Cleared
      <4> QED BY <1>1, <2>2, <3>4, <4>1, <4>2, LoopSelf
    <3> QED BY <3>3, <3>4
  <2> QED BY <2>1, <2>2
<1>2. ASSUME NEW r \in todo, ExecuteVertex(r)
      PROVE  phase'[q[1]] \notin {"reduce", "gather"}
  BY <1>2, VisitBits, VisitSignals DEF Cleared, step_vars
<1>3. ASSUME \/ \E k \in Machine : Handle(k)
             \/ internal_signal_rpc
             \/ UNCHANGED vars
      PROVE  phase'[q[1]] \notin {"reduce", "gather"}
  <2>0. phase' = phase  BY <1>3, HandleBits DEF step_vars
  <2>1. CASE q \in has_message  BY <2>0, <2>1 DEF Cleared
  <2>2. CASE q \notin has_message
    <3>1. ~internal_signal_rpc  BY DEF internal_signal_rpc, BShape
    <3>2. ASSUME NEW k \in Machine, RecvMessage(k)
          PROVE  q[1] = k /\ phase[k] = "exchange" BY <2>2, <3>2 DEF RecvMessage, Signalled
    <3>3. ASSUME NEW k \in Machine, Handle(k) PROVE RecvMessage(k)
      BY <2>2, <3>3 DEF Handle, RecvActiv, RecvAccum, RecvUpdate, rpc_stop, message_vars
    <3>4. ~ UNCHANGED vars  BY <2>2 DEF vars, message_vars
    <3> QED BY <1>3, <2>0, <3>1, <3>2, <3>3, <3>4
  <2> QED BY <2>1, <2>2
<1> QED BY <1>1, <1>2, <1>3, NextSteps

LEMMA BInit ==
  ASSUME Init, ByVertex
  PROVE  BInv
<1> USE DEF Init, PerReplica, PerMachine
<1>1. BShape
  <2>1. messages \in [Replica -> SUBSET Message]  BY DEF Message
  <2>2. vertex_programs \in [Replica -> Program]  BY DEF Program, DefaultProgram
  <2>3. gather_accum \in [Replica -> [Edge -> Int]]  BY DEF Zero
  <2>4. \A r \in Replica : data[r].applies >= 1  BY DEF InitialData
  <2> QED BY <2>1, <2>2, <2>3, <2>4 DEF BShape, ByVertex
<1>2. \A k \in Machine : num_active_vertices[k] = 0 /\ phase[k] = "test" OBVIOUS
<1>3. \A v \in Vertex : gather_accum[Master(v)] = Zero /\ phase[Hash[v]] = "test" BY ReplicaFacts
<1>4. Fresh BY SMTT(30), <1>3 DEF Fresh, Zero
<1>5. Cleared
  <2>1. PICK S \in StartSets : has_message = {Master(v) : v \in S} OBVIOUS
  <2>2. \A v \in S : v \in Vertex  BY <2>1, EngineAssumption
  <2>3. ASSUME NEW r \in has_message PROVE r[1] \in Machine
    <3>1. PICK v \in S : r = Master(v)  BY <2>1
    <3> QED BY <2>2, <3>1, ReplicaFacts
  <2> QED BY <1>2, <2>3 DEF Cleared
<1> QED BY <1>1, <1>2, <1>3, <1>4, <1>5
        DEF BInv, Due, Blank, Delivered, Counted, Activated, Covered, Summed, Receiving, On

LEMMA BKept ==
  ASSUME IInv, CInv, BInv, AlwaysGathers, [Next]_vars
  PROVE  BInv'
BY BShapeKept, DueKept, BlankKept, ClearedKept, DeliveredKept, CountedKept, ActivatedKept, CoveredKept,
   SummedKept, FreshKept DEF BInv, CInv

-----------------------------------------------------------------------------
(* The super-steps that the machines make together.                        *)

\* What waits for v, and what of it is m.
Waiting(v) ==
  \/ \E x \in message_exchange : x.vertex = v
  \/ \E c \in signal_calls : c.vertex = v
  \/ \E r \in Replica : r[2] = v /\ Pending(r)
InBox(v, m) ==
  \/ \E x \in message_exchange : x.vertex = v /\ m \in x.message
  \/ \E c \in signal_calls : c.vertex = v /\ ~mode.plain /\ m = c.edge
  \/ \E r \in Replica : r[2] = v /\ Pending(r) /\ m \in messages[r]

LEMMA SignalsNow ==
  ASSUME NEW v
  PROVE  /\ Signals(v) # {} <=> Waiting(v)
         /\ \A m : m \in UNION Signals(v) <=> InBox(v, m)
<1>1. Signals(v) # {} <=> Waiting(v) BY DEF Signals, Waiting, Replicas
<1>2. ASSUME NEW m PROVE m \in UNION Signals(v) <=> InBox(v, m) BY DEF Signals, InBox, Replicas
<1> QED BY <1>1, <1>2

LEMMA SignalsNext ==
  ASSUME NEW v
  PROVE  /\ Signals(v)' # {} <=> Waiting(v)'
         /\ \A m : m \in UNION Signals(v)' <=> InBox(v, m)'
<1>1. Signals(v)' # {} <=> Waiting(v)' BY DEF Signals, Waiting, Replicas
<1>2. ASSUME NEW m PROVE m \in UNION Signals(v)' <=> InBox(v, m)' BY DEF Signals, InBox, Replicas
<1> QED BY <1>1, <1>2

\* The edges along which r signals, or would.
ToSignal(v, e) ==
  \/ \E r \in Replica : /\ r[2] = v /\ StillToScatter(r)
                        /\ vertex_programs[r].signals /\ e \in ScatteredEdges(r)
  \/ \E x \in update_exchange :
       /\ x.vertex = v /\ x.scatters /\ x.program.signals
       /\ e \in Along(v, scatter_edges(mode, x.program)) \cap Local(x.to)

LEMMA OutgoingNow ==
  ASSUME NEW v
  PROVE  \A e : e \in Outgoing(v) <=> ToSignal(v, e) BY DEF Outgoing, ToSignal, Replicas

LEMMA OutgoingNext ==
  ASSUME NEW v
  PROVE  \A e : e \in Outgoing(v)' <=> ToSignal(v, e)' BY DEF Outgoing, ToSignal, Replicas

Received(v) == IF Active(v) THEN vertex_programs[Master(v)].message ELSE {}
Total(v) == IF Stage = "apply" /\ Active(v) THEN gather_accum[Master(v)] ELSE Zero

\* The variables of BulkSynchronous.
BData == [v \in Vertex |-> data[Master(v)]]
BSignalled == {v \in Vertex : Signals(v) # {}}
BBox == [v \in Vertex |-> UNION Signals(v)]
BActive == {v \in Vertex : Active(v)}
BReceived == [v \in Vertex |-> IF Active(v) THEN vertex_programs[Master(v)].message ELSE {}]
BTotal == [v \in Vertex |-> IF Stage = "apply" /\ Active(v) THEN gather_accum[Master(v)] ELSE Zero]
BOutgoing == [v \in Vertex |-> Outgoing(v)]
BVars == <<mode, Stage, BData, BSignalled, BBox, BActive, BReceived, BTotal, BOutgoing>>

LEMMA SameSignals ==
  ASSUME \A v \in Vertex : Waiting(v)' <=> Waiting(v),
         \A v \in Vertex : \A m : InBox(v, m)' <=> InBox(v, m)
  PROVE  BSignalled' = BSignalled /\ BBox' = BBox
<1>1. \A v \in Vertex : Signals(v)' # {} <=> Signals(v) # {} BY SignalsNow, SignalsNext
<1>2. ASSUME NEW v \in Vertex PROVE (UNION Signals(v))' = UNION Signals(v) BY SignalsNow, SignalsNext
<1> QED BY <1>1, <1>2 DEF BSignalled, BBox

LEMMA SameOutgoing ==
  ASSUME \A v \in Vertex : \A e : ToSignal(v, e)' <=> ToSignal(v, e)
  PROVE  BOutgoing' = BOutgoing
<1>1. \A v \in Vertex : Outgoing(v)' = Outgoing(v) BY OutgoingNow, OutgoingNext DEF Outgoing
<1> QED BY <1>1 DEF BOutgoing

LEMMA SameActive ==
  ASSUME \A v \in Vertex : Active(v)' <=> Active(v)
  PROVE  BActive' = BActive BY DEF BActive

LEMMA SameReceived ==
  ASSUME \A v \in Vertex : Received(v)' = Received(v)
  PROVE  BReceived' = BReceived BY DEF BReceived, Received

LEMMA SameTotal ==
  ASSUME \A v \in Vertex : Total(v)' = Total(v)
  PROVE  BTotal' = BTotal BY DEF BTotal, Total

LEMMA SameData ==
  ASSUME \A v \in Vertex : data'[Master(v)] = data[Master(v)]
  PROVE  BData' = BData BY DEF BData, Master

\* A step that changes nothing of these is a stutter.
LEMMA Stutters ==
  ASSUME mode' = mode, Stage' = Stage,
         \A v \in Vertex :
           /\ data'[Master(v)] = data[Master(v)]
           /\ Waiting(v)' <=> Waiting(v)
           /\ \A m : InBox(v, m)' <=> InBox(v, m)
           /\ Active(v)' <=> Active(v)
           /\ Received(v)' = Received(v) /\ Total(v)' = Total(v)
           /\ \A e : ToSignal(v, e)' <=> ToSignal(v, e)
  PROVE  UNCHANGED BSP!vars
<1>1. UNCHANGED BVars
  BY SameData, SameSignals, SameActive, SameReceived, SameTotal, SameOutgoing DEF BVars
<1> QED BY <1>1 DEF BSP!vars, BVars, BData, BSignalled, BBox, BActive, BReceived, BTotal, BOutgoing

\* A machine that has something to visit is not behind, so that its phase is the stage.
LEMMA Visiting ==
  ASSUME IInv, Scattered, Due, Counted, NEW r \in todo
  PROVE  /\ ~Ended
         /\ Stage = IF phase[r[1]] \in {"apply", "scatter"} THEN phase[r[1]] ELSE "receive"
<1> USE DEF IInv
<1>1. r[1] \in Machine /\ r \in todo \cap On(r[1]) BY ReplicaFacts DEF Shape, On
<1>2. phase[r[1]] \in {"exchange", "receive", "gather", "apply", "scatter"}  BY DEF Due
<1>3. ~arrived[r[1]]  BY <1>1, <1>2 DEF Quiet, Scattered, Exchanging
<1>4. Ahead(r[1]) BY <1>1, <1>3 DEF Ahead, Shape, InStep
<1>5. ~Ended BY <1>2, Where DEF Ended
<1> QED BY <1>1, <1>4, <1>5, StageNow

LEMMA StageStays ==
  ASSUME UNCHANGED step_vars
  PROVE  Stage' = Stage BY DEF Stage, step_vars

LEMMA StageEnded ==
  ASSUME Shape, InStep, Ended
  PROVE  Stage = "ended"
<1> DEFINE a == CHOOSE i \in Machine : \A j \in Machine : passed[j] <= passed[i]
<1>1. PICK k \in Machine : phase[k] \in {"exit", "ended"}  BY DEF Ended
<1>2. PICK i \in Machine : phase[i] \in {"exit", "ended"} /\ \A j \in Machine : passed[j] <= passed[i]
  BY <1>1 DEF InStep, After, Shape
<1>3. a \in Machine /\ \A j \in Machine : passed[j] <= passed[a] BY <1>2, Zenon
<1>4. passed[a] = passed[i] BY <1>2, <1>3 DEF Shape
<1>5. phase[a] \notin {"apply", "scatter"} BY <1>2, <1>3, <1>4 DEF InStep, Alike
<1>6. Stage = CASE TRUE -> "ended"
                 [] phase[a] \in {"apply", "scatter"} -> phase[a]
                 [] OTHER -> "receive" BY <1>1 DEF Stage
<1> QED BY <1>5, <1>6

LEMMA StageEnds ==
  ASSUME Shape', InStep', Ended'
  PROVE  Stage' = "ended"
<1> DEFINE a == CHOOSE i \in Machine : \A j \in Machine : passed'[j] <= passed'[i]
<1>1. PICK k \in Machine : phase'[k] \in {"exit", "ended"}  BY DEF Ended
<1>2. PICK i \in Machine : phase'[i] \in {"exit", "ended"} /\ \A j \in Machine : passed'[j] <= passed'[i]
  BY <1>1 DEF InStep, After, Shape
<1>3. a \in Machine /\ \A j \in Machine : passed'[j] <= passed'[a] BY <1>2, Zenon
<1>4. passed'[a] = passed'[i] BY <1>2, <1>3 DEF Shape
<1>5. phase'[a] \notin {"apply", "scatter"} BY <1>2, <1>3, <1>4 DEF InStep, Alike
<1>6. Stage' = CASE TRUE -> "ended"
                 [] phase'[a] \in {"apply", "scatter"} -> phase'[a]
                 [] OTHER -> "receive" BY <1>1 DEF Stage
<1> QED BY <1>5, <1>6

LEMMA AtEnd ==
  ASSUME Shape, InStep, Counted, Ended, NEW k \in Machine
  PROVE  phase[k] \in {"test", "clear", "exit", "ended", "reduce", "scatter"}
<1>1. PICK j \in Machine : phase[j] \in {"exit", "ended"}  BY DEF Ended
<1>2. passed[j] \in Nat /\ passed[k] \in Nat /\ phase[k] \in Phases  BY DEF Shape
<1>3. CASE passed[j] = passed[k] BY <1>1, <1>3 DEF Counted, InStep, Alike
<1>4. CASE passed[j] > passed[k]  BY <1>1, <1>4 DEF InStep, After
<1>5. CASE passed[k] > passed[j]  BY <1>1, <1>5 DEF InStep, After
<1> QED BY <1>2, <1>3, <1>4, <1>5

\* The main loop changes nothing but the stage.
LEMMA LoopSame ==
  ASSUME IInv, Scattered, BInv, NEW k \in Machine, MainLoop(k), NEW v \in Vertex
  PROVE  /\ mode' = mode
         /\ data'[Master(v)] = data[Master(v)]
         /\ Waiting(v)' <=> Waiting(v)
         /\ \A m : InBox(v, m)' <=> InBox(v, m)
         /\ Active(v)' <=> Active(v)
         /\ Received(v)' = Received(v)
         /\ gather_accum' = gather_accum
         /\ \A e : ToSignal(v, e)' <=> ToSignal(v, e)
<1> USE DEF IInv, BInv
<1>0. /\ Master(v) \in Replica /\ Master(v)[1] = Hash[v] /\ Hash[v] \in Machine
      /\ Master(v)[2] = v BY ReplicaFacts
<1>1. UNCHANGED <<mode, data, vertex_programs, messages, gather_accum, message_exchange,
                  update_exchange, signal_calls>> BY LoopBits DEF exchange_vars, calls
<1>2. ASSUME NEW r \in Replica PROVE Pending(r)' <=> Pending(r)
  <2>1. r[1] \in Machine  BY ReplicaFacts
  <2>2. CASE Arrive(k)  BY <2>2 DEF Arrive, Pending, message_vars
  <2>3. CASE r[1] # k  BY <2>1, <2>3, LoopBits DEF Pending
  <2>4. CASE r[1] = k /\ ~Arrive(k) BY <2>4, LoopSelf DEF On, Pending
  <2> QED BY <2>2, <2>3, <2>4
<1>3. Active(v)' <=> Active(v)
  <2>1. CASE Arrive(k)  BY <2>1 DEF Arrive, Active, active_vars, Master
  <2>2. CASE Hash[v] # k  BY <1>0, <2>2, LoopBits DEF Active, Master
  <2>3. CASE Hash[v] = k /\ ~Arrive(k)
    <3>1. Master(v) \in On(k) /\ Master(v) \notin todo BY <1>0, <2>3, LoopSelf DEF On
    <3>2. phase[k] = "exchange" => Master(v) \notin active_superstep BY <1>0, <2>3 DEF Blank
    <3>3. NoneActive => Master(v) \notin active_superstep BY <1>0, <2>3, <3>1 DEF Counted, NoneActive
    <3>4. Active(v)' <=> /\ Master(v) \in active_superstep'
                         /\ \/ phase'[k] \in {"receive", "reduce", "gather"}
                            \/ phase'[k] = "apply" /\ Master(v) \in todo' BY <2>3 DEF Active, Master
    <3>5. Active(v) <=> /\ Master(v) \in active_superstep
                        /\ phase[k] \in {"receive", "reduce", "gather"} BY <2>3, <3>1 DEF Active
    <3>6. CASE phase[k] = "test" BY <2>3, <3>4, <3>5, <3>6, LoopSelf
    <3>7. CASE phase[k] \in {"clear", "exchange", "receive", "reduce"}
      BY <2>3, <3>1, <3>2, <3>3, <3>4, <3>5, <3>7, LoopSelf DEF active_vars
    <3>8. CASE phase[k] \in {"gather", "apply"} BY <2>3, <3>1, <3>4, <3>5, <3>8, LoopSelf DEF active_vars
    <3>9. CASE phase[k] \in {"scatter", "exit", "ended"}
      BY <2>3, <3>4, <3>5, <3>9, LoopSelf DEF active_vars
    <3> QED BY <3>6, <3>7, <3>8, <3>9 DEF Shape, Phases
  <2> QED BY <2>1, <2>2, <2>3
<1>4. ASSUME NEW r \in Replica PROVE StillToScatter(r)' <=> StillToScatter(r)
  BY LoopOwes DEF Owes, StillToScatter
<1>5. Waiting(v)' <=> Waiting(v)  BY <1>1, <1>2 DEF Waiting
<1>6. ASSUME NEW m PROVE InBox(v, m)' <=> InBox(v, m) BY <1>1, <1>2 DEF InBox
<1>7. ASSUME NEW e PROVE ToSignal(v, e)' <=> ToSignal(v, e)
  BY <1>1, <1>4 DEF ToSignal, ScatteredEdges, Along, Local, Place, InDegree
<1> QED BY <1>1, <1>3, <1>5, <1>6, <1>7 DEF Received, Master

-----------------------------------------------------------------------------
(* The steps between the phases.                                           *)

\* What the main loop leaves as it is.
LEMMA LoopKeeps ==
  ASSUME IInv, Scattered, BInv, NEW k \in Machine, MainLoop(k)
  PROVE  UNCHANGED <<mode, BData, BSignalled, BBox, BActive, BReceived, BOutgoing>>
<1>1. mode' = mode  BY LoopBits DEF BInv, IInv
<1>2. \A v \in Vertex : /\ data'[Master(v)] = data[Master(v)]
                        /\ Waiting(v)' <=> Waiting(v)
                        /\ \A m : InBox(v, m)' <=> InBox(v, m)
                        /\ Active(v)' <=> Active(v)
                        /\ Received(v)' = Received(v)
                        /\ \A e : ToSignal(v, e)' <=> ToSignal(v, e) BY LoopSame
<1> QED BY <1>1, <1>2, SameData, SameSignals, SameActive, SameReceived, SameOutgoing

LEMMA LoopStutters ==
  ASSUME IInv, Scattered, BInv, NEW k \in Machine, MainLoop(k), Stage' = Stage
  PROVE  UNCHANGED BSP!vars
<1>1. gather_accum' = gather_accum /\ \A v \in Vertex : Active(v)' <=> Active(v)
  BY LoopBits, LoopSame DEF BInv, IInv
<1>2. \A v \in Vertex : Total(v)' = Total(v) BY <1>1 DEF Total, Master
<1>3. BTotal' = BTotal  BY <1>2, SameTotal
<1> QED BY <1>3, LoopKeeps DEF BSP!vars, BData, BSignalled, BBox, BActive, BReceived, BTotal, BOutgoing

\* Where the stage goes when a machine goes on.
LEMMA LoopStage ==
  ASSUME IInv, IInv', Scattered, BInv, NEW k \in Machine, MainLoop(k), ~Ended, ~Arrive(k)
  PROVE  \/ phase'[k] # "exit" /\ Stage' = Stage
         \/ /\ phase'[k] # "exit" /\ Ahead(k) /\ ~Ended'
            /\ phase[k] # "test" => \A j \in Machine : phase[j] = phase[k] /\ arrived[j]
            /\ Stage = IF phase[k] \in {"apply", "scatter"} THEN phase[k] ELSE "receive"
            /\ Stage' = IF phase'[k] \in {"apply", "scatter"} THEN phase'[k] ELSE "receive"
         \/ /\ phase'[k] = "exit" /\ Ahead(k)
            /\ \/ phase[k] = "test" /\ Stopped
               \/ /\ phase[k] = "reduce" /\ NoneActive
                  /\ \A j \in Machine : phase[j] = "reduce"
            /\ Stage = "receive" /\ Stage' = "ended"
<1> USE DEF IInv, BInv
<1>0. /\ \A j \in Machine : phase[j] \notin {"exit", "ended"} /\ passed[j] \in Nat
      /\ \A j \in Machine : j # k => phase'[j] = phase[j] /\ passed'[j] = passed[j]
      /\ \A j \in Machine : passed'[j] \in Nat BY LoopBits DEF Ended, Shape
<1>1. CASE phase[k] = "test"
  <2>1. Ahead(k) /\ UNCHANGED passed BY <1>0, <1>1, LoopSelf DEF Ahead, InStep, active_vars
  <2>2. Stage = "receive"  BY <1>1, <2>1, StageNow
  <2>3. CASE phase'[k] = "clear"
    <3>1. Ahead(k)'  BY <2>1 DEF Ahead
    <3>2. ~Ended'  BY <1>0, <2>3 DEF Ended
    <3>3. Stage' = "receive"  BY <2>3, <3>1, <3>2, StageNext
    <3> QED BY <2>2, <2>3, <3>3
  <2>4. CASE phase'[k] = "exit"
    <3>1. Quit(k)
      <4>1. ~ NextIteration(k)  BY <2>4 DEF NextIteration, Go, Shape
      <4> QED BY <1>1, <4>1 DEF MainLoop, StartExchange, StartReceive, Reduce, StartGather,
              StartApply, StartScatter, EndIteration, End, Leave
    <3>2. Stopped  BY <3>1 DEF Quit, Stopped
    <3>3. Stage' = "ended"  BY <2>4, StageEnds DEF Ended
    <3> QED BY <1>1, <2>1, <2>2, <2>4, <3>2, <3>3
  <2> QED BY <1>1, <2>3, <2>4, LoopSelf
<1>2. CASE phase[k] # "test"
  <2>1. /\ After(phase[k], phase'[k])
        /\ \A j \in Machine :
             \/ passed[j] = passed[k] + 1 /\ After(phase[k], phase[j])
             \/ passed[j] = passed[k] /\ phase[j] = phase[k] /\ arrived[j] BY <1>2, LoopMoves
  <2>2. passed'[k] = passed[k] + 1 BY <1>2, LoopSteps DEF LeavesFor, Decides, Leave, Shape
  <2>3. CASE \E j \in Machine : passed[j] = passed[k] + 1
    <3>1. PICK j \in Machine : passed[j] = passed[k] + 1  BY <2>3
    <3>2. j # k /\ After(phase[k], phase[j])  BY <1>0, <2>1, <3>1
    <3>3. Ahead(j) /\ Ahead(j)'
      <4>1. ASSUME NEW i \in Machine
            PROVE  passed[i] <= passed[j] /\ passed'[i] <= passed'[j] BY <1>0, <2>1, <2>2, <3>1, <3>2
      <4> QED BY <4>1 DEF Ahead
    <3>4. phase'[k] # "exit"
      <4>1. SUFFICES ASSUME phase'[k] = "exit" PROVE FALSE OBVIOUS
      <4>2. phase[k] = "reduce" /\ NoneActive  BY <1>2, <4>1, LoopSelf
      <4>3. phase[j] = "gather"  BY <1>0, <3>2, <4>2 DEF After
      <4> QED BY <4>2, <4>3 DEF Counted
    <3>5. ~Ended' BY <1>0, <2>1, <3>4 DEF After, Ended
    <3>6. Stage' = Stage BY <1>0, <3>2, <3>3, <3>5, StageNow, StageNext
    <3> QED BY <3>4, <3>6
  <2>4. CASE \A j \in Machine : passed[j] = passed[k] /\ phase[j] = phase[k] /\ arrived[j]
    <3>1. Ahead(k) /\ Ahead(k)' BY <1>0, <2>2, <2>4 DEF Ahead
    <3>2. Stage = IF phase[k] \in {"apply", "scatter"} THEN phase[k] ELSE "receive" BY <3>1, StageNow
    <3>3. CASE phase'[k] = "exit"
      <4>1. phase[k] = "reduce" /\ NoneActive  BY <1>2, <3>3, LoopSelf
      <4>2. Stage' = "ended"  BY <3>3, StageEnds DEF Ended
      <4> QED BY <2>4, <3>1, <3>2, <3>3, <4>1, <4>2
    <3>4. CASE phase'[k] # "exit"
      <4>1. phase'[k] # "ended"  BY <1>0, <2>1 DEF After
      <4>2. ~Ended'  BY <1>0, <3>4, <4>1 DEF Ended
      <4>3. Stage' = IF phase'[k] \in {"apply", "scatter"} THEN phase'[k] ELSE "receive"
        BY <3>1, <4>2, StageNext
      <4> QED BY <2>4, <3>1, <3>2, <3>4, <4>2, <4>3
    <3> QED BY <3>3, <3>4
  <2> QED BY <2>1, <2>3, <2>4
<1> QED BY <1>1, <1>2

\* Everything has been received when all have left that phase.
LEMMA NoneWaiting ==
  ASSUME IInv, BInv, \A j \in Machine : phase[j] \in {"reduce", "gather"},
         NEW v \in Vertex
  PROVE  ~Waiting(v)
<1> USE DEF IInv, BInv
<1>1. message_exchange = {}
  <2>1. ASSUME NEW x \in message_exchange PROVE FALSE BY ReplicaFacts DEF Shape, Delivered, Comes
  <2> QED BY <2>1
<1>2. signal_calls = {} BY DEF BShape
<1>3. \A r \in Replica : ~Pending(r) BY ReplicaFacts DEF Cleared, Pending
<1> QED BY <1>1, <1>2, <1>3 DEF Waiting

\* What a vertex has been given when all leave the gather phase.
LEMMA AllGathered ==
  ASSUME IInv, CInv, BInv, AlwaysGathers, \A j \in Machine : phase[j] = "gather" /\ arrived[j],
         NEW v \in Vertex, Active(v)
  PROVE  gather_accum[Master(v)] =
           [e \in Edge |-> IF e \in Along(v, Gathers(v)) THEN Value(v, e) ELSE 0]
<1> USE DEF IInv, CInv, BInv
<1>0. Hash[v] \in Machine /\ Master(v) \in Replica  BY ReplicaFacts
<1>1. accum_exchange = {}
  <2>1. ASSUME NEW x \in accum_exchange PROVE FALSE
    <3>1. x.to \in Machine  BY ReplicaFacts DEF BShape
    <3> QED BY <3>1 DEF Delivered, Comes
  <2> QED BY <2>1
<1>2. todo = {}
  <2>1. ASSUME NEW r \in todo PROVE FALSE BY ReplicaFacts DEF Shape, On, Quiet, Exchanging
  <2> QED BY <2>1
<1>3. Receiving(v)  BY <1>0, <1>2 DEF Active, Receiving
<1>4. ASSUME NEW e \in Edge
      PROVE  Given(v, e) = IF e \in Along(v, Gathers(v)) THEN Value(v, e) ELSE 0
  <2>1. Place(e) \in Machine /\ Part(v, e)[1] = Place(e)  BY EdgeFacts DEF Part
  <2>2. ~Waits(Part(v, e)) /\ ~Sent(v, Place(e)) BY <1>1, <1>2, <2>1 DEF Waits, Sent
  <2> QED BY <1>3, <2>2 DEF Summed
<1>5. ASSUME NEW e \in Edge
      PROVE  gather_accum[Master(v)][e] = Given(v, e)
  <2>1. CASE Master(v) \in has_gather_accum  BY <2>1 DEF Given
  <2>2. CASE Master(v) \notin has_gather_accum
    <3>1. Given(v, e) = 0  BY <2>2 DEF Given
    <3>2. SUFFICES ASSUME gather_accum[Master(v)][e] # 0 PROVE FALSE BY <3>1
    <3>3. CASE ~mode.sched_allv BY <3>2, <2>2, <3>3 DEF Zero, Fresh
    <3>4. CASE mode.sched_allv
      <4>1. e \in Along(v, mode.gather)  BY <3>2 DEF Fresh
      <4>2. Gathers(v) = mode.gather BY <3>4 DEF AlwaysGathers, CacheShape, Gathers, gather_edges
      <4>3. Value(v, e) >= 1 BY EdgeFacts, ReplicaFacts DEF Value, BShape
      <4> QED BY <1>4, <3>1, <4>1, <4>2, <4>3
    <3> QED BY <3>3, <3>4
  <2> QED BY <2>1, <2>2
<1>6. gather_accum[Master(v)] \in [Edge -> Int]  BY <1>0 DEF BShape
<1>7. gather_accum[Master(v)] = [e \in Edge |-> gather_accum[Master(v)][e]] BY <1>6
<1> QED BY <1>4, <1>5, <1>7

\* The main loop makes the steps between the stages.
LEMMA LoopImplements ==
  ASSUME IInv, IInv', CInv, BInv, AlwaysGathers, NEW k \in Machine, MainLoop(k)
  PROVE  BSP!Next(Stopped) \/ UNCHANGED BSP!vars
<1> USE DEF IInv, CInv, BInv
<1>0. UNCHANGED <<mode, BData, BSignalled, BBox, BActive, BReceived, BOutgoing>> BY LoopKeeps
<1>1. CASE Ended
  <2>1. Ended'
    <3>1. PICK j \in Machine : phase[j] \in {"exit", "ended"}  BY <1>1 DEF Ended
    <3>2. phase'[j] \in {"exit", "ended"} BY <3>1, LoopBits, LoopSelf DEF Arrive
    <3> QED BY <3>2 DEF Ended
  <2>2. Stage' = Stage  BY <1>1, <2>1, StageEnded, StageEnds
  <2> QED BY <2>2, LoopStutters
<1>2. CASE Arrive(k) BY <1>2, LoopStutters DEF Arrive, Stage
<1>3. CASE ~Ended /\ ~Arrive(k)
  <2>1. CASE Stage' = Stage  BY <2>1, LoopStutters
  <2>2. CASE /\ phase'[k] # "exit" /\ Stage' # Stage
             /\ phase[k] # "test" => \A j \in Machine : phase[j] = phase[k] /\ arrived[j]
             /\ Stage = IF phase[k] \in {"apply", "scatter"} THEN phase[k] ELSE "receive"
             /\ Stage' = IF phase'[k] \in {"apply", "scatter"} THEN phase'[k] ELSE "receive"
    <3>1. \/ phase[k] = "gather" /\ phase'[k] = "apply"
          \/ phase[k] = "apply" /\ phase'[k] = "scatter"
          \/ phase[k] = "scatter" /\ phase'[k] = "test" BY <1>3, <2>2, LoopSelf
    <3>2. CASE phase[k] = "gather" /\ phase'[k] = "apply"
      <4>1. \A j \in Machine : phase[j] = "gather" /\ arrived[j]  BY <2>2, <3>2
      <4>2. Stage = "receive" /\ Stage' = "apply"  BY <2>2, <3>2
      <4>3. BSignalled = {} BY <4>1, NoneWaiting, SignalsNow DEF BSignalled
      <4>4. BActive # {}
        <5>1. PICK j \in Machine : num_active_vertices[j] # 0 BY <4>1 DEF Counted, NoneActive
        <5>2. PICK q \in active_superstep : q \in On(j)  BY <5>1 DEF Counted
        <5>3. q = Master(q[2]) /\ q[2] \in Vertex /\ Hash[q[2]] \in Machine
          BY <5>2, ReplicaFacts DEF Masters, IsMaster, BShape
        <5>4. Active(q[2])  BY <4>1, <5>3 DEF Active
        <5> QED BY <5>3, <5>4 DEF BActive
      <4>5. BTotal' = [v \in Vertex |-> IF v \in BActive THEN BSP!Gathered(v) ELSE Zero]
        <5>1. ASSUME NEW v \in Vertex
              PROVE  Total(v)' = IF v \in BActive THEN BSP!Gathered(v) ELSE Zero
          <6>1. /\ Active(v)' <=> Active(v)
                /\ Total(v)' = IF Active(v)' THEN gather_accum[Master(v)] ELSE Zero
            BY <4>2, LoopSame DEF Total, Master
          <6>2. CASE ~Active(v)  BY <6>1, <6>2 DEF BActive
          <6>3. CASE Active(v)
            <7>1. gather_accum[Master(v)] =
                    [e \in Edge |-> IF e \in Along(v, Gathers(v)) THEN Value(v, e) ELSE 0]
              BY <4>1, <6>3, AllGathered
            <7>2. BReceived[v] = vertex_programs[Master(v)].message BY <6>3 DEF BReceived
            <7>3. BSP!gather_edges(mode, [BSP!DefaultProgram EXCEPT !.message = BReceived[v]])
                    = Gathers(v)
              BY <7>2 DEF BSP!gather_edges, BSP!DefaultProgram, BSP!Start, Gathers, gather_edges, Start
            <7>4. \A e \in Edge : BData[Other(e, v)].applies = Value(v, e) BY EdgeFacts DEF BData, Value
            <7>5. BSP!Gathered(v) =
                    [e \in Edge |-> IF e \in Along(v, Gathers(v)) THEN BData[Other(e, v)].applies
                                                                  ELSE 0]
              BY <7>3 DEF BSP!Gathered, BSP!Along, BSP!Other, Along, Other, BReceived, BData
            <7> QED BY <6>1, <6>3, <7>1, <7>4, <7>5 DEF BActive
          <6> QED BY <6>2, <6>3
        <5> QED BY <5>1 DEF BTotal, Total
      <4>6. BSP!Gather BY <1>0, <4>2, <4>3, <4>4, <4>5
           DEF BSP!Gather, BSP!AllReceived, BSP!Zero, Zero, BData, BSignalled, BBox, BActive, BReceived, BTotal, BOutgoing
      <4> QED BY <4>6 DEF BSP!Next
    <3>3. CASE phase[k] = "apply" /\ phase'[k] = "scatter"
      <4>1. \A j \in Machine : phase[j] = "apply" /\ arrived[j]  BY <2>2, <3>3
      <4>2. Stage = "apply" /\ Stage' = "scatter"  BY <2>2, <3>3
      <4>3. \A v \in Vertex : ~Active(v)
        <5>1. ASSUME NEW v \in Vertex PROVE Master(v) \notin todo /\ phase[Hash[v]] = "apply"
          BY ReplicaFacts, <4>1 DEF On, Quiet, Exchanging
        <5> QED BY <5>1 DEF Active
      <4>4. BTotal' = BTotal BY <4>2, <4>3, SameTotal DEF Total, Zero
      <4>5. BSP!StartScatter BY <1>0, <4>2, <4>3, <4>4
           DEF BSP!StartScatter, BData, BSignalled, BBox, BActive, BReceived, BTotal, BOutgoing
      <4> QED BY <4>5 DEF BSP!Next
    <3>4. CASE phase[k] = "scatter" /\ phase'[k] = "test"
      <4>1. \A j \in Machine : phase[j] = "scatter" /\ arrived[j]  BY <2>2, <3>4
      <4>2. Stage = "scatter" /\ Stage' = "receive"  BY <2>2, <3>4
      <4>3. \A v \in Vertex : Outgoing(v) = {}
        <5>1. update_exchange = {}
          <6>1. ASSUME NEW x \in update_exchange PROVE FALSE BY ReplicaFacts, <4>1 DEF Shape, Carried
          <6> QED BY <6>1
        <5>2. ASSUME NEW r \in Replica PROVE ~StillToScatter(r)
          BY ReplicaFacts, <4>1 DEF On, StillToScatter, Scattered
        <5>3. \A v : \A e : ~ToSignal(v, e)  BY <5>1, <5>2 DEF ToSignal
        <5> QED BY <5>3, OutgoingNow
      <4>4. BTotal' = BTotal BY <4>2, SameTotal DEF Total, Zero
      <4>5. BSP!NextSuperStep BY <1>0, <4>2, <4>3, <4>4
           DEF BSP!NextSuperStep, BData, BSignalled, BBox, BActive, BReceived, BTotal, BOutgoing
      <4> QED BY <4>5 DEF BSP!Next
    <3> QED BY <3>1, <3>2, <3>3, <3>4
  <2>3. CASE /\ phase'[k] = "exit" /\ Stage = "receive" /\ Stage' = "ended"
             /\ \/ phase[k] = "test" /\ Stopped
                \/ /\ phase[k] = "reduce" /\ NoneActive
                   /\ \A j \in Machine : phase[j] = "reduce"
    <3>1. \A v \in Vertex : ~Active(v)
      <4> TAKE v \in Vertex
      <4>1. Hash[v] \in Machine /\ Master(v) \in On(Hash[v])  BY ReplicaFacts DEF On
      <4>2. CASE phase[k] = "test"  BY <4>1, <4>2, AtTest DEF Active
      <4>3. CASE NoneActive  BY <4>1, <4>3 DEF Counted, NoneActive, Active
      <4> QED BY <2>3, <4>2, <4>3
    <3>2. Stopped \/ BSignalled = {} BY <2>3, NoneWaiting, SignalsNow DEF BSignalled
    <3>3. BTotal' = BTotal BY <2>3, SameTotal DEF Total, Zero
    <3>4. BSP!End(Stopped) BY <1>0, <2>3, <3>1, <3>2, <3>3
         DEF BSP!End, BSP!AllReceived, BData, BSignalled, BBox, BActive, BReceived, BTotal, BOutgoing
    <3> QED BY <3>4 DEF BSP!Next
  <2> QED BY <1>3, <2>1, <2>2, <2>3, LoopStage
<1> QED BY <1>1, <1>2, <1>3

-----------------------------------------------------------------------------
(* Steps that no super-step shows.                                         *)

\* What records and calls add to a replica waits there.
LEMMA AddsUp ==
  ASSUME BShape, NEW p \in Replica, NEW M, Signalled(p, M), phase[p[1]] # "receive",
         UNCHANGED <<phase, todo>>
  PROVE  \A q \in Replica :
           /\ Pending(q)' <=> Pending(q) \/ q = p
           /\ \A m : Pending(q)' /\ m \in messages'[q] <=>
                       \/ Pending(q) /\ m \in messages[q]
                       \/ q = p /\ m \in M
<1>1. ASSUME NEW q \in Replica PROVE Pending(q)' <=> Pending(q) \/ q = p BY DEF Pending, Signalled
<1>2. ASSUME NEW q \in Replica, NEW m
      PROVE  Pending(q)' /\ m \in messages'[q] <=>
               \/ Pending(q) /\ m \in messages[q]
               \/ q = p /\ m \in M
  <2>1. messages' = [messages EXCEPT ![p] = IF p \in has_message THEN messages[p] \cup M ELSE M]
    BY DEF Signalled
  <2>2. CASE q # p BY <2>1, <2>2, <1>1 DEF BShape
  <2>3. CASE q = p BY <2>1, <2>3, <1>1 DEF BShape, Pending
  <2> QED BY <2>2, <2>3
<1> QED BY <1>1, <1>2

\* Messages that stay where they are.
LEMMA SameMessages ==
  ASSUME UNCHANGED <<mode, phase, message_vars, message_exchange, signal_calls>>,
         \A q \in Replica : phase[q[1]] = "receive" => (q \in todo' <=> q \in todo),
         NEW v
  PROVE  (Waiting(v)' <=> Waiting(v)) /\ \A m : InBox(v, m)' <=> InBox(v, m)
<1>1. \A q \in Replica : (Pending(q)' <=> Pending(q)) /\ messages' = messages
  BY DEF Pending, message_vars
<1>2. Waiting(v)' <=> Waiting(v)  BY <1>1 DEF Waiting
<1>3. ASSUME NEW m PROVE InBox(v, m)' <=> InBox(v, m)  BY <1>1 DEF InBox
<1> QED BY <1>2, <1>3

\* A step that neither applies, updates nor scatters, and keeps all messages, is a
\* stutter.
LEMMA SmallSteps ==
  ASSUME UNCHANGED <<mode, data, step_vars, active_superstep, update_exchange>>,
         \A q \in Replica :
           phase[q[1]] \notin {"exchange", "gather"} => (q \in todo' <=> q \in todo),
         \A q \in Replica :
           phase[q[1]] # "receive" => (q \in active_minorstep' <=> q \in active_minorstep),
         \A q \in Replica :
           IsMaster(q) \/ phase[q[1]] \in {"apply", "scatter"} =>
             vertex_programs'[q] = vertex_programs[q],
         Stage = "apply" => gather_accum' = gather_accum,
         \A v \in Vertex : (Waiting(v)' <=> Waiting(v)) /\ \A m : InBox(v, m)' <=> InBox(v, m)
  PROVE  UNCHANGED BSP!vars
<1>0. Stage' = Stage /\ phase' = phase  BY StageStays DEF step_vars
<1>1. ASSUME NEW v \in Vertex
      PROVE  /\ data'[Master(v)] = data[Master(v)]
             /\ Active(v)' <=> Active(v)
             /\ Received(v)' = Received(v) /\ Total(v)' = Total(v)
             /\ \A e : ToSignal(v, e)' <=> ToSignal(v, e)
  <2>0. /\ Master(v) \in Replica /\ Master(v)[1] = Hash[v] /\ IsMaster(Master(v))
    BY ReplicaFacts DEF IsMaster
  <2>1. Active(v)' <=> Active(v) BY <1>0, <2>0 DEF Active, Master
  <2>2. vertex_programs'[Master(v)] = vertex_programs[Master(v)]  BY <2>0
  <2>3. Received(v)' = Received(v)  BY <2>1, <2>2 DEF Received, Master
  <2>4. Total(v)' = Total(v)  BY <1>0, <2>1 DEF Total, Master
  <2>5. ASSUME NEW q \in Replica
        PROVE  /\ StillToScatter(q)' <=> StillToScatter(q)
               /\ StillToScatter(q) => vertex_programs'[q] = vertex_programs[q]
    BY <1>0 DEF StillToScatter
  <2>6. ASSUME NEW e PROVE ToSignal(v, e)' <=> ToSignal(v, e) BY <2>5 DEF ToSignal, ScatteredEdges
  <2> QED BY <2>1, <2>3, <2>4, <2>6 DEF Master
<1> QED BY <1>0, <1>1, Stutters

LEMMA ExchangeStutters ==
  ASSUME IInv, BInv, NEW r \in todo, ExchangeMessage(r)
  PROVE  UNCHANGED BSP!vars
<1> USE DEF IInv, BInv
<1> DEFINE x == [to |-> Hash[r[2]], from |-> r[1], vertex |-> r[2], message |-> messages[r]]
<1>1. /\ r \in Replica /\ phase[r[1]] = "exchange" /\ r \in has_message
      /\ todo' = todo \ {r} /\ has_message' = has_message \ {r}
      /\ message_exchange' = message_exchange \cup {x}
      /\ messages' = [messages EXCEPT ![r] = {}]
      /\ UNCHANGED <<mode, data, vertex_programs, active_vars, gather_vars, step_vars, update_exchange, signal_calls>>
  BY DEF ExchangeMessage, Visit, Due, Shape, exchanges_but_message, calls
<1>2. x.vertex = r[2] /\ x.message = messages[r]  OBVIOUS
<1> HIDE DEF x
<1>3. Pending(r)  BY <1>1 DEF Pending
<1>4. ASSUME NEW q \in Replica
      PROVE  /\ Pending(q)' <=> Pending(q) /\ q # r
             /\ q # r => messages'[q] = messages[q] BY <1>1 DEF Pending, step_vars, BShape
<1>5. ASSUME NEW v PROVE Waiting(v)' <=> Waiting(v) BY <1>1, <1>2, <1>3, <1>4 DEF Waiting
<1>6. ASSUME NEW v, NEW m PROVE InBox(v, m)' <=> InBox(v, m) BY <1>1, <1>2, <1>3, <1>4 DEF InBox
<1> QED BY <1>1, <1>5, <1>6, SmallSteps DEF active_vars, gather_vars

LEMMA RecvMessageStutters ==
  ASSUME IInv, BInv, NEW k \in Machine, RecvMessage(k)
  PROVE  UNCHANGED BSP!vars
<1> USE DEF IInv, BInv
<1>1. PICK x \in message_exchange :
        /\ x.to = k
        /\ message_exchange' = message_exchange \ {x}
        /\ Signalled(<<k, x.vertex>>, x.message) BY DEF RecvMessage
<1>2. /\ phase[k] = "exchange"
      /\ UNCHANGED <<mode, data, vertex_programs, active_vars, gather_vars, step_vars, todo,
                     update_exchange, signal_calls>> BY DEF RecvMessage, exchanges_but_message, calls
<1>3. /\ x.vertex \in Vertex /\ <<k, x.vertex>> = Master(x.vertex)
      /\ Master(x.vertex) \in Replica /\ Master(x.vertex)[1] = k /\ Master(x.vertex)[2] = x.vertex
  BY <1>1, ReplicaFacts DEF Shape, Master
<1>4. \A q \in Replica :
        /\ Pending(q)' <=> Pending(q) \/ q = Master(x.vertex)
        /\ \A m : Pending(q)' /\ m \in messages'[q] <=>
                    \/ Pending(q) /\ m \in messages[q]
                    \/ q = Master(x.vertex) /\ m \in x.message BY <1>1, <1>2, <1>3, AddsUp DEF step_vars
<1>5. ASSUME NEW v PROVE Waiting(v)' <=> Waiting(v) BY <1>1, <1>2, <1>3, <1>4 DEF Waiting
<1>6. ASSUME NEW v, NEW m PROVE InBox(v, m)' <=> InBox(v, m)
  <2>1. (\E q \in Replica : q[2] = v /\ Pending(q)' /\ m \in messages'[q]) <=>
          \/ \E q \in Replica : q[2] = v /\ Pending(q) /\ m \in messages[q]
          \/ v = x.vertex /\ m \in x.message BY <1>3, <1>4
  <2> QED BY <1>1, <1>2, <2>1 DEF InBox
<1> QED BY <1>2, <1>5, <1>6, SmallSteps DEF active_vars, gather_vars

LEMMA RecvActivStutters ==
  ASSUME IInv, BInv, NEW k \in Machine, RecvActiv(k)
  PROVE  UNCHANGED BSP!vars
<1> USE DEF IInv, BInv
<1>1. PICK x \in activ_exchange :
        /\ x.to = k
        /\ vertex_programs' = [vertex_programs EXCEPT ![<<k, x.vertex>>] = x.program]
        /\ active_minorstep' = active_minorstep \cup {<<k, x.vertex>>} BY DEF RecvActiv
<1>2. /\ phase[k] = "receive"
      /\ UNCHANGED <<mode, data, message_vars, gather_vars, active_superstep, step_vars, todo,
                     update_exchange, message_exchange, signal_calls>>
  BY DEF RecvActiv, exchanges_but_activ, calls
<1>3. ~IsMaster(<<k, x.vertex>>) BY <1>1, ReplicaFacts DEF BShape
<1>4. \A v \in Vertex : (Waiting(v)' <=> Waiting(v)) /\ \A m : InBox(v, m)' <=> InBox(v, m)
  BY <1>2, SameMessages DEF step_vars
<1>5. ASSUME NEW q \in Replica, q # <<k, x.vertex>>
      PROVE  vertex_programs'[q] = vertex_programs[q] BY <1>1, <1>5 DEF BShape
<1>6. ASSUME NEW q \in Replica, phase[q[1]] # "receive"
      PROVE  /\ q # <<k, x.vertex>>
             /\ q \in active_minorstep' <=> q \in active_minorstep BY <1>1, <1>2, <1>6
<1> QED
  <2>1. \A q \in Replica : IsMaster(q) \/ phase[q[1]] \in {"apply", "scatter"} =>
          vertex_programs'[q] = vertex_programs[q] BY <1>3, <1>5, <1>6
  <2> QED BY <1>2, <1>4, <1>6, <2>1, SmallSteps DEF gather_vars

LEMMA GatherStutters ==
  ASSUME IInv, Scattered, BInv, NEW r \in todo, ExecuteGather(r)
  PROVE  UNCHANGED BSP!vars
<1> USE DEF IInv, BInv
<1>1. /\ phase[r[1]] = "gather" /\ todo' = todo \ {r}
      /\ UNCHANGED <<mode, data, message_vars, active_vars, step_vars, update_exchange,
                     message_exchange, signal_calls>>
      /\ \/ vertex_programs' = vertex_programs
         \/ ~IsMaster(r) /\ vertex_programs' = [vertex_programs EXCEPT ![r] = DefaultProgram]
  BY DEF ExecuteGather, Visit, exchanges_but_accum, calls
<1>2. Stage = "receive"  BY <1>1, Visiting
<1>3. \A v \in Vertex : (Waiting(v)' <=> Waiting(v)) /\ \A m : InBox(v, m)' <=> InBox(v, m)
  BY <1>1, SameMessages DEF step_vars
<1>4. \A q \in Replica : IsMaster(q) \/ phase[q[1]] \in {"apply", "scatter"} =>
        vertex_programs'[q] = vertex_programs[q] BY <1>1 DEF BShape
<1> QED BY <1>1, <1>2, <1>3, <1>4, SmallSteps DEF active_vars

LEMMA RecvAccumStutters ==
  ASSUME IInv, Scattered, BInv, NEW k \in Machine, RecvAccum(k)
  PROVE  UNCHANGED BSP!vars
<1> USE DEF IInv, BInv
<1>1. PICK x \in accum_exchange : x.to = k BY DEF RecvAccum
<1>2. /\ phase[k] = "gather"
      /\ UNCHANGED <<mode, data, message_vars, vertex_programs, active_vars, step_vars, todo,
                     update_exchange, message_exchange, signal_calls>>
  BY DEF RecvAccum, exchanges_but_accum, calls
<1>3. Stage = "receive"
  <2>1. ~arrived[k]  BY <1>1, <1>2 DEF Delivered, Comes
  <2>2. Ahead(k) BY <2>1 DEF Ahead, Shape, InStep
  <2>3. ~Ended  BY <1>2, AtEnd
  <2> QED BY <1>2, <2>2, <2>3, StageNow
<1>4. \A v \in Vertex : (Waiting(v)' <=> Waiting(v)) /\ \A m : InBox(v, m)' <=> InBox(v, m)
  BY <1>2, SameMessages DEF step_vars
<1> QED BY <1>2, <1>3, <1>4, SmallSteps DEF active_vars

LEMMA StopStutters ==
  ASSUME NEW k \in Machine, rpc_stop(k)
  PROVE  UNCHANGED BSP!vars
<1>1. UNCHANGED <<mode, data, message_vars, vertex_programs, active_vars, gather_vars, step_vars,
                  todo, update_exchange, message_exchange, signal_calls>> BY DEF rpc_stop, exchange_vars
<1>2. \A v \in Vertex : (Waiting(v)' <=> Waiting(v)) /\ \A m : InBox(v, m)' <=> InBox(v, m)
  BY <1>1, SameMessages DEF step_vars
<1> QED BY <1>1, <1>2, SmallSteps DEF active_vars, gather_vars

LEMMA NothingStutters ==
  ASSUME UNCHANGED vars
  PROVE  UNCHANGED BSP!vars
<1>1. UNCHANGED <<mode, data, message_vars, vertex_programs, active_vars, gather_vars, step_vars,
                  todo, update_exchange, message_exchange, signal_calls>>
  BY DEF vars, exchange_vars, calls
<1>2. \A v \in Vertex : (Waiting(v)' <=> Waiting(v)) /\ \A m : InBox(v, m)' <=> InBox(v, m)
  BY <1>1, SameMessages DEF step_vars
<1> QED BY <1>1, <1>2, SmallSteps DEF active_vars, gather_vars

\* An update takes along what its vertex is to signal there.
LEMMA UpdateStutters ==
  ASSUME IInv, AppliedOnce, BInv, NEW k \in Machine, RecvUpdate(k)
  PROVE  UNCHANGED BSP!vars
<1> USE DEF IInv, BInv
<1>1. PICK x \in update_exchange :
        /\ x.to = k
        /\ update_exchange' = update_exchange \ {x}
        /\ data' = [data EXCEPT ![<<k, x.vertex>>] = x.data]
        /\ IF x.scatters
           THEN /\ vertex_programs' = [vertex_programs EXCEPT ![<<k, x.vertex>>] = x.program]
                /\ active_minorstep' = active_minorstep \cup {<<k, x.vertex>>}
           ELSE UNCHANGED <<vertex_programs, active_minorstep>> BY DEF RecvUpdate
<1>2. /\ phase[k] = "apply"
      /\ UNCHANGED <<mode, message_vars, gather_vars, active_superstep, step_vars, todo,
                     message_exchange, signal_calls>> BY DEF RecvUpdate, exchanges_but_update, calls
<1> DEFINE r == <<k, x.vertex>>
<1>3. r \in Replica /\ ~IsMaster(r) /\ r[1] = k /\ r[2] = x.vertex BY <1>1, ReplicaFacts DEF Shape
<1> HIDE DEF r
<1>4. r \notin active_minorstep  BY <1>1, <1>2, <1>3 DEF AppliedOnce
<1>5. /\ \A q \in Replica : q # r => vertex_programs'[q] = vertex_programs[q]
      /\ \A q : q # r => (q \in active_minorstep' <=> q \in active_minorstep)
      /\ x.scatters => vertex_programs'[r] = x.program
      /\ r \in active_minorstep' <=> x.scatters
      /\ \A q \in Replica : q # r => data'[q] = data[q] BY <1>1, <1>3, <1>4 DEF BShape, Shape, r
<1>6. Stage' = Stage /\ phase' = phase  BY <1>2, StageStays DEF step_vars
<1>7. ASSUME NEW v \in Vertex, NEW e PROVE ToSignal(v, e)' <=> ToSignal(v, e)
  <2>1. ASSUME NEW q \in Replica, q # r
        PROVE  /\ StillToScatter(q)' <=> StillToScatter(q)
               /\ vertex_programs'[q] = vertex_programs[q]
               /\ ScatteredEdges(q)' = ScatteredEdges(q)
    BY <1>2, <1>5, <1>6, <2>1 DEF StillToScatter, ScatteredEdges
  <2>2. ~StillToScatter(r) /\ (StillToScatter(r)' <=> x.scatters)
    BY <1>2, <1>3, <1>4, <1>5, <1>6 DEF StillToScatter
  <2>3. x.scatters => ScatteredEdges(r)' = Along(x.vertex, scatter_edges(mode, x.program)) \cap Local(x.to)
    BY <1>1, <1>2, <1>3, <1>5 DEF ScatteredEdges
  <2> DEFINE Tells(y) == /\ y.vertex = v /\ y.scatters /\ y.program.signals
                         /\ e \in Along(v, scatter_edges(mode, y.program)) \cap Local(y.to)
             Here(q) == /\ q[2] = v /\ StillToScatter(q)
                        /\ vertex_programs[q].signals /\ e \in ScatteredEdges(q)
  <2>4. Here(r)' <=> Tells(x) BY <1>1, <1>3, <1>5, <2>2, <2>3
  <2>5. ~Here(r)  BY <2>2
  <2>6. \A q \in Replica : q # r => (Here(q)' <=> Here(q))  BY <2>1
  <2>7. ToSignal(v, e) <=> (\E q \in Replica : Here(q)) \/ \E y \in update_exchange : Tells(y)
    BY DEF ToSignal
  <2>8. ToSignal(v, e)' <=> (\E q \in Replica : Here(q)') \/ \E y \in update_exchange' : Tells(y)
    BY <1>2 DEF ToSignal
  <2> HIDE DEF Tells, Here
  <2> QED BY <1>1, <1>3, <2>4, <2>5, <2>6, <2>7, <2>8
<1>8. ASSUME NEW v \in Vertex
      PROVE  /\ data'[Master(v)] = data[Master(v)]
             /\ Active(v)' <=> Active(v)
             /\ Received(v)' = Received(v) /\ Total(v)' = Total(v)
  <2>1. Master(v) \in Replica /\ Master(v) # r BY <1>3, ReplicaFacts DEF IsMaster
  <2>2. Active(v)' <=> Active(v)  BY <1>2, <1>6 DEF Active, Master
  <2>3. Received(v)' = Received(v)  BY <1>5, <2>1, <2>2 DEF Received, Master
  <2>4. Total(v)' = Total(v)  BY <1>2, <1>6, <2>2 DEF Total, Master, gather_vars
  <2> QED BY <1>5, <2>1, <2>2, <2>3, <2>4
<1>9. \A v \in Vertex : (Waiting(v)' <=> Waiting(v)) /\ \A m : InBox(v, m)' <=> InBox(v, m)
  BY <1>2, SameMessages DEF step_vars
<1> QED BY <1>2, <1>6, <1>7, <1>8, <1>9, Stutters

-----------------------------------------------------------------------------
(* Receiving, applying and scattering.                                     *)

\* When a master receives, all that there is for its vertex is with it.
LEMMA AllIsThere ==
  ASSUME IInv, Scattered, BInv, NEW r \in todo, phase[r[1]] = "receive"
  PROVE  /\ r = Master(r[2]) /\ Pending(r)
         /\ signal_calls = {}
         /\ \A x \in message_exchange : x.vertex # r[2]
         /\ \A q \in Replica : q[2] = r[2] /\ Pending(q) => q = r
<1> USE DEF IInv, BInv
<1>1. r \in Replica /\ r[1] \in Machine /\ r[2] \in Vertex /\ r \in has_message
  BY ReplicaFacts DEF Shape, Due
<1>2. r = Master(r[2])  BY <1>1 DEF Masters, MastersOnly, IsMaster
<1>3. r[1] = Hash[r[2]]  BY <1>1, <1>2, ReplicaFacts
<1>4. signal_calls = {}  BY DEF BShape
<1>5. \A x \in message_exchange : x.vertex # r[2] BY <1>1, <1>3 DEF Delivered, Comes, Shape
<1>6. ASSUME NEW q \in Replica, q[2] = r[2], Pending(q) PROVE q = r
  <2>1. q[1] \in Machine /\ q \in has_message /\ q \in On(q[1]) BY <1>6, ReplicaFacts DEF Pending, On
  <2>2. phase[q[1]] = "receive" \/ (phase[q[1]] = "exchange" /\ arrived[q[1]]) BY <2>1, Where
  <2>3. IsMaster(q) BY <2>1, <2>2 DEF Masters, Quiet, Exchanging
  <2> QED BY <1>2, <1>6, <2>3 DEF IsMaster
<1> QED BY <1>1, <1>2, <1>4, <1>5, <1>6 DEF Pending

LEMMA ReceiveImplements ==
  ASSUME IInv, Scattered, BInv, NEW r \in todo, ReceiveMessage(r)
  PROVE  BSP!Receive(r[2])
<1> USE DEF IInv, BInv
<1> DEFINE v == r[2]
           program == [vertex_programs[r] EXCEPT !.message = messages[r]]
<1>1. /\ phase[r[1]] = "receive" /\ todo' = todo \ {r}
      /\ active_superstep' = active_superstep \cup {r}
      /\ vertex_programs' = [vertex_programs EXCEPT ![r] = program]
      /\ messages' = [messages EXCEPT ![r] = {}]
      /\ UNCHANGED <<mode, data, has_message, gather_vars, step_vars, message_exchange,
                     update_exchange, signal_calls>>
  BY DEF ReceiveMessage, Visit, exchanges_but_activ, calls
<1>2. /\ r = Master(v) /\ Pending(r) /\ signal_calls = {}
      /\ \A x \in message_exchange : x.vertex # v
      /\ \A q \in Replica : q[2] = v /\ Pending(q) => q = r BY <1>1, AllIsThere
<1>3. r \in Replica /\ r[1] \in Machine /\ v \in Vertex /\ r[1] = Hash[v] BY <1>2, ReplicaFacts DEF Shape
<1>4. /\ Stage = "receive" /\ Stage' = Stage /\ phase' = phase
      /\ \A j \in Machine : phase[j] \in {"receive", "exchange"}
  BY <1>1, Visiting, StageStays, Where DEF step_vars
<1>5. \A u \in Vertex : Master(u) \in Replica /\ (u # v => Master(u) # r) /\ Hash[u] \in Machine
  BY <1>2, ReplicaFacts
<1>6. program.message = messages[r] /\ vertex_programs'[r] = program BY <1>1, <1>3 DEF BShape, Program
<1>7. /\ \A q \in Replica : q # r => /\ vertex_programs'[q] = vertex_programs[q]
                                     /\ messages'[q] = messages[q]
      /\ \A q \in Replica : Pending(q)' <=> Pending(q) /\ q # r BY <1>1, <1>4 DEF BShape, Pending
<1> HIDE DEF program, v
<1>8. ASSUME NEW u \in Vertex
      PROVE  /\ Waiting(u)' <=> Waiting(u) /\ u # v
             /\ \A m : InBox(u, m)' <=> InBox(u, m) /\ u # v BY <1>1, <1>2, <1>7 DEF Waiting, v, InBox
<1>9. Waiting(v) /\ \A m : InBox(v, m) <=> m \in messages[r] BY <1>2, <1>3 DEF Waiting, InBox, v
<1>10. ASSUME NEW u \in Vertex
       PROVE  /\ Active(u)' <=> Active(u) \/ u = v
              /\ Received(u)' = IF u = v THEN messages[r] ELSE Received(u)
  <2>1. Active(u)' <=> Active(u) \/ u = v BY <1>1, <1>2, <1>3, <1>4, <1>5 DEF Active, Master
  <2>2. CASE u = v BY <1>2, <1>6, <2>1, <2>2 DEF Received, Master
  <2>3. CASE u # v BY <1>5, <1>7, <2>1, <2>3 DEF Received, Master
  <2> QED BY <2>1, <2>2, <2>3
<1>11. BSignalled' = BSignalled \ {v} /\ v \in BSignalled
  BY <1>3, <1>8, <1>9, SignalsNow, SignalsNext DEF BSignalled
<1>12. BBox' = [BBox EXCEPT ![v] = {}] /\ BBox[v] = messages[r]
  <2>1. ASSUME NEW u \in Vertex PROVE (UNION Signals(u))' = IF u = v THEN {} ELSE UNION Signals(u)
    BY <1>8, SignalsNow, SignalsNext
  <2>2. UNION Signals(v) = messages[r] BY <1>9, SignalsNow
  <2> QED BY <1>3, <2>1, <2>2 DEF BBox
<1>13. BActive' = BActive \cup {v} BY <1>3, <1>10 DEF BActive
<1>14. BReceived' = [BReceived EXCEPT ![v] = BBox[v]] BY <1>3, <1>10, <1>12 DEF BReceived, Received
<1>15. UNCHANGED <<mode, BData, BTotal, BOutgoing>>
  <2>1. BTotal' = BTotal BY <1>4, SameTotal DEF Total, Zero
  <2>2. BOutgoing' = BOutgoing
    <3>1. \A q \in Replica : ~StillToScatter(q) /\ ~StillToScatter(q)'
      BY <1>4, ReplicaFacts DEF StillToScatter
    <3>2. ASSUME NEW u, NEW e PROVE ToSignal(u, e)' <=> ToSignal(u, e) BY <1>1, <3>1 DEF ToSignal
    <3> QED BY <3>2, SameOutgoing
  <2> QED BY <1>1, <2>1, <2>2, SameData
<1>16. \E taken \in SUBSET BBox[v] : \E late \in SUBSET BBox[v] :
         /\ taken \cup late = BBox[v]
         /\ BReceived' = [BReceived EXCEPT ![v] = taken]
         /\ BBox' = [BBox EXCEPT ![v] = late]
         /\ \/ BSignalled' = BSignalled \ {v} /\ late = {}
            \/ mode.by_id /\ UNCHANGED BSignalled
  <2>1. BBox[v] \in SUBSET BBox[v] /\ {} \in SUBSET BBox[v] /\ BBox[v] \cup {} = BBox[v] OBVIOUS
  <2> QED BY <1>11, <1>12, <1>14, <2>1
<1>17. BSP!Receive(v) BY <1>4, <1>11, <1>13, <1>15, <1>16
     DEF BSP!Receive, BData, BSignalled, BBox, BActive, BReceived, BTotal, BOutgoing
<1> QED BY <1>17 DEF v

\* What is told to scatter by an apply: every replica with edges to scatter along.
LEMMA ApplySignals ==
  ASSUME IInv, Scattered, AppliedOnce, BInv, NEW r \in todo, ExecuteApply(r)
  PROVE  \E signals \in BOOLEAN :
           \A u \in Vertex : \A e :
             ToSignal(u, e)' <=> IF u = r[2] THEN signals /\ e \in Along(u, mode.scatter)
                                             ELSE ToSignal(u, e)
<1> USE DEF IInv, BInv
<1>0. /\ phase[r[1]] = "apply" /\ todo' = todo \ {r}
      /\ UNCHANGED <<mode, step_vars>> BY DEF ExecuteApply, Visit
<1>1. /\ r = Master(r[2]) /\ r \in Replica /\ r[1] = Hash[r[2]] /\ r[2] \in Vertex
      /\ r[1] \in Machine BY <1>0, ReplicaFacts DEF Shape, Masters, MastersOnly, IsMaster
<1>a. PICK signals \in BOOLEAN : \E new, program, scatters, kept :
          /\ program = [vertex_programs[r] EXCEPT !.signals = signals]
          /\ scatters = (scatter_edges(mode, program) # {})
          /\ kept = IF scatters THEN program ELSE DefaultProgram
          /\ vertex_programs' = [vertex_programs EXCEPT ![r] = kept]
          /\ active_minorstep' = active_minorstep \cup (IF scatters THEN {r} ELSE {})
          /\ update_exchange' = update_exchange \cup Updates(r[2], new, kept, scatters)
  BY DEF ExecuteApply
<1>2. PICK new, program, scatters, kept :
        /\ program = [vertex_programs[r] EXCEPT !.signals = signals]
        /\ scatters = (scatter_edges(mode, program) # {})
        /\ kept = IF scatters THEN program ELSE DefaultProgram
        /\ vertex_programs' = [vertex_programs EXCEPT ![r] = kept]
        /\ active_minorstep' = active_minorstep \cup (IF scatters THEN {r} ELSE {})
        /\ update_exchange' = update_exchange \cup Updates(r[2], new, kept, scatters) BY <1>a
<1>3. program.signals = signals  BY <1>1, <1>2 DEF BShape, Program
<1>4. /\ \A q \in Replica : q # r => vertex_programs'[q] = vertex_programs[q]
      /\ vertex_programs'[r] = kept
      /\ \A q : q # r => (q \in active_minorstep' <=> q \in active_minorstep) BY <1>1, <1>2 DEF BShape
<1>5. r \in active_minorstep' <=> scatters BY <1>0, <1>1, <1>2 DEF AppliedOnce
<1>6. \A x \in update_exchange : x.vertex # r[2] BY <1>1 DEF Carried
<1>7. ASSUME NEW q \in Replica, q # r
      PROVE  /\ StillToScatter(q)' <=> StillToScatter(q)
             /\ vertex_programs'[q] = vertex_programs[q]
             /\ ScatteredEdges(q)' = ScatteredEdges(q)
  BY <1>0, <1>4, <1>7 DEF StillToScatter, ScatteredEdges, step_vars
<1>8. ASSUME NEW q \in Replica, q # r, q[2] = r[2] PROVE ~StillToScatter(q)
  <2>1. ~IsMaster(q) /\ q[1] \in Machine BY <1>1, <1>8, ReplicaFacts DEF IsMaster
  <2>2. phase[q[1]] # "scatter"  BY <1>0, <2>1, Where
  <2> QED BY <1>0, <1>1, <1>8, <2>1, <2>2 DEF AppliedOnce, StillToScatter
<1>9. StillToScatter(r)' <=> scatters BY <1>0, <1>5 DEF StillToScatter, step_vars
<1>10. ASSUME NEW u \in Vertex, u # r[2], NEW e PROVE ToSignal(u, e)' <=> ToSignal(u, e)
  <2>1. \A x \in update_exchange' : x.vertex = u => x \in update_exchange BY <1>2, <1>10 DEF Updates
  <2>2. \A q \in Replica : q[2] = u => q # r  BY <1>10
  <2> QED BY <1>0, <1>2, <1>7, <2>1, <2>2 DEF ToSignal
<1>11. ASSUME NEW e
       PROVE  ToSignal(r[2], e)' <=> signals /\ e \in Along(r[2], mode.scatter)
  <2>1. ScatteredEdges(r)' = Along(r[2], scatter_edges(mode, kept)) \cap Local(r[1])
    BY <1>0, <1>4 DEF ScatteredEdges
  <2>2. (\E q \in Replica : /\ q[2] = r[2] /\ StillToScatter(q)' /\ vertex_programs'[q].signals
                            /\ e \in ScatteredEdges(q)')
        <=> /\ scatters /\ kept.signals
            /\ e \in Along(r[2], scatter_edges(mode, kept)) \cap Local(r[1])
    BY <1>1, <1>4, <1>7, <1>8, <1>9, <2>1
  <2>3. ASSUME NEW j \in Mirrors(r[2])
        PROVE  \E x \in update_exchange' : /\ x.to = j /\ x.vertex = r[2]
                                           /\ x.scatters = scatters /\ x.program = kept
    <3> DEFINE x == [to |-> j, vertex |-> r[2], data |-> new, scatters |-> scatters,
                     program |-> kept]
    <3>1. x \in update_exchange'  BY <1>2, <2>3 DEF Updates
    <3>2. x.to = j /\ x.vertex = r[2] /\ x.scatters = scatters /\ x.program = kept OBVIOUS
    <3> QED BY <3>1, <3>2
  <2>4. ASSUME NEW x \in update_exchange', x.vertex = r[2]
        PROVE  x.to \in Mirrors(r[2]) /\ x.scatters = scatters /\ x.program = kept
    BY <1>2, <1>6, <2>4 DEF Updates
  <2>5. (\E x \in update_exchange' :
           /\ x.vertex = r[2] /\ x.scatters /\ x.program.signals
           /\ e \in Along(r[2], scatter_edges(mode, x.program)) \cap Local(x.to))
        <=> \E j \in Mirrors(r[2]) :
              /\ scatters /\ kept.signals
              /\ e \in Along(r[2], scatter_edges(mode, kept)) \cap Local(j) BY <2>3, <2>4
  <2>6. ToSignal(r[2], e)' <=>
          /\ scatters /\ kept.signals
          /\ e \in Along(r[2], scatter_edges(mode, kept))
          /\ e \in Local(r[1]) \/ \E j \in Mirrors(r[2]) : e \in Local(j)
    BY <1>0, <2>2, <2>5 DEF ToSignal
  <2>7. e \in Along(r[2], mode.scatter) =>
          e \in Local(r[1]) \/ \E j \in Mirrors(r[2]) : e \in Local(j)
    <3>1. SUFFICES ASSUME e \in Along(r[2], mode.scatter)
                   PROVE  e \in Local(r[1]) \/ \E j \in Mirrors(r[2]) : e \in Local(j) OBVIOUS
    <3>2. e \in Edge /\ Part(r[2], e) \in Replica  BY <1>1, <3>1, EdgeFacts
    <3>3. Place(e) = Hash[r[2]] \/ Place(e) \in Mirrors(r[2]) BY <3>2, ReplicaFacts DEF Part
    <3> QED BY <1>1, <3>2, <3>3 DEF Local
  <2>8. scatters /\ kept.signals <=> signals /\ mode.scatter # {}
    BY <1>2, <1>3 DEF scatter_edges, DefaultProgram
  <2>9. scatters /\ kept.signals => scatter_edges(mode, kept) = mode.scatter
    BY <1>2, <1>3 DEF scatter_edges, DefaultProgram
  <2>10. e \in Along(r[2], mode.scatter) => mode.scatter # {}  BY DEF Along
  <2> QED BY <2>6, <2>7, <2>8, <2>9, <2>10
<1> QED BY <1>1, <1>10, <1>11

LEMMA ApplyImplements ==
  ASSUME IInv, Scattered, AppliedOnce, BInv, NEW r \in todo, ExecuteApply(r)
  PROVE  BSP!Apply(r[2])
<1> USE DEF IInv, BInv
<1> DEFINE v == r[2]
           new == Applied(data[r], vertex_programs[r].message, gather_accum[r])
<1>1. /\ phase[r[1]] = "apply" /\ todo' = todo \ {r}
      /\ data' = [data EXCEPT ![r] = new]
      /\ gather_accum' = [gather_accum EXCEPT ![r] = Zero]
      /\ \E p : vertex_programs' = [vertex_programs EXCEPT ![r] = p]
      /\ UNCHANGED <<mode, message_vars, active_superstep, step_vars, message_exchange,
                     signal_calls>> BY DEF ExecuteApply, Visit, exchanges_but_update
<1>2. /\ r = Master(v) /\ r \in Replica /\ r[1] = Hash[v] /\ v \in Vertex /\ r[1] \in Machine
      /\ r \in active_superstep BY <1>1, ReplicaFacts DEF Shape, Masters, MastersOnly, IsMaster, Due
<1>3. Stage = "apply" /\ Stage' = Stage /\ phase' = phase BY <1>1, Visiting, StageStays DEF step_vars
<1> HIDE DEF new, v
<1>4. \A u \in Vertex : Master(u) \in Replica /\ (u # v => Master(u) # r) BY <1>2, ReplicaFacts
<1>5. /\ \A q \in Replica : q # r => /\ vertex_programs'[q] = vertex_programs[q]
                                     /\ gather_accum'[q] = gather_accum[q]
                                     /\ data'[q] = data[q]
      /\ gather_accum'[r] = Zero /\ data'[r] = new BY <1>1, <1>2 DEF BShape, Shape
<1>6. ASSUME NEW u \in Vertex
      PROVE  /\ Active(u)' <=> Active(u) /\ u # v
             /\ Received(u)' = IF u = v THEN {} ELSE Received(u)
             /\ Total(u)' = IF u = v THEN Zero ELSE Total(u)
             /\ data'[Master(u)] = IF u = v THEN new ELSE data[Master(u)]
  <2>1. Active(u)' <=> Active(u) /\ u # v BY <1>1, <1>2, <1>3, <1>4 DEF Active, Master
  <2>2. Received(u)' = IF u = v THEN {} ELSE Received(u) BY <1>4, <1>5, <2>1 DEF Received, Master
  <2>3. Total(u)' = IF u = v THEN Zero ELSE Total(u) BY <1>3, <1>4, <1>5, <2>1 DEF Total, Master
  <2> QED BY <1>2, <1>4, <1>5, <2>1, <2>2, <2>3
<1>7. Active(v) /\ Received(v) = vertex_programs[r].message /\ Total(v) = gather_accum[r]
  BY <1>1, <1>2, <1>3 DEF Active, Received, Total
<1>8. BData' = [BData EXCEPT ![v] = Applied(BData[v], BReceived[v], BTotal[v])]
  <2>1. BData' = [u \in Vertex |-> data'[Master(u)]] /\ BData = [u \in Vertex |-> data[Master(u)]]
    BY DEF BData, Master
  <2>2. BData[v] = data[r] /\ BReceived[v] = vertex_programs[r].message /\ BTotal[v] = gather_accum[r]
    BY <1>2, <1>3, <1>7 DEF BData, BReceived, BTotal
  <2> QED BY <1>2, <1>6, <2>1, <2>2 DEF new
<1>9. BActive' = BActive \ {v} /\ v \in BActive BY <1>2, <1>6, <1>7 DEF BActive
<1>10. BReceived' = [BReceived EXCEPT ![v] = {}] BY <1>2, <1>6 DEF BReceived, Received
<1>11. BTotal' = [BTotal EXCEPT ![v] = Zero] BY <1>2, <1>6 DEF BTotal, Total
<1>12. UNCHANGED <<mode, BSignalled, BBox>>
  <2>1. \A u \in Vertex : (Waiting(u)' <=> Waiting(u)) /\ \A m : InBox(u, m)' <=> InBox(u, m)
    BY <1>1, <1>3, SameMessages
  <2> QED BY <1>1, <2>1, SameSignals
<1>13. \E out \in {{}, Along(v, mode.scatter)} : BOutgoing' = [BOutgoing EXCEPT ![v] = out]
  <2>1. PICK signals \in BOOLEAN :
          \A u \in Vertex : \A e :
            ToSignal(u, e)' <=> IF u = v THEN signals /\ e \in Along(u, mode.scatter)
                                         ELSE ToSignal(u, e) BY ApplySignals DEF v
  <2> DEFINE out == IF signals THEN Along(v, mode.scatter) ELSE {}
  <2>2. ASSUME NEW u \in Vertex PROVE Outgoing(u)' = IF u = v THEN out ELSE Outgoing(u)
    <3>1. \A e : e \in Outgoing(u)' <=> ToSignal(u, e)'  BY OutgoingNext
    <3>2. CASE u = v BY <2>1, <3>1, <3>2
    <3>3. CASE u # v
      <4>1. \A e : e \in Outgoing(u)' <=> e \in Outgoing(u) BY <2>1, <3>1, <3>3, OutgoingNow
      <4> QED BY <3>3, <4>1
    <3> QED BY <3>2, <3>3
  <2>3. BOutgoing' = [u \in Vertex |-> Outgoing(u)'] /\ BOutgoing = [u \in Vertex |-> Outgoing(u)]
    BY DEF BOutgoing
  <2>4. BOutgoing' = [BOutgoing EXCEPT ![v] = out]
    <3> HIDE DEF out
    <3> QED BY <1>2, <2>2, <2>3
  <2>5. out \in {{}, Along(v, mode.scatter)}  OBVIOUS
  <2> QED BY <2>4, <2>5
<1>14. BOutgoing' \in {[BOutgoing EXCEPT ![v] = out] : out \in {{}, Along(v, mode.scatter)}} BY <1>13
<1>15. BSP!Apply(v) BY <1>3, <1>8, <1>9, <1>10, <1>11, <1>12, <1>14
     DEF BSP!Apply, BSP!Applied, BSP!Zero, BSP!Along, Applied, Zero, Along,
         BData, BSignalled, BBox, BActive, BReceived, BTotal, BOutgoing
<1> QED BY <1>15 DEF v

\* Signalling replicas of this machine adds to what waits for their vertices.
LEMMA NeighboursWait ==
  ASSUME IInv, BInv, NEW r \in todo, phase[r[1]] = "scatter",
         NEW F, F \subseteq ScatteredEdges(r), SignalNeighbours(r, F),
         UNCHANGED <<phase, mode>>, todo' = todo \ {r}, NEW u \in Vertex
  PROVE  /\ (\E q \in Replica : q[2] = u /\ Pending(q)') <=>
              \/ \E q \in Replica : q[2] = u /\ Pending(q)
              \/ \E e \in F : Other(e, r[2]) = u
         /\ \A m : (\E q \in Replica : q[2] = u /\ Pending(q)' /\ m \in messages'[q]) <=>
                     \/ \E q \in Replica : q[2] = u /\ Pending(q) /\ m \in messages[q]
                     \/ ~mode.plain /\ m \in F /\ Other(m, r[2]) = u
<1> USE DEF IInv, BInv
<1>1. ASSUME NEW e \in F
      PROVE  <<r[1], Other(e, r[2])>> \in Replica /\ e \in Between(F, r, <<r[1], Other(e, r[2])>>)
  <2>1. e \in Edge /\ Place(e) = r[1] /\ e \in Along(r[2], {"in", "out"})
    BY DEF ScatteredEdges, Along, Local
  <2>2. Other(e, r[2]) \in Vertex /\ e \in Along(Other(e, r[2]), {"in", "out"})
    BY <2>1, EdgeFacts DEF Along, Other
  <2>3. <<r[1], Other(e, r[2])>> \in Replica  BY <2>1, <2>2, EdgeFacts DEF Part
  <2> QED BY <2>3 DEF Between
<1>2. ASSUME NEW q \in Replica, NEW e
      PROVE  e \in Between(F, r, q) <=> e \in F /\ q = <<r[1], Other(e, r[2])>> BY DEF Between
<1>3. ASSUME NEW q \in Replica
      PROVE  Pending(q)' <=> Pending(q) \/ \E e \in F : q = <<r[1], Other(e, r[2])>>
  BY <1>2 DEF SignalNeighbours, Neighbours, Pending
<1>4. ASSUME NEW q \in Replica, NEW m
      PROVE  Pending(q)' /\ m \in messages'[q] <=>
               \/ Pending(q) /\ m \in messages[q]
               \/ ~mode.plain /\ m \in F /\ q = <<r[1], Other(m, r[2])>>
  <2>1. messages'[q] = IF Between(F, r, q) = {} THEN messages[q]
                       ELSE IF mode.plain THEN {}
                       ELSE IF q \in has_message THEN messages[q] \cup Between(F, r, q)
                       ELSE Between(F, r, q) BY DEF SignalNeighbours
  <2>2. CASE Between(F, r, q) = {}
    <3>1. \A e \in F : q # <<r[1], Other(e, r[2])>>  BY <1>2, <2>2
    <3> QED BY <1>3, <2>1, <2>2, <3>1
  <2>3. CASE Between(F, r, q) # {}
    <3>1. PICK e \in F : q = <<r[1], Other(e, r[2])>>  BY <1>2, <2>3
    <3>2. Pending(q)' /\ (Pending(q) <=> q \in has_message) BY <1>3, <3>1 DEF Pending
    <3>3. mode.plain => messages[q] = {}  BY DEF BShape
    <3> QED BY <1>2, <2>1, <2>3, <3>2, <3>3
  <2> QED BY <2>2, <2>3
<1> DEFINE Near(e) == <<r[1], Other(e, r[2])>>
<1>a. \A e : Near(e)[2] = Other(e, r[2])  OBVIOUS
<1>b. \A e \in F : Near(e) \in Replica  BY <1>1
<1>c. \A q \in Replica : Pending(q)' <=> Pending(q) \/ \E e \in F : q = Near(e) BY <1>3
<1>d. \A q \in Replica : \A m : Pending(q)' /\ m \in messages'[q] <=>
        \/ Pending(q) /\ m \in messages[q]
        \/ ~mode.plain /\ m \in F /\ q = Near(m) BY <1>4
<1> HIDE DEF Near
<1>5. (\E q \in Replica : q[2] = u /\ Pending(q)') <=>
        \/ \E q \in Replica : q[2] = u /\ Pending(q)
        \/ \E e \in F : Other(e, r[2]) = u BY <1>a, <1>b, <1>c
<1>6. ASSUME NEW m
      PROVE  (\E q \in Replica : q[2] = u /\ Pending(q)' /\ m \in messages'[q]) <=>
               \/ \E q \in Replica : q[2] = u /\ Pending(q) /\ m \in messages[q]
               \/ ~mode.plain /\ m \in F /\ Other(m, r[2]) = u BY <1>a, <1>d, <1>b
<1> QED BY <1>5, <1>6

LEMMA ScatterImplements ==
  ASSUME IInv, Scattered, BInv, NEW r \in todo, ExecuteScatter(r)
  PROVE  BSP!Next(Stopped) \/ UNCHANGED BSP!vars
<1> USE DEF IInv, BInv
<1> DEFINE v == r[2]
           E == IF vertex_programs[r].signals THEN ScatteredEdges(r) ELSE {}
<1>1. /\ phase[r[1]] = "scatter" /\ todo' = todo \ {r}
      /\ IF mode.by_id THEN SignalById(r, E)
                       ELSE SignalNeighbours(r, E) /\ UNCHANGED signal_calls
      /\ vertex_programs' = [vertex_programs EXCEPT ![r] = DefaultProgram]
      /\ UNCHANGED <<mode, data, gather_vars, active_vars, step_vars, exchange_vars>>
  BY DEF ExecuteScatter, Visit
<1>2. /\ r \in Replica /\ r[1] \in Machine /\ v \in Vertex /\ r = <<r[1], v>> BY ReplicaFacts DEF Shape
<1>3. Stage = "scatter" /\ Stage' = Stage /\ phase' = phase BY <1>1, Visiting, StageStays DEF step_vars
<1>4. E \subseteq ScatteredEdges(r) /\ E \subseteq Edge BY DEF ScatteredEdges, Local
<1>5. update_exchange = {} /\ update_exchange' = {}
  <2>1. ASSUME NEW x \in update_exchange PROVE FALSE
    <3>1. x.to \in Machine  BY ReplicaFacts DEF Shape
    <3>2. phase[x.to] = "scatter" \/ (phase[x.to] = "apply" /\ arrived[x.to]) BY <1>1, <3>1, Where
    <3> QED BY <3>2 DEF Carried
  <2> QED BY <1>1, <2>1 DEF exchange_vars
<1>6. \A q \in Replica : q # r => vertex_programs'[q] = vertex_programs[q] BY <1>1 DEF BShape
<1>e. \A e : e \in E <=> vertex_programs[r].signals /\ e \in ScatteredEdges(r) OBVIOUS
<1> HIDE DEF v, E
<1>7. ASSUME NEW u \in Vertex
      PROVE  /\ Waiting(u)' <=> Waiting(u) \/ \E e \in E : Other(e, v) = u
             /\ \A m : InBox(u, m)' <=> InBox(u, m) \/ (~mode.plain /\ m \in E /\ Other(m, v) = u)
  <2>1. /\ SignalNeighbours(r, E) /\ UNCHANGED <<signal_calls, message_exchange>>
    BY <1>1 DEF exchange_vars, BShape
  <2>2. /\ (\E q \in Replica : q[2] = u /\ Pending(q)') <=>
             \/ \E q \in Replica : q[2] = u /\ Pending(q)
             \/ \E e \in E : Other(e, v) = u
        /\ \A m : (\E q \in Replica : q[2] = u /\ Pending(q)' /\ m \in messages'[q]) <=>
                    \/ \E q \in Replica : q[2] = u /\ Pending(q) /\ m \in messages[q]
                    \/ ~mode.plain /\ m \in E /\ Other(m, v) = u
    BY <1>1, <1>3, <1>4, <2>1, NeighboursWait DEF v
  <2>3. Waiting(u)' <=> Waiting(u) \/ \E e \in E : Other(e, v) = u BY <2>1, <2>2 DEF Waiting
  <2>4. ASSUME NEW m
        PROVE  InBox(u, m)' <=> InBox(u, m) \/ (~mode.plain /\ m \in E /\ Other(m, v) = u)
    BY <1>1, <2>1, <2>2 DEF InBox
  <2> QED BY <2>3, <2>4
<1>8. ASSUME NEW u \in Vertex, NEW e
      PROVE  ToSignal(u, e)' <=> ToSignal(u, e) /\ ~(u = v /\ e \in E)
  <2>1. \A q \in Replica :
          /\ StillToScatter(q)' <=> StillToScatter(q) /\ q # r
          /\ q # r => ScatteredEdges(q)' = ScatteredEdges(q)
    BY <1>1, <1>3, <1>6 DEF StillToScatter, ScatteredEdges, active_vars
  <2>2. ASSUME NEW q \in Replica, q # r, q[2] = v, e \in ScatteredEdges(q) PROVE e \notin E
    <3>1. q[1] # r[1]  BY <1>2, <2>2, ReplicaFacts
    <3>2. Place(e) = q[1]  BY <2>2 DEF ScatteredEdges, Local
    <3>3. e \in E => Place(e) = r[1]  BY <1>4 DEF ScatteredEdges, Local
    <3> QED BY <3>1, <3>2, <3>3
  <2>3. StillToScatter(r)  BY <1>1 DEF StillToScatter
  <2>4. ToSignal(u, e)' <=> \E q \in Replica : /\ q # r /\ q[2] = u /\ StillToScatter(q)
                                               /\ vertex_programs[q].signals
                                               /\ e \in ScatteredEdges(q)
    BY <1>5, <1>6, <2>1 DEF ToSignal
  <2>5. ToSignal(u, e) <=> \E q \in Replica : /\ q[2] = u /\ StillToScatter(q)
                                              /\ vertex_programs[q].signals
                                              /\ e \in ScatteredEdges(q) BY <1>5 DEF ToSignal
  <2>6. r[2] = v  BY DEF v
  <2> QED BY <1>2, <1>e, <2>2, <2>3, <2>4, <2>5, <2>6
<1>9. ASSUME NEW u \in Vertex
      PROVE  /\ data'[Master(u)] = data[Master(u)]
             /\ Active(u)' <=> Active(u)
             /\ Received(u)' = Received(u) /\ Total(u)' = Total(u)
  <2>1. Master(u) \in Replica /\ Master(u)[1] = Hash[u]  BY ReplicaFacts
  <2>2. Active(u)' <=> Active(u) BY <1>1, <1>3, <2>1 DEF Active, Master, active_vars
  <2>3. Active(u) => Master(u) # r  BY <1>1, <2>1 DEF Active
  <2>4. Received(u)' = Received(u)  BY <1>6, <2>1, <2>2, <2>3 DEF Received, Master
  <2>5. Total(u)' = Total(u)  BY <1>3 DEF Total, Zero
  <2> QED BY <1>1, <2>2, <2>4, <2>5 DEF Master
<1>10. CASE E = {}
  <2>1. \A u \in Vertex : /\ Waiting(u)' <=> Waiting(u)
                          /\ \A m : InBox(u, m)' <=> InBox(u, m)
                          /\ \A e : ToSignal(u, e)' <=> ToSignal(u, e) BY <1>7, <1>8, <1>10
  <2> QED BY <1>1, <1>3, <1>9, <2>1, Stutters
<1>11. CASE E # {}
  <2>1. BOutgoing' = [BOutgoing EXCEPT ![v] = BOutgoing[v] \ E]
    <3>1. ASSUME NEW u \in Vertex
          PROVE  Outgoing(u)' = IF u = v THEN Outgoing(v) \ E ELSE Outgoing(u)
      BY <1>8, OutgoingNow, OutgoingNext
    <3>2. BOutgoing' = [u \in Vertex |-> Outgoing(u)'] /\ BOutgoing = [u \in Vertex |-> Outgoing(u)]
      BY DEF BOutgoing
    <3> QED BY <1>2, <3>1, <3>2
  <2>2. E \in SUBSET BOutgoing[v]
    <3>1. ASSUME NEW e \in E PROVE e \in Outgoing(v)
      <4>1. StillToScatter(r) /\ r[2] = v  BY <1>1 DEF StillToScatter, v
      <4>2. ToSignal(v, e)  BY <1>2, <1>e, <4>1 DEF ToSignal
      <4> QED BY <4>2, OutgoingNow
    <3>2. BOutgoing[v] = Outgoing(v)  BY <1>2 DEF BOutgoing
    <3> QED BY <3>1, <3>2
  <2>3. BSignalled' = BSignalled \cup {Other(e, v) : e \in E}
    <3>1. \A e \in E : Other(e, v) \in Vertex  BY <1>2, <1>4, EdgeFacts
    <3>2. \A u : u \in BSignalled' <=> u \in BSignalled \/ \E e \in E : Other(e, v) = u
      BY <1>7, <3>1, SignalsNow, SignalsNext DEF BSignalled
    <3> QED BY <3>2
  <2>4. BBox' = [u \in Vertex |->
                   BBox[u] \cup IF mode.plain THEN {} ELSE {e \in E : Other(e, v) = u}]
    <3>1. ASSUME NEW u \in Vertex
          PROVE  (UNION Signals(u))' =
                   BBox[u] \cup IF mode.plain THEN {} ELSE {e \in E : Other(e, v) = u}
      BY <1>7, SignalsNow, SignalsNext DEF BBox
    <3>2. BBox' = [u \in Vertex |-> (UNION Signals(u))']  BY DEF BBox
    <3> QED BY <3>1, <3>2
  <2>5. UNCHANGED <<mode, BData, BActive, BReceived, BTotal>>
    BY <1>1, <1>9, SameData, SameActive, SameReceived, SameTotal
  <2>6. BSP!Scatter(v, E) BY <1>3, <1>11, <2>1, <2>3, <2>4, <2>5 DEF BSP!Scatter, BSP!Other, Other,
           BData, BSignalled, BBox, BActive, BReceived, BTotal, BOutgoing
  <2>7. E \in SUBSET [u \in Vertex |-> Outgoing(u)][v]  BY <2>2 DEF BOutgoing
  <2> QED BY <1>2, <2>6, <2>7 DEF BSP!Next
<1> QED BY <1>10, <1>11

-----------------------------------------------------------------------------

LEMMA BSPInit ==
  ASSUME Init
  PROVE  BSP!Init
<1> USE DEF PerReplica, PerMachine
<1>1. /\ mode \in Modes /\ data = PerReplica(InitialData)
      /\ active_superstep = {} /\ active_minorstep = {} /\ todo = {}
      /\ signal_calls = {} /\ message_exchange = {} /\ update_exchange = {}
      /\ \A k \in Machine : phase[k] = "test" /\ passed[k] = 0 BY DEF Init
<1>2. PICK S \in StartSets :
        /\ has_message = {Master(v) : v \in S}
        /\ messages = [r \in Replica |->
                         IF r \in has_message /\ ~mode.plain THEN {Start} ELSE {}] BY DEF Init
<1>3. S \subseteq Vertex /\ mode \in Mode  BY <1>1, EngineAssumption
<1>4. Stage = "receive"
  <2> DEFINE a == CHOOSE i \in Machine : \A j \in Machine : passed[j] <= passed[i]
  <2>1. PICK k \in Machine : TRUE  BY EngineAssumption
  <2>2. \A j \in Machine : passed[j] <= passed[k]  BY <1>1
  <2>3. a \in Machine  BY <2>2, Zenon
  <2>4. phase[a] = "test" /\ ~ \E j \in Machine : phase[j] \in {"exit", "ended"} BY <1>1, <2>3
  <2> QED BY <2>4 DEF Stage
<1>5. ASSUME NEW v \in Vertex
      PROVE  /\ ~Active(v) /\ Outgoing(v) = {} /\ data[Master(v)] = InitialData
             /\ UNION Signals(v) = IF Signals(v) # {} /\ ~mode.plain THEN {Start} ELSE {}
  <2>0. Master(v) \in Replica  BY ReplicaFacts
  <2>1. \A q \in Replica : ~StillToScatter(q)  BY <1>1 DEF StillToScatter
  <2>2. \A e : ~ToSignal(v, e)  BY <1>1, <2>1 DEF ToSignal
  <2>3. Outgoing(v) = {}  BY <2>2, OutgoingNow
  <2>4. \A q \in Replica : Pending(q) <=> q \in has_message BY <1>1, ReplicaFacts DEF Pending
  <2>5. Waiting(v) <=> \E q \in Replica : q[2] = v /\ q \in has_message BY <1>1, <2>4 DEF Waiting
  <2>6. ASSUME NEW m PROVE InBox(v, m) <=> Waiting(v) /\ ~mode.plain /\ m = Start
    BY <1>1, <1>2, <2>4, <2>5 DEF InBox
  <2>7. \A m : m \in UNION Signals(v) <=> Signals(v) # {} /\ ~mode.plain /\ m = Start BY <2>6, SignalsNow
  <2>8. UNION Signals(v) = IF Signals(v) # {} /\ ~mode.plain THEN {Start} ELSE {} BY <2>7
  <2> QED BY <1>1, <2>0, <2>3, <2>8 DEF Active
<1> QED BY <1>3, <1>4, <1>5 DEF BSP!Init, BSP!Mode, BSP!Direction, BSP!InitialData, BSP!Zero,
           BSP!Start, Mode, Direction, InitialData, Zero, Start

\* The phases of all machines together are the super-steps of the Execution Semantics on
\* the graph that is not cut, for every graph, cut, number of machines and program that
\* signals vertices and not ids (those it may stop() included) when, under sched_allv,
\* what a program gathers does not depend on its message.
THEOREM MachinesMakeSuperSteps ==
  ByVertex /\ AlwaysGathers /\ Spec => ImplementsBulkSynchronous
<1> SUFFICES ASSUME ByVertex, AlwaysGathers
             PROVE  Spec => ImplementsBulkSynchronous OBVIOUS
<1>1. Init => CInv /\ BInv /\ BSP!Init BY CachesInit, BInit, BSPInit
<1>2. IInv /\ CInv /\ [Next]_vars => CInv' BY CachesNext
<1>3. IInv /\ CInv /\ BInv /\ [Next]_vars => BInv' BY BKept
<1>4. IInv /\ IInv' /\ CInv /\ BInv /\ [Next]_vars => [BSP!Next(Stopped)]_BSP!vars
  <2> SUFFICES ASSUME IInv, IInv', CInv, BInv, [Next]_vars
               PROVE  BSP!Next(Stopped) \/ UNCHANGED BSP!vars OBVIOUS
  <2>0. Scattered /\ AppliedOnce  BY DEF CInv
  <2>1. ASSUME NEW k \in Machine, MainLoop(k)
        PROVE  BSP!Next(Stopped) \/ UNCHANGED BSP!vars BY <2>1, LoopImplements
  <2>2. ASSUME NEW k \in Machine, Handle(k)
        PROVE  UNCHANGED BSP!vars
    BY <2>0, <2>2, RecvMessageStutters, RecvActivStutters, RecvAccumStutters, UpdateStutters,
       StopStutters DEF Handle
  <2>3. ASSUME NEW r \in todo, ExecuteVertex(r)
        PROVE  BSP!Next(Stopped) \/ UNCHANGED BSP!vars
    <3>1. r[2] \in Vertex  BY ReplicaFacts DEF IInv, Shape
    <3>2. CASE ExchangeMessage(r)  BY <3>2, ExchangeStutters
    <3>3. CASE ReceiveMessage(r)
      <4>1. BSP!Receive(r[2])  BY <2>0, <3>3, ReceiveImplements
      <4> QED BY <3>1, <4>1 DEF BSP!Next
    <3>4. CASE ExecuteGather(r)  BY <2>0, <3>4, GatherStutters
    <3>5. CASE ExecuteApply(r)
      <4>1. BSP!Apply(r[2])  BY <2>0, <3>5, ApplyImplements
      <4> QED BY <3>1, <4>1 DEF BSP!Next
    <3>6. CASE ExecuteScatter(r)  BY <2>0, <3>6, ScatterImplements
    <3> QED BY <2>3, <3>2, <3>3, <3>4, <3>5, <3>6 DEF ExecuteVertex
  <2>4. ~internal_signal_rpc  BY DEF internal_signal_rpc, BInv, BShape
  <2> QED BY <2>1, <2>2, <2>3, <2>4, NothingStutters, NextSteps
<1>5. Spec => []IInv  BY Inductive
<1> QED BY <1>1, <1>2, <1>3, <1>4, <1>5, PTL DEF Spec, ImplementsBulkSynchronous

=============================================================================
