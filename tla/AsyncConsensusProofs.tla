------------------------ MODULE AsyncConsensusProofs ------------------------
(***************************************************************************)
(* What TLAPS proves of AsyncConsensus, for every number of machines,      *)
(* workers, handlers and tasks.  First its types; then the sleeping and    *)
(* waking of workers: the counter of active workers is exact, no task is   *)
(* left to sleeping workers, there is one token through every run and      *)
(* restart, and what it declares is true: the machines implement           *)
(* TerminationDetection.                                                   *)
(***************************************************************************)
EXTENDS AsyncConsensus, FiniteSetTheorems, TLAPS

\* The next machine of the ring is a machine.
LEMMA NextInRing == ASSUME NEW p \in Proc PROVE (p + 1) % N \in Proc
BY ConstantsAssumption, SMT DEF Proc

\* What a machine reports is a token again.
LEMMA ReportedTokenType ==
  ASSUME TypeOK, NEW p \in Proc, NEW tok \in Token
  PROVE  ReportedToken(p, tok) \in Token BY DEF TypeOK, Token, Calls, ReportedToken

\* The number of sleepers is a natural number, at most NCpus.
LEMMA SleepersFinite ==
  ASSUME NEW p \in Proc
  PROVE  /\ IsFiniteSet(Sleepers(p))
         /\ Cardinality(Sleepers(p)) \in Nat
<1>1. IsFiniteSet(Cpu) BY ConstantsAssumption, FS_Interval DEF Cpu
<1>2. Sleepers(p) \subseteq Cpu BY DEF Sleepers
<1> QED BY <1>1, <1>2, FS_Subset, FS_CardinalityType

\* Waking the sleepers keeps the types.
LEMMA WakeSleepersType ==
  ASSUME TypeOK, NEW p \in Proc, WakeSleepers(p)
  PROVE  /\ numactive' \in [Proc -> Int]
         /\ sleeping' \in [Proc -> [Cpu -> BOOLEAN]] BY SleepersFinite DEF TypeOK, WakeSleepers

\* Signalling a thread leaves it at one of the labels.
LEMMA SignalledType ==
  ASSUME TypeOK, NEW p \in Proc, NEW S
  PROVE  Signalled(p, S) \in [Thread -> Labels] BY DEF TypeOK, Signalled, Labels, WorkerLabels

\* Changing one entry of a table keeps the type of the table.
LEMMA TableType ==
  ASSUME NEW A, NEW B, NEW V, NEW f \in [A -> [B -> V]],
         NEW a \in A, NEW b \in B, NEW v \in V
  PROVE  [f EXCEPT ![a][b] = v] \in [A -> [B -> V]] OBVIOUS

\* Counting one more call keeps the type of the counters.
LEMMA CountedType ==
  ASSUME NEW cs \in [Proc -> Calls], NEW p \in Proc
  PROVE  /\ [cs EXCEPT ![p].sent = @ + 1] \in [Proc -> Calls]
         /\ [cs EXCEPT ![p].received = @ + 1] \in [Proc -> Calls]
<1>1. /\ [cs[p] EXCEPT !.sent = @ + 1] \in Calls
      /\ [cs[p] EXCEPT !.received = @ + 1] \in Calls BY DEF Calls
<1> QED BY <1>1

\* A thread that goes to one of the labels is at one of the labels.
LEMMA GotoType ==
  ASSUME TypeOK, NEW p \in Proc, NEW t \in Thread,
         \E label \in Labels : Goto(p, t, label)
  PROVE  pc' \in [Proc -> [Thread -> Labels]]
<1> PICK label \in Labels : Goto(p, t, label) OBVIOUS
<1>1. pc \in [Proc -> [Thread -> Labels]] BY DEF TypeOK
<1>2. [pc[p] EXCEPT ![t] = label] \in [Thread -> Labels] BY <1>1
<1> QED BY <1>1, <1>2 DEF Goto

LEMMA TypeInit == Init => TypeOK
<1> SUFFICES ASSUME Init PROVE TypeOK OBVIOUS
<1>1. N - 1 \in Proc BY ConstantsAssumption DEF Proc
<1>2. InitialToken \in Token BY <1>1 DEF InitialToken, Token
<1> QED BY <1>2, ConstantsAssumption
  DEF Init, TypeOK, Calls, Labels, WorkerLabels, WakerLabels, HandlerLabels, NoOne

LEMMA ForwardTokenType ==
  ASSUME TypeOK, NEW p \in Proc, NEW tok \in Token,
         NEW flying \in SUBSET token_in_flight, ForwardToken(p, tok, flying)
  PROVE  /\ hastoken' \in [Proc -> BOOLEAN]
         /\ done' \in [Proc -> BOOLEAN]
         /\ cur_token' \in [Proc -> Token]
         /\ last_calls' \in [Proc -> Calls]
         /\ token_in_flight' \subseteq [to : Proc, token : Token]
         /\ force_in_flight' \subseteq Proc
<1>1. ReportedToken(p, tok) \in Token BY ReportedTokenType
<1>2. (p + 1) % N \in Proc BY NextInRing
<1> QED BY <1>1, <1>2 DEF TypeOK, ForwardToken

LEMMA DeclareDoneType ==
  ASSUME TypeOK, NEW p \in Proc, NEW tok \in Token,
         NEW flying \in SUBSET token_in_flight, DeclareDone(p, tok, flying)
  PROVE  /\ hastoken' \in [Proc -> BOOLEAN]
         /\ done' \in [Proc -> BOOLEAN]
         /\ cur_token' \in [Proc -> Token]
         /\ last_calls' \in [Proc -> Calls]
         /\ token_in_flight' \subseteq [to : Proc, token : Token]
         /\ force_in_flight' \subseteq Proc BY DEF TypeOK, DeclareDone

LEMMA ReceiveTheTokenType ==
  ASSUME TypeOK, NEW p \in Proc, NEW h \in Handlers, ReceiveTheToken(p, h)
  PROVE  TypeOK'
<1> USE DEF TypeOK
<1>1. PICK msg \in token_in_flight : ReceiveTheToken(p, h)!(msg) BY DEF ReceiveTheToken
<1> DEFINE flying == token_in_flight \ {msg}
<1>2. msg.token \in Token OBVIOUS
<1>3. UNCHANGED <<trying_to_sleep, critical, m, client_vars>> BY <1>1
<1>4. CASE numactive[p] > 0
  <2>1. /\ hastoken' = [hastoken EXCEPT ![p] = TRUE]
        /\ cur_token' = [cur_token EXCEPT ![p] = msg.token]
        /\ token_in_flight' = flying
        /\ UNCHANGED <<numactive, sleeping, done, last_calls, force_in_flight, pc>> BY <1>1, <1>4
  <2> QED BY <1>2, <1>3, <2>1 DEF client_vars
<1>5. CASE numactive[p] = 0 /\ ~TokenComplete(p, msg.token)
  <2>1. ForwardToken(p, msg.token, flying) /\ UNCHANGED <<numactive, sleeping, pc>> BY <1>1, <1>5
  <2> QED BY <1>2, <1>3, <2>1, ForwardTokenType DEF client_vars
<1>6. CASE numactive[p] = 0 /\ TokenComplete(p, msg.token)
  <2>1. /\ DeclareDone(p, msg.token, flying) 
        /\ WakeSleepers(p)
        /\ pc' = [pc EXCEPT ![p] = Signalled(p, Sleepers(p))] BY <1>1, <1>6
  <2>2. pc' \in [Proc -> [Thread -> Labels]] BY <2>1, SignalledType
  <2> QED BY <1>2, <1>3, <2>1, <2>2, DeclareDoneType, SleepersFinite DEF client_vars, WakeSleepers
<1> QED BY <1>1, <1>4, <1>5, <1>6

LEMMA EndDoneType ==
  ASSUME TypeOK, NEW p \in Proc, NEW i \in Cpu, EndDone(p, i)
  PROVE  TypeOK'
<1> USE DEF TypeOK
<1>1. /\ m' = [m EXCEPT ![p] = NoOne]
      /\ UNCHANGED <<trying_to_sleep, critical, client_vars>> BY DEF EndDone
<1>2. CASE done[p]
  <2>1. Goto(p, i, "leave") /\ UNCHANGED <<numactive, sleeping, done, token_vars>> BY <1>2 DEF EndDone
  <2>2. pc' \in [Proc -> [Thread -> Labels]] BY <2>1, GotoType DEF Labels, WorkerLabels, Thread
  <2> QED BY <1>1, <2>1, <2>2 DEF client_vars, token_vars
<1>3. CASE /\ ~done[p]
           /\ numactive' = [numactive EXCEPT ![p] = @ - 1]
           /\ sleeping' = [sleeping EXCEPT ![p][i] = TRUE]
           /\ Goto(p, i, "wait")
           /\ \/ UNCHANGED <<done, token_vars>>
              \/ ForwardToken(p, cur_token[p], token_in_flight)
  <2>0a. pc' \in [Proc -> [Thread -> Labels]] BY <1>3, GotoType DEF Labels, WorkerLabels, Thread
  <2>0b. sleeping' \in [Proc -> [Cpu -> BOOLEAN]] BY <1>3, TableType
  <2>0. numactive' \in [Proc -> Int] BY <1>3
  <2>1. CASE UNCHANGED <<done, token_vars>>
    BY <1>1, <1>3, <2>0, <2>0a, <2>0b, <2>1 DEF client_vars, token_vars
  <2>2. CASE ForwardToken(p, cur_token[p], token_in_flight)
    BY <1>1, <1>3, <2>0, <2>0a, <2>0b, <2>2, ForwardTokenType DEF client_vars
  <2> QED BY <1>3, <2>1, <2>2
<1>4. CASE /\ DeclareDone(p, cur_token[p], token_in_flight)
           /\ numactive' = [numactive EXCEPT ![p] = @ - 1 + Cardinality(Sleepers(p))]
           /\ sleeping' = [sleeping EXCEPT ![p] = [j \in Cpu |-> j = i]]
           /\ pc' = [pc EXCEPT ![p] =
                       [Signalled(p, Sleepers(p)) EXCEPT ![i] = "leave"]]
  <2>1. pc' \in [Proc -> [Thread -> Labels]] BY <1>4, SignalledType DEF Labels, WorkerLabels, Thread
  <2> QED BY <1>1, <1>4, <2>1, DeclareDoneType, SleepersFinite DEF client_vars
<1> QED BY <1>2, <1>3, <1>4 DEF EndDone

LEMMA WorkerStepType ==
  ASSUME TypeOK, NEW p \in Proc, NEW i \in Cpu, WorkerStep(p, i)
  PROVE  TypeOK'
<1> USE DEF TypeOK, local_vars, token_vars, client_vars
<1> i \in Thread BY DEF Thread
<1>1. CASE GetTask(p, i) BY <1>1, GotoType DEF GetTask, Labels, WorkerLabels
<1>2. CASE NoTask(p, i) BY <1>2, GotoType DEF NoTask, Labels, WorkerLabels
<1>3. CASE FinishTask(p, i) BY <1>3, GotoType DEF FinishTask, Labels, WorkerLabels
<1>4. CASE BeginDone(p, i) BY <1>4, GotoType DEF BeginDone, Labels, WorkerLabels
<1>5. CASE LockDone(p, i) BY <1>5, GotoType DEF LockDone, Labels, WorkerLabels
<1>6. CASE StillNothing(p, i) BY <1>6, GotoType DEF StillNothing, Labels, WorkerLabels
<1>7. CASE EndDone(p, i) BY <1>7, EndDoneType
<1>8. CASE CancelCriticalSection(p, i) BY <1>8, GotoType DEF CancelCriticalSection, Labels, WorkerLabels
<1>9. CASE CancelledCriticalSection(p, i)
  BY <1>9, GotoType DEF CancelledCriticalSection, Labels, WorkerLabels
<1>10. CASE WakeUp(p, i) BY <1>10, GotoType DEF WakeUp, Labels, WorkerLabels
<1>11. CASE LeaveDone(p, i) BY <1>11, GotoType DEF LeaveDone, Labels, WorkerLabels
<1> QED BY <1>1, <1>2, <1>3, <1>4, <1>5, <1>6, <1>7, <1>8, <1>9, <1>10, <1>11 DEF WorkerStep

LEMMA WakerStepType ==
  ASSUME TypeOK, NEW p \in Proc, NEW t \in Thread, WakerStep(p, t)
  PROVE  TypeOK'
<1> USE DEF TypeOK, local_vars, token_vars, client_vars
<1>0. Caller(t) \in Labels BY DEF Caller, Labels, WorkerLabels, HandlerLabels
<1>1. CASE CancelTest(p, t) BY <1>1, <1>0, GotoType DEF CancelTest, Labels, WakerLabels
<1>2. CASE Cancel(p, t)
  <2>1. CASE numactive[p] < NCpus
    <3>1. [Signalled(p, Sleepers(p)) EXCEPT ![t] = Caller(t)] \in [Thread -> Labels]
      BY <1>0, SignalledType
    <3>2. pc' \in [Proc -> [Thread -> Labels]] BY <1>2, <2>1, <3>1 DEF Cancel
    <3>3. /\ numactive' \in [Proc -> Int]
          /\ sleeping' \in [Proc -> [Cpu -> BOOLEAN]] BY <1>2, <2>1, WakeSleepersType DEF Cancel
    <3>4. UNCHANGED <<trying_to_sleep, critical, done, m, token_vars, client_vars>> BY <1>2 DEF Cancel
    <3> QED BY <3>2, <3>3, <3>4
  <2>2. CASE ~(numactive[p] < NCpus) BY <1>0, <1>2, <2>2, GotoType DEF Cancel
  <2> QED BY <2>1, <2>2
<1>3. CASE CancelOneTest(p, t) BY <1>3, <1>0, GotoType DEF CancelOneTest, Labels, WakerLabels
<1>4. CASE CancelOne(p, t)
  <2>1. CASE sleeping[p][CpuHint]
    <3>1. [Signalled(p, {CpuHint}) EXCEPT ![t] = Caller(t)] \in [Thread -> Labels] BY <1>0, SignalledType
    <3>2. pc' \in [Proc -> [Thread -> Labels]] BY <1>4, <2>1, <3>1 DEF CancelOne
    <3>3. /\ numactive' = [numactive EXCEPT ![p] = @ + 1]
          /\ sleeping' = [sleeping EXCEPT ![p][CpuHint] = FALSE]
          /\ CpuHint \in Cpu BY <1>4, <2>1, ConstantsAssumption DEF CancelOne
    <3>4. sleeping' \in [Proc -> [Cpu -> BOOLEAN]] BY <3>3, TableType
    <3>5. numactive' \in [Proc -> Int] BY <3>3
    <3>6. UNCHANGED <<trying_to_sleep, critical, done, m, token_vars, client_vars>> BY <1>4 DEF CancelOne
    <3> QED BY <3>2, <3>4, <3>5, <3>6
  <2>2. CASE ~sleeping[p][CpuHint] BY <1>0, <1>4, <2>2, GotoType DEF CancelOne
  <2> QED BY <2>1, <2>2
<1> QED BY <1>1, <1>2, <1>3, <1>4 DEF WakerStep

LEMMA TaskStepType ==
  ASSUME TypeOK, NEW p \in Proc, NEW t \in Thread, TaskStep(p, t)
  PROVE  TypeOK'
<1> USE DEF TypeOK, local_vars, token_vars, client_vars
<1>1. CASE AddTaskLocal(p, t)
  <2>1. \E label \in Labels : Goto(p, t, label)
    BY <1>1, ConstantsAssumption DEF AddTaskLocal, Labels, WakerLabels
  <2> QED BY <1>1, <2>1, GotoType DEF AddTaskLocal, Creating
<1>2. ASSUME NEW q \in Proc, AddTaskRemote(p, t, q) PROVE TypeOK'
  <2>1. calls' \in [Proc -> Calls] BY <1>2, CountedType DEF AddTaskRemote
  <2> QED BY <1>2, <2>1 DEF AddTaskRemote, Creating
<1> QED BY <1>1, <1>2 DEF TaskStep

LEMMA HandlerStepType ==
  ASSUME TypeOK, NEW p \in Proc, NEW h \in Handlers, HandlerStep(p, h)
  PROVE  TypeOK'
<1> USE DEF TypeOK, local_vars, token_vars, client_vars
<1> h \in Thread BY DEF Thread
<1>1. CASE ReceiveTask(p, h)
  <2>1. \E label \in Labels : Goto(p, h, label)
    BY <1>1, ConstantsAssumption DEF ReceiveTask, Labels, WakerLabels
  <2> QED BY <1>1, <2>1, GotoType DEF ReceiveTask
<1>2. CASE ReceiveTheToken(p, h) BY <1>2, ReceiveTheTokenType
<1>3. CASE ForceDone(p, h) BY <1>3, GotoType DEF ForceDone, Labels, WakerLabels
<1>4. CASE CallReturns(p, h)
  <2>1. \E label \in Labels : Goto(p, h, label) BY <1>4 DEF CallReturns, Labels, HandlerLabels
  <2>2. calls' \in [Proc -> Calls] BY <1>4, CountedType DEF CallReturns
  <2>3. oncall' \in [Proc -> [Handlers -> {"none", "task", "force_done"}]]
    BY <1>4, TableType DEF CallReturns
  <2> QED BY <1>4, <2>1, <2>2, <2>3, GotoType DEF CallReturns
<1> QED BY <1>1, <1>2, <1>3, <1>4 DEF HandlerStep

LEMMA RestartType == TypeOK /\ Restart => TypeOK'
<1> SUFFICES ASSUME TypeOK, Restart PROVE TypeOK' OBVIOUS
<1>1. InitialToken \in Token BY ConstantsAssumption DEF InitialToken, Token, Proc
<1>2. PICK q0 \in InitialTasks : queue' = [p \in Proc |-> queue[p] + q0[p]] BY DEF Restart
<1>3. queue' \in [Proc -> Nat] BY <1>2, ConstantsAssumption DEF TypeOK
<1>4. pc' \in [Proc -> [Thread -> Labels]] BY DEF TypeOK, Restart, Labels, WorkerLabels
<1> QED BY <1>1, <1>3, <1>4, ConstantsAssumption DEF TypeOK, Restart, Calls

LEMMA TypeNext == TypeOK /\ [Next]_vars => TypeOK'
<1> SUFFICES ASSUME TypeOK, [Next]_vars PROVE TypeOK' OBVIOUS
<1>1. ASSUME NEW p \in Proc, NEW i \in Cpu, SpuriousWakeup(p, i) PROVE TypeOK'
  <2> i \in Thread BY DEF Thread
  <2>1. \E label \in Labels : Goto(p, i, label) BY <1>1 DEF SpuriousWakeup, Labels, WorkerLabels
  <2> QED BY <1>1, <2>1, GotoType DEF TypeOK, SpuriousWakeup, local_vars, token_vars, client_vars
<1>2. CASE UNCHANGED vars BY <1>2 DEF TypeOK, vars, local_vars, token_vars, client_vars
<1> QED BY <1>1, <1>2, WorkerStepType, WakerStepType, TaskStepType, HandlerStepType, RestartType
  DEF Next, Terminated

\* Every variable keeps its type: tasks are never dequeued from an empty queue,
\* and the totals in the token stay integers under the differences added to them.
THEOREM TypeCorrect == Spec => []TypeOK
BY TypeInit, TypeNext, PTL DEF Spec

-----------------------------------------------------------------------------
(* What the building blocks of the actions do to one thread.               *)

LEMMA GotoValue ==
  ASSUME TypeOK, NEW p \in Proc, NEW t \in Thread, NEW label, Goto(p, t, label),
         NEW q \in Proc, NEW u \in Thread
  PROVE  pc'[q][u] = IF q = p /\ u = t THEN label ELSE pc[q][u]
<1>1. pc \in [Proc -> [Thread -> Labels]] BY DEF TypeOK
<1> QED BY <1>1 DEF Goto

LEMMA SignalledValue ==
  ASSUME TypeOK, NEW p \in Proc, NEW S, NEW u \in Thread
  PROVE  Signalled(p, S)[u] = IF u \in S /\ pc[p][u] = "wait" THEN "woken" ELSE pc[p][u]
BY DEF Signalled, At

\* A step of the system other than a restart never clears done.
LEMMA DoneGrows ==
  ASSUME TypeOK, Next, ~Restart, NEW p \in Proc, done[p]
  PROVE  done'[p]
<1>0. done \in [Proc -> BOOLEAN] BY DEF TypeOK
<1>1. ASSUME NEW q \in Proc, NEW i \in Cpu, WorkerStep(q, i) PROVE done'[p]
  <2>1. CASE EndDone(q, i) BY <1>0, <2>1 DEF EndDone, token_vars, ForwardToken, DeclareDone
  <2> QED BY <1>0, <1>1, <2>1 DEF WorkerStep, GetTask, NoTask, FinishTask, BeginDone, LockDone,
      StillNothing, CancelCriticalSection, CancelledCriticalSection, WakeUp, LeaveDone
<1>2. ASSUME NEW q \in Proc, NEW t \in Thread, WakerStep(q, t) \/ TaskStep(q, t)
      PROVE done'[p] BY <1>0, <1>2 DEF WakerStep, TaskStep, CancelTest, Cancel, CancelOneTest, CancelOne,
     AddTaskLocal, AddTaskRemote
<1>3. ASSUME NEW q \in Proc, NEW h \in Handlers, HandlerStep(q, h) PROVE done'[p]
  <2>1. CASE ReceiveTheToken(q, h)
    BY <1>0, <2>1 DEF ReceiveTheToken, token_vars, ForwardToken, DeclareDone
  <2>2. CASE ForceDone(q, h) BY <1>0, <2>2 DEF ForceDone
  <2> QED BY <1>0, <1>3, <2>1, <2>2 DEF HandlerStep, ReceiveTask, CallReturns
<1>4. ASSUME NEW q \in Proc, NEW i \in Cpu, SpuriousWakeup(q, i) PROVE done'[p]
  BY <1>0, <1>4 DEF SpuriousWakeup
<1> QED BY <1>1, <1>2, <1>3, <1>4 DEF Next, Terminated, vars

-----------------------------------------------------------------------------
(* Who sleeps.                                                             *)

\* A worker marked as sleeping is inside cond.wait(); after consensus it may
\* also be on its way out, or out.
AsleepAt(p, i) ==
  \/ pc[p][i] \in {"wait", "woken"}
  \/ done[p] /\ pc[p][i] \in {"leave", "exit"}

AsleepInside == \A p \in Proc, i \in Cpu : sleeping[p][i] => AsleepAt(p, i)

\* A thread that moves between labels outside cond.wait() disturbs nobody.
LEMMA AsleepMove ==
  ASSUME TypeOK, AsleepInside, NEW p \in Proc, NEW t \in Thread, NEW label,
         Goto(p, t, label),
         t \in Cpu => ~sleeping[p][t] \/ label \in {"wait", "woken"},
         \A q \in Proc : done[q] => done'[q],
         UNCHANGED sleeping
  PROVE  AsleepInside'
<1> SUFFICES ASSUME NEW q \in Proc, NEW j \in Cpu, sleeping'[q][j]
             PROVE  AsleepAt(q, j)' BY DEF AsleepInside
<1>1. sleeping[q][j] /\ AsleepAt(q, j) /\ j \in Thread BY DEF AsleepInside, Thread
<1>2. pc'[q][j] = IF q = p /\ j = t THEN label ELSE pc[q][j] BY <1>1, GotoValue
<1> QED BY <1>1, <1>2 DEF AsleepAt

\* A worker may leave although it is marked as sleeping when done is set.
LEMMA AsleepLeave ==
  ASSUME TypeOK, AsleepInside, NEW p \in Proc, NEW t \in Thread, NEW label,
         Goto(p, t, label), done[p], label \in {"leave", "exit"},
         \A q \in Proc : done[q] => done'[q],
         UNCHANGED sleeping
  PROVE  AsleepInside'
<1> SUFFICES ASSUME NEW q \in Proc, NEW j \in Cpu, sleeping'[q][j]
             PROVE  AsleepAt(q, j)' BY DEF AsleepInside
<1>1. sleeping[q][j] /\ AsleepAt(q, j) /\ j \in Thread BY DEF AsleepInside, Thread
<1>2. pc'[q][j] = IF q = p /\ j = t THEN label ELSE pc[q][j] BY <1>1, GotoValue
<1> QED BY <1>1, <1>2 DEF AsleepAt

\* Nobody is asleep on a machine whose sleepers have all been woken.
LEMMA AsleepWake ==
  ASSUME TypeOK, AsleepInside, NEW p \in Proc,
         \A j \in Cpu : ~sleeping'[p][j],
         \A q \in Proc \ {p} : sleeping'[q] = sleeping[q] /\ pc'[q] = pc[q],
         \A q \in Proc : done[q] => done'[q]
  PROVE  AsleepInside' BY DEF AsleepInside, AsleepAt

LEMMA AsleepEndDone ==
  ASSUME TypeOK, AsleepInside, NEW p \in Proc, NEW i \in Cpu, EndDone(p, i),
         \A q \in Proc : done[q] => done'[q]
  PROVE  AsleepInside'
<1>0. i \in Thread /\ pc[p][i] = "end" BY DEF Thread, EndDone, At
<1>1. CASE done[p] BY <1>0, <1>1, AsleepLeave DEF EndDone, local_vars
<1>2. CASE sleeping' = [sleeping EXCEPT ![p][i] = TRUE] /\ Goto(p, i, "wait")
  <2> SUFFICES ASSUME NEW q \in Proc, NEW j \in Cpu, sleeping'[q][j]
               PROVE  AsleepAt(q, j)' BY DEF AsleepInside
  <2>1. j \in Thread BY DEF Thread
  <2>2. pc'[q][j] = IF q = p /\ j = i THEN "wait" ELSE pc[q][j] BY <1>0, <1>2, <2>1, GotoValue
  <2>3. (q = p /\ j = i) \/ sleeping[q][j] BY <1>2 DEF TypeOK
  <2> QED BY <2>2, <2>3 DEF AsleepInside, AsleepAt
<1>3. CASE /\ DeclareDone(p, cur_token[p], token_in_flight)
           /\ sleeping' = [sleeping EXCEPT ![p] = [j \in Cpu |-> j = i]]
           /\ pc' = [pc EXCEPT ![p] =
                       [Signalled(p, Sleepers(p)) EXCEPT ![i] = "leave"]]
  <2> SUFFICES ASSUME NEW q \in Proc, NEW j \in Cpu, sleeping'[q][j]
               PROVE  AsleepAt(q, j)' BY DEF AsleepInside
  <2>1. CASE q = p
    <3>1. j = i BY <1>3, <2>1 DEF TypeOK
    <3>2. pc'[p][i] = "leave" BY <1>0, <1>3, SignalledType DEF TypeOK
    <3>3. done'[p] BY <1>3 DEF DeclareDone, TypeOK
    <3> QED BY <2>1, <3>1, <3>2, <3>3 DEF AsleepAt
  <2>2. CASE q # p BY <1>3, <2>2 DEF AsleepInside, AsleepAt, TypeOK
  <2> QED BY <2>1, <2>2
<1> QED BY <1>1, <1>2, <1>3 DEF EndDone

LEMMA AsleepWorker ==
  ASSUME TypeOK, AsleepInside, Next, ~Restart, NEW p \in Proc, NEW i \in Cpu,
         WorkerStep(p, i)
  PROVE  AsleepInside'
<1>0. /\ i \in Thread
      /\ \A q \in Proc : done[q] => done'[q]
      /\ sleeping[p][i] => AsleepAt(p, i) BY DoneGrows DEF Thread, AsleepInside
<1> USE DEF AsleepAt, At, local_vars
<1>1. CASE GetTask(p, i) BY <1>0, <1>1, AsleepMove DEF GetTask
<1>2. CASE NoTask(p, i) BY <1>0, <1>2, AsleepMove DEF NoTask
<1>3. CASE FinishTask(p, i) BY <1>0, <1>3, AsleepMove DEF FinishTask
<1>4. CASE BeginDone(p, i) BY <1>0, <1>4, AsleepMove DEF BeginDone
<1>5. CASE LockDone(p, i) BY <1>0, <1>5, AsleepMove DEF LockDone
<1>6. CASE StillNothing(p, i) BY <1>0, <1>6, AsleepMove DEF StillNothing
<1>7. CASE CancelCriticalSection(p, i) BY <1>0, <1>7, AsleepMove DEF CancelCriticalSection
<1>8. CASE CancelledCriticalSection(p, i) BY <1>0, <1>8, AsleepMove DEF CancelledCriticalSection
<1>9. CASE EndDone(p, i) BY <1>0, <1>9, AsleepEndDone
<1>10. CASE WakeUp(p, i)
  <2>1. CASE done[p] BY <1>0, <1>10, <2>1, AsleepLeave DEF WakeUp
  <2>2. CASE ~done[p] /\ sleeping[p][i] BY <1>0, <1>10, <2>2, AsleepMove DEF WakeUp
  <2>3. CASE ~done[p] /\ ~sleeping[p][i] BY <1>0, <1>10, <2>3, AsleepMove DEF WakeUp
  <2> QED BY <2>1, <2>2, <2>3
<1>11. CASE LeaveDone(p, i)
  <2>1. CASE done[p] BY <1>0, <1>11, <2>1, AsleepLeave DEF LeaveDone
  <2>2. CASE ~done[p] BY <1>0, <1>11, <2>2, AsleepMove DEF LeaveDone
  <2> QED BY <2>1, <2>2
<1> QED BY <1>1, <1>2, <1>3, <1>4, <1>5, <1>6, <1>7, <1>8, <1>9, <1>10, <1>11 DEF WorkerStep

LEMMA AsleepWaker ==
  ASSUME TypeOK, AsleepInside, Next, ~Restart, NEW p \in Proc, NEW t \in Thread,
         WakerStep(p, t)
  PROVE  AsleepInside'
<1>0. /\ \A q \in Proc : done[q] => done'[q]
      /\ t \in Cpu => (sleeping[p][t] => AsleepAt(p, t)) BY DoneGrows DEF AsleepInside
<1> USE DEF AsleepAt, At, local_vars
<1>1. CASE CancelTest(p, t) BY <1>0, <1>1, AsleepMove DEF CancelTest
<1>2. CASE Cancel(p, t)
  <2>1. CASE numactive[p] < NCpus
    <3>1. /\ WakeSleepers(p)
          /\ pc' = [pc EXCEPT ![p] = [Signalled(p, Sleepers(p)) EXCEPT ![t] = Caller(t)]]
      BY <1>2, <2>1 DEF Cancel
    <3>2. \A j \in Cpu : ~sleeping'[p][j] BY <3>1 DEF WakeSleepers, TypeOK
    <3>3. \A q \in Proc \ {p} : sleeping'[q] = sleeping[q] /\ pc'[q] = pc[q]
      BY <3>1 DEF WakeSleepers, TypeOK
    <3> QED BY <1>0, <3>2, <3>3, AsleepWake
  <2>2. CASE ~(numactive[p] < NCpus) BY <1>0, <1>2, <2>2, AsleepMove DEF Cancel
  <2> QED BY <2>1, <2>2
<1>3. CASE CancelOneTest(p, t) BY <1>0, <1>3, AsleepMove DEF CancelOneTest
<1>4. CASE CancelOne(p, t)
  <2>1. CASE sleeping[p][CpuHint]
    <3>1. /\ sleeping' = [sleeping EXCEPT ![p][CpuHint] = FALSE]
          /\ pc' = [pc EXCEPT ![p] = [Signalled(p, {CpuHint}) EXCEPT ![t] = Caller(t)]]
          /\ pc[p][t] = "cancel_one locked" BY <1>4, <2>1 DEF CancelOne
    <3> SUFFICES ASSUME NEW q \in Proc, NEW j \in Cpu, sleeping'[q][j]
                 PROVE  AsleepAt(q, j)' BY DEF AsleepInside
    <3>2a. sleeping[q][j] BY <3>1 DEF TypeOK
    <3>2. sleeping[q][j] /\ AsleepAt(q, j) BY <3>2a DEF AsleepInside
    <3>3. CASE q # p BY <1>0, <3>1, <3>2, <3>3 DEF TypeOK
    <3>4. CASE q = p
      <4>1. j # CpuHint BY <3>1, <3>4 DEF TypeOK
      <4>2. j # t /\ j \in Thread BY <3>1, <3>2, <3>4 DEF Thread
      <4>3. pc'[p][j] = Signalled(p, {CpuHint})[j] BY <3>1, <4>2, SignalledType DEF TypeOK
      <4>4. pc'[p][j] = pc[p][j] BY <4>1, <4>2, <4>3, SignalledValue
      <4> QED BY <1>0, <3>2, <3>4, <4>4
    <3> QED BY <3>3, <3>4
  <2>2. CASE ~sleeping[p][CpuHint] BY <1>0, <1>4, <2>2, AsleepMove DEF CancelOne
  <2> QED BY <2>1, <2>2
<1> QED BY <1>1, <1>2, <1>3, <1>4 DEF WakerStep

LEMMA AsleepTask ==
  ASSUME TypeOK, AsleepInside, Next, ~Restart, NEW p \in Proc, NEW t \in Thread,
         TaskStep(p, t)
  PROVE  AsleepInside'
<1>0. /\ \A q \in Proc : done[q] => done'[q]
      /\ t \in Cpu => (sleeping[p][t] => AsleepAt(p, t)) BY DoneGrows DEF AsleepInside
<1>1. CASE AddTaskLocal(p, t)
  <2>1. PICK w \in Wakers : Goto(p, t, w) BY <1>1 DEF AddTaskLocal
  <2>2. t \in Cpu => ~sleeping[p][t] BY <1>0, <1>1 DEF AddTaskLocal, Creating, At, Caller, AsleepAt
  <2> QED BY <1>0, <1>1, <2>1, <2>2, AsleepMove DEF AddTaskLocal, local_vars
<1>2. ASSUME NEW q \in Proc, AddTaskRemote(p, t, q) PROVE AsleepInside'
  BY <1>0, <1>2 DEF AddTaskRemote, AsleepInside, AsleepAt, local_vars
<1> QED BY <1>1, <1>2 DEF TaskStep

LEMMA AsleepHandler ==
  ASSUME TypeOK, AsleepInside, Next, ~Restart, NEW p \in Proc, NEW h \in Handlers,
         HandlerStep(p, h)
  PROVE  AsleepInside'
<1>0. /\ h \in Thread /\ h \notin Cpu
      /\ \A q \in Proc : done[q] => done'[q] BY ConstantsAssumption, DoneGrows DEF Thread, Cpu
<1> USE DEF local_vars
<1>1. CASE ReceiveTask(p, h) BY <1>0, <1>1, AsleepMove DEF ReceiveTask
<1>2. CASE ReceiveTheToken(p, h)
  <2>1. CASE UNCHANGED <<sleeping, pc>> BY <1>0, <2>1 DEF AsleepInside, AsleepAt
  <2>2. CASE WakeSleepers(p) /\ pc' = [pc EXCEPT ![p] = Signalled(p, Sleepers(p))]
    BY <2>2, <1>0, AsleepWake DEF WakeSleepers, TypeOK
  <2> QED BY <1>2, <2>1, <2>2 DEF ReceiveTheToken
<1>3. CASE ForceDone(p, h) BY <1>0, <1>3, AsleepMove DEF ForceDone
<1>4. CASE CallReturns(p, h) BY <1>0, <1>4, AsleepMove DEF CallReturns
<1> QED BY <1>1, <1>2, <1>3, <1>4 DEF HandlerStep

LEMMA AsleepNext == TypeOK /\ AsleepInside /\ [Next]_vars => AsleepInside'
<1> SUFFICES ASSUME TypeOK, AsleepInside, [Next]_vars PROVE AsleepInside' OBVIOUS
<1>1. CASE Restart BY <1>1 DEF Restart, AsleepInside
<1>2. CASE UNCHANGED vars BY <1>2 DEF AsleepInside, AsleepAt, vars, local_vars
<1>3. ASSUME Next, ~Restart, NEW p \in Proc, NEW i \in Cpu, SpuriousWakeup(p, i)
      PROVE  AsleepInside' BY <1>3, DoneGrows, AsleepMove DEF SpuriousWakeup, Thread, local_vars
<1> QED BY <1>1, <1>2, <1>3, AsleepWorker, AsleepWaker, AsleepTask, AsleepHandler DEF Next, Terminated

-----------------------------------------------------------------------------
(* numactive.                                                              *)

\* How a step can change who sleeps, and the counter with it.
SleepChange(p) ==
  \/ WakeSleepers(p)
  \/ \E i \in Cpu :
       /\ ~sleeping[p][i]
       /\ numactive' = [numactive EXCEPT ![p] = @ - 1]
       /\ sleeping' = [sleeping EXCEPT ![p][i] = TRUE]
  \/ \E i \in Cpu :
       /\ ~sleeping[p][i]
       /\ numactive' = [numactive EXCEPT ![p] = @ - 1 + Cardinality(Sleepers(p))]
       /\ sleeping' = [sleeping EXCEPT ![p] = [j \in Cpu |-> j = i]]
  \/ \E i \in Cpu :
       /\ sleeping[p][i]
       /\ numactive' = [numactive EXCEPT ![p] = @ + 1]
       /\ sleeping' = [sleeping EXCEPT ![p][i] = FALSE]

LEMMA NextSleepChange ==
  ASSUME TypeOK, AsleepInside, Next
  PROVE  \/ Restart
         \/ UNCHANGED <<numactive, sleeping>>
         \/ \E p \in Proc : SleepChange(p)
<1> USE DEF local_vars
<1>1. ASSUME NEW p \in Proc, NEW i \in Cpu, EndDone(p, i)
      PROVE  UNCHANGED <<numactive, sleeping>> \/ SleepChange(p)
  <2>1. ~done[p] => ~sleeping[p][i] BY <1>1 DEF EndDone, At, AsleepInside, AsleepAt
  <2> QED BY <1>1, <2>1 DEF EndDone, SleepChange
<1>2. ASSUME NEW p \in Proc, NEW i \in Cpu, WorkerStep(p, i), ~EndDone(p, i)
      PROVE  UNCHANGED <<numactive, sleeping>>
  BY <1>2 DEF WorkerStep, GetTask, NoTask, FinishTask, BeginDone, LockDone,
     StillNothing, CancelCriticalSection, CancelledCriticalSection, WakeUp, LeaveDone
<1>3. ASSUME NEW p \in Proc, NEW t \in Thread, WakerStep(p, t)
      PROVE  UNCHANGED <<numactive, sleeping>> \/ SleepChange(p) BY <1>3, ConstantsAssumption
  DEF WakerStep, CancelTest, Cancel, CancelOneTest, CancelOne, SleepChange
<1>4. ASSUME NEW p \in Proc, NEW t \in Thread, TaskStep(p, t)
      PROVE  UNCHANGED <<numactive, sleeping>> BY <1>4 DEF TaskStep, AddTaskLocal, AddTaskRemote
<1>5. ASSUME NEW p \in Proc, NEW h \in Handlers, HandlerStep(p, h)
      PROVE  UNCHANGED <<numactive, sleeping>> \/ SleepChange(p)
  BY <1>5 DEF HandlerStep, ReceiveTask, ReceiveTheToken, ForceDone, CallReturns, SleepChange
<1>6. ASSUME NEW p \in Proc, NEW i \in Cpu, SpuriousWakeup(p, i)
      PROVE  UNCHANGED <<numactive, sleeping>> BY <1>6 DEF SpuriousWakeup
<1> QED BY <1>1, <1>2, <1>3, <1>4, <1>5, <1>6 DEF Next, Terminated, vars

\* Counting the sleepers of a machine before and after a change.
LEMMA SleepersOther ==
  ASSUME NEW p \in Proc, sleeping'[p] = sleeping[p]
  PROVE  Sleepers(p)' = Sleepers(p) BY DEF Sleepers

LEMMA CountAfterChange ==
  ASSUME TypeOK, NEW p \in Proc, SleepChange(p)
  PROVE  numactive'[p] + Cardinality(Sleepers(p)') = numactive[p] + Cardinality(Sleepers(p))
<1>0. /\ IsFiniteSet(Sleepers(p)) /\ Cardinality(Sleepers(p)) \in Nat
      /\ numactive[p] \in Int BY SleepersFinite DEF TypeOK
<1>1. CASE WakeSleepers(p)
  <2>1. Sleepers(p)' = {} BY <1>1 DEF WakeSleepers, Sleepers, TypeOK
  <2> QED BY <1>0, <1>1, <2>1, FS_EmptySet DEF WakeSleepers, TypeOK
<1>2. ASSUME NEW i \in Cpu, ~sleeping[p][i],
             numactive' = [numactive EXCEPT ![p] = @ - 1],
             sleeping' = [sleeping EXCEPT ![p][i] = TRUE]
      PROVE  numactive'[p] + Cardinality(Sleepers(p)')
               = numactive[p] + Cardinality(Sleepers(p))
  <2>1. Sleepers(p)' = Sleepers(p) \cup {i} /\ i \notin Sleepers(p) BY <1>2 DEF Sleepers, TypeOK
  <2>2. Cardinality(Sleepers(p)') = Cardinality(Sleepers(p)) + 1 BY <1>0, <2>1, FS_AddElement
  <2> QED BY <1>0, <1>2, <2>2 DEF TypeOK
<1>3. ASSUME NEW i \in Cpu, ~sleeping[p][i],
             numactive' = [numactive EXCEPT ![p] = @ - 1 + Cardinality(Sleepers(p))],
             sleeping' = [sleeping EXCEPT ![p] = [j \in Cpu |-> j = i]]
      PROVE  numactive'[p] + Cardinality(Sleepers(p)')
               = numactive[p] + Cardinality(Sleepers(p))
  <2>1. Sleepers(p)' = {i} BY <1>3 DEF Sleepers, TypeOK
  <2>2. Cardinality(Sleepers(p)') = 1 BY <2>1, FS_Singleton
  <2> QED BY <1>0, <1>3, <2>2 DEF TypeOK
<1>4. ASSUME NEW i \in Cpu, sleeping[p][i],
             numactive' = [numactive EXCEPT ![p] = @ + 1],
             sleeping' = [sleeping EXCEPT ![p][i] = FALSE]
      PROVE  numactive'[p] + Cardinality(Sleepers(p)')
               = numactive[p] + Cardinality(Sleepers(p))
  <2>1. Sleepers(p)' = Sleepers(p) \ {i} /\ i \in Sleepers(p) BY <1>4 DEF Sleepers, TypeOK
  <2>2. Cardinality(Sleepers(p)') = Cardinality(Sleepers(p)) - 1 BY <1>0, <2>1, FS_RemoveElement
  <2> QED BY <1>0, <1>4, <2>2 DEF TypeOK
<1> QED BY <1>1, <1>2, <1>3, <1>4 DEF SleepChange

LEMMA CountNext ==
  TypeOK /\ AsleepInside /\ NumActiveCountsAwake /\ [Next]_vars
    => NumActiveCountsAwake'
<1> SUFFICES ASSUME TypeOK, AsleepInside, NumActiveCountsAwake, [Next]_vars,
                    NEW q \in Proc
             PROVE  numactive'[q] + Cardinality(Sleepers(q)') = NCpus BY DEF NumActiveCountsAwake
<1>0. numactive[q] + Cardinality(Sleepers(q)) = NCpus BY DEF NumActiveCountsAwake
<1>1. CASE Restart
  <2>1. Sleepers(q)' = {} /\ numactive'[q] = NCpus BY <1>1 DEF Restart, Sleepers
  <2> QED BY <2>1, FS_EmptySet, ConstantsAssumption
<1>2. CASE UNCHANGED <<numactive, sleeping>> BY <1>0, <1>2, SleepersOther
<1>3. ASSUME NEW p \in Proc, SleepChange(p)
      PROVE  numactive'[q] + Cardinality(Sleepers(q)') = NCpus
  <2>1. CASE q = p BY <1>0, <1>3, <2>1, CountAfterChange
  <2>2. CASE q # p
    <3>1. numactive'[q] = numactive[q] /\ sleeping'[q] = sleeping[q]
      BY <1>3, <2>2 DEF SleepChange, WakeSleepers, TypeOK
    <3> QED BY <1>0, <3>1, SleepersOther
  <2> QED BY <2>1, <2>2
<1>4. CASE UNCHANGED vars BY <1>2, <1>4 DEF vars, local_vars
<1> QED BY <1>1, <1>2, <1>3, <1>4, NextSleepChange

LEMMA SleepInit == Init => AsleepInside /\ NumActiveCountsAwake
<1> SUFFICES ASSUME Init PROVE AsleepInside /\ NumActiveCountsAwake OBVIOUS
<1>1. AsleepInside BY DEF Init, AsleepInside
<1>2. ASSUME NEW p \in Proc PROVE numactive[p] + Cardinality(Sleepers(p)) = NCpus
  <2>1. Sleepers(p) = {} /\ numactive[p] = NCpus BY DEF Init, Sleepers
  <2> QED BY <2>1, FS_EmptySet, ConstantsAssumption
<1> QED BY <1>1, <1>2 DEF NumActiveCountsAwake

\* numactive is exact on every machine at every step, whatever wakeups, tokens
\* and restarts interleave: the claim of the comment in
\* end_done_critical_section().
THEOREM CounterExact == Spec => []NumActiveCountsAwake
<1>1. TypeOK /\ AsleepInside /\ NumActiveCountsAwake /\ [Next]_vars
        => (TypeOK /\ AsleepInside /\ NumActiveCountsAwake)' BY TypeNext, AsleepNext, CountNext
<1> QED BY <1>1, TypeInit, SleepInit, PTL DEF Spec

-----------------------------------------------------------------------------
(* Where a worker is, whether it holds m and whether critical is set.      *)

HoldsLabels == {"critical", "end"}
CriticalLabels == {"begin", "critical", "uncritical", "end", "wait", "woken", "leave"}

LabelledAt(p, i) ==
  /\ m[p] = i <=> pc[p][i] \in HoldsLabels
  /\ critical[p][i] <=> pc[p][i] \in CriticalLabels

Labelled == \A p \in Proc, i \in Cpu : LabelledAt(p, i)

LEMMA LabelledMove ==
  ASSUME TypeOK, Labelled, NEW p \in Proc, NEW t \in Thread, NEW label,
         Goto(p, t, label),
         t \in Cpu => pc[p][t] \in HoldsLabels <=> label \in HoldsLabels,
         t \in Cpu => pc[p][t] \in CriticalLabels <=> label \in CriticalLabels,
         UNCHANGED <<m, critical>>
  PROVE  Labelled'
<1> SUFFICES ASSUME NEW q \in Proc, NEW j \in Cpu PROVE LabelledAt(q, j)' BY DEF Labelled
<1>1. LabelledAt(q, j) /\ j \in Thread BY DEF Labelled, Thread
<1>2. pc'[q][j] = IF q = p /\ j = t THEN label ELSE pc[q][j] BY <1>1, GotoValue
<1> QED BY <1>1, <1>2 DEF LabelledAt

\* The move of one worker that also changes m or critical for itself.
LEMMA LabelledOwn ==
  ASSUME TypeOK, Labelled, NEW p \in Proc, NEW i \in Cpu, NEW label,
         Goto(p, i, label),
         \A q \in Proc, j \in Cpu : ~(q = p /\ j = i) =>
            /\ m'[q] = j <=> m[q] = j
            /\ critical'[q][j] = critical[q][j],
         m'[p] = i <=> label \in HoldsLabels,
         critical'[p][i] <=> label \in CriticalLabels
  PROVE  Labelled'
<1> SUFFICES ASSUME NEW q \in Proc, NEW j \in Cpu PROVE LabelledAt(q, j)' BY DEF Labelled
<1>1. LabelledAt(q, j) /\ j \in Thread /\ i \in Thread BY DEF Labelled, Thread
<1>2. pc'[q][j] = IF q = p /\ j = i THEN label ELSE pc[q][j] BY <1>1, GotoValue
<1> QED BY <1>1, <1>2 DEF LabelledAt

\* A signal moves workers inside cond.wait() only.
LEMMA LabelledSignal ==
  ASSUME TypeOK, Labelled, NEW p \in Proc, NEW S,
         pc' = [pc EXCEPT ![p] = Signalled(p, S)],
         UNCHANGED <<m, critical>>
  PROVE  Labelled'
<1> SUFFICES ASSUME NEW q \in Proc, NEW j \in Cpu PROVE LabelledAt(q, j)' BY DEF Labelled
<1>1. LabelledAt(q, j) /\ j \in Thread BY DEF Labelled, Thread
<1>2. q = p => pc'[q][j] = IF j \in S /\ pc[p][j] = "wait" THEN "woken" ELSE pc[p][j]
  BY <1>1, SignalledValue DEF TypeOK
<1>3. q # p => pc'[q][j] = pc[q][j] BY DEF TypeOK
<1> QED BY <1>1, <1>2, <1>3 DEF LabelledAt, HoldsLabels, CriticalLabels

LEMMA LabelledSignalMove ==
  ASSUME TypeOK, Labelled, NEW p \in Proc, NEW t \in Thread, NEW S, NEW label,
         pc' = [pc EXCEPT ![p] = [Signalled(p, S) EXCEPT ![t] = label]],
         t \in Cpu => /\ pc[p][t] \notin CriticalLabels
                     /\ label \notin CriticalLabels,
         UNCHANGED <<m, critical>>
  PROVE  Labelled'
<1> SUFFICES ASSUME NEW q \in Proc, NEW j \in Cpu PROVE LabelledAt(q, j)' BY DEF Labelled
<1>1. LabelledAt(q, j) /\ j \in Thread BY DEF Labelled, Thread
<1>2. Signalled(p, S) \in [Thread -> Labels] BY SignalledType
<1>3. CASE q = p /\ j = t BY <1>1, <1>2, <1>3 DEF LabelledAt, HoldsLabels, CriticalLabels, TypeOK
<1>4. CASE q = p /\ j # t
  <2>1. pc'[q][j] = IF j \in S /\ pc[p][j] = "wait" THEN "woken" ELSE pc[p][j]
    BY <1>1, <1>2, <1>4, SignalledValue DEF TypeOK
  <2> QED BY <1>1, <1>4, <2>1 DEF LabelledAt, HoldsLabels, CriticalLabels
<1>5. CASE q # p BY <1>1, <1>5 DEF LabelledAt, TypeOK
<1> QED BY <1>3, <1>4, <1>5

LEMMA LabelledEndDone ==
  ASSUME TypeOK, Labelled, NEW p \in Proc, NEW i \in Cpu, EndDone(p, i)
  PROVE  Labelled'
<1>1. /\ m' = [m EXCEPT ![p] = NoOne] /\ UNCHANGED critical
      /\ pc[p][i] = "end" /\ LabelledAt(p, i) /\ i \in Thread BY DEF EndDone, Labelled, At, Thread
<1>2. /\ m[p] = i /\ critical[p][i]
      /\ \A j \in Cpu : m'[p] # j
      /\ \A q \in Proc : q # p => m'[q] = m[q]
  BY <1>1 DEF LabelledAt, HoldsLabels, CriticalLabels, NoOne, Cpu, TypeOK
<1>3. CASE Goto(p, i, "leave") \/ Goto(p, i, "wait")
  BY <1>1, <1>2, <1>3, LabelledOwn DEF HoldsLabels, CriticalLabels
<1>4. CASE pc' = [pc EXCEPT ![p] =
                   [Signalled(p, Sleepers(p)) EXCEPT ![i] = "leave"]]
  <2> SUFFICES ASSUME NEW q \in Proc, NEW j \in Cpu PROVE LabelledAt(q, j)' BY DEF Labelled
  <2>1. LabelledAt(q, j) /\ j \in Thread BY DEF Labelled, Thread
  <2>2. Signalled(p, Sleepers(p)) \in [Thread -> Labels] BY SignalledType
  <2>3. CASE q = p /\ j = i
    BY <1>1, <1>2, <1>4, <2>2, <2>3 DEF LabelledAt, HoldsLabels, CriticalLabels, TypeOK
  <2>4. CASE q = p /\ j # i
    <3>1. pc'[q][j] = IF j \in Sleepers(p) /\ pc[p][j] = "wait"
                      THEN "woken" ELSE pc[p][j] BY <1>4, <2>1, <2>2, <2>4, SignalledValue DEF TypeOK
    <3> QED BY <1>1, <1>2, <2>1, <2>4, <3>1 DEF LabelledAt, HoldsLabels, CriticalLabels
  <2>5. CASE q # p BY <1>1, <1>2, <1>4, <2>1, <2>5 DEF LabelledAt, TypeOK
  <2> QED BY <2>3, <2>4, <2>5
<1> QED BY <1>3, <1>4 DEF EndDone

LEMMA LabelledWorker ==
  ASSUME TypeOK, Labelled, NEW p \in Proc, NEW i \in Cpu, WorkerStep(p, i)
  PROVE  Labelled'
<1>0. i \in Thread /\ LabelledAt(p, i) BY DEF Thread, Labelled
<1> USE DEF At, local_vars, HoldsLabels, CriticalLabels
<1>1. CASE GetTask(p, i) BY <1>0, <1>1, LabelledMove DEF GetTask
<1>2. CASE NoTask(p, i) BY <1>0, <1>2, LabelledMove DEF NoTask
<1>3. CASE FinishTask(p, i) BY <1>0, <1>3, LabelledMove DEF FinishTask
<1>4. CASE BeginDone(p, i)
  <2>1. /\ UNCHANGED m /\ critical' = [critical EXCEPT ![p][i] = TRUE]
        /\ Goto(p, i, "begin") /\ m[p] # i BY <1>0, <1>4 DEF BeginDone, LabelledAt
  <2>2. /\ critical'[p][i]
        /\ \A q \in Proc, j \in Cpu : ~(q = p /\ j = i) => critical'[q][j] = critical[q][j]
    BY <2>1 DEF TypeOK
  <2> QED BY <2>1, <2>2, LabelledOwn
<1>5. CASE LockDone(p, i)
  <2>1. /\ UNCHANGED critical /\ m' = [m EXCEPT ![p] = i] /\ m[p] = NoOne
        /\ Goto(p, i, "critical") /\ critical[p][i] BY <1>0, <1>5 DEF LockDone, LabelledAt
  <2>2. /\ m'[p] = i
        /\ \A q \in Proc, j \in Cpu : ~(q = p /\ j = i) => (m'[q] = j <=> m[q] = j)
    BY <2>1 DEF TypeOK, NoOne, Cpu
  <2> QED BY <2>1, <2>2, LabelledOwn
<1>6. CASE StillNothing(p, i) BY <1>0, <1>6, LabelledMove DEF StillNothing
<1>7. CASE CancelCriticalSection(p, i)
  <2>1. /\ UNCHANGED critical /\ m' = [m EXCEPT ![p] = NoOne] /\ m[p] = i
        /\ Goto(p, i, "uncritical") /\ critical[p][i] BY <1>0, <1>7 DEF CancelCriticalSection, LabelledAt
  <2>2. /\ m'[p] # i
        /\ \A q \in Proc, j \in Cpu : ~(q = p /\ j = i) => (m'[q] = j <=> m[q] = j)
    BY <2>1 DEF TypeOK, NoOne, Cpu
  <2> QED BY <2>1, <2>2, LabelledOwn
<1>8. CASE CancelledCriticalSection(p, i)
  <2>1. /\ UNCHANGED m /\ critical' = [critical EXCEPT ![p][i] = FALSE]
        /\ Goto(p, i, "work") /\ m[p] # i BY <1>0, <1>8 DEF CancelledCriticalSection, LabelledAt
  <2>2. /\ ~critical'[p][i]
        /\ \A q \in Proc, j \in Cpu : ~(q = p /\ j = i) => critical'[q][j] = critical[q][j]
    BY <2>1 DEF TypeOK
  <2> QED BY <2>1, <2>2, LabelledOwn
<1>9. CASE EndDone(p, i) BY <1>9, LabelledEndDone
<1>10. CASE WakeUp(p, i) BY <1>0, <1>10, LabelledMove DEF WakeUp
<1>11. CASE LeaveDone(p, i)
  <2>1. /\ UNCHANGED m /\ critical' = [critical EXCEPT ![p][i] = FALSE]
        /\ Goto(p, i, "exit") \/ Goto(p, i, "run")
        /\ m[p] # i BY <1>0, <1>11 DEF LeaveDone, LabelledAt
  <2>2. /\ ~critical'[p][i]
        /\ \A q \in Proc, j \in Cpu : ~(q = p /\ j = i) => critical'[q][j] = critical[q][j]
    BY <2>1 DEF TypeOK
  <2> QED BY <2>1, <2>2, LabelledOwn
<1> QED BY <1>1, <1>2, <1>3, <1>4, <1>5, <1>6, <1>7, <1>8, <1>9, <1>10, <1>11 DEF WorkerStep

LEMMA LabelledNext == TypeOK /\ Labelled /\ [Next]_vars => Labelled'
<1> SUFFICES ASSUME TypeOK, Labelled, [Next]_vars PROVE Labelled' OBVIOUS
<1> USE DEF At, local_vars, HoldsLabels, CriticalLabels
<1>1. ASSUME NEW p \in Proc, NEW t \in Thread, WakerStep(p, t) PROVE Labelled'
  <2>1. CASE CancelTest(p, t) BY <2>1, LabelledMove DEF CancelTest, Caller
  <2>2. CASE Cancel(p, t) BY <2>2, LabelledMove, LabelledSignalMove DEF Cancel, Caller
  <2>3. CASE CancelOneTest(p, t) BY <2>3, LabelledMove DEF CancelOneTest, Caller
  <2>4. CASE CancelOne(p, t)
    <3>1. CASE sleeping[p][CpuHint]
      <4>1. /\ pc' = [pc EXCEPT ![p] = [Signalled(p, {CpuHint}) EXCEPT ![t] = Caller(t)]]
            /\ UNCHANGED <<m, critical>> /\ pc[p][t] = "cancel_one locked" BY <2>4, <3>1 DEF CancelOne
      <4> QED BY <4>1, LabelledSignalMove DEF Caller
    <3>2. CASE ~sleeping[p][CpuHint] BY <2>4, <3>2, LabelledMove DEF CancelOne, Caller
    <3> QED BY <3>1, <3>2
  <2> QED BY <1>1, <2>1, <2>2, <2>3, <2>4 DEF WakerStep
<1>2. ASSUME NEW p \in Proc, NEW t \in Thread, TaskStep(p, t) PROVE Labelled'
  <2>1. CASE AddTaskLocal(p, t)
    BY <2>1, ConstantsAssumption, LabelledMove DEF AddTaskLocal, Creating, Caller
  <2>2. ASSUME NEW q \in Proc, AddTaskRemote(p, t, q) PROVE Labelled'
    BY <2>2 DEF AddTaskRemote, Labelled, LabelledAt
  <2> QED BY <1>2, <2>1, <2>2 DEF TaskStep
<1>3. ASSUME NEW p \in Proc, NEW h \in Handlers, HandlerStep(p, h) PROVE Labelled'
  <2>0. h \in Thread /\ h \notin Cpu BY ConstantsAssumption DEF Thread, Cpu
  <2>1. CASE ReceiveTask(p, h) BY <2>0, <2>1, LabelledMove DEF ReceiveTask
  <2>2. CASE ReceiveTheToken(p, h) BY <2>2, LabelledSignal DEF ReceiveTheToken, Labelled, LabelledAt
  <2>3. CASE ForceDone(p, h) BY <2>0, <2>3, LabelledMove DEF ForceDone
  <2>4. CASE CallReturns(p, h) BY <2>0, <2>4, LabelledMove DEF CallReturns
  <2> QED BY <1>3, <2>1, <2>2, <2>3, <2>4 DEF HandlerStep
<1>4. ASSUME NEW p \in Proc, NEW i \in Cpu, SpuriousWakeup(p, i) PROVE Labelled'
  BY <1>4, LabelledMove DEF SpuriousWakeup, Thread
<1>5. CASE Restart BY <1>5 DEF Labelled, Restart, Thread, LabelledAt
<1>6. CASE UNCHANGED vars BY <1>6 DEF Labelled, LabelledAt, vars
<1> QED BY <1>1, <1>2, <1>3, <1>4, <1>5, <1>6, LabelledWorker DEF Next, Terminated

LEMMA LabelledInit == Init => Labelled
BY DEF Init, Labelled, LabelledAt, HoldsLabels, CriticalLabels, NoOne, Cpu, Thread

-----------------------------------------------------------------------------
(* trying_to_sleep.                                                        *)

InCritical(p) == {i \in Cpu : critical[p][i]}

\* "sum of critical should be the same as trying_to_sleep" (async_consensus.hpp).
TryingCountsCritical == \A p \in Proc : trying_to_sleep[p] = Cardinality(InCritical(p))

LEMMA TryingNext ==
  TypeOK /\ Labelled /\ TryingCountsCritical /\ [Next]_vars => TryingCountsCritical'
<1> SUFFICES ASSUME TypeOK, Labelled, TryingCountsCritical, [Next]_vars
             PROVE  TryingCountsCritical' OBVIOUS
<1>0. ASSUME NEW p \in Proc
      PROVE  /\ IsFiniteSet(InCritical(p)) /\ Cardinality(InCritical(p)) \in Nat
             /\ trying_to_sleep[p] = Cardinality(InCritical(p))
  <2>1. IsFiniteSet(Cpu) /\ InCritical(p) \subseteq Cpu
    BY ConstantsAssumption, FS_Interval DEF Cpu, InCritical
  <2> QED BY <2>1, FS_Subset, FS_CardinalityType DEF TryingCountsCritical
<1>1. CASE UNCHANGED <<trying_to_sleep, critical>> BY <1>1 DEF TryingCountsCritical, InCritical
<1>2. ASSUME NEW p \in Proc, NEW i \in Cpu, BeginDone(p, i)
      PROVE  TryingCountsCritical'
  <2>1. ~critical[p][i] BY <1>2 DEF BeginDone, At, Labelled, LabelledAt, CriticalLabels
  <2>2. InCritical(p)' = InCritical(p) \cup {i} /\ i \notin InCritical(p)
    BY <1>2, <2>1 DEF BeginDone, InCritical, TypeOK
  <2>3. Cardinality(InCritical(p)') = trying_to_sleep'[p]
    <3>1. Cardinality(InCritical(p)') = Cardinality(InCritical(p)) + 1 BY <1>0, <2>2, FS_AddElement
    <3>2. trying_to_sleep'[p] = trying_to_sleep[p] + 1 BY <1>2 DEF BeginDone, TypeOK
    <3> QED BY <1>0, <3>1, <3>2
  <2>4. ASSUME NEW q \in Proc, q # p
        PROVE  Cardinality(InCritical(q)') = trying_to_sleep'[q]
    BY <1>0, <1>2, <2>4 DEF BeginDone, InCritical, TypeOK
  <2> QED BY <2>3, <2>4 DEF TryingCountsCritical
<1>3. ASSUME NEW p \in Proc, NEW i \in Cpu,
             pc[p][i] \in {"uncritical", "leave"},
             trying_to_sleep' = [trying_to_sleep EXCEPT ![p] = @ - 1],
             critical' = [critical EXCEPT ![p][i] = FALSE]
      PROVE  TryingCountsCritical'
  <2>1. critical[p][i] BY <1>3 DEF Labelled, LabelledAt, CriticalLabels
  <2>2. InCritical(p)' = InCritical(p) \ {i} /\ i \in InCritical(p) BY <1>3, <2>1 DEF InCritical, TypeOK
  <2>3. Cardinality(InCritical(p)') = trying_to_sleep'[p]
    <3>1. Cardinality(InCritical(p)') = Cardinality(InCritical(p)) - 1 BY <1>0, <2>2, FS_RemoveElement
    <3>2. trying_to_sleep'[p] = trying_to_sleep[p] - 1 BY <1>3 DEF TypeOK
    <3> QED BY <1>0, <3>1, <3>2
  <2>4. ASSUME NEW q \in Proc, q # p
        PROVE  Cardinality(InCritical(q)') = trying_to_sleep'[q]
    BY <1>0, <1>3, <2>4 DEF InCritical, TypeOK
  <2> QED BY <2>3, <2>4 DEF TryingCountsCritical
<1>4. CASE Restart BY <1>4, FS_EmptySet DEF Restart, InCritical, TryingCountsCritical
<1>5. ASSUME NEW p \in Proc, NEW i \in Cpu, WorkerStep(p, i)
      PROVE  TryingCountsCritical'
  <2>1. CASE CancelledCriticalSection(p, i) BY <1>3, <2>1 DEF CancelledCriticalSection, At
  <2>2. CASE LeaveDone(p, i) BY <1>3, <2>2 DEF LeaveDone, At
  <2>3. CASE EndDone(p, i) BY <1>1, <2>3 DEF EndDone
  <2> QED BY <1>1, <1>2, <1>5, <2>1, <2>2, <2>3
    DEF WorkerStep, GetTask, NoTask, FinishTask, LockDone, StillNothing,
        CancelCriticalSection, WakeUp, local_vars
<1>6. ASSUME NEW p \in Proc, NEW t \in Thread, WakerStep(p, t) \/ TaskStep(p, t)
      PROVE  TryingCountsCritical'
  BY <1>1, <1>6 DEF WakerStep, CancelTest, Cancel, CancelOneTest, CancelOne,
     TaskStep, AddTaskLocal, AddTaskRemote, local_vars
<1>7. ASSUME NEW p \in Proc, NEW h \in Handlers, HandlerStep(p, h)
      PROVE  TryingCountsCritical'
  BY <1>1, <1>7 DEF HandlerStep, ReceiveTask, ReceiveTheToken, ForceDone, CallReturns, local_vars
<1>8. ASSUME NEW p \in Proc, NEW i \in Cpu, SpuriousWakeup(p, i)
      PROVE  TryingCountsCritical' BY <1>1, <1>8 DEF SpuriousWakeup, local_vars
<1>9. CASE UNCHANGED vars BY <1>1, <1>9 DEF vars, local_vars
<1> QED BY <1>4, <1>5, <1>6, <1>7, <1>8, <1>9 DEF Next, Terminated

LEMMA TryingInit == Init => TryingCountsCritical
<1> SUFFICES ASSUME Init, NEW p \in Proc PROVE trying_to_sleep[p] = Cardinality(InCritical(p))
  BY DEF TryingCountsCritical
<1>1. InCritical(p) = {} /\ trying_to_sleep[p] = 0 BY DEF Init, InCritical
<1> QED BY <1>1, FS_EmptySet

-----------------------------------------------------------------------------
(* No lost wakeup.                                                         *)

\* Every worker of p sleeps, or is about to without looking at the queue again.
AllTurnedIn(p) == \A i \in Cpu : sleeping[p][i] \/ pc[p][i] = "end"

\* Some handler brought a task and is still going to wake the workers for it.
WakerComing(p) == \E h \in Handlers : oncall[p][h] = "task" /\ pc[p][h] \in WakerLabels

WakeupAt(p) == queue[p] > 0 /\ ~done[p] /\ AllTurnedIn(p) => WakerComing(p)

Wakeup == \A p \in Proc : WakeupAt(p)

SleepInv == TypeOK /\ AsleepInside /\ NumActiveCountsAwake /\ Labelled
              /\ TryingCountsCritical /\ Wakeup

LEMMA WakeupImplies == Wakeup => NoLostWakeup
BY DEF Wakeup, WakeupAt, NoLostWakeup, AllTurnedIn, WakerComing, Sleepers

\* What the invariants say of a machine whose workers have all turned in.
LEMMA TurnedIn ==
  ASSUME SleepInv, NEW p \in Proc, ~done[p], AllTurnedIn(p)
  PROVE  /\ SomeoneMaySleep(p)
         /\ \A i \in Cpu : critical[p][i] /\ pc[p][i] \in {"wait", "woken", "end"}
         /\ m[p] = NoOne => \A i \in Cpu : sleeping[p][i]
         /\ m[p] = NoOne => numactive[p] < NCpus
<1> USE DEF SleepInv
<1>1. \A i \in Cpu : pc[p][i] \in {"wait", "woken", "end"} BY DEF AllTurnedIn, AsleepInside, AsleepAt
<1>2. \A i \in Cpu : critical[p][i] BY <1>1 DEF Labelled, LabelledAt, CriticalLabels
<1>3. 0 \in Cpu BY ConstantsAssumption DEF Cpu
<1>4. IsFiniteSet(InCritical(p)) /\ 0 \in InCritical(p)
  <2>1. IsFiniteSet(Cpu) /\ InCritical(p) \subseteq Cpu
    BY ConstantsAssumption, FS_Interval DEF Cpu, InCritical
  <2> QED BY <1>2, <1>3, <2>1, FS_Subset DEF InCritical
<1>5. trying_to_sleep[p] > 0 BY <1>4, FS_CardinalityType, FS_EmptySet DEF TryingCountsCritical
<1>6. ASSUME m[p] = NoOne, NEW i \in Cpu PROVE sleeping[p][i]
  BY <1>6 DEF AllTurnedIn, Labelled, LabelledAt, HoldsLabels, NoOne, Cpu
<1>7. ASSUME m[p] = NoOne PROVE numactive[p] < NCpus
  <2>1. 0 \in Sleepers(p) BY <1>3, <1>6, <1>7 DEF Sleepers
  <2>2. Cardinality(Sleepers(p)) > 0 /\ Cardinality(Sleepers(p)) \in Nat
    BY <2>1, SleepersFinite, FS_EmptySet
  <2> QED BY <2>2, ConstantsAssumption DEF NumActiveCountsAwake, TypeOK
<1> QED BY <1>1, <1>2, <1>5, <1>6, <1>7 DEF SomeoneMaySleep

\* A step that adds no task, clears no done flag, puts no worker to bed and takes
\* no handler away from its waking keeps the promise.
LEMMA WakeupKept ==
  ASSUME SleepInv, NEW q \in Proc,
         queue'[q] > 0 => queue[q] > 0,
         ~done'[q] => ~done[q],
         AllTurnedIn(q)' => AllTurnedIn(q),
         WakerComing(q) => WakerComing(q)'
  PROVE  WakeupAt(q)' BY DEF SleepInv, Wakeup, WakeupAt

LEMMA WakeupAwake ==
  ASSUME NEW p \in Proc, NEW i \in Cpu, ~sleeping'[p][i], pc'[p][i] # "end"
  PROVE  WakeupAt(p)' BY DEF WakeupAt, AllTurnedIn

LEMMA WakeupComing ==
  ASSUME NEW p \in Proc, NEW h \in Handlers,
         oncall'[p][h] = "task", pc'[p][h] \in WakerLabels
  PROVE  WakeupAt(p)' BY DEF WakeupAt, WakerComing

\* Nothing of machine q that the promise speaks of changes.
LocalSame(q) ==
  /\ queue'[q] = queue[q] /\ done'[q] = done[q] /\ sleeping'[q] = sleeping[q]
  /\ pc'[q] = pc[q] /\ oncall'[q] = oncall[q]

LEMMA WakeupSame == ASSUME SleepInv, NEW q \in Proc, LocalSame(q) PROVE WakeupAt(q)'
BY DEF SleepInv, Wakeup, WakeupAt, LocalSame, AllTurnedIn, WakerComing

\* Every step but a restart is the business of one machine.
LEMMA WorkerIsLocal ==
  ASSUME TypeOK, NEW p \in Proc, NEW i \in Cpu, WorkerStep(p, i) \/ SpuriousWakeup(p, i),
         NEW q \in Proc, q # p
  PROVE  LocalSame(q)
<1> USE DEF LocalSame, TypeOK, Goto, local_vars, client_vars
<1>1. CASE EndDone(p, i) BY <1>1 DEF EndDone, token_vars, ForwardToken, DeclareDone
<1>2. CASE WorkerStep(p, i) /\ ~EndDone(p, i)
  BY <1>2 DEF WorkerStep, GetTask, NoTask, FinishTask, BeginDone, LockDone,
     StillNothing, CancelCriticalSection, CancelledCriticalSection, WakeUp, LeaveDone
<1>3. CASE SpuriousWakeup(p, i) BY <1>3 DEF SpuriousWakeup
<1> QED BY <1>1, <1>2, <1>3

LEMMA WakerIsLocal ==
  ASSUME TypeOK, NEW p \in Proc, NEW t \in Thread, WakerStep(p, t) \/ TaskStep(p, t),
         NEW q \in Proc, q # p
  PROVE  LocalSame(q)
<1> USE DEF LocalSame, TypeOK, Goto, local_vars, client_vars
<1>1. CASE WakerStep(p, t)
  BY <1>1 DEF WakerStep, CancelTest, Cancel, CancelOneTest, CancelOne, WakeSleepers
<1>2. CASE TaskStep(p, t) BY <1>2 DEF TaskStep, AddTaskLocal, AddTaskRemote
<1> QED BY <1>1, <1>2

LEMMA HandlerIsLocal ==
  ASSUME TypeOK, NEW p \in Proc, NEW h \in Handlers, HandlerStep(p, h),
         NEW q \in Proc, q # p
  PROVE  LocalSame(q)
<1> USE DEF LocalSame, TypeOK, Goto, local_vars, client_vars
<1>1. CASE ReceiveTheToken(p, h) BY <1>1 DEF ReceiveTheToken, ForwardToken, DeclareDone, WakeSleepers
<1>2. CASE HandlerStep(p, h) /\ ~ReceiveTheToken(p, h)
  BY <1>2 DEF HandlerStep, ReceiveTask, ForceDone, CallReturns
<1> QED BY <1>1, <1>2

LEMMA WakeupWorker ==
  ASSUME SleepInv, NEW p \in Proc, NEW i \in Cpu,
         WorkerStep(p, i) \/ SpuriousWakeup(p, i), done[p] => done'[p]
  PROVE  WakeupAt(p)'
<1> USE DEF SleepInv, At, local_vars, client_vars
<1>0. i \in Thread /\ (~done[p] /\ sleeping[p][i] => pc[p][i] \in {"wait", "woken"})
  BY DEF Thread, AsleepInside, AsleepAt
<1>1. CASE done[p] BY <1>1 DEF WakeupAt
<1>2. ASSUME ~done[p], pc[p][i] \notin {"wait", "woken"}, UNCHANGED sleeping,
             NEW label, label # "end", Goto(p, i, label)
      PROVE  WakeupAt(p)' BY <1>0, <1>2, GotoValue, WakeupAwake
<1>3. CASE StillNothing(p, i) BY <1>3 DEF StillNothing, WakeupAt
<1>4. ASSUME ~done[p], EndDone(p, i) PROVE WakeupAt(p)'
  <2>1. CASE done'[p] BY <2>1 DEF WakeupAt
  <2>2. CASE /\ Goto(p, i, "wait") /\ UNCHANGED <<queue, oncall>>
             /\ sleeping' = [sleeping EXCEPT ![p][i] = TRUE]
    <3>1. pc[p][i] = "end" BY <1>4 DEF EndDone
    <3>2. \A u \in Thread : u # i => pc'[p][u] = pc[p][u] BY <1>0, <2>2, GotoValue
    <3>3. AllTurnedIn(p)' => AllTurnedIn(p) BY <2>2, <3>1, <3>2 DEF AllTurnedIn, TypeOK, Thread
    <3>4. WakerComing(p) => WakerComing(p)' BY <2>2, <3>1, <3>2 DEF WakerComing, Thread, WakerLabels
    <3> QED BY <1>4, <2>2, <3>3, <3>4, WakeupKept
  <2> QED BY <1>4, <2>1, <2>2 DEF EndDone, DeclareDone, TypeOK
<1>5. ASSUME ~done[p], NEW label, label # "end", Goto(p, i, label),
             pc[p][i] \in {"wait", "woken"}, UNCHANGED <<queue, oncall, sleeping>>
      PROVE  WakeupAt(p)'
  <2>1. \A u \in Thread : u # i => pc'[p][u] = pc[p][u] BY <1>0, <1>5, GotoValue
  <2>2. pc'[p][i] = label BY <1>0, <1>5, GotoValue
  <2>3. AllTurnedIn(p)' => AllTurnedIn(p) BY <1>5, <2>1, <2>2 DEF AllTurnedIn, Thread
  <2>4. WakerComing(p) => WakerComing(p)' BY <1>5, <2>1 DEF WakerComing, Thread, WakerLabels
  <2> QED BY <1>5, <2>3, <2>4, WakeupKept
<1>6. ASSUME ~done[p], WakeUp(p, i) PROVE WakeupAt(p)' BY <1>6, <1>5 DEF WakeUp
<1>7. ASSUME ~done[p], LeaveDone(p, i) PROVE WakeupAt(p)' BY <1>7, <1>2 DEF LeaveDone
<1>8. ASSUME ~done[p], SpuriousWakeup(p, i) PROVE WakeupAt(p)' BY <1>5, <1>8 DEF SpuriousWakeup
<1>9. ASSUME ~done[p], GetTask(p, i) \/ NoTask(p, i) \/ FinishTask(p, i)
                      \/ BeginDone(p, i) \/ LockDone(p, i)
                      \/ CancelCriticalSection(p, i) \/ CancelledCriticalSection(p, i)
      PROVE  WakeupAt(p)'
  <2>1. PICK label \in {"work", "quit", "run", "begin", "critical", "uncritical"} :
           Goto(p, i, label) BY <1>9 DEF GetTask, NoTask, FinishTask, BeginDone, LockDone,
       CancelCriticalSection, CancelledCriticalSection
  <2>2. pc[p][i] \notin {"wait", "woken"} /\ UNCHANGED sleeping
    BY <1>9 DEF GetTask, NoTask, FinishTask, BeginDone, LockDone,
       CancelCriticalSection, CancelledCriticalSection
  <2> QED BY <1>2, <1>9, <2>1, <2>2
<1> QED BY <1>1, <1>3, <1>4, <1>6, <1>7, <1>8, <1>9 DEF WorkerStep

\* A worker that is woken while m is free is not turned in: only the holder of m
\* is at the end of its critical section.
LEMMA WakeupWoken ==
  ASSUME SleepInv, NEW p \in Proc, NEW t \in Thread, NEW S, NEW i \in Cpu,
         m[p] = NoOne, ~sleeping'[p][i],
         pc' = [pc EXCEPT ![p] = [Signalled(p, S) EXCEPT ![t] = Caller(t)]]
  PROVE  WakeupAt(p)'
<1> USE DEF SleepInv
<1>1. i \in Thread /\ pc[p][i] # "end" BY DEF Labelled, LabelledAt, HoldsLabels, Thread, NoOne, Cpu
<1>2. Signalled(p, S) \in [Thread -> Labels] /\ Signalled(p, S)[i] # "end"
  BY <1>1, SignalledType, SignalledValue
<1>3. pc'[p][i] # "end" BY <1>1, <1>2 DEF TypeOK, Caller
<1> QED BY <1>3, WakeupAwake

LEMMA WakeupWaker ==
  ASSUME SleepInv, NEW p \in Proc, NEW t \in Thread, WakerStep(p, t)
  PROVE  WakeupAt(p)'
<1> USE DEF SleepInv
<1>0. UNCHANGED <<queue, done, oncall>> /\ pc[p][t] \in WakerLabels
  BY DEF WakerStep, CancelTest, Cancel, CancelOneTest, CancelOne, client_vars, At, WakerLabels
<1>1. ASSUME NEW label, label # "end", Goto(p, t, label), UNCHANGED sleeping,
             ~done[p] /\ AllTurnedIn(p) => label \in WakerLabels
      PROVE  WakeupAt(p)'
  <2>1. /\ pc'[p][t] = label
        /\ \A u \in Thread : u # t => pc'[p][u] = pc[p][u] BY <1>1, GotoValue
  <2>2. AllTurnedIn(p)' => AllTurnedIn(p) BY <1>1, <2>1 DEF AllTurnedIn, Thread
  <2>3. ~done[p] /\ AllTurnedIn(p) /\ WakerComing(p) => WakerComing(p)'
    BY <1>0, <1>1, <2>1 DEF WakerComing, Thread
  <2> QED BY <1>0, <2>2, <2>3 DEF Wakeup, WakeupAt
<1>2. Caller(t) # "end" BY DEF Caller
<1>3. CASE CancelTest(p, t)
  <2>1. CASE SomeoneMaySleep(p) BY <1>1, <1>3, <2>1 DEF CancelTest, local_vars, WakerLabels
  <2>2. CASE ~SomeoneMaySleep(p) BY <1>1, <1>2, <1>3, <2>2, TurnedIn DEF CancelTest, local_vars
  <2> QED BY <2>1, <2>2
<1>4. CASE Cancel(p, t)
  <2>1. CASE numactive[p] < NCpus
    <3>1. /\ m[p] = NoOne /\ WakeSleepers(p)
          /\ pc' = [pc EXCEPT ![p] = [Signalled(p, Sleepers(p)) EXCEPT ![t] = Caller(t)]]
      BY <1>4, <2>1 DEF Cancel
    <3>2. 0 \in Cpu BY ConstantsAssumption DEF Cpu
    <3>3. ~sleeping'[p][0] BY <3>1, <3>2 DEF WakeSleepers, TypeOK
    <3> QED BY <3>1, <3>2, <3>3, WakeupWoken
  <2>2. CASE ~(numactive[p] < NCpus) BY <1>1, <1>2, <1>4, <2>2, TurnedIn DEF Cancel
  <2> QED BY <2>1, <2>2
<1>5. CASE CancelOneTest(p, t)
  <2>1. CASE critical[p][CpuHint] BY <1>1, <1>5, <2>1 DEF CancelOneTest, local_vars, WakerLabels
  <2>2. CASE ~critical[p][CpuHint] BY <1>1, <1>2, <1>5, <2>2, TurnedIn, ConstantsAssumption
    DEF CancelOneTest, local_vars
  <2> QED BY <2>1, <2>2
<1>6. CASE CancelOne(p, t)
  <2>0. CpuHint \in Cpu /\ m[p] = NoOne BY <1>6, ConstantsAssumption DEF CancelOne
  <2>1. CASE sleeping[p][CpuHint]
    <3>1. /\ sleeping' = [sleeping EXCEPT ![p][CpuHint] = FALSE]
          /\ pc' = [pc EXCEPT ![p] = [Signalled(p, {CpuHint}) EXCEPT ![t] = Caller(t)]]
      BY <1>6, <2>1 DEF CancelOne
    <3>2. ~sleeping'[p][CpuHint] BY <2>0, <3>1 DEF TypeOK
    <3> QED BY <2>0, <3>1, <3>2, WakeupWoken
  <2>2. CASE ~sleeping[p][CpuHint] BY <1>1, <1>2, <1>6, <2>0, <2>2, TurnedIn DEF CancelOne
  <2> QED BY <2>1, <2>2
<1> QED BY <1>3, <1>4, <1>5, <1>6 DEF WakerStep

LEMMA WakersAreWaking ==
  ASSUME NEW w \in Wakers PROVE w \in WakerLabels /\ w # "end" BY ConstantsAssumption DEF WakerLabels

LEMMA WakeupTask ==
  ASSUME SleepInv, NEW p \in Proc, NEW t \in Thread, TaskStep(p, t)
  PROVE  WakeupAt(p)'
<1> USE DEF SleepInv
<1>1. CASE AddTaskLocal(p, t)
  <2>1. PICK w \in Wakers : Goto(p, t, w) BY <1>1 DEF AddTaskLocal
  <2>2. pc'[p][t] = w /\ w \in WakerLabels /\ w # "end" BY <2>1, GotoValue, WakersAreWaking
  <2>3. UNCHANGED <<sleeping, oncall, done>> /\ pc[p][t] = Caller(t)
        /\ (t \in Handlers => oncall[p][t] = "task") BY <1>1 DEF AddTaskLocal, Creating, At, local_vars
  <2>4. CASE t \in Handlers BY <2>2, <2>3, <2>4, WakeupComing
  <2>5. CASE t \in Cpu /\ ~done[p] BY <2>2, <2>3, <2>5, WakeupAwake DEF Caller, AsleepInside, AsleepAt
  <2>6. CASE done[p] BY <2>3, <2>6 DEF WakeupAt
  <2> QED BY <2>4, <2>5, <2>6 DEF Thread
<1>2. ASSUME NEW q \in Proc, AddTaskRemote(p, t, q) PROVE WakeupAt(p)'
  BY <1>2, WakeupSame DEF AddTaskRemote, LocalSame, local_vars
<1> QED BY <1>1, <1>2 DEF TaskStep

LEMMA WakeupHandler ==
  ASSUME SleepInv, NEW p \in Proc, NEW h \in Handlers, HandlerStep(p, h)
  PROVE  WakeupAt(p)'
<1> USE DEF SleepInv
<1>0. h \in Thread BY DEF Thread
<1>1. CASE ReceiveTask(p, h)
  <2>1. PICK w \in Wakers : Goto(p, h, w) BY <1>1 DEF ReceiveTask
  <2>2. pc'[p][h] \in WakerLabels BY <1>0, <2>1, GotoValue, WakersAreWaking
  <2>3. oncall'[p][h] = "task" BY <1>1 DEF ReceiveTask, TypeOK
  <2> QED BY <2>2, <2>3, WakeupComing
<1>2. CASE ReceiveTheToken(p, h)
  <2>1. CASE done'[p] BY <2>1 DEF WakeupAt
  <2>2. CASE UNCHANGED <<done, sleeping, pc>>
    BY <1>2, <2>2, WakeupSame DEF ReceiveTheToken, LocalSame, client_vars
  <2> QED BY <1>2, <2>1, <2>2 DEF ReceiveTheToken, ForwardToken, DeclareDone, TypeOK
<1>3. CASE ForceDone(p, h) BY <1>3 DEF ForceDone, WakeupAt, TypeOK
<1>4. CASE CallReturns(p, h)
  <2>1. /\ pc[p][h] = "return" /\ Goto(p, h, "idle")
        /\ oncall' = [oncall EXCEPT ![p][h] = "none"]
        /\ UNCHANGED <<queue, done, sleeping>> BY <1>4 DEF CallReturns, At, local_vars
  <2>2. \A u \in Thread : u # h => pc'[p][u] = pc[p][u] BY <1>0, <2>1, GotoValue
  <2>3. AllTurnedIn(p)' => AllTurnedIn(p) BY <2>1, <2>2, ConstantsAssumption DEF AllTurnedIn, Thread, Cpu
  <2>4. WakerComing(p) => WakerComing(p)' BY <2>1, <2>2 DEF WakerComing, WakerLabels, Thread, TypeOK
  <2> QED BY <2>1, <2>3, <2>4, WakeupKept
<1> QED BY <1>1, <1>2, <1>3, <1>4 DEF HandlerStep

LEMMA WakeupNext == SleepInv /\ [Next]_vars => Wakeup'
<1> SUFFICES ASSUME SleepInv, [Next]_vars, NEW q \in Proc PROVE WakeupAt(q)' BY DEF Wakeup
<1>0. TypeOK BY DEF SleepInv
<1>1. CASE Restart BY ConstantsAssumption, <1>1, WakeupAwake DEF Cpu, Thread, Restart
<1>2. ASSUME ~Restart, Next, NEW p \in Proc, NEW i \in Cpu,
             WorkerStep(p, i) \/ SpuriousWakeup(p, i)
      PROVE  WakeupAt(q)'
  <2>1. done[p] => done'[p] BY <1>0, <1>2, DoneGrows
  <2> QED BY <1>0, <1>2, <2>1, WakeupWorker, WorkerIsLocal, WakeupSame
<1>3. ASSUME NEW p \in Proc, NEW t \in Thread, WakerStep(p, t) \/ TaskStep(p, t)
      PROVE  WakeupAt(q)' BY <1>0, <1>3, WakeupWaker, WakeupTask, WakerIsLocal, WakeupSame
<1>4. ASSUME NEW p \in Proc, NEW h \in Handlers, HandlerStep(p, h)
      PROVE  WakeupAt(q)' BY <1>0, <1>4, WakeupHandler, HandlerIsLocal, WakeupSame
<1>5. CASE UNCHANGED vars BY <1>5, WakeupSame DEF vars, LocalSame, local_vars, client_vars
<1> QED BY <1>1, <1>2, <1>3, <1>4, <1>5 DEF Next, Terminated

LEMMA SleepInvInit == Init => SleepInv
<1>1. Init => Wakeup
  <2> SUFFICES ASSUME Init, NEW p \in Proc PROVE WakeupAt(p) BY DEF Wakeup
  <2>1. 0 \in Cpu /\ 0 \in Thread BY ConstantsAssumption DEF Cpu, Thread
  <2> QED BY <2>1 DEF Init, WakeupAt, AllTurnedIn
<1> QED BY <1>1, TypeInit, SleepInit, LabelledInit, TryingInit DEF SleepInv

LEMMA SleepInvNext == SleepInv /\ [Next]_vars => SleepInv'
BY TypeNext, AsleepNext, CountNext, LabelledNext, TryingNext, WakeupNext DEF SleepInv

\* No task is ever left in the queue of a machine whose workers all sleep, unless
\* a handler is about to wake them: neither the unlocked test of cancel() nor the
\* one of cancel_one() can miss the last worker on its way to sleep.
THEOREM WakeupNotLost == Spec => []NoLostWakeup
<1>1. SleepInv => NoLostWakeup BY WakeupImplies DEF SleepInv
<1> QED BY <1>1, SleepInvInit, SleepInvNext, PTL DEF Spec

-----------------------------------------------------------------------------
(* The token.                                                              *)

\* Whoever has been told, or is about to be told, was told by the holder.
ToldByHolder ==
  \A p \in Proc : done[p] \/ p \in force_in_flight
    => \E q \in Proc : hastoken[q] /\ done[q]

\* Nobody is told twice.
ToldOnce == \A p \in Proc : p \in force_in_flight => ~done[p]

\* A worker is out of the client loop only if its machine was told.
OutMeansDone == \A p \in Proc, i \in Cpu : pc[p][i] = "exit" => done[p]

TokenInv == OneToken /\ ToldByHolder /\ ToldOnce

LEMMA ForwardKeepsToken ==
  ASSUME TypeOK, TokenInv, NEW p \in Proc, NEW tok, NEW flying,
         ForwardToken(p, tok, flying), ~done[p],
         \/ hastoken[p] /\ flying = token_in_flight
         \/ \E msg \in token_in_flight : flying = token_in_flight \ {msg}
  PROVE  TokenInv'
<1> USE DEF TokenInv
<1>1. /\ \A q \in Proc : q # p => ~hastoken[q]
      /\ flying = {} BY DEF OneToken
<1>2. \A q \in Proc : ~done[q] /\ q \notin force_in_flight BY <1>1 DEF ToldByHolder
<1>3. /\ \A q \in Proc : ~hastoken'[q]
      /\ UNCHANGED <<done, force_in_flight>>
      /\ \E msg : token_in_flight' = {msg} BY <1>1 DEF ForwardToken, TypeOK
<1>4. OneToken' BY <1>3 DEF OneToken
<1> QED BY <1>2, <1>3, <1>4 DEF ToldByHolder, ToldOnce

LEMMA DeclareKeepsToken ==
  ASSUME TypeOK, TokenInv, NEW p \in Proc, NEW tok, NEW flying,
         DeclareDone(p, tok, flying), ~done[p],
         \/ hastoken[p] /\ flying = token_in_flight
         \/ \E msg \in token_in_flight : flying = token_in_flight \ {msg}
  PROVE  TokenInv'
<1> USE DEF TokenInv
<1>1. /\ \A q \in Proc : q # p => ~hastoken[q]
      /\ flying = {} BY DEF OneToken
<1>2. \A q \in Proc : ~done[q] BY <1>1 DEF ToldByHolder
<1>3. /\ hastoken'[p] /\ done'[p]
      /\ \A q \in Proc : q # p => ~hastoken'[q] /\ ~done'[q]
      /\ token_in_flight' = {} BY <1>1, <1>2 DEF DeclareDone, TypeOK
<1>4. p \notin force_in_flight BY <1>1, <1>2 DEF ToldByHolder
<1>5. force_in_flight' \subseteq Proc \ {p} BY <1>4 DEF DeclareDone, TypeOK
<1>6. OneToken' BY <1>3 DEF OneToken
<1> QED BY <1>3, <1>5, <1>6 DEF ToldByHolder, ToldOnce

LEMMA TokenNext == TypeOK /\ TokenInv /\ OutMeansDone /\ [Next]_vars => TokenInv'
<1> SUFFICES ASSUME TypeOK, TokenInv, OutMeansDone, [Next]_vars PROVE TokenInv' OBVIOUS
<1>1. CASE UNCHANGED <<done, hastoken, token_in_flight, force_in_flight>>
  BY <1>1 DEF TokenInv, OneToken, ToldByHolder, ToldOnce
<1>2. ASSUME NEW p \in Proc, NEW h \in Handlers, ReceiveTheToken(p, h)
      PROVE  TokenInv'
  <2>1. PICK msg \in token_in_flight : ReceiveTheToken(p, h)!(msg) BY <1>2 DEF ReceiveTheToken
  <2>2. /\ \A q \in Proc : ~hastoken[q]
        /\ token_in_flight \ {msg} = {} BY DEF TokenInv, OneToken
  <2>3. \A q \in Proc : ~done[q] /\ q \notin force_in_flight BY <2>2 DEF TokenInv, ToldByHolder
  <2>4. CASE /\ hastoken' = [hastoken EXCEPT ![p] = TRUE]
             /\ token_in_flight' = token_in_flight \ {msg}
             /\ UNCHANGED <<done, force_in_flight>>
    <3>1. OneToken' BY <2>2, <2>4 DEF OneToken, TypeOK
    <3> QED BY <2>3, <2>4, <3>1 DEF TokenInv, ToldByHolder, ToldOnce
  <2>5. CASE ForwardToken(p, msg.token, token_in_flight \ {msg}) BY <2>3, <2>5, ForwardKeepsToken
  <2>6. CASE DeclareDone(p, msg.token, token_in_flight \ {msg}) BY <2>3, <2>6, DeclareKeepsToken
  <2> QED BY <2>1, <2>4, <2>5, <2>6
<1>3. ASSUME NEW p \in Proc, NEW i \in Cpu, EndDone(p, i) PROVE TokenInv'
  <2>1. CASE UNCHANGED <<done, token_vars>> BY <1>1, <2>1 DEF token_vars
  <2>2. CASE ~done[p] /\ hastoken[p] /\ ForwardToken(p, cur_token[p], token_in_flight)
    BY <2>2, ForwardKeepsToken
  <2>3. CASE ~done[p] /\ hastoken[p] /\ DeclareDone(p, cur_token[p], token_in_flight)
    BY <2>3, DeclareKeepsToken
  <2> QED BY <1>3, <2>1, <2>2, <2>3 DEF EndDone
<1>4. ASSUME NEW p \in Proc, NEW h \in Handlers, ForceDone(p, h) PROVE TokenInv'
  <2>1. /\ p \in force_in_flight /\ force_in_flight' = force_in_flight \ {p}
        /\ done' = [done EXCEPT ![p] = TRUE]
        /\ UNCHANGED <<hastoken, token_in_flight>> BY <1>4 DEF ForceDone
  <2> QED BY <2>1 DEF TokenInv, OneToken, ToldByHolder, ToldOnce, TypeOK
<1>5. CASE Restart
  <2>1. \A p \in Proc : done[p] BY <1>5, ConstantsAssumption DEF Restart, OutMeansDone, At, Cpu
  <2>2. 0 \in Proc BY ConstantsAssumption DEF Proc
  <2>3. token_in_flight = {} /\ force_in_flight = {}
    BY <2>1, <2>2 DEF TokenInv, OneToken, ToldByHolder, ToldOnce, TypeOK
  <2>4. /\ \A p \in Proc : hastoken'[p] <=> p = 0
        /\ \A p \in Proc : ~done'[p]
        /\ token_in_flight' = {} /\ force_in_flight' = {} BY <1>5, <2>3 DEF Restart
  <2> QED BY <2>2, <2>4 DEF TokenInv, OneToken, ToldByHolder, ToldOnce
<1>6. ASSUME NEW p \in Proc, NEW i \in Cpu, WorkerStep(p, i) \/ SpuriousWakeup(p, i),
             ~EndDone(p, i)
      PROVE  TokenInv' BY <1>1, <1>6 DEF WorkerStep, GetTask, NoTask, FinishTask, BeginDone, LockDone,
     StillNothing, CancelCriticalSection, CancelledCriticalSection, WakeUp, LeaveDone,
     SpuriousWakeup, token_vars
<1>7. ASSUME NEW p \in Proc, NEW t \in Thread, WakerStep(p, t) \/ TaskStep(p, t)
      PROVE  TokenInv' BY <1>1, <1>7 DEF WakerStep, CancelTest, Cancel, CancelOneTest, CancelOne,
     TaskStep, AddTaskLocal, AddTaskRemote, token_vars
<1>8. ASSUME NEW p \in Proc, NEW h \in Handlers, HandlerStep(p, h) PROVE TokenInv'
  BY <1>1, <1>2, <1>4, <1>8 DEF HandlerStep, ReceiveTask, CallReturns, token_vars
<1>9. CASE UNCHANGED vars BY <1>1, <1>9 DEF vars, token_vars
<1> QED BY <1>3, <1>5, <1>6, <1>7, <1>8, <1>9 DEF Next, Terminated

LEMMA OutMove ==
  ASSUME TypeOK, OutMeansDone, NEW p \in Proc, NEW t \in Thread, NEW label,
         Goto(p, t, label), t \in Cpu /\ label = "exit" => done[p],
         \A q \in Proc : done[q] => done'[q]
  PROVE  OutMeansDone'
<1> SUFFICES ASSUME NEW q \in Proc, NEW j \in Cpu, pc'[q][j] = "exit" PROVE done'[q] BY DEF OutMeansDone
<1>1. pc'[q][j] = IF q = p /\ j = t THEN label ELSE pc[q][j] BY GotoValue DEF Thread
<1> QED BY <1>1 DEF OutMeansDone

LEMMA OutSignal ==
  ASSUME TypeOK, OutMeansDone, NEW p \in Proc, NEW S,
         pc' = [pc EXCEPT ![p] = Signalled(p, S)] \/
           \E t \in Thread, label \in Labels \ {"exit"} :
             pc' = [pc EXCEPT ![p] = [Signalled(p, S) EXCEPT ![t] = label]],
         \A q \in Proc : done[q] => done'[q]
  PROVE  OutMeansDone'
<1> SUFFICES ASSUME NEW q \in Proc, NEW j \in Cpu, pc'[q][j] = "exit" PROVE done'[q] BY DEF OutMeansDone
<1>1. j \in Thread BY DEF Thread
<1>2. Signalled(p, S) \in [Thread -> Labels] BY SignalledType
<1>3. Signalled(p, S)[j] = "exit" => pc[p][j] = "exit" BY <1>1, SignalledValue
<1>0. pc \in [Proc -> [Thread -> Labels]] BY DEF TypeOK
<1>4. pc[q][j] = "exit"
  <2>1. CASE q # p BY <1>0, <2>1
  <2>2. CASE q = p /\ pc' = [pc EXCEPT ![p] = Signalled(p, S)] BY <1>0, <2>2, <1>3
  <2>3. CASE q = p /\ \E t \in Thread, label \in Labels \ {"exit"} :
                pc' = [pc EXCEPT ![p] = [Signalled(p, S) EXCEPT ![t] = label]]
    <3>1. PICK t \in Thread, label \in Labels \ {"exit"} :
            pc' = [pc EXCEPT ![p] = [Signalled(p, S) EXCEPT ![t] = label]] BY <2>3
    <3>2. pc'[p] = [Signalled(p, S) EXCEPT ![t] = label] BY <1>0, <3>1
    <3>3. pc'[p][j] = IF j = t THEN label ELSE Signalled(p, S)[j] BY <1>1, <1>2, <3>2
    <3>4. j # t BY <2>3, <3>3
    <3> QED BY <1>3, <2>3, <3>3, <3>4
  <2> QED BY <2>1, <2>2, <2>3
<1> QED BY <1>4 DEF OutMeansDone

LEMMA OutNext == TypeOK /\ OutMeansDone /\ [Next]_vars => OutMeansDone'
<1> SUFFICES ASSUME TypeOK, OutMeansDone, [Next]_vars PROVE OutMeansDone' OBVIOUS
<1>1. CASE Restart BY <1>1 DEF Restart, OutMeansDone, Thread
<1>2. CASE UNCHANGED vars BY <1>2 DEF OutMeansDone, vars
<1> SUFFICES ASSUME Next, ~Restart PROVE OutMeansDone' BY <1>1, <1>2
<1>0. \A q \in Proc : done[q] => done'[q] BY DoneGrows
<1>3. ASSUME NEW p \in Proc, NEW i \in Cpu, WorkerStep(p, i) \/ SpuriousWakeup(p, i)
      PROVE  OutMeansDone'
  <2>0. i \in Thread BY DEF Thread
  <2>1. CASE EndDone(p, i)
    <3>1. "leave" \in Labels \ {"exit"} BY DEF Labels, WorkerLabels
    <3>2. CASE Goto(p, i, "leave") \/ Goto(p, i, "wait") BY <1>0, <2>0, <3>2, OutMove
    <3>3. CASE pc' = [pc EXCEPT ![p] = [Signalled(p, Sleepers(p)) EXCEPT ![i] = "leave"]]
      BY <1>0, <2>0, <3>1, <3>3, OutSignal
    <3> QED BY <2>1, <3>2, <3>3 DEF EndDone
  <2>2. CASE LeaveDone(p, i)
    <3>1. CASE done[p] BY <1>0, <2>0, <2>2, <3>1, OutMove DEF LeaveDone
    <3>2. CASE ~done[p] BY <1>0, <2>0, <2>2, <3>2, OutMove DEF LeaveDone
    <3> QED BY <3>1, <3>2
  <2>3. CASE ~EndDone(p, i) /\ ~LeaveDone(p, i)
    <3>1. PICK label \in Labels \ {"exit"} : Goto(p, i, label)
      BY <1>3, <2>3 DEF WorkerStep, GetTask, NoTask, FinishTask, BeginDone, LockDone,
         StillNothing, CancelCriticalSection, CancelledCriticalSection, WakeUp,
         SpuriousWakeup, Labels, WorkerLabels
    <3> QED BY <1>0, <2>0, <3>1, OutMove
  <2> QED BY <2>1, <2>2, <2>3
<1>4. ASSUME NEW p \in Proc, NEW t \in Thread, WakerStep(p, t) PROVE OutMeansDone'
  <2>0. Caller(t) \in Labels \ {"exit"} BY DEF Caller, Labels, WorkerLabels, HandlerLabels
  <2>1. CASE \E label \in Labels \ {"exit"} : Goto(p, t, label) BY <1>0, <2>1, OutMove
  <2>2. CASE \E S : pc' = [pc EXCEPT ![p] = [Signalled(p, S) EXCEPT ![t] = Caller(t)]]
    BY <1>0, <2>0, <2>2, OutSignal
  <2>3. CASE CancelTest(p, t) \/ CancelOneTest(p, t)
    BY <2>0, <2>1, <2>3 DEF CancelTest, CancelOneTest, Labels, WakerLabels
  <2>4. CASE Cancel(p, t) \/ CancelOne(p, t) BY <2>0, <2>1, <2>2, <2>4 DEF Cancel, CancelOne
  <2> QED BY <1>4, <2>3, <2>4 DEF WakerStep
<1>5. ASSUME NEW p \in Proc, NEW t \in Thread, TaskStep(p, t) PROVE OutMeansDone'
  <2>1. CASE AddTaskLocal(p, t)
    <3>1. PICK w \in Wakers : Goto(p, t, w) BY <2>1 DEF AddTaskLocal
    <3>2. w # "exit" BY ConstantsAssumption
    <3> QED BY <1>0, <3>1, <3>2, OutMove
  <2>2. ASSUME NEW q \in Proc, AddTaskRemote(p, t, q) PROVE OutMeansDone'
    BY <1>0, <2>2 DEF AddTaskRemote, OutMeansDone
  <2> QED BY <1>5, <2>1, <2>2 DEF TaskStep
<1>6. ASSUME NEW p \in Proc, NEW h \in Handlers, HandlerStep(p, h) PROVE OutMeansDone'
  <2>0. h \in Thread /\ h \notin Cpu BY ConstantsAssumption DEF Thread, Cpu
  <2>1. CASE ReceiveTheToken(p, h) BY <2>1, <1>0, OutSignal DEF ReceiveTheToken, OutMeansDone
  <2>2. CASE \E label : Goto(p, h, label) BY <1>0, <2>0, <2>2, OutMove
  <2> QED BY <1>6, <2>1, <2>2 DEF HandlerStep, ReceiveTask, ForceDone, CallReturns
<1> QED BY <1>3, <1>4, <1>5, <1>6, <1>2 DEF Next, Terminated

LEMMA TokenInvInit == Init => TokenInv /\ OutMeansDone
<1> SUFFICES ASSUME Init PROVE TokenInv /\ OutMeansDone OBVIOUS
<1>0. 0 \in Proc BY ConstantsAssumption DEF Proc
<1>a. \A p \in Proc : (hastoken[p] <=> p = 0) /\ ~done[p] BY Zenon DEF Init
<1>b. token_in_flight = {} /\ force_in_flight = {} BY DEF Init
<1>1. /\ 0 \in Proc
      /\ \A p \in Proc : (hastoken[p] <=> p = 0) /\ ~done[p]
      /\ token_in_flight = {} /\ force_in_flight = {} BY <1>0, <1>a, <1>b
<1>2. OutMeansDone BY DEF Init, OutMeansDone, Thread
<1> QED BY <1>1, <1>2 DEF TokenInv, OneToken, ToldByHolder, ToldOnce

\* Exactly one token exists at every step, held or on its way, through every
\* restart: no interleaving of receive_the_token(), end_done_critical_section(),
\* force_done() and reset() doubles or loses it.
THEOREM TokenIsUnique == Spec => []OneToken
<1>1. TypeOK /\ TokenInv /\ OutMeansDone /\ [Next]_vars
        => (TypeOK /\ TokenInv /\ OutMeansDone)' BY TypeNext, TokenNext, OutNext
<1>2. TokenInv => OneToken BY DEF TokenInv
<1> QED BY <1>1, <1>2, TokenInvInit, TypeInit, PTL DEF Spec

-----------------------------------------------------------------------------
(* The token tells the truth.                                              *)

\* One element for each of the things that f counts on the machines, so that
\* their number is the sum of f over the machines.
Units(f) == UNION {{p} \X (0 .. f[p] - 1) : p \in Proc}
Total(f) == Cardinality(Units(f))

Sent(cs)     == [p \in Proc |-> cs[p].sent]
Received(cs) == [p \in Proc |-> cs[p].received]

NoCalls == [sent |-> 0, received |-> 0]

\* Some machine other than the one the first token names has made or received a
\* call: its report in the first round keeps that round from counting.
CalledBefore(cs) == N = 1 \/ \E p \in Proc \ {N-1} : cs[p] # NoCalls

\* What is assumed of the calls before the run: all that were sent were received,
\* and there were some.
LoadedBefore ==
  /\ Total(Sent(PriorCalls)) = Total(Received(PriorCalls))
  /\ CalledBefore(PriorCalls)

\* The calls that bring a task and are being run.
Running == {x \in Proc \X Handlers : oncall[x[1]][x[2]] = "task"}

\* Every call that was sent has been received, is on its way or is being run.
Balanced ==
  /\ IsFiniteSet(Running)
  /\ Total(Sent(calls)) =
       Total(Received(calls)) + Total(tasks_in_flight) + Cardinality(Running)

NothingMoving == Running = {} /\ \A p \in Proc : tasks_in_flight[p] = 0

HandlersReady == \A p \in Proc, h \in Handlers : pc[p][h] = "idle" => oncall[p][h] # "task"

\* No machine has told the token of calls that it did not make.
ToldBefore ==
  \A p \in Proc : /\ last_calls[p].sent <= calls[p].sent
                  /\ last_calls[p].received <= calls[p].received

\* The token wherever it is: held by a machine, or on its way to it.
TheToken ==
  token_in_flight \cup {[to |-> p, token |-> cur_token[p]] : p \in {q \in Proc : hastoken[q]}}

\* The machines between p and last_change, which the token has not visited since
\* last_change signed it.
Ahead(p, last_change) ==
  IF p <= last_change THEN p .. last_change - 1
                      ELSE (p .. N-1) \cup (0 .. last_change - 1)

\* The machine has nothing to do, and has told the token all its calls.
Settled(p) == calls[p] = last_calls[p] /\ ~Busy(p)

Totals(tok) ==
  /\ tok.total_calls_sent = Total(Sent(last_calls))
  /\ tok.total_calls_received = Total(Received(last_calls))

\* If the totals agree and no machine ahead has anything to tell, then those
\* behind the token have nothing to do.
RoundCounts(p, tok) ==
  /\ tok.total_calls_sent = tok.total_calls_received
  /\ \A q \in Ahead(p, tok.last_change) : calls[q] = last_calls[q]
  => \A q \in Proc \ Ahead(p, tok.last_change) : Settled(q)

TokenCounts ==
  (\A p \in Proc : ~done[p])
    => \A x \in TheToken : Totals(x.token) /\ (N > 1 => RoundCounts(x.to, x.token))

-----------------------------------------------------------------------------
(* Sums over the machines.                                                 *)

LEMMA UnitsMembers ==
  ASSUME NEW f \in [Proc -> Nat], NEW x
  PROVE  x \in Units(f) <=> \E p \in Proc, i \in Nat : i < f[p] /\ x = <<p, i>>
<1>1. \A p \in Proc : \A i : i \in 0 .. f[p] - 1 <=> i \in Nat /\ i < f[p] OBVIOUS
<1> QED BY <1>1 DEF Units

LEMMA UnitsFinite ==
  ASSUME NEW f \in [Proc -> Nat]
  PROVE  IsFiniteSet(Units(f)) /\ Total(f) \in Nat
<1> DEFINE S == {{p} \X (0 .. f[p] - 1) : p \in Proc}
<1>1. IsFiniteSet(S)
  <2>1. IsFiniteSet(Proc) BY ConstantsAssumption, FS_Interval DEF Proc
  <2> DEFINE g == [p \in Proc |-> {p} \X (0 .. f[p] - 1)]
  <2>2. g \in Surjection(Proc, S) BY DEF Surjection
  <2> QED BY <2>1, <2>2, FS_Surjection
<1>2. \A T \in S : IsFiniteSet(T)
  <2> SUFFICES ASSUME NEW p \in Proc PROVE IsFiniteSet({p} \X (0 .. f[p] - 1)) OBVIOUS
  <2>0. 0 \in Int /\ f[p] - 1 \in Int OBVIOUS
  <2>1. IsFiniteSet({p}) /\ IsFiniteSet(0 .. f[p] - 1) BY <2>0, FS_Singleton, FS_Interval
  <2> QED BY <2>1, FS_Product
<1>3. IsFiniteSet(UNION S) BY <1>1, <1>2, FS_UNION
<1> QED BY <1>3, FS_CardinalityType DEF Units, Total

LEMMA TotalGrows ==
  ASSUME NEW f \in [Proc -> Nat], NEW p \in Proc, NEW n \in Nat, f[p] <= n
  PROVE  Total([f EXCEPT ![p] = n]) = Total(f) + (n - f[p])
<1> DEFINE g == [f EXCEPT ![p] = n]
           New == {p} \X (f[p] .. n - 1)
<1>1. g \in [Proc -> Nat] /\ g[p] = n /\ \A q \in Proc : q # p => g[q] = f[q] OBVIOUS
<1>2. \A x : x \in New <=> \E i \in Nat : f[p] <= i /\ i < n /\ x = <<p, i>> OBVIOUS
<1>3. IsFiniteSet(New) /\ Cardinality(New) = n - f[p]
  <2>1. IsFiniteSet({p}) /\ Cardinality({p}) = 1 BY FS_Singleton
  <2>0. f[p] \in Int /\ n - 1 \in Int /\ (f[p] > n - 1 <=> n = f[p]) OBVIOUS
  <2>2. IsFiniteSet(f[p] .. n - 1) /\ Cardinality(f[p] .. n - 1) = n - f[p] BY <2>0, FS_Interval
  <2>3. PICK one, row : one = Cardinality({p}) /\ row = Cardinality(f[p] .. n - 1) OBVIOUS
  <2>4. IsFiniteSet(New) /\ Cardinality(New) = one * row BY ZenonT(30), <2>1, <2>2, <2>3, FS_Product
  <2>5. one = 1 /\ row = n - f[p] /\ row \in Int BY <2>1, <2>2, <2>3
  <2>6. one * row = row BY <2>5
  <2> QED BY <2>4, <2>5, <2>6
<1> HIDE DEF g, New
<1>4. Units(g) = Units(f) \cup New
  <2> SUFFICES ASSUME NEW x PROVE x \in Units(g) <=> x \in Units(f) \/ x \in New OBVIOUS
  <2>1. x \in Units(g) <=> \E q \in Proc, i \in Nat : i < g[q] /\ x = <<q, i>> BY <1>1, UnitsMembers
  <2>2. x \in Units(f) <=> \E q \in Proc, i \in Nat : i < f[q] /\ x = <<q, i>> BY UnitsMembers
  <2>3. ASSUME x \in Units(g) PROVE x \in Units(f) \/ x \in New
    <3>1. PICK q \in Proc, i \in Nat : i < g[q] /\ x = <<q, i>> BY <2>1, <2>3
    <3>2. CASE q = p /\ f[p] <= i BY <1>1, <1>2, <3>1, <3>2
    <3>3. CASE ~(q = p /\ f[p] <= i)
      <4>1. i < f[q] BY <1>1, <3>1, <3>3
      <4> QED BY <2>2, <3>1, <4>1
    <3> QED BY <3>2, <3>3
  <2>4. ASSUME x \in Units(f) \/ x \in New PROVE x \in Units(g)
    <3>1. CASE x \in Units(f)
      <4>1. PICK q \in Proc, i \in Nat : i < f[q] /\ x = <<q, i>> BY <2>2, <3>1
      <4>2. i < g[q] BY <1>1, <4>1
      <4> QED BY <2>1, <4>1, <4>2
    <3>2. CASE x \in New
      <4>1. PICK i \in Nat : f[p] <= i /\ i < n /\ x = <<p, i>> BY <1>2, <3>2
      <4> QED BY <1>1, <2>1, <4>1
    <3> QED BY <2>4, <3>1, <3>2
  <2> QED BY <2>3, <2>4
<1>5. Units(f) \cap New = {}
  <2> SUFFICES ASSUME NEW x \in Units(f), x \in New PROVE FALSE OBVIOUS
  <2>1. PICK q \in Proc, i \in Nat : i < f[q] /\ x = <<q, i>> BY UnitsMembers
  <2>2. PICK j \in Nat : f[p] <= j /\ j < n /\ x = <<p, j>> BY <1>2
  <2>3. q = p /\ i = j BY <2>1, <2>2
  <2> QED BY <2>1, <2>2, <2>3
<1>6. Cardinality(Units(g)) = Cardinality(Units(f)) + Cardinality(New) - Cardinality({})
  BY <1>3, <1>4, <1>5, UnitsFinite, FS_Union
<1> QED BY <1>3, <1>6, FS_EmptySet, UnitsFinite DEF Total, g

LEMMA TotalZero ==
  ASSUME NEW f \in [Proc -> Nat]
  PROVE  Total(f) = 0 <=> \A p \in Proc : f[p] = 0
<1>1. Total(f) = 0 <=> Units(f) = {} BY UnitsFinite, FS_EmptySet DEF Total
<1>2. ASSUME Units(f) = {}, NEW p \in Proc PROVE f[p] = 0
  <2>1. ~(0 < f[p]) BY <1>2, UnitsMembers
  <2> QED BY <2>1
<1>3. ASSUME \A p \in Proc : f[p] = 0 PROVE Units(f) = {} BY <1>3, UnitsMembers
<1> QED BY <1>1, <1>2, <1>3

LEMMA CallsCounted ==
  ASSUME NEW cs \in [Proc -> Calls]
  PROVE  /\ Sent(cs) \in [Proc -> Nat] /\ Received(cs) \in [Proc -> Nat]
         /\ Total(Sent(cs)) \in Nat /\ Total(Received(cs)) \in Nat
<1>1. Sent(cs) \in [Proc -> Nat] /\ Received(cs) \in [Proc -> Nat] BY DEF Sent, Received, Calls
<1> QED BY <1>1, UnitsFinite

\* The sums grow by what one machine adds.
LEMMA CallsGrow ==
  ASSUME NEW cs \in [Proc -> Calls], NEW p \in Proc, NEW c \in Calls,
         cs[p].sent <= c.sent, cs[p].received <= c.received,
         NEW ds, ds = [cs EXCEPT ![p] = c]
  PROVE  /\ Total(Sent(ds)) = Total(Sent(cs)) + (c.sent - cs[p].sent)
         /\ Total(Received(ds)) = Total(Received(cs)) + (c.received - cs[p].received)
<1>0. c.sent \in Nat /\ c.received \in Nat BY DEF Calls
<1>1. Sent(ds) = [Sent(cs) EXCEPT ![p] = c.sent] /\ Sent(cs)[p] = cs[p].sent BY DEF Sent
<1>2. Received(ds) = [Received(cs) EXCEPT ![p] = c.received]
      /\ Received(cs)[p] = cs[p].received BY DEF Received
<1> QED BY <1>0, <1>1, <1>2, CallsCounted, TotalGrows

-----------------------------------------------------------------------------
(* Who has work.                                                           *)

WorkLabels == {"work", "uncritical"} \cup WakerLabels

\* Work on a machine that was there before.
LEMMA BusyBefore ==
  ASSUME \A q \in Proc, i \in Cpu : pc'[q][i] \in WorkLabels => Busy(q),
         \A q \in Proc : queue'[q] > 0 => Busy(q),
         \A q \in Proc, h \in Handlers : oncall'[q][h] = "task" => Busy(q)
  PROVE  \A q \in Proc : Busy(q)' => Busy(q) BY DEF Busy, WorkLabels

LEMMA BusyMove ==
  ASSUME TypeOK, NEW p \in Proc, NEW t \in Thread, NEW label, Goto(p, t, label),
         t \in Cpu /\ label \in WorkLabels => Busy(p),
         \A q \in Proc : queue'[q] > 0 => Busy(q),
         \A q \in Proc, h \in Handlers : oncall'[q][h] = "task" => Busy(q)
  PROVE  \A q \in Proc : Busy(q)' => Busy(q)
<1>1. ASSUME NEW q \in Proc, NEW i \in Cpu, pc'[q][i] \in WorkLabels PROVE Busy(q)
  <2>1. pc'[q][i] = IF q = p /\ i = t THEN label ELSE pc[q][i] BY GotoValue DEF Thread
  <2>2. CASE q = p /\ i = t BY <1>1, <2>1, <2>2
  <2>3. CASE ~(q = p /\ i = t) BY <1>1, <2>1, <2>3 DEF Busy, WorkLabels
  <2> QED BY <2>2, <2>3
<1> QED BY <1>1, BusyBefore

\* A signal gives nobody work.
LEMMA BusySignal ==
  ASSUME TypeOK, NEW p \in Proc, NEW S,
         \/ pc' = [pc EXCEPT ![p] = Signalled(p, S)]
         \/ \E t \in Thread, label \in Labels :
              /\ pc' = [pc EXCEPT ![p] = [Signalled(p, S) EXCEPT ![t] = label]]
              /\ t \in Cpu /\ label \in WorkLabels => Busy(p),
         \A q \in Proc : queue'[q] > 0 => Busy(q),
         \A q \in Proc, h \in Handlers : oncall'[q][h] = "task" => Busy(q)
  PROVE  \A q \in Proc : Busy(q)' => Busy(q)
<1>0. /\ pc \in [Proc -> [Thread -> Labels]]
      /\ Signalled(p, S) \in [Thread -> Labels] BY SignalledType DEF TypeOK
<1>1. ASSUME NEW q \in Proc, NEW i \in Cpu, pc'[q][i] \in WorkLabels PROVE Busy(q)
  <2>0. i \in Thread BY DEF Thread
  <2>1. CASE pc[q][i] \in WorkLabels BY <2>1 DEF Busy, WorkLabels
  <2>2. CASE q # p
    <3>1. pc'[q] = pc[q] BY <1>0, <2>2
    <3> QED BY <1>1, <2>1, <3>1
  <2>3. Signalled(p, S)[i] \in WorkLabels => pc[p][i] \in WorkLabels
    <3>1. Signalled(p, S)[i] = "woken" \/ Signalled(p, S)[i] = pc[p][i] BY <2>0, SignalledValue
    <3> QED BY <3>1 DEF WorkLabels, WakerLabels
  <2>4. CASE q = p /\ pc' = [pc EXCEPT ![p] = Signalled(p, S)]
    <3>1. pc'[p] = Signalled(p, S) BY <1>0, <2>4
    <3> QED BY <1>1, <2>1, <2>3, <2>4, <3>1
  <2>5. CASE q = p /\ ~(pc' = [pc EXCEPT ![p] = Signalled(p, S)])
    <3>1. PICK t \in Thread, label \in Labels :
            /\ pc' = [pc EXCEPT ![p] = [Signalled(p, S) EXCEPT ![t] = label]]
            /\ t \in Cpu /\ label \in WorkLabels => Busy(p) BY <2>5
    <3>2. pc'[p] = [Signalled(p, S) EXCEPT ![t] = label] BY <1>0, <3>1
    <3>3. pc'[p][i] = IF i = t THEN label ELSE Signalled(p, S)[i] BY <1>0, <2>0, <3>2
    <3>4. CASE i = t BY <1>1, <2>5, <3>1, <3>3, <3>4
    <3>5. CASE i # t BY <1>1, <2>1, <2>3, <2>5, <3>3, <3>5
    <3> QED BY <3>4, <3>5
  <2> QED BY <2>2, <2>4, <2>5
<1> QED BY <1>1, BusyBefore

\* What a step that touches no call and no token leaves alone.
count_vars == <<calls, last_calls, tasks_in_flight, hastoken, cur_token, token_in_flight, done>>

\* It makes no work, and nobody is on a new call.
Quiet == UNCHANGED oncall /\ \A q \in Proc : Busy(q)' => Busy(q)

LEMMA WorkerQuiet ==
  ASSUME TypeOK, NEW p \in Proc, NEW i \in Cpu, WorkerStep(p, i) \/ SpuriousWakeup(p, i)
  PROVE  Quiet /\ (~EndDone(p, i) => UNCHANGED count_vars)
              /\ UNCHANGED <<calls, tasks_in_flight>>
<1> USE DEF At, local_vars, client_vars, token_vars, count_vars, Quiet
<1>0. /\ i \in Thread
      /\ \A q \in Proc : queue[q] > 0 => Busy(q)
      /\ \A q \in Proc, h \in Handlers : oncall[q][h] = "task" => Busy(q)
      /\ pc[p][i] \in WorkLabels => Busy(p)
      /\ queue \in [Proc -> Nat] BY DEF Thread, Busy, WorkLabels, TypeOK
<1>1. CASE GetTask(p, i) \/ CancelCriticalSection(p, i)
  BY <1>1, <1>0, BusyMove DEF GetTask, CancelCriticalSection
<1>2. CASE NoTask(p, i) \/ FinishTask(p, i) \/ BeginDone(p, i) \/ LockDone(p, i)
           \/ StillNothing(p, i) \/ WakeUp(p, i) \/ LeaveDone(p, i) \/ SpuriousWakeup(p, i)
           \/ CancelledCriticalSection(p, i)
  <2>1. UNCHANGED <<queue, oncall>> /\ UNCHANGED count_vars
    BY <1>2 DEF NoTask, FinishTask, BeginDone, LockDone, StillNothing, WakeUp,
       LeaveDone, SpuriousWakeup, CancelledCriticalSection
  <2>2. PICK label : Goto(p, i, label) /\ (label \in WorkLabels => pc[p][i] \in WorkLabels)
    <3>1. CASE CancelledCriticalSection(p, i) BY <3>1 DEF CancelledCriticalSection, WorkLabels
    <3>2. CASE ~CancelledCriticalSection(p, i)
      <4>1. \/ Goto(p, i, "quit") \/ Goto(p, i, "run") \/ Goto(p, i, "begin")
            \/ Goto(p, i, "critical") \/ Goto(p, i, "end") \/ Goto(p, i, "leave")
            \/ Goto(p, i, "wait") \/ Goto(p, i, "exit") \/ Goto(p, i, "woken")
        BY <1>2, <3>2 DEF NoTask, FinishTask, BeginDone, LockDone, StillNothing,
           WakeUp, LeaveDone, SpuriousWakeup
      <4>2. \A label \in {"quit", "run", "begin", "critical", "end", "leave", "wait",
                          "exit", "woken"} : label \notin WorkLabels BY DEF WorkLabels, WakerLabels
      <4> QED BY <4>1, <4>2
    <3> QED BY <3>1, <3>2
  <2>3. \A q \in Proc : Busy(q)' => Busy(q) BY <1>0, <2>1, <2>2, BusyMove
  <2> QED BY <2>1, <2>3
<1>3. CASE EndDone(p, i)
  <2>1. UNCHANGED <<queue, oncall, calls, tasks_in_flight>> BY <1>3 DEF EndDone
  <2>2. "wait" \notin WorkLabels /\ "leave" \notin WorkLabels /\ "leave" \in Labels
    BY DEF WorkLabels, WakerLabels, Labels, WorkerLabels
  <2>3. CASE Goto(p, i, "leave") \/ Goto(p, i, "wait") BY <1>0, <1>3, <2>1, <2>2, <2>3, BusyMove
  <2>4. CASE pc' = [pc EXCEPT ![p] = [Signalled(p, Sleepers(p)) EXCEPT ![i] = "leave"]]
    <3>1. \E t \in Thread, label \in Labels :
              /\ pc' = [pc EXCEPT ![p] = [Signalled(p, Sleepers(p)) EXCEPT ![t] = label]]
              /\ t \in Cpu /\ label \in WorkLabels => Busy(p) BY <1>0, <2>2, <2>4
    <3>2. \A q \in Proc : Busy(q)' => Busy(q) BY <1>0, <2>1, <3>1, BusySignal
    <3> QED BY <1>3, <2>1, <3>2
  <2> QED BY <1>3, <2>3, <2>4 DEF EndDone
<1> QED BY <1>1, <1>2, <1>3 DEF WorkerStep

LEMMA WakerQuiet ==
  ASSUME TypeOK, NEW p \in Proc, NEW t \in Thread, WakerStep(p, t) \/ AddTaskLocal(p, t)
  PROVE  Quiet /\ UNCHANGED count_vars
<1> USE DEF At, local_vars, client_vars, token_vars, count_vars
<1>0. /\ \A q \in Proc : queue[q] > 0 => Busy(q)
      /\ \A q \in Proc, h \in Handlers : oncall[q][h] = "task" => Busy(q)
      /\ t \in Cpu /\ pc[p][t] \in WorkLabels => Busy(p) BY DEF Busy, WorkLabels
<1>1. CASE WakerStep(p, t)
  <2>1. /\ UNCHANGED <<queue, oncall>> /\ UNCHANGED count_vars
        /\ pc[p][t] \in WakerLabels
    BY <1>1 DEF WakerStep, CancelTest, Cancel, CancelOneTest, CancelOne, WakerLabels
  <2>2. t \in Cpu => Busy(p) BY <1>0, <2>1 DEF WorkLabels
  <2>3. \/ \E label : Goto(p, t, label)
        \/ \E S : pc' = [pc EXCEPT ![p] = [Signalled(p, S) EXCEPT ![t] = Caller(t)]]
    BY <1>1 DEF WakerStep, CancelTest, Cancel, CancelOneTest, CancelOne
  <2>4. CASE \E label : Goto(p, t, label)
    <3>1. \A q \in Proc : Busy(q)' => Busy(q) BY <1>0, <2>1, <2>2, <2>4, BusyMove
    <3> QED BY <2>1, <3>1 DEF Quiet
  <2>5. CASE \E S : pc' = [pc EXCEPT ![p] = [Signalled(p, S) EXCEPT ![t] = Caller(t)]]
    <3>1. PICK S : pc' = [pc EXCEPT ![p] = [Signalled(p, S) EXCEPT ![t] = Caller(t)]] BY <2>5
    <3>2. \E u \in Thread, label \in Labels :
              /\ pc' = [pc EXCEPT ![p] = [Signalled(p, S) EXCEPT ![u] = label]]
              /\ u \in Cpu /\ label \in WorkLabels => Busy(p)
      BY <2>2, <3>1 DEF Caller, Labels, WorkerLabels, HandlerLabels
    <3>3. \A q \in Proc : Busy(q)' => Busy(q) BY <1>0, <2>1, <3>2, BusySignal
    <3> QED BY <2>1, <3>3 DEF Quiet
  <2> QED BY <2>3, <2>4, <2>5
<1>2. CASE AddTaskLocal(p, t)
  <2>1. /\ Creating(p, t) /\ UNCHANGED oncall /\ UNCHANGED count_vars
        /\ queue' = [queue EXCEPT ![p] = @ + 1]
        /\ \E w \in Wakers : Goto(p, t, w) BY <1>2 DEF AddTaskLocal
  <2>2. Busy(p) BY <2>1 DEF Creating, Caller, Busy, Thread
  <2>3. \A q \in Proc : queue'[q] > 0 => Busy(q) BY <1>0, <2>1, <2>2 DEF TypeOK
  <2>4. \A q \in Proc : Busy(q)' => Busy(q) BY <1>0, <2>1, <2>2, <2>3, BusyMove
  <2> QED BY <2>1, <2>4 DEF Quiet
<1> QED BY <1>1, <1>2

-----------------------------------------------------------------------------
(* The calls, and who runs them.                                           *)

LEMMA ReadyMove ==
  ASSUME TypeOK, HandlersReady, NEW p \in Proc, NEW t \in Thread, NEW label,
         Goto(p, t, label),
         t \in Handlers /\ label = "idle" => oncall'[p][t] # "task",
         \A q \in Proc, h \in Handlers : ~(q = p /\ h = t) => oncall'[q][h] = oncall[q][h]
  PROVE  HandlersReady'
<1> SUFFICES ASSUME NEW q \in Proc, NEW h \in Handlers, pc'[q][h] = "idle"
             PROVE  oncall'[q][h] # "task" BY DEF HandlersReady
<1>1. pc'[q][h] = IF q = p /\ h = t THEN label ELSE pc[q][h] BY GotoValue DEF Thread
<1> QED BY <1>1 DEF HandlersReady

LEMMA ReadySignal ==
  ASSUME TypeOK, HandlersReady, NEW p \in Proc, NEW S,
         \/ pc' = [pc EXCEPT ![p] = Signalled(p, S)]
         \/ \E t \in Thread, label \in Labels \ {"idle"} :
              pc' = [pc EXCEPT ![p] = [Signalled(p, S) EXCEPT ![t] = label]],
         UNCHANGED oncall
  PROVE  HandlersReady'
<1>0. /\ pc \in [Proc -> [Thread -> Labels]]
      /\ Signalled(p, S) \in [Thread -> Labels] BY SignalledType DEF TypeOK
<1> SUFFICES ASSUME NEW q \in Proc, NEW h \in Handlers, pc'[q][h] = "idle"
             PROVE  pc[q][h] = "idle" BY DEF HandlersReady
<1>1. h \in Thread BY DEF Thread
<1>2. Signalled(p, S)[h] = "idle" => pc[p][h] = "idle" BY <1>1, SignalledValue
<1>3. CASE q # p BY <1>0, <1>3
<1>4. CASE q = p /\ pc' = [pc EXCEPT ![p] = Signalled(p, S)] BY <1>0, <1>4, <1>2
<1>5. CASE q = p /\ ~(pc' = [pc EXCEPT ![p] = Signalled(p, S)])
  <2>1. PICK t \in Thread, label \in Labels \ {"idle"} :
          pc' = [pc EXCEPT ![p] = [Signalled(p, S) EXCEPT ![t] = label]] BY <1>5
  <2>2. pc'[p] = [Signalled(p, S) EXCEPT ![t] = label] BY <1>0, <2>1
  <2>3. pc'[p][h] = IF h = t THEN label ELSE Signalled(p, S)[h] BY <1>0, <1>1, <2>2
  <2> QED BY <1>2, <1>5, <2>1, <2>3
<1> QED BY <1>3, <1>4, <1>5

LEMMA ReadyNext == TypeOK /\ HandlersReady /\ [Next]_vars => HandlersReady'
<1> SUFFICES ASSUME TypeOK, HandlersReady, [Next]_vars PROVE HandlersReady' OBVIOUS
<1>0. \A i \in Cpu : i \in Thread /\ i \notin Handlers BY ConstantsAssumption DEF Thread, Cpu
<1>1. CASE UNCHANGED vars BY <1>1 DEF HandlersReady, vars, client_vars
<1>2. CASE Restart BY <1>0, <1>2 DEF Restart, Thread, HandlersReady
<1>3. ASSUME NEW p \in Proc, NEW i \in Cpu, WorkerStep(p, i) \/ SpuriousWakeup(p, i)
      PROVE  HandlersReady'
  <2>1. UNCHANGED oncall BY <1>3, WorkerQuiet DEF Quiet
  <2>2. "leave" \in Labels \ {"idle"} BY DEF Labels, WorkerLabels
  <2>3. \/ \E label : Goto(p, i, label)
        \/ \E S : pc' = [pc EXCEPT ![p] = [Signalled(p, S) EXCEPT ![i] = "leave"]]
    BY <1>3 DEF WorkerStep, GetTask, NoTask, FinishTask, BeginDone, LockDone, StillNothing,
       EndDone, CancelCriticalSection, CancelledCriticalSection, WakeUp, LeaveDone, SpuriousWakeup
  <2>4. CASE \E label : Goto(p, i, label) BY <1>0, <2>1, <2>4, ReadyMove
  <2>5. CASE \E S : pc' = [pc EXCEPT ![p] = [Signalled(p, S) EXCEPT ![i] = "leave"]]
    BY <1>0, <2>1, <2>2, <2>5, ReadySignal
  <2> QED BY <2>3, <2>4, <2>5
<1>4. ASSUME NEW p \in Proc, NEW t \in Thread, WakerStep(p, t) PROVE HandlersReady'
  <2>1. UNCHANGED oncall BY <1>4, WakerQuiet DEF Quiet
  <2>2. Caller(t) \in Labels \ {"idle"} BY DEF Caller, Labels, WorkerLabels, HandlerLabels
  <2>3. \/ \E label : label # "idle" /\ Goto(p, t, label)
        \/ \E S : pc' = [pc EXCEPT ![p] = [Signalled(p, S) EXCEPT ![t] = Caller(t)]]
    BY <1>4, <2>2 DEF WakerStep, CancelTest, Cancel, CancelOneTest, CancelOne
  <2>4. CASE \E label : label # "idle" /\ Goto(p, t, label) BY <2>1, <2>4, ReadyMove
  <2>5. CASE \E S : pc' = [pc EXCEPT ![p] = [Signalled(p, S) EXCEPT ![t] = Caller(t)]]
    BY <2>1, <2>2, <2>5, ReadySignal
  <2> QED BY <2>3, <2>4, <2>5
<1>5. ASSUME NEW p \in Proc, NEW t \in Thread, TaskStep(p, t) PROVE HandlersReady'
  <2>1. CASE AddTaskLocal(p, t) BY <2>1, ConstantsAssumption, ReadyMove DEF AddTaskLocal
  <2>2. ASSUME NEW q \in Proc, AddTaskRemote(p, t, q) PROVE HandlersReady'
    BY <2>2 DEF AddTaskRemote, HandlersReady
  <2> QED BY <1>5, <2>1, <2>2 DEF TaskStep
<1>6. ASSUME NEW p \in Proc, NEW h \in Handlers, HandlerStep(p, h) PROVE HandlersReady'
  <2>0. h \in Thread /\ oncall \in [Proc -> [Handlers -> {"none", "task", "force_done"}]]
    BY DEF Thread, TypeOK
  <2>1. CASE ReceiveTask(p, h)
    <3>1. PICK w \in Wakers : Goto(p, h, w) /\ oncall' = [oncall EXCEPT ![p][h] = "task"]
      BY <2>1 DEF ReceiveTask
    <3>2. w # "idle" BY ConstantsAssumption
    <3> QED BY <2>0, <3>1, <3>2, ReadyMove
  <2>2. CASE ReceiveTheToken(p, h) BY <2>2, ReadySignal DEF ReceiveTheToken, client_vars, HandlersReady
  <2>3. CASE ForceDone(p, h) BY <2>3, <2>0, ReadyMove DEF ForceDone
  <2>4. CASE CallReturns(p, h) BY <2>4, <2>0, ReadyMove DEF CallReturns
  <2> QED BY <1>6, <2>1, <2>2, <2>3, <2>4 DEF HandlerStep
<1> QED BY <1>1, <1>2, <1>3, <1>4, <1>5, <1>6 DEF Next, Terminated

\* The token steps.
TokenStep ==
  \/ \E p \in Proc, h \in Handlers : ReceiveTheToken(p, h)
  \/ \E p \in Proc, i \in Cpu : EndDone(p, i)

\* What there is besides.
LEMMA StepKinds ==
  ASSUME TypeOK, [Next]_vars
  PROVE  \/ Quiet /\ UNCHANGED count_vars
         \/ \E p \in Proc, t \in Thread : \E q \in Proc \ {p} : AddTaskRemote(p, t, q)
         \/ \E p \in Proc, h \in Handlers :
              ReceiveTask(p, h) \/ ForceDone(p, h) \/ CallReturns(p, h)
         \/ TokenStep
         \/ Restart
<1>1. CASE UNCHANGED vars
  <2>1. UNCHANGED <<pc, queue, oncall>> /\ UNCHANGED count_vars
    BY <1>1 DEF vars, local_vars, token_vars, client_vars, count_vars
  <2> QED BY <2>1 DEF Quiet, Busy
<1> QED BY <1>1, WorkerQuiet, WakerQuiet
        DEF Next, Terminated, TaskStep, HandlerStep, WorkerStep, TokenStep

LEMMA RemoteEffect ==
  ASSUME TypeOK, NEW p \in Proc, NEW t \in Thread, NEW q \in Proc \ {p},
         AddTaskRemote(p, t, q)
  PROVE  /\ calls' = [calls EXCEPT ![p] = [sent |-> calls[p].sent + 1,
                                           received |-> calls[p].received]]
         /\ tasks_in_flight' = [tasks_in_flight EXCEPT ![q] = tasks_in_flight[q] + 1]
         /\ Busy(p) /\ \A r \in Proc : Busy(r)' <=> Busy(r)
         /\ Running' = Running
         /\ UNCHANGED <<oncall, done, last_calls, hastoken, cur_token, token_in_flight>>
<1>1. /\ Creating(p, t) /\ UNCHANGED <<pc, queue, oncall>>
      /\ UNCHANGED <<done, last_calls, hastoken, cur_token, token_in_flight>>
      /\ calls' = [calls EXCEPT ![p].sent = @ + 1]
      /\ tasks_in_flight' = [tasks_in_flight EXCEPT ![q] = tasks_in_flight[q] + 1]
  BY DEF AddTaskRemote, token_vars, TypeOK
<1>2. calls[p] \in Calls BY DEF TypeOK
<1>3. [calls[p] EXCEPT !.sent = @ + 1] = [sent |-> calls[p].sent + 1,
                                          received |-> calls[p].received] BY <1>2 DEF Calls
<1>4. Busy(p) BY <1>1 DEF Creating, Caller, Thread, At, Busy
<1>5. calls' = [calls EXCEPT ![p] = [sent |-> calls[p].sent + 1,
                                     received |-> calls[p].received]] BY <1>1, <1>3 DEF TypeOK
<1> QED BY <1>1, <1>4, <1>5 DEF Busy, Running

LEMMA ReceiveEffect ==
  ASSUME TypeOK, HandlersReady, NEW p \in Proc, NEW h \in Handlers, ReceiveTask(p, h)
  PROVE  /\ tasks_in_flight[p] > 0
         /\ tasks_in_flight' = [tasks_in_flight EXCEPT ![p] = tasks_in_flight[p] - 1]
         /\ Busy(p)'
         /\ \A r \in Proc : r # p => (Busy(r)' <=> Busy(r))
         /\ Running' = Running \cup {<<p, h>>} /\ <<p, h>> \notin Running
         /\ UNCHANGED <<calls, done, last_calls, hastoken, cur_token, token_in_flight>>
<1>1. /\ tasks_in_flight[p] > 0 /\ pc[p][h] = "idle"
      /\ tasks_in_flight' = [tasks_in_flight EXCEPT ![p] = tasks_in_flight[p] - 1]
      /\ oncall' = [oncall EXCEPT ![p][h] = "task"]
      /\ queue' = [queue EXCEPT ![p] = @ + 1]
      /\ UNCHANGED <<calls, done, last_calls, hastoken, cur_token, token_in_flight>>
  BY DEF ReceiveTask, token_vars, TypeOK, At
<1>2. oncall \in [Proc -> [Handlers -> {"none", "task", "force_done"}]] BY DEF TypeOK
<1>3. \A r \in Proc, g \in Handlers :
        oncall'[r][g] = IF r = p /\ g = h THEN "task" ELSE oncall[r][g] BY <1>1, <1>2
<1>4. Running' = Running \cup {<<p, h>>} /\ <<p, h>> \notin Running
  BY <1>1, <1>3 DEF Running, HandlersReady
<1>5. Busy(p)' BY <1>3 DEF Busy
<1>6. ASSUME NEW r \in Proc, r # p PROVE Busy(r)' <=> Busy(r)
  BY <1>6, HandlerIsLocal DEF HandlerStep, LocalSame, Busy
<1> QED BY <1>1, <1>4, <1>5, <1>6

LEMMA ReturnEffect ==
  ASSUME TypeOK, NEW p \in Proc, NEW h \in Handlers, CallReturns(p, h)
  PROVE  /\ \/ /\ oncall[p][h] = "task"
               /\ calls' = [calls EXCEPT ![p] = [sent |-> calls[p].sent,
                                                 received |-> calls[p].received + 1]]
            \/ oncall[p][h] # "task" /\ UNCHANGED calls
         /\ Running' = Running \ {<<p, h>>}
         /\ <<p, h>> \in Running <=> oncall[p][h] = "task"
         /\ \A r \in Proc : Busy(r)' => Busy(r)
         /\ UNCHANGED <<tasks_in_flight, done, last_calls, hastoken, cur_token, token_in_flight>>
<1>1. /\ oncall' = [oncall EXCEPT ![p][h] = "none"] /\ Goto(p, h, "idle")
      /\ calls' = IF oncall[p][h] = "task"
                  THEN [calls EXCEPT ![p].received = @ + 1] ELSE calls
      /\ UNCHANGED <<queue, tasks_in_flight, done, last_calls, hastoken, cur_token,
                     token_in_flight>> BY DEF CallReturns, token_vars
<1>2. calls[p] \in Calls /\ calls \in [Proc -> Calls] BY DEF TypeOK
<1>3. [calls[p] EXCEPT !.received = @ + 1] = [sent |-> calls[p].sent,
                                              received |-> calls[p].received + 1] BY <1>2 DEF Calls
<1>4. oncall \in [Proc -> [Handlers -> {"none", "task", "force_done"}]] BY DEF TypeOK
<1>5. \A r \in Proc, g \in Handlers :
        oncall'[r][g] = IF r = p /\ g = h THEN "none" ELSE oncall[r][g] BY <1>1, <1>4
<1>6. Running' = Running \ {<<p, h>>} /\ (<<p, h>> \in Running <=> oncall[p][h] = "task")
  BY <1>5 DEF Running
<1>7. h \in Thread /\ h \notin Cpu BY ConstantsAssumption DEF Thread, Cpu
<1>8. \A r \in Proc, g \in Handlers : oncall'[r][g] = "task" => Busy(r) BY <1>5 DEF Busy
<1>9. \A r \in Proc : queue'[r] > 0 => Busy(r) BY <1>1 DEF Busy
<1>10. \A r \in Proc : Busy(r)' => Busy(r) BY <1>1, <1>7, <1>8, <1>9, BusyMove
<1>11. oncall[p][h] = "task"
         => calls' = [calls EXCEPT ![p] = [sent |-> calls[p].sent,
                                           received |-> calls[p].received + 1]] BY <1>1, <1>2, <1>3
<1> QED BY <1>1, <1>6, <1>10, <1>11

LEMMA ForceEffect ==
  ASSUME TypeOK, HandlersReady, NEW p \in Proc, NEW h \in Handlers, ForceDone(p, h)
  PROVE  /\ Running' = Running
         /\ p \in force_in_flight /\ done' = [done EXCEPT ![p] = TRUE]
         /\ \A r \in Proc : Busy(r)' => Busy(r)
         /\ UNCHANGED <<calls, tasks_in_flight, last_calls, hastoken, cur_token, token_in_flight>>
<1>1. /\ oncall' = [oncall EXCEPT ![p][h] = "force_done"] /\ Goto(p, h, "cancel")
      /\ p \in force_in_flight /\ done' = [done EXCEPT ![p] = TRUE]
      /\ pc[p][h] = "idle"
      /\ UNCHANGED <<queue, calls, tasks_in_flight, last_calls, hastoken, cur_token,
                     token_in_flight>> BY DEF ForceDone, At
<1>2. oncall \in [Proc -> [Handlers -> {"none", "task", "force_done"}]] BY DEF TypeOK
<1>3. \A r \in Proc, g \in Handlers :
        oncall'[r][g] = IF r = p /\ g = h THEN "force_done" ELSE oncall[r][g] BY <1>1, <1>2
<1>4. oncall[p][h] # "task" BY <1>1 DEF HandlersReady
<1>5. Running' = Running BY <1>3, <1>4 DEF Running
<1>6. h \in Thread /\ h \notin Cpu BY ConstantsAssumption DEF Thread, Cpu
<1>7. \A r \in Proc, g \in Handlers : oncall'[r][g] = "task" => Busy(r) BY <1>3 DEF Busy
<1>8. \A r \in Proc : queue'[r] > 0 => Busy(r) BY <1>1 DEF Busy
<1>9. \A r \in Proc : Busy(r)' => Busy(r) BY <1>1, <1>6, <1>7, <1>8, BusyMove
<1> QED BY <1>1, <1>5, <1>9

\* A token step makes no calls and no work, and what it tells the token is true.
LEMMA TokenEffect ==
  ASSUME TypeOK, TokenStep
  PROVE  /\ Running' = Running /\ UNCHANGED <<calls, tasks_in_flight, oncall>>
         /\ \A r \in Proc : Busy(r)' => Busy(r)
         /\ \/ UNCHANGED last_calls
            \/ \E p \in Proc : last_calls' = [last_calls EXCEPT ![p] = calls[p]]
<1>1. ASSUME NEW p \in Proc, NEW h \in Handlers, ReceiveTheToken(p, h)
      PROVE  /\ UNCHANGED <<calls, tasks_in_flight, oncall>>
             /\ \A r \in Proc : Busy(r)' => Busy(r)
  <2>1. /\ UNCHANGED <<calls, tasks_in_flight, oncall, queue>>
        /\ UNCHANGED pc \/ pc' = [pc EXCEPT ![p] = Signalled(p, Sleepers(p))]
    BY <1>1 DEF ReceiveTheToken, client_vars
  <2>2. \A q \in Proc : queue'[q] > 0 => Busy(q) BY <2>1 DEF Busy
  <2>3. \A q \in Proc, g \in Handlers : oncall'[q][g] = "task" => Busy(q) BY <2>1 DEF Busy
  <2>4. CASE UNCHANGED pc BY <2>1, <2>4 DEF Busy
  <2>5. CASE pc' = [pc EXCEPT ![p] = Signalled(p, Sleepers(p))] BY <2>1, <2>2, <2>3, <2>5, BusySignal
  <2> QED BY <2>1, <2>4, <2>5
<1>2. /\ UNCHANGED <<calls, tasks_in_flight, oncall>>
      /\ \A r \in Proc : Busy(r)' => Busy(r) BY <1>1, WorkerQuiet DEF TokenStep, WorkerStep, Quiet
<1>3. \/ UNCHANGED last_calls
      \/ \E p \in Proc : last_calls' = [last_calls EXCEPT ![p] = calls[p]]
  BY DEF TokenStep, ReceiveTheToken, EndDone, ForwardToken, DeclareDone, token_vars
<1> QED BY <1>2, <1>3 DEF Running

\* Calls are only ever added.
LEMMA CallsOnlyGrow ==
  ASSUME TypeOK, HandlersReady, [Next]_vars, NEW p \in Proc
  PROVE  calls[p].sent <= calls'[p].sent /\ calls[p].received <= calls'[p].received
<1>0. calls \in [Proc -> Calls] /\ calls[p].sent \in Nat /\ calls[p].received \in Nat
  BY DEF TypeOK, Calls
<1>1. CASE UNCHANGED calls BY <1>0, <1>1
<1>2. ASSUME NEW q \in Proc, NEW t \in Thread, NEW r \in Proc \ {q}, AddTaskRemote(q, t, r)
      PROVE  calls[p].sent <= calls'[p].sent /\ calls[p].received <= calls'[p].received
  BY <1>0, <1>2, RemoteEffect
<1>3. ASSUME NEW q \in Proc, NEW h \in Handlers, CallReturns(q, h)
      PROVE  calls[p].sent <= calls'[p].sent /\ calls[p].received <= calls'[p].received
  <2>1. CASE calls' = [calls EXCEPT ![q] = [sent |-> calls[q].sent,
                                            received |-> calls[q].received + 1]]
    <3>1. CASE p = q BY <1>0, <2>1, <3>1
    <3>2. CASE p # q BY <1>0, <2>1, <3>2
    <3> QED BY <3>1, <3>2
  <2> QED BY <1>1, <1>3, <2>1, ReturnEffect
<1>4. Restart => UNCHANGED calls BY DEF Restart
<1> QED BY <1>1, <1>2, <1>3, <1>4, StepKinds, ReceiveEffect, ForceEffect, TokenEffect DEF count_vars

CallsInv ==
  /\ HandlersReady /\ Balanced /\ ToldBefore /\ CalledBefore(calls)
  /\ N = 1 => NothingMoving

LEMMA CalledNext ==
  TypeOK /\ HandlersReady /\ CalledBefore(calls) /\ [Next]_vars => CalledBefore(calls)'
<1> SUFFICES ASSUME TypeOK, HandlersReady, CalledBefore(calls), [Next]_vars, N # 1
             PROVE  \E p \in Proc \ {N-1} : calls'[p] # NoCalls BY DEF CalledBefore
<1>1. PICK p \in Proc \ {N-1} : calls[p] # NoCalls BY DEF CalledBefore
<1>2. calls[p] \in Calls /\ calls'[p] \in Calls BY TypeNext DEF TypeOK
<1>3. calls[p].sent # 0 \/ calls[p].received # 0 BY <1>1, <1>2 DEF Calls, NoCalls
<1>4. calls[p].sent <= calls'[p].sent /\ calls[p].received <= calls'[p].received BY CallsOnlyGrow
<1>5. calls'[p] # NoCalls BY <1>2, <1>3, <1>4 DEF Calls, NoCalls
<1> QED BY <1>5

LEMMA ToldNext == TypeOK /\ HandlersReady /\ ToldBefore /\ [Next]_vars => ToldBefore'
<1> SUFFICES ASSUME TypeOK, HandlersReady, ToldBefore, [Next]_vars, NEW p \in Proc
             PROVE  /\ last_calls'[p].sent <= calls'[p].sent
                    /\ last_calls'[p].received <= calls'[p].received BY DEF ToldBefore
<1>0. /\ calls[p].sent \in Nat /\ calls[p].received \in Nat
      /\ calls'[p].sent \in Nat /\ calls'[p].received \in Nat
      /\ last_calls[p].sent \in Nat /\ last_calls[p].received \in Nat
      /\ last_calls \in [Proc -> Calls] BY TypeNext DEF TypeOK, Calls
<1>1. /\ calls[p].sent <= calls'[p].sent /\ calls[p].received <= calls'[p].received
      /\ last_calls[p].sent <= calls[p].sent /\ last_calls[p].received <= calls[p].received
  BY CallsOnlyGrow DEF ToldBefore
<1>2. CASE UNCHANGED last_calls BY <1>0, <1>1, <1>2
<1>3. CASE TokenStep
  <2>1. last_calls'[p] = last_calls[p] \/ last_calls'[p] = calls[p] BY <1>0, <1>3, TokenEffect
  <2> QED BY <1>0, <1>1, <2>1
<1>4. CASE Restart BY <1>0, <1>4 DEF Restart
<1> QED BY <1>2, <1>3, <1>4, StepKinds, RemoteEffect, ReceiveEffect, ForceEffect, ReturnEffect
        DEF count_vars

LEMMA AloneNext ==
  TypeOK /\ HandlersReady /\ (N = 1 => NothingMoving) /\ [Next]_vars
    => (N = 1 => NothingMoving)'
<1> SUFFICES ASSUME TypeOK, HandlersReady, N = 1, NothingMoving, [Next]_vars
             PROVE  NothingMoving' OBVIOUS
<1>0. \A p, q \in Proc : p = q BY DEF Proc
<1>1. CASE UNCHANGED <<tasks_in_flight, oncall>> BY <1>1 DEF NothingMoving, Running
<1>2. Restart => UNCHANGED <<tasks_in_flight, oncall>> BY DEF Restart
<1> QED BY <1>0, <1>1, <1>2, StepKinds, ReceiveEffect, ForceEffect, ReturnEffect, TokenEffect
        DEF count_vars, Quiet, NothingMoving

\* A call is sent, taken up and counted: the books stay balanced.
LEMMA BalancedNext == TypeOK /\ HandlersReady /\ Balanced /\ [Next]_vars => Balanced'
<1> SUFFICES ASSUME TypeOK, HandlersReady, Balanced, [Next]_vars PROVE Balanced' OBVIOUS
<1>0. /\ calls \in [Proc -> Calls] /\ tasks_in_flight \in [Proc -> Nat]
      /\ calls' \in [Proc -> Calls] /\ tasks_in_flight' \in [Proc -> Nat] BY TypeNext DEF TypeOK
<1>a. /\ Total(Sent(calls)) \in Nat /\ Total(Received(calls)) \in Nat
      /\ Total(tasks_in_flight) \in Nat /\ Total(tasks_in_flight') \in Nat
      /\ IsFiniteSet(Running) /\ Cardinality(Running) \in Nat
      /\ Total(Sent(calls)) =
           Total(Received(calls)) + Total(tasks_in_flight) + Cardinality(Running)
  BY <1>0, CallsCounted, UnitsFinite, FS_CardinalityType DEF Balanced
<1>1. CASE UNCHANGED <<calls, tasks_in_flight>> /\ Running' = Running
  BY <1>1 DEF Balanced, Sent, Received, Total, Units
<1>2. ASSUME NEW p \in Proc, NEW t \in Thread, NEW q \in Proc \ {p}, AddTaskRemote(p, t, q)
      PROVE  Balanced'
  <2> DEFINE c == [sent |-> calls[p].sent + 1, received |-> calls[p].received]
  <2>1. /\ calls' = [calls EXCEPT ![p] = c] /\ Running' = Running
        /\ tasks_in_flight' = [tasks_in_flight EXCEPT ![q] = tasks_in_flight[q] + 1]
    BY <1>2, RemoteEffect
  <2>2. /\ calls[p].sent \in Nat /\ calls[p].received \in Nat
        /\ c \in Calls /\ c.sent = calls[p].sent + 1 /\ c.received = calls[p].received BY <1>0 DEF Calls
  <2> HIDE DEF c
  <2>a. calls[p].sent <= c.sent /\ calls[p].received <= c.received BY <2>2
  <2>3. /\ Total(Sent(calls')) = Total(Sent(calls)) + (c.sent - calls[p].sent)
        /\ Total(Received(calls')) = Total(Received(calls)) + (c.received - calls[p].received)
    <3> DEFINE cs == calls
               ds == calls'
    <3>1. cs \in [Proc -> Calls] /\ ds = [cs EXCEPT ![p] = c] /\ c \in Calls
          /\ cs[p].sent <= c.sent /\ cs[p].received <= c.received BY <1>0, <2>1, <2>2, <2>a
    <3> HIDE DEF cs, ds
    <3>2. /\ Total(Sent(ds)) = Total(Sent(cs)) + (c.sent - cs[p].sent)
          /\ Total(Received(ds)) = Total(Received(cs)) + (c.received - cs[p].received) BY <3>1, CallsGrow
    <3> QED BY <3>2 DEF cs, ds
  <2>4. Total(Sent(calls')) = Total(Sent(calls)) + 1
        /\ Total(Received(calls')) = Total(Received(calls)) BY <1>a, <2>1, <2>2, <2>3
  <2>5. Total(tasks_in_flight') = Total(tasks_in_flight) + 1
    <3>1. tasks_in_flight[q] \in Nat /\ tasks_in_flight[q] + 1 \in Nat
          /\ tasks_in_flight[q] <= tasks_in_flight[q] + 1 BY <1>0
    <3>2. Total(tasks_in_flight')
            = Total(tasks_in_flight) + ((tasks_in_flight[q] + 1) - tasks_in_flight[q])
      BY <1>0, <2>1, <3>1, TotalGrows
    <3> QED BY <1>a, <3>1, <3>2
  <2>6. Total(Sent(calls')) =
          Total(Received(calls')) + Total(tasks_in_flight') + Cardinality(Running')
    BY <1>a, <2>1, <2>4, <2>5
  <2> QED BY <1>a, <2>1, <2>6 DEF Balanced, Sent, Received, Total, Units
<1>3. ASSUME NEW p \in Proc, NEW h \in Handlers, ReceiveTask(p, h) PROVE Balanced'
  <2>1. /\ tasks_in_flight[p] > 0
        /\ tasks_in_flight' = [tasks_in_flight EXCEPT ![p] = tasks_in_flight[p] - 1]
        /\ Running' = Running \cup {<<p, h>>} /\ <<p, h>> \notin Running
        /\ UNCHANGED calls BY <1>3, ReceiveEffect
  <2>2. /\ tasks_in_flight = [tasks_in_flight' EXCEPT ![p] = tasks_in_flight[p]]
        /\ tasks_in_flight'[p] = tasks_in_flight[p] - 1 /\ tasks_in_flight[p] \in Nat BY <1>0, <2>1
  <2>3. Total(tasks_in_flight) = Total(tasks_in_flight') + 1
    <3> DEFINE f == tasks_in_flight'
               n == tasks_in_flight[p]
    <3>1. f \in [Proc -> Nat] /\ n \in Nat /\ f[p] <= n /\ n - f[p] = 1
          /\ tasks_in_flight = [f EXCEPT ![p] = n] BY <1>0, <2>2
    <3> HIDE DEF f, n
    <3>2. Total([f EXCEPT ![p] = n]) = Total(f) + (n - f[p]) BY <3>1, TotalGrows
    <3>3. Total(tasks_in_flight) = Total(f) + 1 BY <3>1, <3>2
    <3> QED BY <3>3 DEF f
  <2>4. IsFiniteSet(Running') /\ Cardinality(Running') = Cardinality(Running) + 1
    BY <1>a, <2>1, FS_AddElement
  <2>5. Total(Sent(calls')) =
          Total(Received(calls')) + Total(tasks_in_flight') + Cardinality(Running')
    BY <1>a, <2>1, <2>3, <2>4
  <2> QED BY <2>4, <2>5 DEF Balanced, Sent, Received, Total, Units
<1>4. ASSUME NEW p \in Proc, NEW h \in Handlers, CallReturns(p, h) PROVE Balanced'
  <2>1. /\ Running' = Running \ {<<p, h>>} /\ (<<p, h>> \in Running <=> oncall[p][h] = "task")
        /\ UNCHANGED tasks_in_flight BY <1>4, ReturnEffect
  <2>2. CASE oncall[p][h] # "task" BY <1>1, <1>4, <2>1, <2>2, ReturnEffect
  <2>3. CASE oncall[p][h] = "task"
    <3> DEFINE c == [sent |-> calls[p].sent, received |-> calls[p].received + 1]
    <3>1. calls' = [calls EXCEPT ![p] = c] BY <1>4, <2>3, ReturnEffect
    <3>2. /\ calls[p].sent \in Nat /\ calls[p].received \in Nat
          /\ c \in Calls /\ c.sent = calls[p].sent /\ c.received = calls[p].received + 1
      BY <1>0 DEF Calls
    <3> HIDE DEF c
    <3>a. calls[p].sent <= c.sent /\ calls[p].received <= c.received BY <3>2
    <3>3. /\ Total(Sent(calls')) = Total(Sent(calls)) + (c.sent - calls[p].sent)
          /\ Total(Received(calls')) = Total(Received(calls)) + (c.received - calls[p].received)
      <4> DEFINE cs == calls
                 ds == calls'
      <4>1. cs \in [Proc -> Calls] /\ ds = [cs EXCEPT ![p] = c] /\ c \in Calls
            /\ cs[p].sent <= c.sent /\ cs[p].received <= c.received BY <1>0, <3>1, <3>2, <3>a
      <4> HIDE DEF cs, ds
      <4>2. /\ Total(Sent(ds)) = Total(Sent(cs)) + (c.sent - cs[p].sent)
            /\ Total(Received(ds)) = Total(Received(cs)) + (c.received - cs[p].received)
        BY <4>1, CallsGrow
      <4> QED BY <4>2 DEF cs, ds
    <3>4. /\ Total(Sent(calls')) = Total(Sent(calls))
          /\ Total(Received(calls')) = Total(Received(calls)) + 1 BY <1>a, <3>1, <3>2, <3>3
    <3>5. IsFiniteSet(Running') /\ Cardinality(Running') = Cardinality(Running) - 1
      BY <1>a, <2>1, <2>3, FS_RemoveElement
    <3>6. Total(Sent(calls'))
            = Total(Received(calls')) + Total(tasks_in_flight') + Cardinality(Running')
      BY <1>a, <2>1, <3>4, <3>5
    <3> QED BY <3>5, <3>6 DEF Balanced, Sent, Received, Total, Units
  <2> QED BY <2>2, <2>3
<1>5. Restart => UNCHANGED <<calls, tasks_in_flight>> /\ Running' = Running BY DEF Restart, Running
<1>6. Quiet /\ UNCHANGED count_vars => UNCHANGED <<calls, tasks_in_flight>> /\ Running' = Running
  BY DEF Quiet, count_vars, Running
<1> QED BY <1>1, <1>2, <1>3, <1>4, <1>5, <1>6, StepKinds, ForceEffect, TokenEffect

LEMMA CallsNext == TypeOK /\ CallsInv /\ [Next]_vars => CallsInv'
BY ReadyNext, BalancedNext, ToldNext, CalledNext, AloneNext DEF CallsInv

-----------------------------------------------------------------------------
(* The round.                                                              *)

LEMMA AheadFacts ==
  ASSUME NEW p \in Proc, NEW l \in Proc
  PROVE  /\ Ahead(p, l) \subseteq Proc
         /\ Ahead(p, p) = {}
         /\ Ahead((p + 1) % N, p) = Proc \ {p}
         /\ p # l => /\ p \in Ahead(p, l)
                     /\ Ahead((p + 1) % N, l) = Ahead(p, l) \ {p}
<1>0. N \in Nat \ {0} /\ p \in 0 .. N-1 /\ l \in 0 .. N-1 BY ConstantsAssumption DEF Proc
<1>1. (p + 1) % N = IF p = N - 1 THEN 0 ELSE p + 1 BY <1>0, SMT
<1>2. Ahead(p, l) \subseteq Proc /\ Ahead(p, p) = {} BY <1>0 DEF Ahead, Proc
<1>3. Ahead((p + 1) % N, p) = Proc \ {p} BY <1>0, <1>1 DEF Ahead, Proc
<1>4. ASSUME p # l
      PROVE  p \in Ahead(p, l) /\ Ahead((p + 1) % N, l) = Ahead(p, l) \ {p} BY <1>0, <1>1, <1>4 DEF Ahead
<1> QED BY <1>2, <1>3, <1>4

\* When the machines have told all their calls and the totals agree, no call is
\* on its way or being run.
LEMMA EqualMeansStill ==
  ASSUME TypeOK, Balanced, NEW ls \in [Proc -> Calls],
         Total(Sent(ls)) = Total(Received(ls)),
         \A q \in Proc : calls[q] = ls[q]
  PROVE  NothingMoving
<1>0. calls \in [Proc -> Calls] /\ tasks_in_flight \in [Proc -> Nat] BY DEF TypeOK
<1>1. calls = ls BY <1>0
<1>2. /\ Total(Received(calls)) \in Nat /\ Total(tasks_in_flight) \in Nat
      /\ IsFiniteSet(Running) /\ Cardinality(Running) \in Nat
      /\ Total(Received(calls))
           = Total(Received(calls)) + Total(tasks_in_flight) + Cardinality(Running)
  BY <1>0, <1>1, CallsCounted, UnitsFinite, FS_CardinalityType DEF Balanced
<1>3. Total(tasks_in_flight) = 0 /\ Cardinality(Running) = 0 BY <1>2
<1> QED BY <1>0, <1>2, <1>3, TotalZero, FS_EmptySet DEF NothingMoving

\* Then a machine whose workers have turned in has nothing to do.
LEMMA IdleWhenStill ==
  ASSUME SleepInv, NEW p \in Proc, ~done[p], AllTurnedIn(p), NothingMoving
  PROVE  ~Busy(p)
<1>1. \A h \in Handlers : oncall[p][h] # "task"
  <2> SUFFICES ASSUME NEW h \in Handlers, oncall[p][h] = "task" PROVE FALSE OBVIOUS
  <2>1. <<p, h>>[1] = p /\ <<p, h>>[2] = h /\ <<p, h>> \in Proc \X Handlers OBVIOUS
  <2>2. <<p, h>> \in Running BY <2>1 DEF Running
  <2> QED BY <2>2 DEF NothingMoving
<1>2. ~(queue[p] > 0) BY <1>1 DEF SleepInv, Wakeup, WakeupAt, WakerComing
<1>3. \A i \in Cpu : pc[p][i] \in {"wait", "woken", "end"} BY TurnedIn
<1> QED BY <1>1, <1>2, <1>3 DEF Busy, WakerLabels

\* The machine that passes the token on, or declares, has turned in.
LEMMA VisitTurnedIn ==
  ASSUME SleepInv, NEW p \in Proc,
         \/ numactive[p] = 0
         \/ ~done[p] /\ numactive[p] = 1 /\ \E i \in Cpu : pc[p][i] = "end"
  PROVE  AllTurnedIn(p)
<1>0. /\ numactive[p] + Cardinality(Sleepers(p)) = NCpus
      /\ IsFiniteSet(Cpu) /\ Cardinality(Cpu) = NCpus
      /\ Sleepers(p) \subseteq Cpu /\ IsFiniteSet(Sleepers(p))
      /\ Cardinality(Sleepers(p)) \in Nat /\ NCpus \in Nat
  <2>1. IsFiniteSet(Cpu) /\ Cardinality(Cpu) = NCpus
    <3>1. 0 \in Int /\ NCpus - 1 \in Int /\ ~(0 > NCpus - 1) /\ (NCpus - 1) - 0 + 1 = NCpus
      BY ConstantsAssumption
    <3>2. /\ IsFiniteSet(0 .. NCpus - 1)
          /\ Cardinality(0 .. NCpus - 1)
               = IF 0 > NCpus - 1 THEN 0 ELSE (NCpus - 1) - 0 + 1 BY <3>1, FS_Interval
    <3> QED BY <3>1, <3>2 DEF Cpu
  <2> QED BY <2>1, SleepersFinite, ConstantsAssumption DEF SleepInv, NumActiveCountsAwake, Sleepers
<1>1. CASE numactive[p] = 0 BY <1>0, <1>1, FS_Subset DEF AllTurnedIn, Sleepers
<1>2. CASE ~done[p] /\ numactive[p] = 1 /\ \E i \in Cpu : pc[p][i] = "end"
  <2>1. PICK i \in Cpu : pc[p][i] = "end" BY <1>2
  <2>2. i \notin Sleepers(p) BY <1>2, <2>1 DEF SleepInv, AsleepInside, AsleepAt, Sleepers
  <2>3. IsFiniteSet(Sleepers(p) \cup {i}) /\ Cardinality(Sleepers(p) \cup {i}) = NCpus
    BY <1>0, <1>2, <2>2, FS_AddElement
  <2>4. Sleepers(p) \cup {i} = Cpu BY <1>0, <2>3, FS_Subset
  <2> QED BY <2>1, <2>4 DEF AllTurnedIn, Sleepers
<1> QED BY <1>1, <1>2

\* There is one token, wherever it is.
LEMMA TokenTyped ==
  ASSUME TypeOK, NEW x \in TheToken
  PROVE  x.to \in Proc /\ x.token \in Token /\ x = [to |-> x.to, token |-> x.token]
BY DEF TypeOK, TheToken

\* A machine that has something to tell signs the token; the totals stay true.
LEMMA ReportTotals ==
  ASSUME TypeOK, ToldBefore, NEW p \in Proc, NEW tok \in Token, Totals(tok),
         NEW new, new = ReportedToken(p, tok),
         last_calls' = [last_calls EXCEPT ![p] = calls[p]]
  PROVE  /\ Totals(new)'
         /\ \/ calls[p] = last_calls[p] /\ new = tok /\ last_calls' = last_calls
            \/ calls[p] # last_calls[p] /\ new.last_change = p
<1>0. /\ last_calls \in [Proc -> Calls] /\ calls[p] \in Calls /\ last_calls[p] \in Calls
      /\ last_calls[p].sent <= calls[p].sent /\ last_calls[p].received <= calls[p].received
      /\ calls[p].sent \in Nat /\ calls[p].received \in Nat
      /\ last_calls[p].sent \in Nat /\ last_calls[p].received \in Nat BY DEF TypeOK, Calls, ToldBefore
<1>1. CASE calls[p] = last_calls[p]
  <2>1. new = tok BY <1>0, <1>1 DEF ReportedToken
  <2>2. last_calls' = last_calls BY <1>0, <1>1
  <2> QED BY ZenonT(60), <1>1, <2>1, <2>2 DEF Totals, Sent, Received, Total, Units
<1>2. CASE calls[p] # last_calls[p]
  <2>1. calls[p].sent # last_calls[p].sent \/ calls[p].received # last_calls[p].received
    BY <1>0, <1>2 DEF Calls
  <2>2. new = [total_calls_sent     |-> tok.total_calls_sent + calls[p].sent - last_calls[p].sent,
               total_calls_received |->
                 tok.total_calls_received + calls[p].received - last_calls[p].received,
               last_change          |-> p] BY <1>0, <2>1 DEF ReportedToken
  <2> DEFINE c == calls[p]
             cs == last_calls
             ds == last_calls'
  <2>3. /\ cs \in [Proc -> Calls] /\ c \in Calls /\ ds = [cs EXCEPT ![p] = c]
        /\ cs[p].sent <= c.sent /\ cs[p].received <= c.received BY <1>0
  <2> HIDE DEF c, cs, ds
  <2>4. /\ Total(Sent(ds)) = Total(Sent(cs)) + (c.sent - cs[p].sent)
        /\ Total(Received(ds)) = Total(Received(cs)) + (c.received - cs[p].received) BY <2>3, CallsGrow
  <2> USE DEF c, cs, ds
  <2>5. /\ Total(Sent(last_calls)) \in Nat /\ Total(Received(last_calls)) \in Nat
        /\ tok.total_calls_sent = Total(Sent(last_calls))
        /\ tok.total_calls_received = Total(Received(last_calls)) BY <1>0, CallsCounted DEF Totals
  <2>6. /\ new.total_calls_sent = Total(Sent(last_calls'))
        /\ new.total_calls_received = Total(Received(last_calls'))
    <3>1. /\ new.total_calls_sent = tok.total_calls_sent + calls[p].sent - last_calls[p].sent
          /\ new.total_calls_received
               = tok.total_calls_received + calls[p].received - last_calls[p].received BY <2>2
    <3> QED BY <1>0, <2>4, <2>5, <3>1
  <2> QED BY <1>2, <2>2, <2>6 DEF Totals, Sent, Received, Total, Units
<1> QED BY <1>1, <1>2

\* Passing the token on keeps what it says of the machines it has visited.
LEMMA ForwardCounts ==
  ASSUME TypeOK, CallsInv, NEW p \in Proc, NEW tok \in Token, Totals(tok),
         N > 1 => RoundCounts(p, tok), ~TokenComplete(p, tok),
         NEW new, new = ReportedToken(p, tok),
         last_calls' = [last_calls EXCEPT ![p] = calls[p]], UNCHANGED calls,
         \A q \in Proc : Busy(q)' => Busy(q),
         NothingMoving => ~Busy(p)
  PROVE  Totals(new)' /\ (N > 1 => RoundCounts((p + 1) % N, new)')
<1>0. /\ Totals(new)'
      /\ \/ calls[p] = last_calls[p] /\ new = tok /\ last_calls' = last_calls
         \/ calls[p] # last_calls[p] /\ new.last_change = p BY ReportTotals DEF CallsInv
<1>a. /\ last_calls \in [Proc -> Calls] /\ last_calls' \in [Proc -> Calls]
      /\ tok.last_change \in Proc BY DEF TypeOK, Token
<1> SUFFICES ASSUME N > 1,
                    new.total_calls_sent = new.total_calls_received,
                    \A q \in Ahead((p + 1) % N, new.last_change) : calls[q] = last_calls'[q],
                    NEW q \in Proc \ Ahead((p + 1) % N, new.last_change)
             PROVE  calls[q] = last_calls'[q] /\ ~Busy(q)' BY <1>0 DEF RoundCounts, Settled
<1>1. CASE calls[p] = last_calls[p] /\ new = tok /\ last_calls' = last_calls
  <2>1. p # tok.last_change BY <1>1 DEF TokenComplete
  <2>2. p \in Ahead(p, tok.last_change) /\ Ahead(p, tok.last_change) \subseteq Proc
        /\ Ahead((p + 1) % N, tok.last_change) = Ahead(p, tok.last_change) \ {p}
    BY <1>a, <2>1, AheadFacts
  <2>3. \A r \in Ahead(p, tok.last_change) : calls[r] = last_calls[r] BY <1>1, <2>2
  <2>4. \A r \in Proc \ Ahead(p, tok.last_change) : calls[r] = last_calls[r] /\ ~Busy(r)
    BY <1>1, <2>3 DEF RoundCounts, Settled
  <2>5. \A r \in Proc : calls[r] = last_calls[r] BY <2>3, <2>4
  <2>6. Total(Sent(last_calls)) = Total(Received(last_calls)) BY <1>1 DEF Totals
  <2>7. ~Busy(p) BY <1>a, <2>5, <2>6, EqualMeansStill DEF CallsInv
  <2> QED BY <1>1, <2>2, <2>4, <2>5, <2>7
<1>2. CASE calls[p] # last_calls[p] /\ new.last_change = p
  <2>1. Ahead((p + 1) % N, p) = Proc \ {p} BY AheadFacts
  <2>2. last_calls'[p] = calls[p] BY <1>a
  <2>3. \A r \in Proc : calls[r] = last_calls'[r] BY <1>2, <2>1, <2>2
  <2>4. Total(Sent(last_calls')) = Total(Received(last_calls'))
    BY <1>0 DEF Totals, Sent, Received, Total, Units
  <2>5. NothingMoving
    <3> DEFINE ls == last_calls'
    <3>1. ls \in [Proc -> Calls] /\ Total(Sent(ls)) = Total(Received(ls))
          /\ \A r \in Proc : calls[r] = ls[r] BY <1>a, <2>3, <2>4
    <3> HIDE DEF ls
    <3> QED BY <3>1, EqualMeansStill DEF CallsInv
  <2> QED BY <1>2, <2>1, <2>3, <2>5
<1> QED BY <1>0, <1>1, <1>2

\* What a token step does with the token.
Passes(p, x) ==
  /\ ~TokenComplete(p, x.token)
  /\ last_calls' = [last_calls EXCEPT ![p] = calls[p]]
  /\ UNCHANGED done
  /\ TheToken' = {[to |-> (p + 1) % N, token |-> ReportedToken(p, x.token)]}

Declares(p, x) ==
  /\ TokenComplete(p, x.token)
  /\ done' = [done EXCEPT ![p] = TRUE]

LEMMA TokenMoves ==
  ASSUME SleepInv, TokenInv, TokenStep
  PROVE  \/ UNCHANGED <<last_calls, done>> /\ TheToken' = TheToken
         \/ \E p \in Proc : \E x \in TheToken :
              /\ x.to = p /\ ~done[p] /\ AllTurnedIn(p)
              /\ Passes(p, x) \/ Declares(p, x)
<1>0. TypeOK BY DEF SleepInv
<1>1. ASSUME UNCHANGED <<done, token_vars>>
      PROVE  UNCHANGED <<last_calls, done>> /\ TheToken' = TheToken BY <1>1 DEF token_vars, TheToken
<1>2. ASSUME NEW p \in Proc, NEW tok, NEW flying, ForwardToken(p, tok, flying), flying = {},
             \A q \in Proc : q # p => ~hastoken[q]
      PROVE  /\ last_calls' = [last_calls EXCEPT ![p] = calls[p]] /\ UNCHANGED done
             /\ TheToken' = {[to |-> (p + 1) % N, token |-> ReportedToken(p, tok)]}
  BY <1>0, <1>2 DEF ForwardToken, TypeOK, TheToken
<1>3. ASSUME NEW p \in Proc, NEW h \in Handlers, NEW msg \in token_in_flight,
             ReceiveTheToken(p, h)!(msg)
      PROVE  \/ UNCHANGED <<last_calls, done>> /\ TheToken' = TheToken
             \/ \E x \in TheToken :
                  /\ x.to = p /\ ~done[p] /\ AllTurnedIn(p)
                  /\ Passes(p, x) \/ Declares(p, x)
  <2>1. /\ msg.to = p /\ msg \in TheToken
        /\ \A q \in Proc : ~hastoken[q]
        /\ token_in_flight = {msg} BY <1>3 DEF TokenInv, OneToken, TheToken
  <2>2. ~done[p] BY <2>1 DEF TokenInv, ToldByHolder
  <2>3. CASE numactive[p] > 0
    <3>1. /\ hastoken' = [hastoken EXCEPT ![p] = TRUE]
          /\ cur_token' = [cur_token EXCEPT ![p] = msg.token]
          /\ token_in_flight' = token_in_flight \ {msg}
          /\ UNCHANGED <<done, last_calls>> BY <1>0, <1>3, <2>3 DEF TypeOK
    <3>2. \A q \in Proc : hastoken'[q] <=> q = p BY <1>0, <2>1, <3>1 DEF TypeOK
    <3>3. cur_token'[p] = msg.token /\ token_in_flight' = {} BY <1>0, <2>1, <3>1 DEF TypeOK
    <3>4. msg = [to |-> p, token |-> msg.token] BY <1>0, <2>1, TokenTyped
    <3>5. TheToken' = {msg} /\ TheToken = {msg} BY <2>1, <3>2, <3>3, <3>4 DEF TheToken
    <3> QED BY <3>1, <3>5
  <2>4. CASE numactive[p] = 0 /\ ~TokenComplete(p, msg.token)
    <3>1. ForwardToken(p, msg.token, token_in_flight \ {msg}) /\ token_in_flight \ {msg} = {}
      BY <1>3, <2>1, <2>4
    <3>2. AllTurnedIn(p) BY <2>4, VisitTurnedIn
    <3> QED BY <1>2, <2>1, <2>2, <2>4, <3>1, <3>2 DEF Passes
  <2>5. CASE numactive[p] = 0 /\ TokenComplete(p, msg.token)
    <3>1. AllTurnedIn(p) BY <2>5, VisitTurnedIn
    <3>2. done' = [done EXCEPT ![p] = TRUE] BY <1>3, <2>5 DEF DeclareDone
    <3> QED BY <2>1, <2>2, <2>5, <3>1, <3>2 DEF Declares
  <2> QED BY <1>3, <2>3, <2>4, <2>5
<1>4. ASSUME NEW p \in Proc, NEW i \in Cpu, EndDone(p, i)
      PROVE  \/ UNCHANGED <<last_calls, done>> /\ TheToken' = TheToken
             \/ \E x \in TheToken :
                  /\ x.to = p /\ ~done[p] /\ AllTurnedIn(p)
                  /\ Passes(p, x) \/ Declares(p, x)
  <2>1. CASE UNCHANGED <<done, token_vars>> BY <1>1, <2>1
  <2>2. CASE ~UNCHANGED <<done, token_vars>>
    <3>1. /\ ~done[p] /\ numactive[p] = 1 /\ hastoken[p] /\ pc[p][i] = "end"
          /\ \/ /\ ~TokenComplete(p, cur_token[p])
                /\ ForwardToken(p, cur_token[p], token_in_flight)
             \/ /\ TokenComplete(p, cur_token[p])
                /\ DeclareDone(p, cur_token[p], token_in_flight) BY <1>4, <2>2 DEF EndDone, At
    <3>2. AllTurnedIn(p) BY <3>1, VisitTurnedIn
    <3> DEFINE x == [to |-> p, token |-> cur_token[p]]
    <3>3. x \in TheToken /\ x.to = p /\ x.token = cur_token[p] BY <3>1 DEF TheToken
    <3>4. token_in_flight = {} /\ \A q \in Proc : q # p => ~hastoken[q] BY <3>1 DEF TokenInv, OneToken
    <3> HIDE DEF x
    <3>5. Passes(p, x) \/ Declares(p, x)
      <4>1. CASE TokenComplete(p, cur_token[p]) BY <3>1, <3>3, <4>1 DEF DeclareDone, Declares
      <4>2. CASE ~TokenComplete(p, cur_token[p]) BY <1>2, <3>1, <3>3, <3>4, <4>2 DEF Passes
      <4> QED BY <4>1, <4>2
    <3> QED BY <3>1, <3>2, <3>3, <3>5
  <2> QED BY <2>1, <2>2
<1> QED BY <1>3, <1>4 DEF TokenStep, ReceiveTheToken

\* The token that a machine turns in before it is told was not declared by another.
LEMMA TokenUntold ==
  ASSUME TokenInv, NEW x \in TheToken, ~done[x.to]
  PROVE  \A q \in Proc : ~done[q]
<1>1. CASE token_in_flight = {} BY <1>1 DEF TheToken, TokenInv, OneToken, ToldByHolder
<1>2. CASE token_in_flight # {} BY <1>2 DEF TokenInv, OneToken, ToldByHolder
<1> QED BY <1>1, <1>2

-----------------------------------------------------------------------------
(* Consensus.                                                              *)

\* Calls balance, the token says what was told, and a declaration is true.
ConsensusInv == CallsInv /\ TokenCounts /\ DoneMeansNoWork

\* A token that starts its first round finds a machine with something to tell.
LEMMA FirstRound ==
  ASSUME NEW cs, CalledBefore(cs), N > 1
  PROVE  ~ \A q \in Ahead(0, N-1) : cs[q] = NoCalls
<1>1. N-1 \in Proc /\ 0 <= N-1 /\ N \in Nat BY ConstantsAssumption DEF Proc
<1>2. Ahead(0, N-1) = 0 .. N-2 BY <1>1 DEF Ahead
<1>3. Proc \ {N-1} = 0 .. N-2 BY <1>1 DEF Proc
<1> QED BY <1>1, <1>2, <1>3 DEF CalledBefore

LEMMA NothingTold ==
  ASSUME NEW cs, cs = [p \in Proc |-> NoCalls]
  PROVE  Total(Sent(cs)) = 0 /\ Total(Received(cs)) = 0
<1>1. \A p \in Proc : cs[p].sent = 0 /\ cs[p].received = 0 BY DEF NoCalls
<1>2. Sent(cs) \in [Proc -> Nat] /\ \A p \in Proc : Sent(cs)[p] = 0 BY <1>1 DEF Sent
<1>3. Received(cs) \in [Proc -> Nat] /\ \A p \in Proc : Received(cs)[p] = 0 BY <1>1 DEF Received
<1> QED BY <1>2, <1>3, TotalZero

\* A restart finds every machine told, hence the token held, and hands a new one
\* to machine 0.
LEMMA RestartToken ==
  ASSUME TypeOK, TokenInv, OutMeansDone, Restart
  PROVE  TheToken' = {[to |-> 0, token |-> InitialToken]}
<1>1. \A p \in Proc : done[p] BY ConstantsAssumption DEF Restart, OutMeansDone, At, Cpu
<1>2. 0 \in Proc BY ConstantsAssumption DEF Proc
<1>3. token_in_flight = {} BY <1>1, <1>2 DEF TokenInv, OneToken, ToldByHolder, TypeOK
<1>4. token_in_flight' = {} /\ \A p \in Proc : (hastoken'[p] <=> p = 0)
      /\ cur_token'[p] = InitialToken BY <1>3 DEF Restart
<1> QED BY <1>2, <1>4 DEF TheToken

LEMMA TokenCountsNext ==
  ASSUME SleepInv, TokenInv, OutMeansDone, CallsInv, TokenCounts, [Next]_vars
  PROVE  TokenCounts'
<1> SUFFICES ASSUME \A p \in Proc : ~done'[p], NEW y \in TheToken'
             PROVE  Totals(y.token)' /\ (N > 1 => RoundCounts(y.to, y.token)') BY DEF TokenCounts
<1>0. TypeOK BY DEF SleepInv
<1>a. calls \in [Proc -> Calls] /\ last_calls \in [Proc -> Calls]
      /\ done \in [Proc -> BOOLEAN] /\ calls' \in [Proc -> Calls] BY <1>0, TypeNext DEF TypeOK
<1>c. ~Restart => \A p \in Proc : ~done[p] BY <1>0, DoneGrows DEF vars
<1>d. ASSUME \A p \in Proc : ~done[p], UNCHANGED last_calls, y \in TheToken
      PROVE  /\ Totals(y.token)' /\ Totals(y.token)
             /\ N > 1 => RoundCounts(y.to, y.token)
             /\ y.to \in Proc /\ y.token \in Token
  BY <1>0, <1>d, TokenTyped DEF TokenCounts, Totals, Sent, Received, Total, Units
\* If the totals agree and nobody ahead has anything to tell, nothing moves.
<1>e. ASSUME \A p \in Proc : ~done[p], N > 1, y \in TheToken, UNCHANGED last_calls,
             y.token.total_calls_sent = y.token.total_calls_received,
             \A q \in Ahead(y.to, y.token.last_change) : calls[q] = last_calls[q]
      PROVE  /\ \A q \in Proc \ Ahead(y.to, y.token.last_change) : Settled(q)
             /\ NothingMoving
  <2>1. \A q \in Proc \ Ahead(y.to, y.token.last_change) : Settled(q) BY <1>e, <1>d DEF RoundCounts
  <2>2. \A q \in Proc : calls[q] = last_calls[q] BY <1>e, <2>1 DEF Settled
  <2>3. Total(Sent(last_calls)) = Total(Received(last_calls)) BY <1>d, <1>e DEF Totals
  <2> QED BY <1>0, <1>a, <2>1, <2>2, <2>3, EqualMeansStill DEF CallsInv
\* A machine that has counted a call since has something to tell.
<1>f. \A p \in Proc : /\ last_calls[p].sent \in Nat /\ last_calls[p].received \in Nat
                      /\ calls[p].sent \in Nat /\ calls[p].received \in Nat
                      /\ last_calls[p].sent <= calls[p].sent
                      /\ last_calls[p].received <= calls[p].received
  BY <1>a DEF CallsInv, ToldBefore, Calls
<1>g. ASSUME UNCHANGED <<calls, last_calls>>, \A p \in Proc : ~done[p], TheToken' = TheToken,
             \A q \in Proc : Busy(q)' => Busy(q)
      PROVE  Totals(y.token)' /\ (N > 1 => RoundCounts(y.to, y.token)')
  BY <1>d, <1>g DEF RoundCounts, Settled
<1>1. CASE Quiet /\ UNCHANGED count_vars /\ ~Restart BY <1>1, <1>c, <1>g DEF count_vars, TheToken, Quiet
<1>2. ASSUME ~Restart, NEW p \in Proc, NEW t \in Thread, NEW q \in Proc \ {p},
             AddTaskRemote(p, t, q)
      PROVE  Totals(y.token)' /\ (N > 1 => RoundCounts(y.to, y.token)')
  <2>1. /\ calls' = [calls EXCEPT ![p] = [sent |-> calls[p].sent + 1,
                                          received |-> calls[p].received]]
        /\ Busy(p) /\ \A r \in Proc : Busy(r)' <=> Busy(r)
        /\ UNCHANGED last_calls /\ TheToken' = TheToken BY <1>0, <1>2, RemoteEffect DEF TheToken
  <2>2. /\ calls'[p] = [sent |-> calls[p].sent + 1, received |-> calls[p].received]
        /\ \A r \in Proc : r # p => calls'[r] = calls[r] BY <1>a, <2>1
  <2>3. calls'[p] # last_calls[p] BY <1>f, <2>2
  <2> SUFFICES ASSUME N > 1, y.token.total_calls_sent = y.token.total_calls_received,
                      \A r \in Ahead(y.to, y.token.last_change) : calls'[r] = last_calls[r]
               PROVE  FALSE BY <1>2, <1>c, <1>d, <2>1 DEF RoundCounts
  <2>4. Ahead(y.to, y.token.last_change) \subseteq Proc BY <1>2, <1>c, <1>d, <2>1, AheadFacts DEF Token
  <2>5. \A r \in Ahead(y.to, y.token.last_change) : r # p /\ calls[r] = last_calls[r] BY <2>2, <2>3, <2>4
  <2>6. Settled(p) BY <1>2, <1>c, <1>e, <2>1, <2>5
  <2> QED BY <2>1, <2>6 DEF Settled
<1>3. ASSUME ~Restart, NEW p \in Proc, NEW h \in Handlers, ReceiveTask(p, h)
      PROVE  Totals(y.token)' /\ (N > 1 => RoundCounts(y.to, y.token)')
  <2>0. /\ tasks_in_flight[p] > 0
        /\ UNCHANGED <<calls, last_calls, hastoken, cur_token, token_in_flight>>
    BY <1>0, <1>3, ReceiveEffect DEF CallsInv
  <2>1. /\ tasks_in_flight[p] > 0 /\ UNCHANGED <<calls, last_calls>> /\ TheToken' = TheToken
    BY <2>0 DEF TheToken
  <2> SUFFICES ASSUME N > 1, y.token.total_calls_sent = y.token.total_calls_received,
                      \A r \in Ahead(y.to, y.token.last_change) : calls[r] = last_calls[r]
               PROVE  FALSE BY <1>3, <1>c, <1>d, <2>1 DEF RoundCounts
  <2>2. NothingMoving BY <1>3, <1>c, <1>e, <2>1
  <2> QED BY <2>1, <2>2 DEF NothingMoving
<1>4. ASSUME ~Restart, NEW p \in Proc, NEW h \in Handlers, CallReturns(p, h)
      PROVE  Totals(y.token)' /\ (N > 1 => RoundCounts(y.to, y.token)')
  <2>1. /\ UNCHANGED last_calls /\ TheToken' = TheToken
        /\ \A r \in Proc : Busy(r)' => Busy(r) BY <1>0, <1>4, ReturnEffect DEF TheToken
  <2>2. CASE UNCHANGED calls BY <1>4, <1>c, <1>g, <2>1, <2>2
  <2>3. CASE oncall[p][h] = "task" /\ calls' = [calls EXCEPT ![p] =
                             [sent |-> calls[p].sent, received |-> calls[p].received + 1]]
    <3>1. <<p, h>> \in Running BY <1>0, <1>4, <2>3, ReturnEffect
    <3>2. /\ calls'[p] = [sent |-> calls[p].sent, received |-> calls[p].received + 1]
          /\ \A r \in Proc : r # p => calls'[r] = calls[r] BY <1>a, <2>3
    <3>3. calls'[p] # last_calls[p] BY <1>f, <3>2
    <3> SUFFICES ASSUME N > 1, y.token.total_calls_sent = y.token.total_calls_received,
                        \A r \in Ahead(y.to, y.token.last_change) : calls'[r] = last_calls[r]
                 PROVE  FALSE BY <1>4, <1>c, <1>d, <2>1 DEF RoundCounts
    <3>4. Ahead(y.to, y.token.last_change) \subseteq Proc BY <1>4, <1>c, <1>d, <2>1, AheadFacts DEF Token
    <3>5. \A r \in Ahead(y.to, y.token.last_change) : calls[r] = last_calls[r] BY <3>2, <3>3, <3>4
    <3>6. NothingMoving BY <1>4, <1>c, <1>e, <2>1, <3>5
    <3> QED BY <3>1, <3>6 DEF NothingMoving
  <2> QED BY <1>0, <1>4, <2>2, <2>3, ReturnEffect
<1>5. ASSUME NEW p \in Proc, NEW h \in Handlers, ForceDone(p, h)
      PROVE  FALSE BY <1>5, <1>a DEF ForceDone
<1>6. ASSUME ~Restart, TokenStep
      PROVE  Totals(y.token)' /\ (N > 1 => RoundCounts(y.to, y.token)')
  <2>1. /\ UNCHANGED calls /\ \A r \in Proc : Busy(r)' => Busy(r) BY <1>0, <1>6, TokenEffect
  <2>2. CASE UNCHANGED last_calls /\ TheToken' = TheToken BY <1>6, <1>c, <1>g, <2>1, <2>2
  <2>3. ASSUME NEW p \in Proc, NEW x \in TheToken, x.to = p, ~done[p], AllTurnedIn(p),
               Passes(p, x)
        PROVE  Totals(y.token)' /\ (N > 1 => RoundCounts(y.to, y.token)')
    <3>1. y.to = (p + 1) % N /\ y.token = ReportedToken(p, x.token) BY <2>3 DEF Passes
    <3>2. /\ x.token \in Token /\ Totals(x.token)
          /\ N > 1 => RoundCounts(p, x.token) BY <1>0, <1>6, <1>c, <2>3, TokenTyped DEF TokenCounts
    <3>3. NothingMoving => ~Busy(p) BY <2>3, IdleWhenStill
    <3>4. /\ ~TokenComplete(p, x.token)
          /\ last_calls' = [last_calls EXCEPT ![p] = calls[p]] BY <2>3 DEF Passes
    <3> DEFINE new == y.token
    <3>5. new = ReportedToken(p, x.token) BY <3>1
    <3>6. Totals(y.token)' /\ (N > 1 => RoundCounts((p + 1) % N, y.token)')
      BY <1>0, <2>1, <3>2, <3>3, <3>4, <3>5, ForwardCounts
    <3> QED BY <3>1, <3>6
  <2>4. ASSUME NEW p \in Proc, NEW x \in TheToken, Declares(p, x) PROVE FALSE BY <1>a, <2>4 DEF Declares
  <2> QED BY <1>6, <2>2, <2>3, <2>4, TokenMoves
<1>7. CASE Restart
  <2>0. 0 \in Proc BY ConstantsAssumption DEF Proc
  <2>1. last_calls' = [p \in Proc |-> NoCalls] /\ UNCHANGED calls BY <1>7 DEF Restart, NoCalls
  <2>2. y = [to |-> 0, token |-> InitialToken] BY <1>0, <1>7, RestartToken
  <2>3. y.token.total_calls_sent = 0 /\ y.token.total_calls_received = 0
        /\ y.to = 0 /\ y.token.last_change = N-1 BY <2>2 DEF InitialToken
  <2>4. Totals(y.token)' BY <2>1, <2>3, NothingTold DEF Totals
  <2>5. ASSUME N > 1 PROVE ~ \A q \in Ahead(0, N-1) : calls[q] = NoCalls BY <2>5, FirstRound DEF CallsInv
  <2>6. \A q \in Ahead(0, N-1) : q \in Proc BY <2>0, ConstantsAssumption DEF Ahead, Proc
  <2>7. ASSUME N > 1 PROVE ~ \A q \in Ahead(0, N-1) : calls'[q] = last_calls'[q]
    BY <2>1, <2>5, <2>6, <2>7
  <2> QED BY <2>3, <2>4, <2>7 DEF RoundCounts
<1> QED BY <1>1, <1>2, <1>3, <1>4, <1>5, <1>6, <1>7, <1>0, StepKinds

-----------------------------------------------------------------------------
(* A declaration is true.                                                  *)

\* The machine that declares has signed the token last and finds it balanced:
\* everybody has told all there is to tell, and nobody has anything to do.
LEMMA DeclarationSound ==
  ASSUME SleepInv, CallsInv, TokenCounts, \A q \in Proc : ~done[q],
         NEW p \in Proc, NEW x \in TheToken, x.to = p, AllTurnedIn(p),
         TokenComplete(p, x.token)
  PROVE  \A q \in Proc : ~Busy(q) /\ tasks_in_flight[q] = 0
<1>0. TypeOK BY DEF SleepInv
<1>1. /\ Totals(x.token)
      /\ N > 1 => RoundCounts(p, x.token)
      /\ x.token.last_change = p
      /\ x.token.total_calls_sent = x.token.total_calls_received BY DEF TokenCounts, TokenComplete
<1>2. CASE N > 1
  <2>1. \A q \in Proc : Settled(q) BY <1>1, <1>2, AheadFacts DEF RoundCounts
  <2>2. calls \in [Proc -> Calls] /\ last_calls \in [Proc -> Calls] BY <1>0 DEF TypeOK
  <2>3. \A q \in Proc : calls[q] = last_calls[q] BY <2>1 DEF Settled
  <2>4. Total(Sent(last_calls)) = Total(Received(last_calls)) BY <1>1 DEF Totals
  <2>5. NothingMoving BY <1>0, <2>2, <2>3, <2>4, EqualMeansStill DEF CallsInv
  <2> QED BY <2>1, <2>5 DEF Settled, NothingMoving
<1>3. CASE ~(N > 1) BY <1>3, ConstantsAssumption, IdleWhenStill DEF Proc, CallsInv, NothingMoving
<1> QED BY <1>2, <1>3

\* Once a machine is told, nothing on any machine makes work again.
LEMMA DoneNext ==
  ASSUME SleepInv, TokenInv, OutMeansDone, ConsensusInv, [Next]_vars
  PROVE  DoneMeansNoWork'
<1>0. TypeOK /\ HandlersReady /\ done \in [Proc -> BOOLEAN] /\ tasks_in_flight \in [Proc -> Nat]
  BY DEF SleepInv, ConsensusInv, CallsInv, TypeOK
<1>1. ASSUME \A q \in Proc : ~Busy(q) /\ tasks_in_flight[q] = 0,
             \A q \in Proc : Busy(q)' => Busy(q), UNCHANGED tasks_in_flight
      PROVE  DoneMeansNoWork' BY <1>1 DEF DoneMeansNoWork
<1>2. CASE Restart BY <1>2 DEF Restart, DoneMeansNoWork
<1>3. ASSUME NEW r \in Proc, done[r], ~Restart
      PROVE  DoneMeansNoWork'
  <2>1. \A q \in Proc : ~Busy(q) /\ tasks_in_flight[q] = 0 BY <1>3 DEF ConsensusInv, DoneMeansNoWork
  <2>2. CASE Quiet /\ UNCHANGED count_vars BY <1>1, <2>1, <2>2 DEF Quiet, count_vars
  <2>3. ASSUME NEW p \in Proc, NEW t \in Thread, NEW q \in Proc \ {p},
               AddTaskRemote(p, t, q)
        PROVE  FALSE BY <1>0, <2>1, <2>3, RemoteEffect
  <2>4. ASSUME NEW p \in Proc, NEW h \in Handlers, ReceiveTask(p, h) PROVE FALSE
    <3>1. tasks_in_flight[p] > 0 BY <1>0, <2>4, ReceiveEffect
    <3> QED BY <2>1, <3>1
  <2>5. ASSUME NEW p \in Proc, NEW h \in Handlers, ForceDone(p, h)
        PROVE  DoneMeansNoWork' BY <1>0, <1>1, <2>1, <2>5, ForceEffect
  <2>6. ASSUME NEW p \in Proc, NEW h \in Handlers, CallReturns(p, h)
        PROVE  DoneMeansNoWork' BY <1>0, <1>1, <2>1, <2>6, ReturnEffect
  <2>7. CASE TokenStep BY <1>0, <1>1, <2>1, <2>7, TokenEffect
  <2> QED BY <1>0, <1>3, <2>2, <2>3, <2>4, <2>5, <2>6, <2>7, StepKinds
<1>4. ASSUME \A q \in Proc : ~done[q], ~Restart
      PROVE  DoneMeansNoWork'
  <2>1. ASSUME UNCHANGED done PROVE DoneMeansNoWork' BY <1>4, <2>1 DEF DoneMeansNoWork
  <2>2. CASE Quiet /\ UNCHANGED count_vars BY <2>1, <2>2 DEF count_vars
  <2>3. ASSUME NEW p \in Proc, NEW t \in Thread, NEW q \in Proc \ {p},
               AddTaskRemote(p, t, q)
        PROVE  DoneMeansNoWork' BY <1>0, <2>1, <2>3, RemoteEffect
  <2>4. ASSUME NEW p \in Proc, NEW h \in Handlers, ReceiveTask(p, h)
        PROVE  DoneMeansNoWork' BY <1>0, <2>1, <2>4, ReceiveEffect
  <2>5. ASSUME NEW p \in Proc, NEW h \in Handlers, ForceDone(p, h)
        PROVE  FALSE BY <1>0, <1>4, <2>5, ForceEffect DEF TokenInv, ToldByHolder
  <2>6. ASSUME NEW p \in Proc, NEW h \in Handlers, CallReturns(p, h)
        PROVE  DoneMeansNoWork' BY <1>0, <2>1, <2>6, ReturnEffect
  <2>7. CASE TokenStep
    <3>1. (\A q \in Proc : Busy(q)' => Busy(q)) /\ UNCHANGED tasks_in_flight BY <1>0, <2>7, TokenEffect
    <3>2. ASSUME NEW p \in Proc, NEW x \in TheToken, x.to = p, AllTurnedIn(p),
                 Declares(p, x)
          PROVE  DoneMeansNoWork'
      <4>1. TokenComplete(p, x.token) BY <3>2 DEF Declares
      <4>2. \A q \in Proc : ~Busy(q) /\ tasks_in_flight[q] = 0
        BY <1>4, <3>2, <4>1, DeclarationSound DEF ConsensusInv
      <4> QED BY <1>1, <3>1, <4>2
    <3>3. ASSUME NEW p \in Proc, NEW x \in TheToken, Passes(p, x)
          PROVE  DoneMeansNoWork' BY <2>1, <3>3 DEF Passes
    <3> QED BY <2>1, <2>7, <3>2, <3>3, TokenMoves
  <2> QED BY <1>0, <1>4, <2>2, <2>3, <2>4, <2>5, <2>6, <2>7, StepKinds
<1> QED BY <1>2, <1>3, <1>4

LEMMA ConsensusInit == LoadedBefore /\ Init => ConsensusInv
<1> SUFFICES ASSUME LoadedBefore, Init PROVE ConsensusInv OBVIOUS
<1>1. /\ calls = PriorCalls /\ last_calls = [p \in Proc |-> NoCalls]
      /\ tasks_in_flight = [p \in Proc |-> 0] /\ token_in_flight = {}
      /\ \A p \in Proc : (hastoken[p] <=> p = 0) /\ cur_token[p] = InitialToken /\ ~done[p]
  BY DEF Init, NoCalls
<1>2. \A p \in Proc, h \in Handlers : oncall[p][h] # "task" BY DEF Init
<1>3. Running = {} BY <1>2 DEF Running
<1>4. HandlersReady BY <1>2 DEF HandlersReady
<1>5. 0 \in Proc BY ConstantsAssumption DEF Proc
<1>6. Balanced
  <2>1. Total(tasks_in_flight) = 0 BY <1>1, TotalZero
  <2>2. IsFiniteSet(Running) /\ Cardinality(Running) = 0 BY <1>3, FS_EmptySet
  <2>3. Total(Received(calls)) \in Nat BY <1>1, ConstantsAssumption, CallsCounted
  <2>4. Total(Sent(calls)) = Total(Received(calls)) BY <1>1 DEF LoadedBefore
  <2> QED BY <2>1, <2>2, <2>3, <2>4 DEF Balanced
<1>7. ToldBefore BY <1>1, ConstantsAssumption DEF ToldBefore, NoCalls, Calls
<1>8. N = 1 => NothingMoving BY <1>1, <1>3 DEF NothingMoving
<1>9. CalledBefore(calls) BY <1>1 DEF LoadedBefore
<1>10. TheToken = {[to |-> 0, token |-> InitialToken]} BY <1>1, <1>5 DEF TheToken
<1>11. TokenCounts
  <2> SUFFICES ASSUME NEW y \in TheToken
               PROVE  Totals(y.token) /\ (N > 1 => RoundCounts(y.to, y.token)) BY DEF TokenCounts
  <2>1. y = [to |-> 0, token |-> InitialToken] BY <1>10
  <2>2. y.token.total_calls_sent = 0 /\ y.token.total_calls_received = 0
        /\ y.to = 0 /\ y.token.last_change = N-1 BY <2>1 DEF InitialToken
  <2>3. Totals(y.token) BY <1>1, <2>2, NothingTold DEF Totals
  <2>4. ASSUME N > 1 PROVE ~ \A q \in Ahead(0, N-1) : calls[q] = NoCalls BY <1>9, <2>4, FirstRound
  <2>5. \A q \in Ahead(0, N-1) : q \in Proc BY <1>5, ConstantsAssumption DEF Ahead, Proc
  <2>6. ASSUME N > 1 PROVE ~ \A q \in Ahead(0, N-1) : calls[q] = last_calls[q] BY <1>1, <2>4, <2>5, <2>6
  <2> QED BY <2>2, <2>3, <2>6 DEF RoundCounts
<1>12. DoneMeansNoWork BY <1>1 DEF DoneMeansNoWork
<1> QED BY <1>4, <1>6, <1>7, <1>8, <1>9, <1>11, <1>12 DEF ConsensusInv, CallsInv

\* With what sleeping and the single token contribute, the inductive invariant.
ConsensusWhole == SleepInv /\ TokenInv /\ OutMeansDone /\ ConsensusInv

LEMMA WholeInit == LoadedBefore /\ Init => ConsensusWhole
BY ConsensusInit, SleepInvInit, TokenInvInit DEF ConsensusWhole

LEMMA WholeNext == ConsensusWhole /\ [Next]_vars => ConsensusWhole'
<1> SUFFICES ASSUME ConsensusWhole, [Next]_vars PROVE ConsensusWhole' OBVIOUS
<1> USE DEF ConsensusWhole
<1>0. TypeOK BY DEF SleepInv
<1>1. SleepInv' BY SleepInvNext
<1>2. TokenInv' /\ OutMeansDone' BY <1>0, TokenNext, OutNext
<1>3. ConsensusInv' BY <1>0, CallsNext, TokenCountsNext, DoneNext DEF ConsensusInv
<1> QED BY <1>1, <1>2, <1>3

\* Consensus is achieved only when no machine has work and no call that brings
\* work is on its way: the token's totals and its signature are enough, however
\* calls, wakeups, passes, force_done() and resets interleave, if the calls made
\* before the run were all received and a machine but the last had one of them.
THEOREM ConsensusIsSound == LoadedBefore /\ Spec => []DoneMeansNoWork
<1>1. ConsensusWhole => DoneMeansNoWork BY DEF ConsensusWhole, ConsensusInv
<1> QED BY <1>1, WholeInit, WholeNext, PTL DEF Spec

-----------------------------------------------------------------------------
(* Tokens, counters, locks and wakeups implement the abstract detection.   *)

LEMMA BusyBoolean == \A q \in Proc : Busy(q) \in BOOLEAN /\ Busy(q)' \in BOOLEAN
BY DEF Busy

\* Only one machine is concerned by a step.
LEMMA OneMachine ==
  ASSUME TypeOK, [Next]_vars, ~Restart
  PROVE  \E p \in Proc : \A q \in Proc : q # p => Busy(q)' = Busy(q)
<1>1. ASSUME NEW q \in Proc, LocalSame(q) PROVE Busy(q)' = Busy(q) BY <1>1 DEF LocalSame, Busy
<1>2. ASSUME NEW p \in Proc, \A q \in Proc : q # p => LocalSame(q)
      PROVE  \E r \in Proc : \A q \in Proc : q # r => Busy(q)' = Busy(q) BY <1>1, <1>2
<1>3. ASSUME NEW p \in Proc, NEW i \in Cpu, WorkerStep(p, i) \/ SpuriousWakeup(p, i)
      PROVE  \A q \in Proc : q # p => LocalSame(q) BY <1>3, WorkerIsLocal
<1>4. ASSUME NEW p \in Proc, NEW t \in Thread, WakerStep(p, t) \/ TaskStep(p, t)
      PROVE  \A q \in Proc : q # p => LocalSame(q) BY <1>4, WakerIsLocal
<1>5. ASSUME NEW p \in Proc, NEW h \in Handlers, HandlerStep(p, h)
      PROVE  \A q \in Proc : q # p => LocalSame(q) BY <1>5, HandlerIsLocal
<1>6. CASE UNCHANGED vars
  <2>1. \A q \in Proc : LocalSame(q) BY <1>6 DEF vars, local_vars, client_vars, LocalSame
  <2>2. 0 \in Proc BY ConstantsAssumption DEF Proc
  <2> QED BY <1>2, <2>1, <2>2
<1> QED BY <1>2, <1>3, <1>4, <1>5, <1>6 DEF Next, Terminated

LEMMA MapsStutter ==
  ASSUME \A q \in Proc : Busy(q)' = Busy(q), UNCHANGED <<tasks_in_flight, done>>
  PROVE  UNCHANGED TD!vars BY DEF TD!vars

LEMMA MapsFinish ==
  ASSUME NEW p \in Proc, \A q \in Proc : q # p => Busy(q)' = Busy(q),
         Busy(p) = TRUE, Busy(p)' = FALSE, UNCHANGED <<tasks_in_flight, done>>
  PROVE  TD!Next BY DEF TD!Next, TD!Finish

LEMMA MapsSend ==
  ASSUME NEW p \in Proc, NEW q \in Proc, Busy(p) = TRUE,
         tasks_in_flight' = [tasks_in_flight EXCEPT ![q] = tasks_in_flight[q] + 1],
         \A r \in Proc : Busy(r)' = Busy(r), UNCHANGED done
  PROVE  TD!Next BY DEF TD!Next, TD!Send

LEMMA MapsReceive ==
  ASSUME NEW p \in Proc, tasks_in_flight[p] > 0, Busy(p)' = TRUE,
         tasks_in_flight' = [tasks_in_flight EXCEPT ![p] = tasks_in_flight[p] - 1],
         \A r \in Proc : r # p => Busy(r)' = Busy(r), UNCHANGED done
  PROVE  TD!Next BY DEF TD!Next, TD!Receive

LEMMA MapsDetect ==
  ASSUME NEW p \in Proc, done' = [done EXCEPT ![p] = TRUE],
         \A q \in Proc : Busy(q) = FALSE /\ Busy(q)' = FALSE /\ tasks_in_flight[q] = 0,
         UNCHANGED tasks_in_flight
  PROVE  TD!Next BY DEF TD!Next, TD!Detect, TD!Quiescent

LEMMA MapsRestart ==
  ASSUME \A q \in Proc : done[q], \A q \in Proc : Busy(q)' \in BOOLEAN,
         done' = [q \in Proc |-> FALSE], UNCHANGED tasks_in_flight
  PROVE  TD!Next BY DEF TD!Next, TD!Restart

\* A step that makes no work is a machine that finishes, or nothing at all.
LEMMA QuietMaps ==
  ASSUME TypeOK, [Next]_vars, ~Restart, \A q \in Proc : Busy(q)' => Busy(q),
         UNCHANGED <<tasks_in_flight, done>>
  PROVE  TD!Next \/ UNCHANGED TD!vars
<1>1. PICK p \in Proc : \A q \in Proc : q # p => Busy(q)' = Busy(q) BY OneMachine
<1>2. CASE Busy(p)' = Busy(p) BY <1>1, <1>2, MapsStutter
<1>3. CASE ~(Busy(p)' = Busy(p))
  <2>1. Busy(p) = TRUE /\ Busy(p)' = FALSE BY <1>3, BusyBoolean
  <2> QED BY <1>1, <2>1, MapsFinish
<1> QED BY <1>2, <1>3

LEMMA DetectionStep ==
  ASSUME ConsensusWhole, [Next]_vars
  PROVE  TD!Next \/ UNCHANGED TD!vars
<1>0. /\ TypeOK /\ HandlersReady /\ SleepInv /\ TokenInv /\ OutMeansDone
      /\ CallsInv /\ TokenCounts /\ DoneMeansNoWork
  BY DEF ConsensusWhole, SleepInv, ConsensusInv, CallsInv
<1>1. CASE Restart
  <2>1. \A p \in Proc : done[p] BY <1>0, <1>1, ConstantsAssumption DEF Restart, OutMeansDone, At, Cpu
  <2>2. done' = [p \in Proc |-> FALSE] /\ UNCHANGED tasks_in_flight BY <1>1 DEF Restart
  <2> QED BY <2>1, <2>2, BusyBoolean, MapsRestart
<1> SUFFICES ASSUME ~Restart PROVE TD!Next \/ UNCHANGED TD!vars BY <1>1
<1>d. ASSUME NEW p \in Proc, done' = [done EXCEPT ![p] = TRUE],
             \A q \in Proc : ~Busy(q) /\ tasks_in_flight[q] = 0,
             \A q \in Proc : Busy(q)' => Busy(q), UNCHANGED tasks_in_flight
      PROVE  TD!Next BY <1>d, BusyBoolean, MapsDetect
<1>2. CASE Quiet /\ UNCHANGED count_vars BY <1>0, <1>2, QuietMaps DEF Quiet, count_vars
<1>3. ASSUME NEW p \in Proc, NEW t \in Thread, NEW q \in Proc \ {p},
             AddTaskRemote(p, t, q)
      PROVE  TD!Next
  <2>1. /\ tasks_in_flight' = [tasks_in_flight EXCEPT ![q] = tasks_in_flight[q] + 1]
        /\ Busy(p) /\ \A r \in Proc : Busy(r)' <=> Busy(r)
        /\ UNCHANGED done BY <1>0, <1>3, RemoteEffect
  <2>2. Busy(p) = TRUE /\ \A r \in Proc : Busy(r)' = Busy(r) BY <2>1, BusyBoolean
  <2> QED BY <2>1, <2>2, MapsSend
<1>4. ASSUME NEW p \in Proc, NEW h \in Handlers, ReceiveTask(p, h)
      PROVE  TD!Next
  <2>1. /\ tasks_in_flight[p] > 0
        /\ tasks_in_flight' = [tasks_in_flight EXCEPT ![p] = tasks_in_flight[p] - 1]
        /\ Busy(p)'
        /\ \A r \in Proc : r # p => (Busy(r)' <=> Busy(r))
        /\ UNCHANGED done BY <1>0, <1>4, ReceiveEffect
  <2>2. Busy(p)' = TRUE /\ \A r \in Proc : r # p => Busy(r)' = Busy(r) BY <2>1, BusyBoolean
  <2> QED BY <2>1, <2>2, MapsReceive
<1>5. ASSUME NEW p \in Proc, NEW h \in Handlers, CallReturns(p, h)
      PROVE  TD!Next \/ UNCHANGED TD!vars
  <2>1. (\A r \in Proc : Busy(r)' => Busy(r)) /\ UNCHANGED <<tasks_in_flight, done>>
    BY <1>0, <1>5, ReturnEffect
  <2> QED BY <1>0, <2>1, QuietMaps
<1>6. ASSUME NEW p \in Proc, NEW h \in Handlers, ForceDone(p, h)
      PROVE  TD!Next
  <2>1. /\ p \in force_in_flight /\ done' = [done EXCEPT ![p] = TRUE]
        /\ \A r \in Proc : Busy(r)' => Busy(r)
        /\ UNCHANGED tasks_in_flight BY <1>0, <1>6, ForceEffect
  <2>2. \E q \in Proc : done[q] BY <1>0, <2>1 DEF TokenInv, ToldByHolder
  <2>3. \A q \in Proc : ~Busy(q) /\ tasks_in_flight[q] = 0 BY <1>0, <2>2 DEF DoneMeansNoWork
  <2> QED BY <1>d, <2>1, <2>3
<1>7. CASE TokenStep
  <2>1. (\A q \in Proc : Busy(q)' => Busy(q)) /\ UNCHANGED tasks_in_flight BY <1>0, <1>7, TokenEffect
  <2>2. ASSUME UNCHANGED done PROVE TD!Next \/ UNCHANGED TD!vars BY <1>0, <2>1, <2>2, QuietMaps
  <2>3. ASSUME NEW p \in Proc, NEW x \in TheToken, x.to = p, ~done[p], AllTurnedIn(p),
               Declares(p, x)
        PROVE  TD!Next
    <3>1. \A q \in Proc : ~done[q] BY <1>0, <2>3, TokenUntold
    <3>2. TokenComplete(p, x.token) /\ done' = [done EXCEPT ![p] = TRUE] BY <2>3 DEF Declares
    <3>3. \A q \in Proc : ~Busy(q) /\ tasks_in_flight[q] = 0 BY <1>0, <2>3, <3>1, <3>2, DeclarationSound
    <3> QED BY <1>d, <2>1, <3>2, <3>3
  <2>4. ASSUME NEW p \in Proc, NEW x \in TheToken, Passes(p, x)
        PROVE  UNCHANGED done BY <2>4 DEF Passes
  <2> QED BY <1>0, <1>7, <2>2, <2>3, <2>4, TokenMoves
<1> QED BY <1>0, <1>2, <1>3, <1>4, <1>5, <1>6, <1>7, StepKinds

LEMMA DetectionInit == Init => TD!Init
<1> SUFFICES ASSUME Init PROVE TD!Init OBVIOUS
<1>1. \A q \in Proc : Busy(q) \in BOOLEAN BY BusyBoolean
<1>2. tasks_in_flight = [p \in Proc |-> 0] /\ done = [p \in Proc |-> FALSE] BY DEF Init
<1> QED BY <1>1, <1>2 DEF TD!Init

\* Tokens, counters, locks and wakeups implement the abstract detection: a machine
\* is told only when none is busy and no call is on its way, all start over only
\* when all were told, and work appears only at a machine that receives a call.
THEOREM ConsensusDetectsTermination == LoadedBefore /\ Spec => ImplementsTerminationDetection
<1>1. ConsensusWhole /\ [Next]_vars => [TD!Next]_(TD!vars) BY DetectionStep
<1> QED BY <1>1, DetectionInit, WholeInit, WholeNext, PTL
        DEF Spec, ImplementsTerminationDetection, TD!Spec

=============================================================================
