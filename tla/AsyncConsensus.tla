--------------------------- MODULE AsyncConsensus ---------------------------
(***************************************************************************)
(* graphlab::async_consensus (rpc/async_consensus.{hpp,cpp}): termination  *)
(* detection for worker threads on several machines, together with the     *)
(* client loop its header documents.                                       *)
(*                                                                         *)
(* On each machine NCpus workers take tasks from a local queue.  A worker  *)
(* that finds none enters a critical section, looks again, and goes to     *)
(* sleep on a condition variable of its own.  Calls that bring work, local *)
(* or remote, wake the sleepers through cancel().  When all the workers of *)
(* a machine sleep, the machine passes on a token that accumulates the RPC *)
(* calls sent and received; a token that comes back unchanged and balanced *)
(* ends the computation on every machine.                                  *)
(*                                                                         *)
(* A step is what a thread does between two points where another thread    *)
(* can observe or change shared state: everything done while holding the   *)
(* mutex m is one step except in the critical section, whose body belongs  *)
(* to the client and whose queue test is not protected by m.               *)
(***************************************************************************)
EXTENDS Integers, FiniteSets

CONSTANTS
  N,               \* numprocs()
  NCpus,           \* ncpus: workers on each machine
  Handlers,        \* threads of one machine that run incoming RPC calls
  PriorCalls,      \* calls each machine sent, and received, before the run
  InitialTasks,    \* the possible numbers of tasks per machine at the start
  MaxTasks,        \* bound: tasks created during a run
  MaxRuns,         \* bound: engine runs, with a reset() between two of them
  Wakers,          \* which of cancel() and cancel_one() the client uses
  CpuHint          \* the cpuhint given to cancel_one()

Proc   == 0 .. N-1
Cpu    == 0 .. NCpus-1
Thread == Cpu \cup Handlers

Calls == [sent : Nat, received : Nat]
Token == [total_calls_sent : Int, total_calls_received : Int, last_change : Proc]

ASSUME ConstantsAssumption ==
  /\ N \in Nat \ {0}
  /\ NCpus \in Nat \ {0}
  /\ Handlers \cap Int = {}
  /\ PriorCalls \in [Proc -> Calls]
  /\ InitialTasks \subseteq [Proc -> Nat]
  /\ MaxTasks \in Nat
  /\ MaxRuns \in Nat
  /\ Wakers \subseteq {"cancel", "cancel_one"}
  /\ CpuHint \in Cpu

NoOne == -1      \* nobody holds the mutex

VARIABLES
  \* fields of async_consensus, one object per machine
  numactive, done, trying_to_sleep, critical, sleeping,
  hastoken, cur_token, last_calls,
  m,                  \* the worker inside the critical section, or NoOne
  \* the RPC layer
  calls,              \* calls_sent() and calls_received() of the machine
  tasks_in_flight,    \* task calls on their way, per destination
  token_in_flight,    \* receive_the_token control calls on their way
  force_in_flight,    \* destinations of force_done control calls on their way
  \* the client
  pc,                 \* where each thread is
  queue,              \* tasks queued on each machine
  oncall,             \* the call an RPC handler is running
  created, runs       \* how much of MaxTasks and MaxRuns is used

local_vars  == <<numactive, trying_to_sleep, critical, sleeping>>
token_vars  == <<hastoken, cur_token, last_calls, token_in_flight, force_in_flight>>
client_vars == <<calls, tasks_in_flight, queue, oncall, created, runs>>
vars == <<local_vars, done, m, pc, token_vars, client_vars>>

-----------------------------------------------------------------------------
InitialToken == [total_calls_sent |-> 0, total_calls_received |-> 0,
                 last_change |-> N-1]

\* A new object, and what reset() restores on every machine.
Init ==
  /\ numactive = [p \in Proc |-> NCpus]
  /\ done = [p \in Proc |-> FALSE]
  /\ trying_to_sleep = [p \in Proc |-> 0]
  /\ critical = [p \in Proc |-> [i \in Cpu |-> FALSE]]
  /\ sleeping = [p \in Proc |-> [i \in Cpu |-> FALSE]]
  /\ hastoken = [p \in Proc |-> p = 0]
  /\ cur_token = [p \in Proc |-> InitialToken]
  /\ last_calls = [p \in Proc |-> [sent |-> 0, received |-> 0]]
  /\ m = [p \in Proc |-> NoOne]
  /\ calls = PriorCalls
  /\ tasks_in_flight = [p \in Proc |-> 0]
  /\ token_in_flight = {}
  /\ force_in_flight = {}
  /\ pc = [p \in Proc |-> [t \in Thread |-> IF t \in Cpu THEN "run" ELSE "idle"]]
  /\ queue \in InitialTasks
  /\ oncall = [p \in Proc |-> [h \in Handlers |-> "none"]]
  /\ created = 0
  /\ runs = 1

At(p, t, label)   == pc[p][t] = label
Goto(p, t, label) == pc' = [pc EXCEPT ![p][t] = label]

Sleepers(p) == {i \in Cpu : sleeping[p][i]}

\* Mutant: one thread is counted as awake, however many are woken.
WakeSleepersCountOne(p) ==
  /\ numactive' = [numactive EXCEPT ![p] = @ + 1]
  /\ sleeping' = [sleeping EXCEPT ![p] = [i \in Cpu |-> FALSE]]

\* Every sleeper of p is counted as active again and its flag cleared.
WakeSleepers(p) ==
  /\ numactive' = [numactive EXCEPT ![p] = @ + Cardinality(Sleepers(p))]
  /\ sleeping' = [sleeping EXCEPT ![p] = [i \in Cpu |-> FALSE]]

\* cond[i].signal() for the sleepers S: those in cond.wait() have to run again.
Signalled(p, S) ==
  [t \in Thread |-> IF t \in S /\ At(p, t, "wait") THEN "woken" ELSE pc[p][t]]

-----------------------------------------------------------------------------
(* The token.                                                              *)

\* Mutant: believe the first full round, whatever is on its way.
TokenCompleteUncounted(p, tok) == tok.last_change = p

TokenComplete(p, tok) ==
  /\ tok.last_change = p
  /\ tok.total_calls_received = tok.total_calls_sent

\* Mutant: every machine signs the token, even one that reports nothing new.
ReportedTokenAlways(p, tok) ==
  [total_calls_sent     |-> tok.total_calls_sent + calls[p].sent - last_calls[p].sent,
   total_calls_received |->
     tok.total_calls_received + calls[p].received - last_calls[p].received,
   last_change          |-> p]

\* The token after machine p has added the calls it made since its last turn.
ReportedToken(p, tok) ==
  LET newsent == calls[p].sent - last_calls[p].sent
      newrecv == calls[p].received - last_calls[p].received
  IN  IF newsent = 0 /\ newrecv = 0
      THEN tok
      ELSE [total_calls_sent     |-> tok.total_calls_sent + newsent,
            total_calls_received |-> tok.total_calls_received + newrecv,
            last_change          |-> p]

\* Mutant: the machine sends the token along and keeps it.
ForwardTokenCopy(p, tok, flying) ==
  /\ cur_token' = [cur_token EXCEPT ![p] = ReportedToken(p, tok)]
  /\ hastoken' = [hastoken EXCEPT ![p] = TRUE]
  /\ last_calls' = [last_calls EXCEPT ![p] = calls[p]]
  /\ token_in_flight' =
       flying \cup {[to |-> (p + 1) % N, token |-> ReportedToken(p, tok)]}
  /\ UNCHANGED <<done, force_in_flight>>

\* pass_the_token() when tok is not complete; flying: the other messages.
ForwardToken(p, tok, flying) ==
  /\ cur_token' = [cur_token EXCEPT ![p] = ReportedToken(p, tok)]
  /\ hastoken' = [hastoken EXCEPT ![p] = FALSE]
  /\ last_calls' = [last_calls EXCEPT ![p] = calls[p]]
  /\ token_in_flight' =
       flying \cup {[to |-> (p + 1) % N, token |-> ReportedToken(p, tok)]}
  /\ UNCHANGED <<done, force_in_flight>>

\* pass_the_token() when tok is complete: tell every other machine.
DeclareDone(p, tok, flying) ==
  /\ cur_token' = [cur_token EXCEPT ![p] = tok]
  /\ hastoken' = [hastoken EXCEPT ![p] = TRUE]
  /\ done' = [done EXCEPT ![p] = TRUE]
  /\ force_in_flight' = force_in_flight \cup (Proc \ {p})
  /\ token_in_flight' = flying
  /\ UNCHANGED last_calls

ReceiveTheToken(p, h) ==
  \E msg \in token_in_flight :
    LET flying == token_in_flight \ {msg} IN
    /\ msg.to = p
    /\ At(p, h, "idle")
    /\ m[p] = NoOne
    /\ UNCHANGED <<trying_to_sleep, critical, m, client_vars>>
    /\ \/ /\ numactive[p] > 0
          /\ hastoken' = [hastoken EXCEPT ![p] = TRUE]
          /\ cur_token' = [cur_token EXCEPT ![p] = msg.token]
          /\ token_in_flight' = flying
          /\ UNCHANGED <<numactive, sleeping, done, last_calls, force_in_flight, pc>>
       \/ /\ numactive[p] = 0
          /\ ~TokenComplete(p, msg.token)
          /\ ForwardToken(p, msg.token, flying)
          /\ UNCHANGED <<numactive, sleeping, pc>>
       \/ /\ numactive[p] = 0
          /\ TokenComplete(p, msg.token)
          /\ DeclareDone(p, msg.token, flying)
          /\ WakeSleepers(p)
          /\ pc' = [pc EXCEPT ![p] = Signalled(p, Sleepers(p))]

-----------------------------------------------------------------------------
(* Going to sleep: begin_done_critical_section, the client's second look   *)
(* at its queue, then cancel_critical_section or end_done_critical_section.*)

BeginDone(p, i) ==
  /\ At(p, i, "quit")
  /\ trying_to_sleep' = [trying_to_sleep EXCEPT ![p] = @ + 1]
  /\ critical' = [critical EXCEPT ![p][i] = TRUE]
  /\ Goto(p, i, "begin")
  /\ UNCHANGED <<numactive, sleeping, done, m, token_vars, client_vars>>

LockDone(p, i) ==
  /\ At(p, i, "begin")
  /\ m[p] = NoOne
  /\ m' = [m EXCEPT ![p] = i]
  /\ Goto(p, i, "critical")
  /\ UNCHANGED <<local_vars, done, token_vars, client_vars>>

\* The client finds a task after all; cancel_critical_section() unlocks m ...
CancelCriticalSection(p, i) ==
  /\ At(p, i, "critical")
  /\ queue[p] > 0
  /\ queue' = [queue EXCEPT ![p] = @ - 1]
  /\ m' = [m EXCEPT ![p] = NoOne]
  /\ Goto(p, i, "uncritical")
  /\ UNCHANGED <<local_vars, done, token_vars, calls, tasks_in_flight, oncall,
                 created, runs>>

\* ... and then withdraws the worker from those trying to sleep.
CancelledCriticalSection(p, i) ==
  /\ At(p, i, "uncritical")
  /\ trying_to_sleep' = [trying_to_sleep EXCEPT ![p] = @ - 1]
  /\ critical' = [critical EXCEPT ![p][i] = FALSE]
  /\ Goto(p, i, "work")
  /\ UNCHANGED <<numactive, sleeping, done, m, token_vars, client_vars>>

StillNothing(p, i) ==
  /\ At(p, i, "critical")
  /\ queue[p] = 0
  /\ Goto(p, i, "end")
  /\ UNCHANGED <<local_vars, done, m, token_vars, client_vars>>

\* end_done_critical_section() up to its cond.wait() or its m.unlock().
EndDone(p, i) ==
  /\ At(p, i, "end")
  /\ m' = [m EXCEPT ![p] = NoOne]
  /\ UNCHANGED <<trying_to_sleep, critical, client_vars>>
  /\ \/ /\ done[p]
        /\ Goto(p, i, "leave")
        /\ UNCHANGED <<numactive, sleeping, done, token_vars>>
     \/ /\ ~done[p]
        /\ numactive' = [numactive EXCEPT ![p] = @ - 1]
        /\ sleeping' = [sleeping EXCEPT ![p][i] = TRUE]
        /\ Goto(p, i, "wait")
        /\ \/ /\ numactive[p] > 1 \/ ~hastoken[p]
              /\ UNCHANGED <<done, token_vars>>
           \/ /\ numactive[p] = 1 /\ hastoken[p]
              /\ ~TokenComplete(p, cur_token[p])
              /\ ForwardToken(p, cur_token[p], token_in_flight)
     \/ /\ ~done[p]
        /\ numactive[p] = 1 /\ hastoken[p]
        /\ TokenComplete(p, cur_token[p])
        /\ DeclareDone(p, cur_token[p], token_in_flight)
        /\ numactive' = [numactive EXCEPT ![p] = @ - 1 + Cardinality(Sleepers(p))]
        /\ sleeping' = [sleeping EXCEPT ![p] = [j \in Cpu |-> j = i]]
        /\ pc' = [pc EXCEPT ![p] = [Signalled(p, Sleepers(p)) EXCEPT ![i] = "leave"]]

\* pthread_cond_wait may return without a signal.
SpuriousWakeup(p, i) ==
  /\ At(p, i, "wait")
  /\ Goto(p, i, "woken")
  /\ UNCHANGED <<local_vars, done, m, token_vars, client_vars>>

\* cond.wait() has m again; the loop tests its condition.
WakeUp(p, i) ==
  /\ At(p, i, "woken")
  /\ m[p] = NoOne
  /\ Goto(p, i, IF ~sleeping[p][i] \/ done[p] THEN "leave" ELSE "wait")
  /\ UNCHANGED <<local_vars, done, m, token_vars, client_vars>>

\* After m.unlock(): the flags are cleared, then done is read and returned.
LeaveDone(p, i) ==
  /\ At(p, i, "leave")
  /\ trying_to_sleep' = [trying_to_sleep EXCEPT ![p] = @ - 1]
  /\ critical' = [critical EXCEPT ![p][i] = FALSE]
  /\ Goto(p, i, IF done[p] THEN "exit" ELSE "run")
  /\ UNCHANGED <<numactive, sleeping, done, m, token_vars, client_vars>>

-----------------------------------------------------------------------------
(* Waking the sleepers: cancel() and cancel_one().                         *)

\* Where a thread continues after cancel() or cancel_one() returns.
Caller(t) == IF t \in Cpu THEN "work" ELSE "return"

\* The test cancel() makes without holding m.
SomeoneMaySleep(p) == trying_to_sleep[p] > 0 \/ numactive[p] < NCpus

CancelTest(p, t) ==
  /\ At(p, t, "cancel")
  /\ Goto(p, t, IF SomeoneMaySleep(p) THEN "cancel locked" ELSE Caller(t))
  /\ UNCHANGED <<local_vars, done, m, token_vars, client_vars>>

Cancel(p, t) ==
  /\ At(p, t, "cancel locked")
  /\ m[p] = NoOne
  /\ IF numactive[p] < NCpus
     THEN /\ WakeSleepers(p)
          /\ pc' = [pc EXCEPT ![p] = [Signalled(p, Sleepers(p)) EXCEPT ![t] = Caller(t)]]
     ELSE /\ Goto(p, t, Caller(t))
          /\ UNCHANGED <<numactive, sleeping>>
  /\ UNCHANGED <<trying_to_sleep, critical, done, m, token_vars, client_vars>>

\* Mutant: only a worker that already sleeps is worth waking.
CancelOneTestSleeping(p, t) ==
  /\ At(p, t, "cancel_one")
  /\ Goto(p, t, IF sleeping[p][CpuHint] THEN "cancel_one locked" ELSE Caller(t))
  /\ UNCHANGED <<local_vars, done, m, token_vars, client_vars>>

CancelOneTest(p, t) ==
  /\ At(p, t, "cancel_one")
  /\ Goto(p, t, IF critical[p][CpuHint] THEN "cancel_one locked" ELSE Caller(t))
  /\ UNCHANGED <<local_vars, done, m, token_vars, client_vars>>

CancelOne(p, t) ==
  /\ At(p, t, "cancel_one locked")
  /\ m[p] = NoOne
  /\ IF sleeping[p][CpuHint]
     THEN /\ numactive' = [numactive EXCEPT ![p] = @ + 1]
          /\ sleeping' = [sleeping EXCEPT ![p][CpuHint] = FALSE]
          /\ pc' = [pc EXCEPT ![p] = [Signalled(p, {CpuHint}) EXCEPT ![t] = Caller(t)]]
     ELSE /\ Goto(p, t, Caller(t))
          /\ UNCHANGED <<numactive, sleeping>>
  /\ UNCHANGED <<trying_to_sleep, critical, done, m, token_vars, client_vars>>

-----------------------------------------------------------------------------
(* The client: the loop of async_consensus.hpp, and the calls it receives. *)

\* Mutant: the worker does not test whether the dequeue gave it a task.
GetTaskUnchecked(p, i) ==
  /\ At(p, i, "run")
  /\ queue' = [queue EXCEPT ![p] = @ - 1]
  /\ Goto(p, i, "work")
  /\ UNCHANGED <<local_vars, done, m, token_vars, calls, tasks_in_flight, oncall,
                 created, runs>>

GetTask(p, i) ==
  /\ At(p, i, "run")
  /\ queue[p] > 0
  /\ queue' = [queue EXCEPT ![p] = @ - 1]
  /\ Goto(p, i, "work")
  /\ UNCHANGED <<local_vars, done, m, token_vars, calls, tasks_in_flight, oncall,
                 created, runs>>

NoTask(p, i) ==
  /\ At(p, i, "run")
  /\ queue[p] = 0
  /\ Goto(p, i, "quit")
  /\ UNCHANGED <<local_vars, done, m, token_vars, client_vars>>

FinishTask(p, i) ==
  /\ At(p, i, "work")
  /\ Goto(p, i, "run")
  /\ UNCHANGED <<local_vars, done, m, token_vars, client_vars>>

\* Only a running task, or the handler of a call that brought one, makes tasks.
Creating(p, t) ==
  /\ At(p, t, Caller(t))
  /\ t \in Handlers => oncall[p][t] = "task"
  /\ created < MaxTasks

\* Another task for this machine, and a worker is woken for it.
AddTaskLocal(p, t) ==
  /\ Creating(p, t)
  /\ created' = created + 1
  /\ queue' = [queue EXCEPT ![p] = @ + 1]
  /\ \E w \in Wakers : Goto(p, t, w)
  /\ UNCHANGED <<local_vars, done, m, token_vars, calls, tasks_in_flight, oncall, runs>>

\* Another task for machine q; the call is counted before it can leave.
AddTaskRemote(p, t, q) ==
  /\ Creating(p, t)
  /\ created' = created + 1
  /\ calls' = [calls EXCEPT ![p].sent = @ + 1]
  /\ tasks_in_flight' = [tasks_in_flight EXCEPT ![q] = @ + 1]
  /\ UNCHANGED <<local_vars, done, m, pc, token_vars, queue, oncall, runs>>

\* An RPC handler runs the call that AddTaskRemote sent.
ReceiveTask(p, h) ==
  /\ At(p, h, "idle")
  /\ tasks_in_flight[p] > 0
  /\ tasks_in_flight' = [tasks_in_flight EXCEPT ![p] = @ - 1]
  /\ queue' = [queue EXCEPT ![p] = @ + 1]
  /\ oncall' = [oncall EXCEPT ![p][h] = "task"]
  /\ \E w \in Wakers : Goto(p, h, w)
  /\ UNCHANGED <<local_vars, done, m, token_vars, calls, created, runs>>

\* An RPC handler runs force_done(), as far as its call of cancel().
ForceDone(p, h) ==
  /\ At(p, h, "idle")
  /\ p \in force_in_flight
  /\ m[p] = NoOne
  /\ force_in_flight' = force_in_flight \ {p}
  /\ done' = [done EXCEPT ![p] = TRUE]
  /\ oncall' = [oncall EXCEPT ![p][h] = "force_done"]
  /\ Goto(p, h, "cancel")
  /\ UNCHANGED <<local_vars, m, hastoken, cur_token, last_calls, token_in_flight,
                 calls, tasks_in_flight, queue, created, runs>>

\* The dispatcher counts a call when its handler has returned, control calls never.
CallReturns(p, h) ==
  /\ At(p, h, "return")
  /\ calls' = IF oncall[p][h] = "task"
              THEN [calls EXCEPT ![p].received = @ + 1] ELSE calls
  /\ oncall' = [oncall EXCEPT ![p][h] = "none"]
  /\ Goto(p, h, "idle")
  /\ UNCHANGED <<local_vars, done, m, token_vars, tasks_in_flight, queue, created, runs>>

\* reset() on every machine, between two barriers, and a new run of the workers.
Restart ==
  /\ runs < MaxRuns
  /\ \A p \in Proc, i \in Cpu : At(p, i, "exit")
  /\ runs' = runs + 1
  /\ created' = 0
  /\ numactive' = [p \in Proc |-> NCpus]
  /\ done' = [p \in Proc |-> FALSE]
  /\ trying_to_sleep' = [p \in Proc |-> 0]
  /\ critical' = [p \in Proc |-> [i \in Cpu |-> FALSE]]
  /\ sleeping' = [p \in Proc |-> [i \in Cpu |-> FALSE]]
  /\ hastoken' = [p \in Proc |-> p = 0]
  /\ cur_token' = [p \in Proc |-> InitialToken]
  /\ last_calls' = [p \in Proc |-> [sent |-> 0, received |-> 0]]
  /\ pc' = [p \in Proc |-> [t \in Thread |-> IF t \in Cpu THEN "run" ELSE pc[p][t]]]
  /\ \E q0 \in InitialTasks : queue' = [p \in Proc |-> queue[p] + q0[p]]
  /\ UNCHANGED <<m, calls, tasks_in_flight, token_in_flight, force_in_flight, oncall>>

\* The program is over: nothing is left to do on any machine.
Terminated ==
  /\ runs = MaxRuns
  /\ \A p \in Proc : /\ \A i \in Cpu : At(p, i, "exit")
                     /\ \A h \in Handlers : At(p, h, "idle")
  /\ UNCHANGED vars

-----------------------------------------------------------------------------
\* The steps a worker has to take, whatever the other threads do.
WorkerStep(p, i) ==
  \/ GetTask(p, i) \/ NoTask(p, i) \/ FinishTask(p, i)
  \/ BeginDone(p, i) \/ LockDone(p, i) \/ StillNothing(p, i) \/ EndDone(p, i)
  \/ CancelCriticalSection(p, i) \/ CancelledCriticalSection(p, i)
  \/ WakeUp(p, i) \/ LeaveDone(p, i)

WakerStep(p, t) ==
  CancelTest(p, t) \/ Cancel(p, t) \/ CancelOneTest(p, t) \/ CancelOne(p, t)

HandlerStep(p, h) ==
  ReceiveTask(p, h) \/ ReceiveTheToken(p, h) \/ ForceDone(p, h) \/ CallReturns(p, h)

TaskStep(p, t) ==
  AddTaskLocal(p, t) \/ \E q \in Proc \ {p} : AddTaskRemote(p, t, q)

Next ==
  \/ \E p \in Proc :
       \/ \E i \in Cpu : WorkerStep(p, i) \/ SpuriousWakeup(p, i)
       \/ \E t \in Thread : WakerStep(p, t) \/ TaskStep(p, t)
       \/ \E h \in Handlers : HandlerStep(p, h)
  \/ Restart
  \/ Terminated

Spec == Init /\ [][Next]_vars

\* Every thread is scheduled again and again, a thread that waits for m gets it
\* when it is free, and the RPC queues are first in first out: an incoming call
\* is run however many others there are.  Tasks need not create tasks, and nobody
\* counts on a spurious wakeup or on another run.
Fairness ==
  \A p \in Proc :
    /\ \A i \in Cpu : WF_vars(WorkerStep(p, i))
    /\ \A t \in Thread : WF_vars(WakerStep(p, t))
    /\ WF_vars(\E h \in Handlers : ReceiveTask(p, h))
    /\ WF_vars(\E h \in Handlers : ReceiveTheToken(p, h))
    /\ WF_vars(\E h \in Handlers : ForceDone(p, h))
    /\ \A h \in Handlers : WF_vars(CallReturns(p, h))

FairSpec == Spec /\ Fairness

-----------------------------------------------------------------------------
WorkerLabels == {"run", "work", "quit", "begin", "critical", "uncritical", "end",
                 "wait", "woken", "leave", "exit"}
WakerLabels == {"cancel", "cancel locked", "cancel_one", "cancel_one locked"}
HandlerLabels == {"idle", "return"}
Labels == WorkerLabels \cup WakerLabels \cup HandlerLabels

TypeOK ==
  /\ numactive \in [Proc -> Int]
  /\ done \in [Proc -> BOOLEAN]
  /\ trying_to_sleep \in [Proc -> Int]
  /\ critical \in [Proc -> [Cpu -> BOOLEAN]]
  /\ sleeping \in [Proc -> [Cpu -> BOOLEAN]]
  /\ hastoken \in [Proc -> BOOLEAN]
  /\ cur_token \in [Proc -> Token]
  /\ last_calls \in [Proc -> Calls]
  /\ m \in [Proc -> Cpu \cup {NoOne}]
  /\ calls \in [Proc -> Calls]
  /\ tasks_in_flight \in [Proc -> Nat]
  /\ token_in_flight \subseteq [to : Proc, token : Token]
  /\ force_in_flight \subseteq Proc
  /\ pc \in [Proc -> [Thread -> Labels]]
  /\ queue \in [Proc -> Nat]
  /\ oncall \in [Proc -> [Handlers -> {"none", "task", "force_done"}]]
  /\ created \in Nat
  /\ runs \in Nat

-----------------------------------------------------------------------------
(* Properties.                                                             *)

\* numactive is "a valid counter of the number of threads outside" the sleep
\* of end_done_critical_section(), although five places of the code adjust it:
\* the comment in that function, and the test numactive == 0 relies on it.
NumActiveCountsAwake ==
  \A p \in Proc : numactive[p] + Cardinality(Sleepers(p)) = NCpus

\* There is one token: some machine holds it, or one message carries it, and a
\* machine that receives, forwards or declares never doubles or loses it.
OneToken ==
  /\ \A x, y \in token_in_flight : x = y
  /\ \A p \in Proc : hastoken[p] => token_in_flight = {}
  /\ \A p, q \in Proc : hastoken[p] /\ hastoken[q] => p = q
  /\ token_in_flight = {} => \E p \in Proc : hastoken[p]

\* When every worker of a machine sleeps, a queued task has a handler that is
\* still going to wake them: the unlocked tests of cancel() and cancel_one()
\* never let a task slip in behind a worker that has looked at the queue.
NoLostWakeup ==
  \A p \in Proc :
    queue[p] > 0 /\ ~done[p] /\ Sleepers(p) = Cpu
      => \E h \in Handlers : oncall[p][h] = "task" /\ pc[p][h] \in WakerLabels

\* The machine has work queued or running, or is running a call that brings some.
Busy(p) ==
  \/ queue[p] > 0
  \/ \E h \in Handlers : oncall[p][h] = "task"
  \/ \E i \in Cpu : pc[p][i] \in {"work", "uncritical"} \cup WakerLabels

\* Consensus is achieved only when no machine has work and no call that brings
\* work is on its way (the constructor's comment in async_consensus.hpp).
DoneMeansNoWork ==
  (\E p \in Proc : done[p])
    => \A p \in Proc : ~Busy(p) /\ tasks_in_flight[p] = 0

TD == INSTANCE TerminationDetection
        WITH busy     <- [p \in Proc |-> Busy(p)],
             pending  <- tasks_in_flight,
             detected <- done

\* Tokens, counters, locks and wakeups together implement the abstract
\* termination detection: every step is one of its steps or leaves it alone.
ImplementsTerminationDetection == TD!Spec

\* Every run ends: all workers return from end_done_critical_section() with
\* done set, however wakeups, token passes and the last calls interleave.
EveryRunEnds == <>(\A p \in Proc, i \in Cpu : At(p, i, "exit"))

=============================================================================
