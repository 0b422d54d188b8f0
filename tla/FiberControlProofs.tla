------------------------- MODULE FiberControlProofs -------------------------
(***************************************************************************)
(* What holds of the fiber scheduler for every number of workers, wakers   *)
(* and fibers.                                                             *)
(*                                                                         *)
(* First, schedule_tid() never meets a fiber that has descheduled itself   *)
(* and not yet left its worker: the assertion of fiber_control.cpp:500.    *)
(* The argument is the mutex: it is the fiber's from its test of           *)
(* philosopher_ready until somebody else has switched away from it, and    *)
(* the waker's from lock_ready() until its insertion is over.              *)
(*                                                                         *)
(* Then: no worker sleeps over a fiber in its queues, no thread is in a    *)
(* queue that is deleted, and fibers are scheduled as FiberScheduling      *)
(* says.  The argument is where the fibers are: each is in one place, and  *)
(* each list is held together by nodes that are led to from one place and  *)
(* lead to one place.                                                      *)
(***************************************************************************)
EXTENDS FiberControl, FiniteSetTheorems, TLAPS

Slot == Node \cup {Null}
Jobs == [fiber : Slot, queue : Queue \cup {Null}, pred : Slot]
Labels == {"idle", "launch", "join", "joining", "delete", "done",
           "begin", "lock", "look", "link_sentinel", "take", "found", "asleep",
           "exited", "switched", "signal_join", "settled", "client",
           "swap", "link", "check", "signal",
           "lock_ready", "schedule_tid", "pick", "unlock"}
Steps == {"unborn", "start", "run", "lock", "test", "dead"}

\* What the lists hold does not matter here: any node will do.
Shape ==
  /\ next \in [Node -> Slot]
  /\ tail \in [Queue -> Slot]
  /\ popped \in [Queue -> Slot]
  /\ cur_fiber \in [Worker -> Slot]
  /\ prev_fiber \in [Worker -> Slot]
  /\ descheduled \in [Fiber -> BOOLEAN]
  /\ step \in [Fiber -> Steps]
  /\ mutex \in [Fiber -> Fiber \cup Thread \cup {Null}]
  /\ asked \subseteq Slot
  /\ pc \in [Thread -> Labels]
  /\ job \in [Thread -> Jobs]

\* A thread in a queue knows which, and at which fiber it is.
AtWork ==
  \A t \in Thread :
    /\ pc[t] \in {"look", "link_sentinel", "take", "swap"} => job[t].queue \in Queue
    /\ pc[t] \in {"link_sentinel", "take"} => job[t].fiber \in Node

\* Between lock_ready()'s lock and its unlock.
Holding(t) ==
  \/ pc[t] \in {"schedule_tid", "pick", "unlock"}
  \/ Inserting(t) /\ AfterInsert(t) = "unlock"

\* The waker has the mutex of the fiber it wakes, ...
WakerHolds ==
  \A f \in Fiber, t \in Thread : Holding(t) /\ job[t].fiber = f => mutex[f] = t

\* ... a fiber that tests philosopher_ready has its own, ...
TesterHolds == \A f \in Fiber : step[f] = "test" => mutex[f] = f

\* ... and keeps it until it has left its worker; it will lock it again.
LeaverHolds == \A f \in Fiber : descheduled[f] => mutex[f] = f /\ step[f] = "lock"

Held == WakerHolds /\ TesterHolds /\ LeaverHolds

IInv == Shape /\ AtWork /\ Held

-----------------------------------------------------------------------------
\* A mutex that is held by a thread, by a fiber and by nobody are different things.
LEMMA HoldersDiffer ==
  ASSUME NEW f \in Fiber, NEW t \in Thread
  PROVE  f # t /\ f # Null /\ t # Null BY ConstantsAssumption DEF Node

\* A step that leaves the mutexes and the fibers' own flags alone, and after
\* which no new thread holds a mutex, disturbs nothing.
LEMMA HeldFrame ==
  ASSUME Held, UNCHANGED <<step, mutex, descheduled>>,
         \A t \in Thread : Holding(t)' => Holding(t) /\ job'[t].fiber = job[t].fiber
  PROVE  Held' BY DEF Held, WakerHolds, TesterHolds, LeaverHolds

\* Where the end of an insertion leads.
LEMMA AfterInsertValue ==
  ASSUME NEW t \in Thread
  PROVE  /\ AfterInsert(t) \in {"launch", "settled", "unlock"}
         /\ t = Main => AfterInsert(t) = "launch"
         /\ t \in Worker /\ prev_fiber[t] # Null => AfterInsert(t) = "settled"
         /\ t \in Thread /\ AfterInsert(t)' = "unlock" /\ t \notin Worker
            => AfterInsert(t) = "unlock"
         /\ AfterInsert(t)' = "unlock" /\ t \in Worker => prev_fiber'[t] = Null
BY ConstantsAssumption DEF AfterInsert, Thread

\* A thread to which nothing happens holds what it held.
LEMMA HoldingFrame ==
  ASSUME NEW t \in Thread, Holding(t)', job'[t].fiber = job[t].fiber,
         pc'[t] = pc[t], t \in Worker => prev_fiber'[t] = prev_fiber[t]
  PROVE  Holding(t) /\ job'[t].fiber = job[t].fiber
BY ConstantsAssumption DEF Holding, Inserting, AfterInsert, Thread

\* What a removal may put down.
LEMMA JobForms ==
  ASSUME NEW j \in Jobs, NEW q \in Queue
  PROVE  /\ NoJob \in Jobs
         /\ [j EXCEPT !.queue = q] \in Jobs /\ [j EXCEPT !.queue = q].queue = q BY DEF NoJob, Jobs, Slot

\* A thread goes on to a label with what it must know there.
LEMMA JobMove ==
  ASSUME Shape, AtWork, NEW t \in Thread, NEW label \in Labels, NEW j \in Jobs,
         Goto(t, label), job' = [job EXCEPT ![t] = j],
         label \in {"look", "link_sentinel", "take", "swap"} => j.queue \in Queue,
         label \in {"link_sentinel", "take"} => j.fiber \in Node
  PROVE  pc' \in [Thread -> Labels] /\ job' \in [Thread -> Jobs] /\ AtWork' BY DEF Shape, AtWork, Goto

\* The worker begins to look.
LEMMA LookingShape ==
  ASSUME Shape, AtWork, NEW w \in Worker, StartLooking(w)
  PROVE  pc' \in [Thread -> Labels] /\ job' \in [Thread -> Jobs] /\ AtWork'
<1>1. w \in Thread /\ <<w, "priority">> \in Queue BY DEF Queue, Kind, Thread
<1>2. /\ [NoJob EXCEPT !.queue = <<w, "priority">>] \in Jobs
      /\ [NoJob EXCEPT !.queue = <<w, "priority">>].queue \in Queue BY <1>1 DEF NoJob, Jobs, Slot
<1>3. "look" \in Labels BY DEF Labels
<1> QED BY <1>1, <1>2, <1>3, JobMove DEF StartLooking

THEOREM InitHolds == Init => IInv
<1> SUFFICES ASSUME Init PROVE IInv OBVIOUS
<1>1. Shape BY ConstantsAssumption DEF Init, Shape, Jobs, Slot, Node, Labels, Steps, NoJob, Thread
<1>2. \A t \in Thread : pc[t] \in {"begin", "idle", "launch"} BY ConstantsAssumption DEF Init, Thread
<1>3. AtWork BY <1>2 DEF AtWork
<1>4. Held BY <1>2 DEF Held, WakerHolds, TesterHolds, LeaverHolds, Holding, Inserting, Init
<1> QED BY <1>1, <1>3, <1>4 DEF IInv

-----------------------------------------------------------------------------
(* The steps that hold no mutex and take none.                             *)

\* A step of one worker to a label at which it holds nothing.
LEMMA HeldMove ==
  ASSUME Shape, Held, NEW w \in Worker, NEW label,
         label \notin {"schedule_tid", "pick", "unlock", "swap", "link", "check", "signal"},
         Goto(w, label),
         UNCHANGED <<step, mutex, descheduled>>,
         \A u \in Thread \ {w} : job'[u] = job[u],
         \A u \in Worker \ {w} : prev_fiber'[u] = prev_fiber[u]
  PROVE  Held'
<1>1. SUFFICES ASSUME NEW t \in Thread, Holding(t)'
               PROVE  Holding(t) /\ job'[t].fiber = job[t].fiber BY HeldFrame
<1>2. pc' = [pc EXCEPT ![w] = label] /\ pc \in [Thread -> Labels] /\ w \in Thread
  BY DEF Goto, Shape, Thread
<1>3. t # w BY <1>1, <1>2 DEF Holding, Inserting
<1> QED BY <1>1, <1>2, <1>3, HoldingFrame

LEMMA RemoveKeeps ==
  ASSUME IInv, NEW w \in Worker, Remove(w)
  PROVE  IInv'
<1>0. Shape /\ AtWork /\ Held /\ w \in Thread BY DEF IInv, Thread
<1>1. job \in [Thread -> Jobs]
      /\ pc \in [Thread -> Labels] /\ <<w, "affinity">> \in Queue BY <1>0 DEF Shape, Queue, Kind
<1>2. CASE LookPopped(w)
  <2> DEFINE j == [job[w] EXCEPT !.fiber = popped[job[w].queue]]
  <2>2. job[w] \in Jobs /\ job[w].queue \in Queue /\ popped[job[w].queue] \in Node
    BY <1>0, <1>1, <1>2 DEF Shape, AtWork, LookPopped, Slot
  <2>3. j \in Jobs /\ j.queue \in Queue /\ j.fiber \in Node BY <2>2 DEF Jobs, Slot
  <2>4. job' = [job EXCEPT ![w] = j] /\ Goto(w, "take") /\ "take" \in Labels
    BY <1>0, <1>1, <1>2 DEF LookPopped, Labels
  <2> HIDE DEF j
  <2>5. pc' \in [Thread -> Labels] /\ job' \in [Thread -> Jobs] /\ AtWork' BY <1>0, <2>3, <2>4, JobMove
  <2>1. Shape' /\ AtWork' BY <1>0, <1>2, <2>5 DEF Shape, LookPopped, worker_vars, fiber_vars,
       user_vars, end_vars, queue_vars
  <2> QED BY <1>0, <1>1, <1>2, <2>1, HeldMove DEF IInv, LookPopped, worker_vars, fiber_vars, user_vars
<1>3. CASE LookEmpty(w)
  <2> DEFINE j == IF job[w].queue[2] = "priority"
                  THEN [job[w] EXCEPT !.queue = <<w, "affinity">>] ELSE NoJob
             label == IF job[w].queue[2] = "priority" THEN "look"
                      ELSE IF InBase(w) THEN "asleep" ELSE "found"
  <2>2. job[w] \in Jobs BY <1>0, <1>1
  <2>3. j \in Jobs /\ (label = "look" => j.queue \in Queue) BY <1>1, <2>2, JobForms DEF Slot
  <2>4. /\ job' = [job EXCEPT ![w] = j] /\ pc' = [pc EXCEPT ![w] = label]
        /\ label \in {"look", "asleep", "found"} BY <1>0, <1>1, <1>3 DEF LookEmpty, Goto
  <2> HIDE DEF j, label
  <2>5. pc' \in [Thread -> Labels] /\ job' \in [Thread -> Jobs] /\ AtWork'
    BY <1>0, <2>3, <2>4, JobMove DEF Goto, Labels
  <2>1. Shape' /\ AtWork' BY <1>0, <1>3, <2>5 DEF Shape, LookEmpty, worker_vars, fiber_vars,
       user_vars, end_vars, queue_vars
  <2> QED BY <1>0, <1>1, <1>3, <2>1, <2>4, HeldMove DEF IInv, LookEmpty, worker_vars, fiber_vars,
       user_vars, Goto
<1>4. CASE DequeueAll(w)
  <2>2. /\ job[w].queue \in Queue /\ job[w] \in Jobs
        /\ next[job[w].queue] \in Node /\ tail[job[w].queue] \in Slot
    BY <1>0, <1>1, <1>4 DEF Shape, AtWork, DequeueAll, Slot, Node
  <2> DEFINE j == [job[w] EXCEPT !.fiber = next[job[w].queue], !.pred = tail[job[w].queue]]
  <2>3. j \in Jobs /\ j.queue \in Queue /\ j.fiber \in Node BY <2>2 DEF Jobs, Slot
  <2>4. job' = [job EXCEPT ![w] = j] /\ pc' = [pc EXCEPT ![w] = "link_sentinel"]
    BY <1>0, <1>1, <1>4 DEF DequeueAll, Goto
  <2> HIDE DEF j
  <2>5. pc' \in [Thread -> Labels] /\ job' \in [Thread -> Jobs] /\ AtWork'
    BY <1>0, <2>3, <2>4, JobMove DEF Goto, Labels
  <2>1. Shape' /\ AtWork' BY <1>0, <1>4, <2>2, <2>5 DEF Shape, DequeueAll, worker_vars, fiber_vars,
       user_vars, end_vars, Slot, Node
  <2> QED BY <1>0, <1>1, <1>4, <2>1, HeldMove DEF IInv, DequeueAll, worker_vars, fiber_vars, user_vars
<1>5. CASE LinkSentinel(w)
  <2>1. Shape' /\ AtWork'
    BY <1>0, <1>1, <1>5 DEF Shape, AtWork, LinkSentinel, Goto, worker_vars, fiber_vars,
       user_vars, end_vars, queue_vars, Slot, Labels, Node
  <2> QED BY <1>0, <1>1, <1>5, <2>1, HeldMove DEF IInv, LinkSentinel, worker_vars, fiber_vars, user_vars
<1>6. CASE Take(w)
  <2>1. Shape' /\ AtWork' BY <1>0, <1>1, <1>6 DEF Shape, AtWork, Take, Goto, worker_vars, fiber_vars,
       user_vars, end_vars, queue_vars, Slot, Labels, Node
  <2> QED BY <1>0, <1>1, <1>6, <2>1, HeldMove DEF IInv, Take, worker_vars, fiber_vars, user_vars
<1> QED BY <1>2, <1>3, <1>4, <1>5, <1>6 DEF Remove

LEMMA LoopKeeps ==
  ASSUME IInv, NEW w \in Worker, Begin(w) \/ Loop(w) \/ SwitchToFiber(w) \/ SwitchToBase(w)
                                 \/ Resume(w)
  PROVE  IInv'
<1>0. Shape /\ AtWork /\ Held /\ w \in Thread BY DEF IInv, Thread
<1>1. job \in [Thread -> Jobs]
      /\ pc \in [Thread -> Labels] /\ <<w, "priority">> \in Queue BY <1>0 DEF Shape, Queue, Kind
<1>2. CASE Begin(w)
  <2>1. Shape' /\ AtWork' BY <1>0, <1>1, <1>2 DEF Shape, AtWork, Begin, Goto, fiber_vars,
       user_vars, end_vars, queue_vars, Labels
  <2> QED BY <1>0, <1>2, <2>1, HeldMove DEF IInv, Begin, fiber_vars, user_vars
<1>3. CASE Loop(w)
  <2>1. Shape' /\ AtWork'
    <3>1. CASE stop_workers
      BY <1>0, <1>1, <1>3, <3>1 DEF Shape, AtWork, Loop, Goto, worker_vars, fiber_vars,
         user_vars, end_vars, queue_vars, Labels
    <3>2. CASE ~stop_workers
      BY <1>0, <1>1, <1>3, <3>2, LookingShape DEF Shape, Loop, worker_vars, fiber_vars,
         user_vars, end_vars, queue_vars
    <3> QED BY <3>1, <3>2
  <2> QED BY <1>0, <1>1, <1>3, <2>1, HeldMove DEF IInv, Loop, StartLooking, worker_vars, fiber_vars,
       user_vars
<1>4. CASE SwitchToFiber(w)
  <2>2. job' = [job EXCEPT ![w] = NoJob] /\ NoJob \in Jobs
        /\ Goto(w, "switched") /\ "switched" \in Labels
    BY <1>4 DEF SwitchToFiber, Labels, NoJob, Jobs, Slot
  <2>3. pc' \in [Thread -> Labels] /\ job' \in [Thread -> Jobs] /\ AtWork' BY <1>0, <2>2, JobMove
  <2>4. job[w].fiber \in Slot BY <1>0, <1>1 DEF Jobs
  <2>1. Shape' /\ AtWork'
    BY <1>0, <1>4, <2>3, <2>4 DEF Shape, SwitchToFiber, user_vars, end_vars, queue_vars
  <2> QED BY <1>0, <1>1, <1>4, <2>1, HeldMove DEF IInv, SwitchToFiber, user_vars, Shape
<1>5. CASE SwitchToBase(w)
  <2>1. Shape' /\ AtWork' BY <1>0, <1>1, <1>5 DEF Shape, AtWork, SwitchToBase, Goto, fiber_vars,
       user_vars, end_vars, queue_vars, Slot, Labels
  <2> QED BY <1>0, <1>1, <1>5, <2>1, HeldMove DEF IInv, SwitchToBase, fiber_vars, user_vars, Shape
<1>6. CASE Resume(w)
  <2>1. Shape' /\ AtWork' BY <1>0, <1>1, <1>6 DEF Shape, AtWork, Resume, Goto, worker_vars, fiber_vars,
       user_vars, end_vars, queue_vars, Labels
  <2> QED BY <1>0, <1>6, <2>1, HeldMove DEF IInv, Resume, worker_vars, fiber_vars, user_vars
<1> QED BY <1>2, <1>3, <1>4, <1>5, <1>6

-----------------------------------------------------------------------------
(* Inserting.                                                              *)

\* The end of an insertion by t: only t may hold a mutex for it, and only if
\* it goes on to unlock it.
LEMMA InsertedEffect ==
  ASSUME Shape, AtWork, NEW t \in Thread, NEW woken \in SUBSET Thread, Inserted(t, woken)
  PROVE  /\ pc' \in [Thread -> Labels] /\ job' \in [Thread -> Jobs]
         /\ prev_fiber' \in [Worker -> Slot] /\ AtWork'
         /\ \A u \in Thread : Holding(u)' =>
              /\ job'[u].fiber = job[u].fiber
              /\ IF u = t THEN AfterInsert(t) = "unlock" ELSE Holding(u)
<1>1. /\ job \in [Thread -> Jobs] /\ pc \in [Thread -> Labels]
      /\ prev_fiber \in [Worker -> Slot] BY DEF Shape
<1>2. AfterInsert(t) \in {"launch", "settled", "unlock"} BY AfterInsertValue
<1> DEFINE j == IF AfterInsert(t) = "unlock"
                THEN [NoJob EXCEPT !.fiber = job[t].fiber] ELSE NoJob
<1>3. j \in Jobs /\ (AfterInsert(t) = "unlock" => j.fiber = job[t].fiber) BY <1>1 DEF NoJob, Jobs, Slot
<1>4. /\ pc' = [u \in Thread |-> IF u = t THEN AfterInsert(t)
                                 ELSE IF u \in woken THEN "lock" ELSE pc[u]]
      /\ prev_fiber' = IF t \in Worker THEN [prev_fiber EXCEPT ![t] = Null] ELSE prev_fiber
      /\ job' = [job EXCEPT ![t] = j] BY DEF Inserted
<1> HIDE DEF j
<1>5. pc' \in [Thread -> Labels] /\ job' \in [Thread -> Jobs] /\ prev_fiber' \in [Worker -> Slot]
  BY <1>1, <1>2, <1>3, <1>4 DEF Labels, Slot
<1>6. AtWork' BY <1>1, <1>2, <1>4 DEF AtWork
<1>7. ASSUME NEW u \in Thread, Holding(u)'
      PROVE  /\ job'[u].fiber = job[u].fiber
             /\ IF u = t THEN AfterInsert(t) = "unlock" ELSE Holding(u)
  <2>1. CASE u = t
    <3>1. pc'[t] = "unlock" BY <1>2, <1>4, <1>7, <2>1 DEF Holding, Inserting
    <3> QED BY <1>1, <1>3, <1>4, <2>1, <3>1
  <2>2. CASE u # t
    <3>1. pc'[u] = pc[u] BY <1>4, <1>7, <2>2 DEF Holding, Inserting
    <3> QED BY <1>1, <1>4, <1>7, <2>2, <3>1, HoldingFrame
  <2> QED BY <2>1, <2>2
<1> QED BY <1>5, <1>6, <1>7

LEMMA InsertKeeps ==
  ASSUME IInv, NEW t \in Thread, Insert(t)
  PROVE  IInv'
<1>0. Shape /\ AtWork /\ Held BY DEF IInv
<1>1. job \in [Thread -> Jobs] /\ pc \in [Thread -> Labels] /\ job[t] \in Jobs BY <1>0 DEF Shape
<1>2. CASE Swap(t)
  <2> DEFINE j == [job[t] EXCEPT !.pred = tail[job[t].queue]]
  <2>1. tail[job[t].queue] \in Slot BY <1>0, <1>2 DEF Shape, AtWork, Swap
  <2>2. j \in Jobs /\ j.fiber = job[t].fiber /\ job[t].fiber \in Slot BY <1>1, <2>1 DEF Jobs
  <2>3. job' = [job EXCEPT ![t] = j] /\ Goto(t, "link") /\ "link" \in Labels
    BY <1>1, <1>2 DEF Swap, Labels
  <2> HIDE DEF j
  <2>4. pc' \in [Thread -> Labels] /\ job' \in [Thread -> Jobs] /\ AtWork' BY <1>0, <2>2, <2>3, JobMove
  <2>5. Shape'
    BY <1>0, <1>2, <2>2, <2>4 DEF Shape, Swap, worker_vars, fiber_vars, user_vars, end_vars, Slot
  <2>6. ASSUME NEW u \in Thread, Holding(u)'
        PROVE  Holding(u) /\ job'[u].fiber = job[u].fiber
    <3>1. CASE u = t BY <1>1, <1>2, <2>2, <2>3, <2>6, <3>1
      DEF Holding, Inserting, AfterInsert, Goto, Swap, worker_vars
    <3>2. CASE u # t BY <1>1, <1>2, <2>3, <2>6, <3>2, HoldingFrame DEF Goto, Swap, worker_vars
    <3> QED BY <3>1, <3>2
  <2>7. UNCHANGED <<step, mutex, descheduled>> BY <1>2 DEF Swap, fiber_vars, user_vars
  <2> QED BY <1>0, <2>4, <2>5, <2>6, <2>7, HeldFrame DEF IInv
<1>3. CASE Link(t)
  <2>1. job' = job /\ Goto(t, "check") /\ "check" \in Labels /\ job[t].fiber \in Slot
    BY <1>1, <1>3 DEF Link, Labels, Jobs
  <2>2. Shape' /\ AtWork'
    BY <1>0, <1>3, <2>1 DEF Shape, AtWork, Link, Goto, worker_vars, fiber_vars, user_vars, end_vars
  <2>3. ASSUME NEW u \in Thread, Holding(u)'
        PROVE  Holding(u) /\ job'[u].fiber = job[u].fiber
    <3>1. CASE u = t BY <1>1, <1>3, <2>1, <2>3, <3>1
      DEF Holding, Inserting, AfterInsert, Goto, Link, worker_vars
    <3>2. CASE u # t BY <1>1, <1>3, <2>1, <2>3, <3>2, HoldingFrame DEF Goto, Link, worker_vars
    <3> QED BY <3>1, <3>2
  <2>4. UNCHANGED <<step, mutex, descheduled>> BY <1>3 DEF Link, fiber_vars, user_vars
  <2> QED BY <1>0, <2>2, <2>3, <2>4, HeldFrame DEF IInv
<1>4. ASSUME NEW woken \in SUBSET Thread, Inserted(t, woken), pc[t] \in {"check", "signal"},
             UNCHANGED <<queue_vars, waiting, cur_fiber, fiber_vars, user_vars, end_vars>>
      PROVE  IInv'
  <2>1. Shape' /\ AtWork' BY <1>0, <1>4, InsertedEffect DEF Shape, queue_vars, fiber_vars, user_vars
  <2>2. \A u \in Thread : Holding(u)' => Holding(u) /\ job'[u].fiber = job[u].fiber
    BY <1>0, <1>4, InsertedEffect DEF Holding, Inserting
  <2> QED BY <1>0, <1>4, <2>1, <2>2, HeldFrame DEF IInv, fiber_vars, user_vars
<1>5. CASE CheckWaiting(t)
  <2>1. CASE waiting[job[t].queue[1]]
    <3>1. Goto(t, "signal") /\ "signal" \in Labels /\ UNCHANGED <<prev_fiber, job>>
      BY <1>5, <2>1 DEF CheckWaiting, Labels
    <3>2. Shape' /\ AtWork'
      BY <1>0, <1>5, <3>1 DEF Shape, AtWork, CheckWaiting, Goto, queue_vars, fiber_vars, user_vars
    <3>3. ASSUME NEW u \in Thread, Holding(u)'
          PROVE  Holding(u) /\ job'[u].fiber = job[u].fiber
      <4>1. CASE u = t BY <1>1, <1>5, <3>1, <3>3, <4>1
        DEF Holding, Inserting, AfterInsert, Goto, CheckWaiting
      <4>2. CASE u # t BY <1>1, <3>1, <3>3, <4>2, HoldingFrame DEF Goto
      <4> QED BY <4>1, <4>2
    <3>4. UNCHANGED <<step, mutex, descheduled>> BY <1>5 DEF CheckWaiting, fiber_vars, user_vars
    <3> QED BY <1>0, <3>2, <3>3, <3>4, HeldFrame DEF IInv
  <2>2. CASE ~waiting[job[t].queue[1]] BY <1>4, <1>5, <2>2 DEF CheckWaiting
  <2> QED BY <2>1, <2>2
<1>6. CASE Signal(t)
  <2>1. {u \in {job[t].queue[1]} : pc[u] = "asleep"} \cap Thread \in SUBSET Thread OBVIOUS
  <2>2. Inserted(t, {u \in {job[t].queue[1]} : pc[u] = "asleep"} \cap Thread)
    BY <1>6 DEF Signal, Inserted
  <2> QED BY <1>4, <1>6, <2>1, <2>2 DEF Signal
<1> QED BY <1>2, <1>3, <1>5, <1>6 DEF Insert

-----------------------------------------------------------------------------
(* Rescheduling.                                                           *)

\* The insertion of f begins, or f need not be inserted.
LEMMA StartInsertEffect ==
  ASSUME Shape, AtWork, NEW t \in Thread, NEW w \in Worker, NEW f \in Slot,
         StartInsert(t, w, f)
  PROVE  /\ pc' \in [Thread -> Labels] /\ job' \in [Thread -> Jobs]
         /\ prev_fiber' \in [Worker -> Slot] /\ AtWork'
         /\ \A u \in Thread : Holding(u)' =>
              IF u = t THEN AfterInsert(t) = "unlock" /\ job'[u].fiber \in {f, job[u].fiber}
                       ELSE Holding(u) /\ job'[u].fiber = job[u].fiber
<1>1. CASE scheduleable[f]
  <2> DEFINE q == <<w, IF priority[f] THEN "priority" ELSE "affinity">>
             j == [fiber |-> f, pred |-> Null, queue |-> q]
  <2>1. q \in Queue BY DEF Queue, Kind
  <2>2. j \in Jobs /\ j.queue \in Queue /\ j.fiber = f BY <2>1 DEF Jobs, Slot
  <2>3. /\ job' = [job EXCEPT ![t] = j] /\ Goto(t, "swap") /\ "swap" \in Labels
        /\ UNCHANGED prev_fiber BY <1>1 DEF StartInsert, Labels
  <2>4. job \in [Thread -> Jobs] /\ pc \in [Thread -> Labels] BY DEF Shape
  <2> HIDE DEF j
  <2>5. pc' \in [Thread -> Labels] /\ job' \in [Thread -> Jobs] /\ AtWork' BY <2>2, <2>3, JobMove
  <2>6. ASSUME NEW u \in Thread, Holding(u)'
        PROVE  IF u = t THEN AfterInsert(t) = "unlock" /\ job'[u].fiber \in {f, job[u].fiber}
                        ELSE Holding(u) /\ job'[u].fiber = job[u].fiber
    <3>1. CASE u = t BY <2>2, <2>3, <2>4, <2>6, <3>1 DEF Holding, Inserting, AfterInsert, Goto
    <3>2. CASE u # t BY <2>3, <2>4, <2>6, <3>2, HoldingFrame DEF Goto
    <3> QED BY <3>1, <3>2
  <2> QED BY <2>3, <2>5, <2>6 DEF Shape
<1>2. CASE ~scheduleable[f] BY <1>2, InsertedEffect DEF StartInsert
<1> QED BY <1>1, <1>2

\* reschedule_fiber(), of the fiber just switched away from or of one to wake.
LEMMA RescheduleKeeps ==
  ASSUME IInv, NEW t \in Thread, NEW w \in Worker, NEW f \in Slot,
         reschedule_fiber(t, w, f),
         \/ pc[t] = "pick" /\ f = job[t].fiber
         \/ t \in Worker /\ prev_fiber[t] # Null
  PROVE  IInv'
<1>0. Shape /\ AtWork /\ Held BY DEF IInv
<1>1. UNCHANGED <<queue_vars, waiting, cur_fiber, terminate, priority,
                  waits, ready, asked, stop_workers, deleted>> BY DEF reschedule_fiber
\* Only a thread that wakes f goes on to hold a mutex.
<1>2. AfterInsert(t) = "unlock" => pc[t] = "pick" /\ f = job[t].fiber BY AfterInsertValue
<1>3. CASE Reinsert(t, w, f)
  <2>1. StartInsert(t, w, f) /\ UNCHANGED <<descheduled, step, mutex>> BY <1>3 DEF Reinsert
  <2>2. Shape' /\ AtWork' BY <1>0, <1>1, <2>1, StartInsertEffect DEF Shape, queue_vars
  <2>3. \A u \in Thread : Holding(u)' => Holding(u) /\ job'[u].fiber = job[u].fiber
    BY <1>0, <1>2, <2>1, StartInsertEffect DEF Holding
  <2> QED BY <1>0, <2>1, <2>2, <2>3, HeldFrame DEF IInv
<1>4. CASE Deschedule(t, f)
  <2>1. /\ descheduled[f]
        /\ descheduled' = [descheduled EXCEPT ![f] = FALSE]
        /\ mutex' = [mutex EXCEPT ![f] = Null]
        /\ Inserted(t, {}) /\ step' = step BY <1>4 DEF Deschedule
  <2>2. {} \in SUBSET Thread OBVIOUS
  <2>3. Shape' /\ AtWork' BY <1>0, <1>1, <2>1, <2>2, InsertedEffect DEF Shape, queue_vars
  <2>4. \A u \in Thread : Holding(u)' => Holding(u) /\ job'[u].fiber = job[u].fiber
    BY <1>0, <1>2, <2>1, <2>2, InsertedEffect DEF Holding
  \* The fiber still had its mutex, so no waker has it.
  <2>5. f \in Fiber => mutex[f] = f /\ step[f] = "lock" BY <1>0, <2>1 DEF Held, LeaverHolds
  <2>6. WakerHolds' BY <1>0, <2>1, <2>4, <2>5, HoldersDiffer DEF Held, WakerHolds, Shape
  <2>7. TesterHolds' /\ LeaverHolds' BY <1>0, <2>1, <2>5 DEF Held, TesterHolds, LeaverHolds, Shape
  <2> QED BY <2>3, <2>6, <2>7 DEF IInv, Held
<1>5. CASE Destroy(t, f)
  <2>1. /\ ~descheduled[f] /\ step' = [step EXCEPT ![f] = "dead"]
        /\ prev_fiber' = [prev_fiber EXCEPT ![t] = Null]
        /\ UNCHANGED <<descheduled, mutex, job>> BY <1>5 DEF Destroy
  <2> DEFINE label == IF fibers_active = 1 THEN "signal_join" ELSE "settled"
  <2>2. Goto(t, label) /\ label \in {"signal_join", "settled"} BY <1>5 DEF Destroy
  <2> HIDE DEF label
  <2>3. Shape' /\ AtWork'
    BY <1>0, <1>1, <2>1, <2>2 DEF Shape, AtWork, Goto, queue_vars, Labels, Steps, Slot
  <2>4. ASSUME NEW u \in Thread, Holding(u)'
        PROVE  Holding(u) /\ job'[u].fiber = job[u].fiber
    <3>1. u # t BY <1>0, <2>2, <2>4 DEF Holding, Inserting, Goto, Shape
    <3> QED BY <1>0, <2>1, <2>2, <2>4, <3>1, HoldingFrame DEF Goto, Shape
  <2>5. Held' BY <1>0, <2>1, <2>4 DEF Held, WakerHolds, TesterHolds, LeaverHolds, Shape
  <2> QED BY <2>3, <2>5 DEF IInv
<1> QED BY <1>3, <1>4, <1>5 DEF reschedule_fiber

LEMMA BookkeepKeeps ==
  ASSUME IInv, NEW w \in Worker, Bookkeep(w) \/ SignalJoin(w)
  PROVE  IInv'
<1>0. Shape /\ AtWork /\ Held /\ w \in Thread /\ Main \in Thread BY DEF IInv, Thread
<1>1. CASE Bookkeep(w) BY <1>0, <1>1, RescheduleKeeps DEF Shape, Bookkeep
<1>2. CASE SignalJoin(w)
  <2>1. pc' = [pc EXCEPT ![w] = "settled", ![Main] = IF @ = "joining" THEN "join" ELSE @]
        /\ UNCHANGED <<queue_vars, worker_vars, fiber_vars, user_vars, end_vars, job>>
    BY <1>2 DEF SignalJoin
  <2>2. \A u \in Thread : pc'[u] = pc[u] \/ pc'[u] \in {"settled", "join"} BY <1>0, <2>1 DEF Shape
  <2>3. Shape' /\ AtWork'
    BY <1>0, <2>1, <2>2 DEF Shape, AtWork, Labels, queue_vars, worker_vars, fiber_vars, user_vars
  <2>4. ASSUME NEW u \in Thread, Holding(u)'
        PROVE  Holding(u) /\ job'[u].fiber = job[u].fiber
    <3>1. pc'[u] = pc[u] BY <2>2, <2>4 DEF Holding, Inserting
    <3> QED BY <2>1, <2>4, <3>1, HoldingFrame DEF worker_vars
  <2> QED BY <1>0, <2>1, <2>3, <2>4, HeldFrame DEF IInv, fiber_vars, user_vars
<1> QED BY <1>1, <1>2

-----------------------------------------------------------------------------
(* The fibers.                                                             *)

\* The fiber of a worker.
LEMMA CurrentFiber ==
  ASSUME Shape, NEW w \in Worker
  PROVE  cur_fiber[w] \in Slot /\ w \in Thread BY DEF Shape, Thread

LEMMA AskKeeps ==
  ASSUME IInv, NEW w \in Worker, Ask(w)
  PROVE  IInv'
<1> DEFINE f == cur_fiber[w]
<1>0. Shape /\ AtWork /\ Held /\ f \in Slot BY CurrentFiber DEF IInv
<1>1. /\ step[f] \in {"start", "run"} /\ step' = [step EXCEPT ![f] = "lock"]
      /\ asked' = asked \cup {f}
      /\ UNCHANGED <<queue_vars, worker_vars, fiber_vars, mutex, pc, job>> BY DEF Ask
<1> HIDE DEF f
<1>2. Shape' /\ AtWork' BY <1>0, <1>1 DEF Shape, AtWork, queue_vars, worker_vars, fiber_vars, Steps
<1>3. \A u \in Thread : Holding(u)' => Holding(u)
  BY <1>1 DEF Holding, Inserting, AfterInsert, worker_vars
<1>4. Held' BY <1>0, <1>1, <1>3 DEF Held, WakerHolds, TesterHolds, LeaverHolds, Shape, fiber_vars
<1> QED BY <1>2, <1>4 DEF IInv

\* A mutex that is free is held by no waker and for no fiber that leaves.
LEMMA LockMutexKeeps ==
  ASSUME IInv, NEW w \in Worker, LockMutex(w)
  PROVE  IInv'
<1> DEFINE f == cur_fiber[w]
<1>0. Shape /\ AtWork /\ Held /\ f \in Slot BY CurrentFiber DEF IInv
<1>1. /\ mutex[f] = Null /\ mutex' = [mutex EXCEPT ![f] = f]
      /\ step' = [step EXCEPT ![f] = "test"]
      /\ UNCHANGED <<queue_vars, worker_vars, fiber_vars, asked, pc, job>> BY DEF LockMutex
<1> HIDE DEF f
<1>2. Shape' /\ AtWork' BY <1>0, <1>1 DEF Shape, AtWork, queue_vars, worker_vars, fiber_vars, Steps
<1>3. \A u \in Thread : Holding(u)' => Holding(u)
  BY <1>1 DEF Holding, Inserting, AfterInsert, worker_vars
<1>4. WakerHolds' BY <1>0, <1>1, <1>3, HoldersDiffer DEF Held, WakerHolds, Shape
<1>5. TesterHolds' /\ LeaverHolds'
  BY <1>0, <1>1, HoldersDiffer DEF Held, TesterHolds, LeaverHolds, Shape, fiber_vars, Thread
<1> QED BY <1>2, <1>4, <1>5 DEF IInv, Held

\* After a step of the client into the scheduler, nobody new holds a mutex.
LEMMA LookingHolds ==
  ASSUME Shape, NEW w \in Worker, StartLooking(w), UNCHANGED prev_fiber
  PROVE  \A u \in Thread : Holding(u)' => Holding(u) /\ job'[u].fiber = job[u].fiber
<1> SUFFICES ASSUME NEW u \in Thread, Holding(u)'
             PROVE  Holding(u) /\ job'[u].fiber = job[u].fiber OBVIOUS
<1>1. u # w BY DEF StartLooking, Goto, Holding, Inserting, Shape
<1> QED BY <1>1, HoldingFrame DEF StartLooking, Goto, Shape

LEMMA DescheduleSelfKeeps ==
  ASSUME IInv, NEW w \in Worker, deschedule_self(w)
  PROVE  IInv'
<1> DEFINE f == cur_fiber[w]
<1>0. Shape /\ AtWork /\ Held /\ f \in Slot BY CurrentFiber DEF IInv
<1>1. /\ step[f] = "test" /\ descheduled' = [descheduled EXCEPT ![f] = TRUE]
      /\ step' = [step EXCEPT ![f] = "lock"]
      /\ StartLooking(w)
      /\ UNCHANGED <<queue_vars, worker_vars, mutex, asked>> BY DEF deschedule_self
<1> HIDE DEF f
<1>2. Shape' /\ AtWork' BY <1>0, <1>1, LookingShape DEF Shape, queue_vars, worker_vars, Steps
<1>3. \A u \in Thread : Holding(u)' => Holding(u) /\ job'[u].fiber = job[u].fiber
  BY <1>0, <1>1, LookingHolds DEF worker_vars
\* It tested under its mutex.
<1>4. f \in Fiber => mutex[f] = f BY <1>0, <1>1 DEF Held, TesterHolds
<1>5. Held' BY <1>0, <1>1, <1>3, <1>4 DEF Held, WakerHolds, TesterHolds, LeaverHolds, Shape
<1> QED BY <1>2, <1>5 DEF IInv

LEMMA ProceedKeeps ==
  ASSUME IInv, NEW w \in Worker, Proceed(w)
  PROVE  IInv'
<1> DEFINE f == cur_fiber[w]
<1>0. Shape /\ AtWork /\ Held /\ f \in Slot BY CurrentFiber DEF IInv
<1>1. /\ step[f] = "test" /\ mutex' = [mutex EXCEPT ![f] = Null]
      /\ step' = [step EXCEPT ![f] = "run"]
      /\ StartLooking(w)
      /\ UNCHANGED <<queue_vars, worker_vars, fiber_vars, asked>> BY DEF Proceed
<1> HIDE DEF f
<1>2. Shape' /\ AtWork' BY <1>0, <1>1, LookingShape DEF Shape, queue_vars, worker_vars, fiber_vars, Steps
<1>3. \A u \in Thread : Holding(u)' => Holding(u) /\ job'[u].fiber = job[u].fiber
  BY <1>0, <1>1, LookingHolds DEF worker_vars
<1>4. f \in Fiber => mutex[f] = f /\ ~descheduled[f] BY <1>0, <1>1 DEF Held, TesterHolds, LeaverHolds
<1>5. WakerHolds' BY <1>0, <1>1, <1>3, <1>4, HoldersDiffer DEF Held, WakerHolds, Shape
<1>6. TesterHolds' /\ LeaverHolds'
  BY <1>0, <1>1, <1>4 DEF Held, TesterHolds, LeaverHolds, Shape, fiber_vars
<1> QED BY <1>2, <1>5, <1>6 DEF IInv, Held

LEMMA ExitKeeps ==
  ASSUME IInv, NEW w \in Worker, exit(w)
  PROVE  IInv'
<1>0. Shape /\ AtWork /\ Held BY DEF IInv
<1>1. StartLooking(w) /\ UNCHANGED <<queue_vars, worker_vars, descheduled, user_vars>> BY DEF exit
<1>2. Shape' /\ AtWork' BY <1>0, <1>1, LookingShape DEF Shape, queue_vars, worker_vars, user_vars
<1>3. \A u \in Thread : Holding(u)' => Holding(u) /\ job'[u].fiber = job[u].fiber
  BY <1>0, <1>1, LookingHolds DEF worker_vars
<1> QED BY <1>0, <1>1, <1>2, <1>3, HeldFrame DEF IInv, user_vars

-----------------------------------------------------------------------------
(* Waking.                                                                 *)

LEMMA TakeCallKeeps ==
  ASSUME IInv, NEW t \in Thread, TakeCall(t)
  PROVE  IInv'
<1>0. Shape /\ AtWork /\ Held BY DEF IInv
<1>1. PICK f \in asked : asked' = asked \ {f} /\ job' = [job EXCEPT ![t].fiber = f] BY DEF TakeCall
<1> DEFINE j == [job[t] EXCEPT !.fiber = f]
<1>2. j \in Jobs /\ f \in Slot BY <1>0, <1>1 DEF Shape, Jobs
<1>3. /\ job' = [job EXCEPT ![t] = j] /\ Goto(t, "lock_ready") /\ "lock_ready" \in Labels
      /\ UNCHANGED <<queue_vars, worker_vars, fiber_vars, step, mutex>> BY <1>1 DEF TakeCall, Labels
<1> HIDE DEF j
<1>4. pc' \in [Thread -> Labels] /\ job' \in [Thread -> Jobs] /\ AtWork' BY <1>0, <1>2, <1>3, JobMove
<1>5. Shape' BY <1>0, <1>1, <1>3, <1>4 DEF Shape, queue_vars, worker_vars, fiber_vars
<1>6. ASSUME NEW u \in Thread, Holding(u)'
      PROVE  Holding(u) /\ job'[u].fiber = job[u].fiber
  <2>1. u # t BY <1>0, <1>3, <1>6 DEF Goto, Holding, Inserting, Shape
  <2> QED BY <1>0, <1>3, <1>6, <2>1, HoldingFrame DEF Goto, Shape, worker_vars
<1> QED BY <1>0, <1>3, <1>4, <1>5, <1>6, HeldFrame DEF IInv, fiber_vars

\* lock_ready() takes a mutex that nobody holds.
LEMMA LockReadyKeeps ==
  ASSUME IInv, NEW t \in Thread, LockReady(t)
  PROVE  IInv'
<1> DEFINE f == job[t].fiber
<1>0. Shape /\ AtWork /\ Held BY DEF IInv
<1>1. /\ mutex[f] = Null /\ mutex' = [mutex EXCEPT ![f] = t]
      /\ Goto(t, "schedule_tid") /\ "schedule_tid" \in Labels
      /\ UNCHANGED <<queue_vars, worker_vars, fiber_vars, step, asked, job>> BY DEF LockReady, Labels
<1>2. Shape' /\ AtWork' BY <1>0, <1>1 DEF Shape, AtWork, Goto, queue_vars, worker_vars, fiber_vars
<1>3. ASSUME NEW u \in Thread, Holding(u)', u # t PROVE Holding(u)
  BY <1>0, <1>1, <1>3, HoldingFrame DEF Goto, Shape, worker_vars
<1>4. job' = job /\ (\A u \in Thread : Holding(u)' /\ u # t => Holding(u)) BY <1>1, <1>3
<1>5. WakerHolds'
  <2> SUFFICES ASSUME NEW g \in Fiber, NEW u \in Thread, Holding(u)', job'[u].fiber = g
               PROVE  mutex'[g] = u BY DEF WakerHolds
  <2>1. CASE u = t BY <1>0, <1>1, <1>4, <2>1 DEF Shape
  <2>2. CASE u # t BY <1>0, <1>1, <1>4, <2>2, HoldersDiffer DEF Held, WakerHolds, Shape
  <2> QED BY <2>1, <2>2
<1>6. TesterHolds' /\ LeaverHolds'
  BY <1>0, <1>1, HoldersDiffer DEF Held, TesterHolds, LeaverHolds, Shape, fiber_vars
<1> QED BY <1>2, <1>5, <1>6 DEF IInv, Held

LEMMA ScheduleTidKeeps ==
  ASSUME IInv, NEW t \in Thread, schedule_tid(t)
  PROVE  IInv'
<1> DEFINE f == job[t].fiber
           label == IF scheduleable[f] THEN "unlock" ELSE "pick"
<1>0. Shape /\ AtWork /\ Held BY DEF IInv
<1>1. /\ pc[t] = "schedule_tid" /\ descheduled' = [descheduled EXCEPT ![f] = FALSE]
      /\ Goto(t, label) /\ label \in {"unlock", "pick"}
      /\ UNCHANGED <<queue_vars, worker_vars, user_vars, job>> BY DEF schedule_tid
<1> HIDE DEF label
<1>2. Shape' /\ AtWork' BY <1>0, <1>1 DEF Shape, AtWork, Goto, queue_vars, worker_vars, user_vars, Labels
<1>3. ASSUME NEW u \in Thread, Holding(u)' PROVE Holding(u)
  <2>1. CASE u = t BY <1>1, <2>1 DEF Holding
  <2>2. CASE u # t BY <1>0, <1>1, <1>3, <2>2, HoldingFrame DEF Goto, Shape, worker_vars
  <2> QED BY <2>1, <2>2
<1>4. job' = job /\ mutex' = mutex /\ (\A u \in Thread : Holding(u)' => Holding(u))
  BY <1>1, <1>3 DEF user_vars
<1>5. Held' BY <1>0, <1>1, <1>4 DEF Held, WakerHolds, TesterHolds, LeaverHolds, Shape, user_vars
<1> QED BY <1>2, <1>5 DEF IInv

LEMMA PickWorkerKeeps ==
  ASSUME IInv, NEW t \in Thread, PickWorker(t)
  PROVE  IInv'
<1>1. PICK w \in PickableWorkers(t) : reschedule_fiber(t, w, job[t].fiber) BY DEF PickWorker
<1>2. w \in Worker BY DEF PickableWorkers
<1>3. job[t].fiber \in Slot /\ pc[t] = "pick" BY DEF IInv, Shape, Jobs, PickWorker
<1> QED BY <1>1, <1>2, <1>3, RescheduleKeeps

LEMMA UnlockKeeps ==
  ASSUME IInv, NEW t \in Thread, Unlock(t)
  PROVE  IInv'
<1> DEFINE f == job[t].fiber
           label == IF t \in Worker THEN "settled" ELSE "idle"
<1>0. Shape /\ AtWork /\ Held BY DEF IInv
<1>1. /\ pc[t] = "unlock" /\ mutex' = [mutex EXCEPT ![f] = Null]
      /\ Goto(t, label) /\ label \in {"settled", "idle"}
      /\ job' = [job EXCEPT ![t] = NoJob] /\ NoJob \in Jobs /\ label \in Labels
      /\ UNCHANGED <<queue_vars, worker_vars, fiber_vars, step, asked>>
  BY DEF Unlock, NoJob, Jobs, Slot, Labels
<1> HIDE DEF label
<1>2. pc' \in [Thread -> Labels] /\ job' \in [Thread -> Jobs] /\ AtWork' BY <1>0, <1>1, JobMove
<1>3. Shape' BY <1>0, <1>1, <1>2 DEF Shape, queue_vars, worker_vars, fiber_vars
<1>4. ASSUME NEW u \in Thread, Holding(u)'
      PROVE  u # t /\ Holding(u) /\ job'[u].fiber = job[u].fiber
  <2>1. u # t BY <1>0, <1>1, <1>4 DEF Goto, Holding, Inserting, Shape
  <2> QED BY <1>0, <1>1, <1>4, <2>1, HoldingFrame DEF Goto, Shape, worker_vars
\* The mutex was this thread's.
<1>5. f \in Fiber => mutex[f] = t BY <1>0, <1>1 DEF Held, WakerHolds, Holding
<1>6. WakerHolds' BY <1>0, <1>1, <1>4, <1>5 DEF Held, WakerHolds, Shape
<1>7. TesterHolds' /\ LeaverHolds'
  BY <1>0, <1>1, <1>5, HoldersDiffer DEF Held, TesterHolds, LeaverHolds, Shape, fiber_vars
<1> QED BY <1>2, <1>3, <1>6, <1>7 DEF IInv, Held

-----------------------------------------------------------------------------
(* The main thread, and the whole.                                         *)

LEMMA LaunchKeeps ==
  ASSUME IInv, launch
  PROVE  IInv'
<1>0. Shape /\ AtWork /\ Held /\ Main \in Thread BY DEF IInv, Thread
<1>1. PICK f \in Fiber, w \in Worker :
        step[f] = "unborn" /\ step' = [step EXCEPT ![f] = "start"] /\ StartInsert(Main, w, f)
  BY DEF launch
<1>2. f \in Slot BY DEF Slot, Node
<1>3. UNCHANGED <<queue_vars, waiting, cur_fiber, fiber_vars, mutex, asked>> BY DEF launch
<1>4. Shape' /\ AtWork'
  BY <1>0, <1>1, <1>2, <1>3, StartInsertEffect DEF Shape, queue_vars, fiber_vars, Steps
<1>5. \A u \in Thread : Holding(u)' => Holding(u) /\ job'[u].fiber = job[u].fiber
  BY <1>0, <1>1, <1>2, StartInsertEffect, AfterInsertValue
<1>6. Held' BY <1>0, <1>1, <1>3, <1>5 DEF Held, WakerHolds, TesterHolds, LeaverHolds, Shape, fiber_vars
<1> QED BY <1>4, <1>6 DEF IInv

LEMMA MainKeeps ==
  ASSUME IInv, join \/ Delete \/ JoinWorkers
  PROVE  IInv'
<1>0. Shape /\ AtWork /\ Held /\ Main \in Thread BY DEF IInv, Thread
<1>1. UNCHANGED <<queue_vars, worker_vars, fiber_vars, user_vars, job>> BY DEF join, Delete, JoinWorkers
<1>2. /\ pc' \in [Thread -> Labels]
      /\ \A u \in Thread : pc'[u] = pc[u] \/ pc'[u] \in {"joining", "delete", "lock", "done"}
  BY <1>0 DEF join, Delete, JoinWorkers, Goto, Shape, Labels
<1>3. Shape' /\ AtWork'
  BY <1>0, <1>1, <1>2 DEF Shape, AtWork, queue_vars, worker_vars, fiber_vars, user_vars
<1>4. ASSUME NEW u \in Thread, Holding(u)'
      PROVE  Holding(u) /\ job'[u].fiber = job[u].fiber
  <2>1. pc'[u] = pc[u] BY <1>2, <1>4 DEF Holding, Inserting
  <2> QED BY <1>1, <1>4, <2>1, HoldingFrame DEF worker_vars
<1> QED BY <1>0, <1>1, <1>3, <1>4, HeldFrame DEF IInv, fiber_vars, user_vars

THEOREM StepHolds == IInv /\ [Next]_vars => IInv'
<1> SUFFICES ASSUME IInv, [Next]_vars PROVE IInv' OBVIOUS
<1>1. ASSUME NEW t \in Thread, Insert(t) PROVE IInv' BY <1>1, InsertKeeps
<1>2. ASSUME NEW t \in Worker \cup Waker, TakeCall(t) \/ Wake(t) PROVE IInv'
  <2>1. t \in Thread BY DEF Thread
  <2> QED BY <1>2, <2>1, TakeCallKeeps, LockReadyKeeps, ScheduleTidKeeps, PickWorkerKeeps, UnlockKeeps
    DEF Wake
<1>3. ASSUME NEW w \in Worker, WorkerStep(w) PROVE IInv'
  BY <1>3, LoopKeeps, RemoveKeeps, BookkeepKeeps, AskKeeps, LockMutexKeeps,
     DescheduleSelfKeeps, ProceedKeeps, ExitKeeps DEF WorkerStep, Client
<1>4. CASE MainStep BY <1>4, LaunchKeeps, MainKeeps DEF MainStep
<1>5. CASE UNCHANGED vars
  <2>1. UNCHANGED <<next, tail, popped, cur_fiber, prev_fiber, descheduled, step, mutex,
                    asked, pc, job>> BY <1>5 DEF vars, queue_vars, worker_vars, fiber_vars, user_vars
  <2> QED BY <2>1 DEF IInv, Shape, AtWork, Held, WakerHolds, TesterHolds, LeaverHolds, Holding,
       Inserting, AfterInsert
<1> QED BY <1>1, <1>2, <1>3, <1>4, <1>5 DEF Next

\* The mutex that lock_ready() and deschedule_self() share keeps every wake-up
\* away from a fiber that is still on its worker, whatever the number of
\* workers, wakers and fibers: the assertion of fiber_control.cpp:500 holds.
THEOREM AssertionHolds == Spec => []WokenOnlyWhenDescheduled
<1>1. IInv => WokenOnlyWhenDescheduled
  BY HoldersDiffer DEF IInv, Held, WakerHolds, LeaverHolds, WokenOnlyWhenDescheduled, Holding
<1> QED BY <1>1, InitHolds, StepHolds, PTL DEF Spec

-----------------------------------------------------------------------------
(* Where the fibers are.                                                   *)

\* The flags, and what Shape leaves open.
Flags ==
  /\ waiting \in [Worker -> BOOLEAN]
  /\ stop_workers \in BOOLEAN
  /\ deleted \subseteq Worker
  /\ scheduleable \in [Fiber -> BOOLEAN]
  /\ terminate \in [Fiber -> BOOLEAN]
  /\ priority \in [Fiber -> BOOLEAN]
  /\ waits \in [Fiber -> 0 .. MaxWaits]
  /\ ready \in [Fiber -> BOOLEAN]
  /\ asked \subseteq Fiber

\* What a thread knows of its fiber and its queue where it is.
Knows(t) ==
  /\ pc[t] \in {"swap", "link", "check", "signal", "pick", "lock_ready", "schedule_tid", "unlock"}
       => job[t].fiber \in Fiber
  /\ Inserting(t) => job[t].queue \in Queue
  /\ pc[t] \in {"link_sentinel", "take"} => job[t].fiber \in Fiber
  /\ pc[t] = "found" => job[t].fiber \in Fiber \cup {Null}
  /\ pc[t] = "pick" \/ (Inserting(t) /\ AfterInsert(t) = "unlock") => step[job[t].fiber] = "lock"

\* What a worker has on its stacks where it is.
Stack(w) ==
  /\ cur_fiber[w] \in Fiber \cup {Null} /\ prev_fiber[w] \in Fiber \cup {Null}
  /\ pc[w] \notin {"idle", "launch", "join", "joining", "delete", "done"}
  /\ pc[w] \in {"begin", "lock", "asleep", "exited"} => cur_fiber[w] = Null
  /\ pc[w] = "client" \/ (pc[w] = "found" /\ job[w].fiber = Null) => cur_fiber[w] # Null
  /\ pc[w] \in {"look", "link_sentinel", "take"} => job[w].queue \in Queue /\ job[w].queue[1] = w
  /\ prev_fiber[w] # Null =>
       /\ pc[w] \in {"switched", "swap", "link", "check", "signal"}
       /\ Inserting(w) => job[w].fiber = prev_fiber[w] /\ job[w].queue[1] = w
  /\ cur_fiber[w] = Null /\ (Looking(w) \/ pc[w] \in {"lock", "asleep"}) => waiting[w]

\* The other threads run no fibers.
Others ==
  /\ \A t \in Waker : pc[t] \in {"idle", "lock_ready", "schedule_tid", "pick", "unlock"}
                      \/ Inserting(t)
  /\ pc[Main] \in {"launch", "join", "joining", "delete", "done"} \/ Inserting(Main)

\* Where a fiber is: in a queue, on a worker, about to leave one, in the hands of a
\* thread, or nowhere.
Place == ({"queue"} \X Queue) \cup ({"cur", "prev"} \X Worker) \cup ({"job"} \X Thread)
           \cup {<<"none", Null>>}

\* place is where each fiber is; nobody thinks it elsewhere.
Placed(place) ==
  /\ place \in [Fiber -> Place]
  /\ \A w \in Worker, f \in Fiber :
       /\ cur_fiber[w] = f => place[f] = <<"cur", w>>
       /\ prev_fiber[w] = f =>
            place[f] = IF pc[w] = "switched" THEN <<"prev", w>>
                       ELSE IF pc[w] = "swap" THEN <<"job", w>> ELSE <<"queue", job[w].queue>>
  /\ \A t \in Thread, f \in Fiber :
       job[t].fiber = f /\ pc[t] \in {"found", "pick", "swap"} => place[f] = <<"job", t>>

\* A fiber that is somewhere can run and lives; only one that looks for another
\* to leave its worker to has ended or goes to sleep.
Alive(place) ==
  \A f \in Fiber :
    /\ step[f] = "unborn" => scheduleable[f] /\ ~terminate[f]
    /\ step[f] \in {"unborn", "dead"} \/ ~scheduleable[f] => place[f] = <<"none", Null>>
    /\ ~scheduleable[f] => step[f] = "lock"
    /\ terminate[f] => step[f] \in {"start", "run", "dead"}
    /\ place[f][1] \in {"queue", "job"} => ~terminate[f] /\ ~descheduled[f]
    /\ \A w \in Worker : cur_fiber[w] = f /\ (terminate[f] \/ descheduled[f]) => Looking(w)

-----------------------------------------------------------------------------
(* The queues.                                                             *)

\* n is the sentinel of q or in the list of q.
Listed(place, n, q) == n = q \/ (n \in Fiber /\ place[n] = <<"queue", q>>)

\* What leads to a fiber in a list, and what a node leads to.
Ref == ({"next"} \X Node) \cup ({"popped"} \X Queue) \cup ({"thread"} \X Thread)
Out == ({"tail"} \X Queue) \cup ({"thread"} \X Thread) \cup {<<"next", Null>>}

Lists(place, ref, out) ==
  /\ ref \in [Fiber -> Ref] /\ out \in [Node -> Out]
  /\ \A q \in Queue, n \in Node :
       Listed(place, n, q) /\ next[n] # Null =>
         /\ out[n] = <<"next", Null>>
         /\ \/ n \in Fiber /\ next[n] = q
            \/ /\ next[n] \in Fiber /\ place[next[n]] = <<"queue", q>>
               /\ ref[next[n]] = <<"next", n>>
  /\ \A q \in Queue :
       /\ Listed(place, tail[q], q) /\ out[tail[q]] = <<"tail", q>>
       /\ popped[q] # Null =>
            /\ popped[q] \in Fiber /\ place[popped[q]] = <<"queue", q>>
            /\ ref[popped[q]] = <<"popped", q>>
  /\ \A t \in Thread : pc[t] \in {"link", "link_sentinel"} =>
       /\ place[job[t].fiber] = <<"queue", job[t].queue>>
       /\ ref[job[t].fiber] = <<"thread", t>>
       /\ Listed(place, job[t].pred, job[t].queue)
       /\ out[job[t].pred] = <<"thread", t>>
  /\ \A w \in Worker :
       /\ pc[w] = "link_sentinel" => popped[job[w].queue] = Null /\ job[w].pred \in Fiber
       /\ pc[w] = "take" => popped[job[w].queue] = job[w].fiber

-----------------------------------------------------------------------------
(* Sleeping and ending.                                                    *)

Hangs(q) == popped[q] # Null \/ next[q] # Null
Woken(w) == \E t \in Thread : pc[t] \in {"check", "signal"} /\ job[t].queue[1] = w

Sleeping(w) ==
  /\ pc[w] = "asleep" => \A k \in Kind : Hangs(<<w, k>>) => Woken(w)
  /\ pc[w] = "look" /\ cur_fiber[w] = Null /\ job[w].queue[2] = "affinity" =>
       (Hangs(<<w, "priority">>) => Woken(w))

Live == {f \in Fiber : step[f] \notin {"unborn", "dead"}}

Ending ==
  /\ fibers_active = Cardinality(Live)
  /\ stop_workers <=> pc[Main] \in {"delete", "done"}
  /\ pc[Main] \in {"join", "joining", "delete", "done"} => \A f \in Fiber : step[f] # "unborn"
  /\ stop_workers => Live = {}
  /\ deleted # {} => stop_workers
  /\ \A w \in deleted : ~(InBase(w) /\ Looking(w))

Fibers ==
  \E place, ref, out : Placed(place) /\ Alive(place) /\ Lists(place, ref, out)

Local == Flags /\ Others /\ (\A t \in Thread : Knows(t)) /\ (\A w \in Worker : Stack(w))

Rest == Local /\ Fibers /\ (\A w \in Worker : Sleeping(w)) /\ Ending

FInv == IInv /\ Rest

\* What kinds of things there are.
LEMMA Distinct ==
  /\ Null \notin Fiber /\ Null \notin Queue /\ Null \notin Thread
  /\ Fiber \cap Queue = {} /\ Main \in Thread /\ Main \notin Worker /\ Main \notin Waker
  /\ Worker \subseteq Thread /\ Waker \subseteq Thread /\ Worker \cap Waker = {}
  /\ Fiber \subseteq Node /\ Queue \subseteq Node /\ Null \notin Node
BY ConstantsAssumption DEF Node, Thread

\* A queue is its worker and its kind.
LEMMA QueueOf ==
  /\ \A q \in Queue : q[1] \in Worker /\ q[2] \in Kind /\ q = <<q[1], q[2]>>
  /\ \A w \in Worker, k \in Kind : <<w, k>> \in Queue /\ <<w, k>>[1] = w /\ <<w, k>>[2] = k BY DEF Queue

\* A thread that does nothing may be woken.
Calm(u) == pc'[u] = pc[u] \/ (pc[u] = "asleep" /\ pc'[u] = "lock")
                        \/ (pc[u] = "joining" /\ pc'[u] = "join")

\* Only t does something.
Alone(t) ==
  /\ \A u \in Thread \ {t} : Calm(u) /\ job'[u] = job[u]
  /\ \A w \in Worker \ {t} : /\ cur_fiber'[w] = cur_fiber[w] /\ prev_fiber'[w] = prev_fiber[w]
                             /\ waiting'[w] = waiting[w]

\* No fiber that is being woken goes on.
WakenStay == \A f \in Fiber : step[f] = "lock" /\ mutex[f] \in Thread => step'[f] = "lock"

\* A fiber that is being woken is at its mutex until the wake-up is over.
LEMMA WakenWait ==
  ASSUME IInv, NEW t \in Thread, Knows(t), WakenStay,
         pc[t] = "pick" \/ (Inserting(t) /\ AfterInsert(t) = "unlock")
  PROVE  step'[job[t].fiber] = "lock"
<1>1. Holding(t) BY DEF Holding
<1>2. job[t].fiber \in Fiber /\ step[job[t].fiber] = "lock" BY DEF Knows, Inserting
<1>3. mutex[job[t].fiber] = t BY <1>1, <1>2 DEF IInv, Held, WakerHolds
<1> QED BY <1>2, <1>3 DEF WakenStay

\* What a thread knows, when another one moves.
LEMMA KnowsStays ==
  ASSUME IInv, NEW t \in Thread, Knows(t), WakenStay, Calm(t), job'[t] = job[t],
         t \in Worker => prev_fiber'[t] = prev_fiber[t]
  PROVE  Knows(t)'
<1>1. AfterInsert(t)' = AfterInsert(t) BY DEF AfterInsert
<1>2. Inserting(t)' <=> Inserting(t) BY DEF Inserting, Calm
<1> QED BY <1>1, <1>2, WakenWait DEF Knows, Calm

\* What a worker has on its stacks, when another thread moves.
LEMMA StackStays ==
  ASSUME NEW w \in Worker, Stack(w), Calm(w), job'[w] = job[w],
         cur_fiber'[w] = cur_fiber[w], prev_fiber'[w] = prev_fiber[w], waiting'[w] = waiting[w]
  PROVE  Stack(w)'
<1>1. Inserting(w)' <=> Inserting(w) BY DEF Inserting, Calm
<1>2. Looking(w)' <=> Looking(w) BY DEF Looking, Calm
<1> QED BY <1>1, <1>2 DEF Stack, Calm

\* Who t is decides where it may be.
Belongs(t, label) ==
  /\ t \in Waker => label \in {"idle", "lock_ready", "schedule_tid", "pick", "unlock",
                               "swap", "link", "check", "signal"}
  /\ t = Main => label \in {"launch", "join", "joining", "delete", "done",
                            "swap", "link", "check", "signal"}

\* A step of t disturbs only what t knows and has on its stacks.
LEMMA LocalMove ==
  ASSUME IInv, Local, NEW t \in Thread, Alone(t), WakenStay, Flags', Knows(t)',
         t \in Worker => Stack(t)', Belongs(t, pc'[t])
  PROVE  Local'
<1>1. \A u \in Thread : Knows(u)' BY KnowsStays DEF Local, Alone
<1>2. \A w \in Worker : Stack(w)' BY StackStays, Distinct DEF Local, Alone
<1>3. Others'
  <2>1. \A u \in Waker : (pc[u] \in {"idle", "lock_ready", "schedule_tid", "pick", "unlock"} \/ Inserting(u))'
    BY Distinct DEF Local, Others, Alone, Calm, Belongs, Inserting
  <2>2. (pc[Main] \in {"launch", "join", "joining", "delete", "done"} \/ Inserting(Main))'
    BY Distinct DEF Local, Others, Alone, Calm, Belongs, Inserting
  <2> QED BY <2>1, <2>2 DEF Others
<1> QED BY <1>1, <1>2, <1>3 DEF Local

-----------------------------------------------------------------------------
(* Steps that move no fiber.                                               *)

\* A step after which nobody has a fiber in hand that was not there before.
LEMMA PlacedQuiet ==
  ASSUME NEW place, Placed(place), UNCHANGED cur_fiber,
         \A w \in Worker : prev_fiber'[w] \in Fiber =>
           /\ prev_fiber'[w] = prev_fiber[w] /\ job'[w] = job[w]
           /\ pc'[w] = "switched" <=> pc[w] = "switched"
           /\ pc'[w] = "swap" <=> pc[w] = "swap",
         \A t \in Thread : pc'[t] \in {"found", "pick", "swap"} /\ job'[t].fiber \in Fiber =>
           pc[t] \in {"found", "pick", "swap"} /\ job'[t].fiber = job[t].fiber
  PROVE  Placed(place)'
<1>2. place \in [Fiber -> Place] BY DEF Placed
<1>3. ASSUME NEW w \in Worker, NEW f \in Fiber
      PROVE  /\ cur_fiber'[w] = f => place[f] = <<"cur", w>>
             /\ prev_fiber'[w] = f =>
                  place[f] = IF pc'[w] = "switched" THEN <<"prev", w>>
                             ELSE IF pc'[w] = "swap" THEN <<"job", w>> ELSE <<"queue", job'[w].queue>>
  BY DEF Placed
<1>4. ASSUME NEW t \in Thread, NEW f \in Fiber, job'[t].fiber = f,
             pc'[t] \in {"found", "pick", "swap"}
      PROVE  place[f] = <<"job", t>> BY ZenonT(60), <1>4 DEF Placed
<1> QED BY <1>2, <1>3, <1>4 DEF Placed

\* A step that leaves the queues alone and links nothing.
LEMMA ListsQuiet ==
  ASSUME Local, NEW place, NEW ref, NEW out, Lists(place, ref, out), UNCHANGED queue_vars, NEW place2,
         \A f \in Fiber, q \in Queue : place2[f] = <<"queue", q>> <=> place[f] = <<"queue", q>>,
         NEW s \in Thread, Alone(s), pc'[s] \notin {"link", "link_sentinel"},
         pc'[s] = "take" => popped[job'[s].queue] = job'[s].fiber
  PROVE  Lists(place2, ref, out)'
<1>a. \A t \in Thread : pc'[t] \in {"link", "link_sentinel"} => pc'[t] = pc[t] /\ job'[t] = job[t]
  BY DEF Alone, Calm
<1>b. \A w \in Worker : pc'[w] = "take" =>
         (pc'[w] = pc[w] /\ job'[w] = job[w]) \/ popped[job'[w].queue] = job'[w].fiber
  BY Distinct DEF Alone, Calm
<1>1. \A q \in Queue, n \in Node : Listed(place2, n, q) <=> Listed(place, n, q) BY DEF Listed
<1>2. next' = next /\ tail' = tail /\ popped' = popped BY DEF queue_vars
<1>3. ref \in [Fiber -> Ref] /\ out \in [Node -> Out] BY DEF Lists
<1>4. ASSUME NEW q \in Queue, NEW n \in Node, Listed(place2, n, q), next'[n] # Null
      PROVE  /\ out[n] = <<"next", Null>>
             /\ \/ n \in Fiber /\ next'[n] = q
                \/ /\ next'[n] \in Fiber /\ place2[next'[n]] = <<"queue", q>>
                   /\ ref[next'[n]] = <<"next", n>> BY <1>1, <1>2, <1>4 DEF Lists
<1>5. ASSUME NEW q \in Queue
      PROVE  /\ Listed(place2, tail'[q], q) /\ out[tail'[q]] = <<"tail", q>>
             /\ popped'[q] # Null => /\ popped'[q] \in Fiber /\ place2[popped'[q]] = <<"queue", q>>
                                     /\ ref[popped'[q]] = <<"popped", q>> BY <1>2 DEF Lists, Listed
<1>6. ASSUME NEW t \in Thread, pc'[t] \in {"link", "link_sentinel"}
      PROVE  /\ place2[job'[t].fiber] = <<"queue", job'[t].queue>>
             /\ ref[job'[t].fiber] = <<"thread", t>>
             /\ Listed(place2, job'[t].pred, job'[t].queue)
             /\ out[job'[t].pred] = <<"thread", t>>
  <2>1. pc'[t] = pc[t] /\ job'[t] = job[t] BY <1>6, <1>a
  <2>2. t \in Worker \/ pc[t] = "link" BY <1>6, <2>1 DEF Local, Others, Inserting, Thread
  <2>3. job[t].fiber \in Fiber /\ job[t].queue \in Queue
    BY <1>6, <2>1, <2>2 DEF Local, Knows, Stack, Inserting
  <2>4. /\ place[job[t].fiber] = <<"queue", job[t].queue>> /\ ref[job[t].fiber] = <<"thread", t>>
        /\ Listed(place, job[t].pred, job[t].queue) /\ out[job[t].pred] = <<"thread", t>>
    BY <1>6, <2>1 DEF Lists
  <2> QED BY <2>1, <2>3, <2>4 DEF Listed
<1>7. ASSUME NEW w \in Worker
      PROVE  /\ pc'[w] = "link_sentinel" => popped'[job'[w].queue] = Null /\ job'[w].pred \in Fiber
             /\ pc'[w] = "take" => popped'[job'[w].queue] = job'[w].fiber
  BY <1>2, <1>a, <1>b, Distinct DEF Lists
<1> QED BY <1>3, <1>4, <1>5, <1>6, <1>7 DEF Lists, Listed

\* A worker that sleeps on, and whose queues get nothing.
LEMMA SleepStays ==
  ASSUME NEW w \in Worker, Sleeping(w),
         \A k \in Kind : Hangs(<<w, k>>)' => Hangs(<<w, k>>),
         pc'[w] = "asleep" => pc[w] = "asleep",
         pc'[w] = "look" /\ cur_fiber'[w] = Null /\ job'[w].queue[2] = "affinity" =>
           pc[w] = "look" /\ cur_fiber[w] = Null /\ job[w].queue[2] = "affinity",
         \A t \in Thread : pc[t] \in {"check", "signal"} /\ job[t].queue[1] = w =>
           pc'[t] \in {"check", "signal"} /\ job'[t].queue = job[t].queue
  PROVE  Sleeping(w)'
<1>1. Woken(w) => Woken(w)' BY DEF Woken
<1> QED BY <1>1 DEF Sleeping, Kind

\* A step that ends no fiber and takes the destructor no further.
LEMMA EndingStays ==
  ASSUME Ending, UNCHANGED <<stop_workers, deleted, fibers_active>>, Live' = Live,
         \A f \in Fiber : step[f] # "unborn" => step'[f] # "unborn",
         pc'[Main] = pc[Main] \/ (pc[Main] = "joining" /\ pc'[Main] = "join") \/
           (pc[Main] \notin {"delete", "done"} /\ pc'[Main] \notin {"join", "joining", "delete", "done"}),
         \A w \in deleted : (InBase(w) /\ Looking(w))' => InBase(w) /\ Looking(w)
  PROVE  Ending'
<1>1. fibers_active' = Cardinality(Live') BY DEF Ending
<1>2. stop_workers' <=> pc'[Main] \in {"delete", "done"} BY DEF Ending
<1>3. pc'[Main] \in {"join", "joining", "delete", "done"} => \A f \in Fiber : step'[f] # "unborn" BY DEF Ending
<1>4. stop_workers' => Live' = {} BY DEF Ending
<1>5. deleted' # {} => stop_workers' BY DEF Ending
<1>6. \A w \in deleted' : ~(InBase(w) /\ Looking(w))' BY DEF Ending
<1> QED BY <1>1, <1>2, <1>3, <1>4, <1>5, <1>6 DEF Ending

\* A step of t that leaves every fiber where it is.
LEMMA FibersStay ==
  ASSUME FInv, NEW t \in Thread, Alone(t), UNCHANGED <<queue_vars, cur_fiber, scheduleable>>,
         \A f \in Fiber :
           /\ step'[f] = step[f] \/ (step[f] \notin {"unborn", "dead"} /\ step'[f] \notin {"unborn", "dead"})
           /\ ~scheduleable[f] => step'[f] = "lock"
           /\ terminate'[f] => step'[f] \in {"start", "run", "dead"}
           /\ terminate'[f] \/ descheduled'[f] =>
                terminate[f] \/ descheduled[f] \/ (t \in Worker /\ cur_fiber[t] = f),
         t \in Worker /\ cur_fiber[t] \in Fiber /\ (terminate'[cur_fiber[t]] \/ descheduled'[cur_fiber[t]])
           => Looking(t)',
         pc'[t] \in {"found", "pick", "swap"} /\ job'[t].fiber \in Fiber =>
           pc[t] \in {"found", "pick", "swap"} /\ job'[t].fiber = job[t].fiber,
         pc'[t] \notin {"link", "link_sentinel"},
         pc'[t] = "take" => popped[job'[t].queue] = job'[t].fiber,
         t \in Worker /\ prev_fiber'[t] \in Fiber =>
           /\ prev_fiber'[t] = prev_fiber[t] /\ job'[t] = job[t]
           /\ pc'[t] = "switched" <=> pc[t] = "switched"
           /\ pc'[t] = "swap" <=> pc[t] = "swap"
  PROVE  Fibers'
<1>0. IInv /\ Local /\ Fibers BY DEF FInv, Rest
<1>1. PICK place, ref, out : Placed(place) /\ Alive(place) /\ Lists(place, ref, out) BY <1>0 DEF Fibers
<1>2. Placed(place)' BY Distinct, <1>1, PlacedQuiet DEF Alone, Calm
<1>3. Alive(place)'
  <2> SUFFICES ASSUME NEW f \in Fiber
               PROVE  /\ step'[f] = "unborn" => scheduleable'[f] /\ ~terminate'[f]
                      /\ step'[f] \in {"unborn", "dead"} \/ ~scheduleable'[f] => place[f] = <<"none", Null>>
                      /\ ~scheduleable'[f] => step'[f] = "lock"
                      /\ terminate'[f] => step'[f] \in {"start", "run", "dead"}
                      /\ place[f][1] \in {"queue", "job"} => ~terminate'[f] /\ ~descheduled'[f]
                      /\ \A w \in Worker : cur_fiber'[w] = f /\ (terminate'[f] \/ descheduled'[f]) => Looking(w)'
    BY DEF Alive
  <2>1. step'[f] \in {"unborn", "dead"} => step'[f] = step[f] OBVIOUS
  <2>2. t \in Worker /\ cur_fiber[t] = f => place[f] = <<"cur", t>> BY <1>1 DEF Placed
  <2>3. \A w \in Worker : cur_fiber[w] = f => place[f] = <<"cur", w>> BY <1>1 DEF Placed
  <2>4. step'[f] = "unborn" => scheduleable'[f] /\ ~terminate'[f] BY <1>1, <2>1 DEF Alive
  <2>5. step'[f] \in {"unborn", "dead"} \/ ~scheduleable'[f] => place[f] = <<"none", Null>> BY <1>1, <2>1 DEF Alive
  <2>6. place[f][1] \in {"queue", "job"} => ~terminate'[f] /\ ~descheduled'[f] BY <2>2, <1>1 DEF Alive
  <2>7. ASSUME NEW w \in Worker, cur_fiber'[w] = f, terminate'[f] \/ descheduled'[f] PROVE Looking(w)'
    <3>1. CASE w = t BY <2>7, <3>1
    <3>2. CASE w # t
      <4>1. terminate[f] \/ descheduled[f]
        <5>1. ~(t \in Worker /\ cur_fiber[t] = f) BY <2>2, <2>3, <2>7, <3>2
        <5> QED BY <2>7, <5>1
      <4>2. Looking(w) BY <1>1, <2>7, <4>1 DEF Alive
      <4> QED BY <3>2, <4>2, Distinct DEF Alone, Calm, Looking
    <3> QED BY <3>1, <3>2
  <2> QED BY <2>4, <2>5, <2>6, <2>7
<1>4. Lists(place, ref, out)' BY <1>0, <1>1, ListsQuiet
<1> QED BY <1>2, <1>3, <1>4 DEF Fibers

\* A step of t that moves no fiber, puts no worker to sleep and wakes no fiber.
LEMMA Harmless ==
  ASSUME FInv, NEW t \in Thread, Alone(t),
         UNCHANGED <<queue_vars, cur_fiber, prev_fiber, scheduleable, stop_workers, deleted, fibers_active>>,
         \A f \in Fiber :
           /\ step'[f] = step[f] \/ (step[f] \notin {"unborn", "dead"} /\ step'[f] \notin {"unborn", "dead"})
           /\ ~scheduleable[f] => step'[f] = "lock"
           /\ terminate'[f] => step'[f] \in {"start", "run", "dead"}
           /\ terminate'[f] \/ descheduled'[f] =>
                terminate[f] \/ descheduled[f] \/ (t \in Worker /\ cur_fiber[t] = f),
         t \in Worker /\ cur_fiber[t] \in Fiber /\ (terminate'[cur_fiber[t]] \/ descheduled'[cur_fiber[t]])
           => Looking(t)',
         pc'[t] \in {"found", "pick", "swap"} => job'[t].fiber \notin Fiber,
         pc'[t] \notin {"link", "link_sentinel"},
         pc'[t] = "take" => popped[job'[t].queue] = job'[t].fiber,
         t \in Worker => prev_fiber[t] \notin Fiber,
         pc[t] \notin {"check", "signal"},
         pc'[t] # "asleep",
         pc'[t] = "look" => job'[t].queue[2] = "priority",
         pc'[Main] = pc[Main] \/ (pc[Main] = "joining" /\ pc'[Main] = "join"),
         t \in deleted => ~(InBase(t) /\ Looking(t))'
  PROVE  Fibers' /\ (\A w \in Worker : Sleeping(w)') /\ Ending'
<1>0. Local /\ (\A w \in Worker : Sleeping(w)) /\ Ending BY DEF FInv, Rest
<1>1. Fibers' BY FibersStay, Distinct
<1>5. ASSUME NEW w \in Worker PROVE Sleeping(w)'
  <2>1. \A k \in Kind : Hangs(<<w, k>>)' => Hangs(<<w, k>>) BY DEF Hangs, queue_vars
  <2>2. pc'[w] = "asleep" => pc[w] = "asleep" BY Distinct DEF Alone, Calm
  <2>3. pc'[w] = "look" /\ cur_fiber'[w] = Null /\ job'[w].queue[2] = "affinity" =>
           pc[w] = "look" /\ cur_fiber[w] = Null /\ job[w].queue[2] = "affinity"
    BY Distinct DEF Alone, Calm
  <2>4. \A u \in Thread : pc[u] \in {"check", "signal"} /\ job[u].queue[1] = w =>
           pc'[u] \in {"check", "signal"} /\ job'[u].queue = job[u].queue BY DEF Alone, Calm
  <2> QED BY <1>0, <2>1, <2>2, <2>3, <2>4, SleepStays
<1>6. Ending'
  <2>1. Live' = Live BY DEF Live
  <2>2. \A f \in Fiber : step[f] # "unborn" => step'[f] # "unborn" OBVIOUS
  <2>3. \A w \in deleted : (InBase(w) /\ Looking(w))' => InBase(w) /\ Looking(w)
    BY <1>0, Distinct DEF Alone, Calm, InBase, Looking, Ending, Local, Flags
  <2> QED BY <1>0, <2>1, <2>2, <2>3, EndingStays
<1> QED BY <1>1, <1>5, <1>6

\* The labels and jobs of a thread that moves alone.
LEMMA MoveAlone ==
  ASSUME Shape, NEW t \in Thread, NEW label, Goto(t, label), NEW j, job' = [job EXCEPT ![t] = j],
         UNCHANGED <<cur_fiber, prev_fiber, waiting>>
  PROVE  Alone(t) /\ pc'[t] = label /\ job'[t] = j BY DEF Shape, Goto, Alone, Calm

\* The same, with the job as it was.
LEMMA StayAlone ==
  ASSUME Shape, NEW t \in Thread, NEW label, Goto(t, label), UNCHANGED <<job, cur_fiber, prev_fiber, waiting>>
  PROVE  Alone(t) /\ pc'[t] = label /\ job'[t] = job[t] BY DEF Shape, Goto, Alone, Calm

\* What there is of a worker.
LEMMA WorkerFacts ==
  ASSUME FInv, NEW w \in Worker
  PROVE  /\ w \in Thread /\ Knows(w) /\ Stack(w) /\ Shape /\ IInv /\ Local /\ Flags /\ AtWork
         /\ w # Main /\ w \notin Waker BY Distinct DEF FInv, Rest, IInv, Local

\* The base stack, before it takes active_lock.
LEMMA BeginRest ==
  ASSUME FInv, NEW w \in Worker, Begin(w)
  PROVE  Rest'
<1>0. /\ w \in Thread /\ Knows(w) /\ Stack(w) /\ Shape /\ IInv /\ Local /\ Flags
      /\ w # Main /\ w \notin Waker BY WorkerFacts
<1>1. /\ cur_fiber[w] = Null /\ prev_fiber[w] = Null /\ pc[w] \in {"begin", "settled", "switched"}
      /\ pc'[w] = "lock" /\ waiting'[w] = TRUE /\ Alone(w) /\ job'[w] = job[w]
      /\ waiting' \in [Worker -> BOOLEAN]
      /\ UNCHANGED <<queue_vars, cur_fiber, prev_fiber, fiber_vars, user_vars, end_vars>>
      /\ pc'[Main] = pc[Main]
  BY <1>0, Distinct DEF Begin, Settled, InBase, Stack, Shape, Goto, Alone, Calm, Flags
<1>2. Knows(w)' /\ Stack(w)' BY <1>0, <1>1 DEF Knows, Stack, Inserting, Looking
<1>3. WakenStay BY <1>1 DEF WakenStay, user_vars
<1>4. Flags' BY <1>0, <1>1 DEF Flags, fiber_vars, user_vars, end_vars
<1>5. Local' BY <1>0, <1>1, <1>2, <1>3, <1>4, LocalMove DEF Belongs
<1>6. \A f \in Fiber : (~scheduleable[f] => step[f] = "lock") /\ (terminate[f] => step[f] \in {"start", "run", "dead"})
  BY DEF FInv, Rest, Fibers, Alive
<1>7. Fibers' /\ (\A x \in Worker : Sleeping(x)') /\ Ending'
  BY <1>0, <1>1, <1>6, Harmless, Distinct DEF fiber_vars, user_vars, end_vars, Looking, InBase
<1> QED BY <1>5, <1>7 DEF Rest

\* What there is of a fiber, and of one that runs.
LEMMA FiberFacts ==
  ASSUME FInv, NEW f \in Fiber
  PROVE  /\ ~scheduleable[f] => step[f] = "lock"
         /\ terminate[f] => step[f] \in {"start", "run", "dead"}
         /\ \A w \in Worker : cur_fiber[w] = f =>
              /\ step[f] \notin {"unborn", "dead"} /\ scheduleable[f]
              /\ terminate[f] \/ descheduled[f] => Looking(w)
<1>1. PICK place : Placed(place) /\ Alive(place) BY DEF FInv, Rest, Fibers
<1> QED BY <1>1 DEF Placed, Alive

\* The worker of a fiber that runs.
LEMMA ClientFacts ==
  ASSUME FInv, NEW w \in Worker, pc[w] = "client"
  PROVE  /\ cur_fiber[w] \in Fiber /\ prev_fiber[w] = Null
         /\ ~terminate[cur_fiber[w]] /\ ~descheduled[cur_fiber[w]] /\ scheduleable[cur_fiber[w]]
         /\ step[cur_fiber[w]] \notin {"unborn", "dead"}
<1>1. Stack(w) BY WorkerFacts
<1>2. cur_fiber[w] \in Fiber /\ prev_fiber[w] = Null BY <1>1 DEF Stack
<1> QED BY <1>2, FiberFacts DEF Looking

\* A worker begins to look.
LEMMA LookStart ==
  ASSUME NEW w \in Worker, pc'[w] = "look", job'[w].queue = <<w, "priority">>,
         prev_fiber'[w] = Null, cur_fiber'[w] \in Fiber \cup {Null},
         cur_fiber'[w] = Null => waiting'[w]
  PROVE  Knows(w)' /\ Stack(w)'
<1>0. "priority" \in Kind BY DEF Kind
<1>1. job'[w].queue \in Queue /\ job'[w].queue[1] = w BY <1>0, QueueOf
<1>2. Knows(w)' BY DEF Knows, Inserting
<1>3. Stack(w)' BY <1>1 DEF Stack
<1> QED BY <1>2, <1>3

\* The base stack, with active_lock.
LEMMA LoopRest ==
  ASSUME FInv, NEW w \in Worker, Loop(w)
  PROVE  Rest'
<1>0. /\ w \in Thread /\ Knows(w) /\ Stack(w) /\ Shape /\ IInv /\ Local /\ Flags
      /\ w # Main /\ w \notin Waker BY WorkerFacts
<1>1. /\ pc[w] = "lock" /\ cur_fiber[w] = Null /\ prev_fiber[w] = Null
      /\ UNCHANGED <<queue_vars, worker_vars, fiber_vars, user_vars, end_vars>> BY <1>0 DEF Loop, Stack
<1>2. /\ Alone(w)
      /\ \/ stop_workers /\ pc'[w] = "exited" /\ job'[w] = job[w]
         \/ ~stop_workers /\ pc'[w] = "look" /\ job'[w] = [NoJob EXCEPT !.queue = <<w, "priority">>]
  <2>1. CASE stop_workers BY <1>0, <1>1, <2>1, StayAlone DEF Loop, worker_vars
  <2>2. CASE ~stop_workers BY <1>0, <1>1, <2>2, MoveAlone DEF Loop, StartLooking, worker_vars
  <2> QED BY <2>1, <2>2
<1>3. pc'[w] = "look" => job'[w].queue = <<w, "priority">> BY <1>2 DEF NoJob
<1>4. Knows(w)' /\ Stack(w)'
  <2>1. CASE pc'[w] = "exited" BY <1>0, <1>1, <2>1 DEF Knows, Stack, Inserting, Looking, worker_vars
  <2>2. CASE pc'[w] = "look" BY <1>0, <1>1, <1>3, <2>2, LookStart DEF Stack, worker_vars
  <2> QED BY <1>2, <2>1, <2>2
<1>5. WakenStay BY <1>1 DEF WakenStay, user_vars
<1>6. Flags' BY <1>0, <1>1 DEF Flags, fiber_vars, user_vars, end_vars, worker_vars
<1>7. Local' BY <1>0, <1>2, <1>4, <1>5, <1>6, LocalMove DEF Belongs
<1>8. pc'[Main] = pc[Main] BY <1>0, Distinct DEF Loop, StartLooking, Goto, Shape
<1>9. w \in deleted => ~(InBase(w) /\ Looking(w))' BY <1>2 DEF Looking, FInv, Rest, Ending
<1>10. Fibers' /\ (\A x \in Worker : Sleeping(x)') /\ Ending'
  BY <1>0, <1>1, <1>2, <1>3, <1>8, <1>9, FiberFacts, Harmless, Distinct, QueueOf
  DEF fiber_vars, user_vars, end_vars, worker_vars
<1> QED BY <1>7, <1>10 DEF Rest

\* On with the fiber.
LEMMA ResumeRest ==
  ASSUME FInv, NEW w \in Worker, Resume(w)
  PROVE  Rest'
<1>0. /\ w \in Thread /\ Knows(w) /\ Stack(w) /\ Shape /\ IInv /\ Local /\ Flags
      /\ w # Main /\ w \notin Waker BY WorkerFacts
<1>1. /\ pc[w] \in {"settled", "switched"} /\ cur_fiber[w] # Null /\ prev_fiber[w] = Null
      /\ Goto(w, "client") /\ job' = job
      /\ UNCHANGED <<queue_vars, worker_vars, fiber_vars, user_vars, end_vars>>
  BY <1>0 DEF Resume, Settled, InBase, Stack
<1>2. Alone(w) /\ pc'[w] = "client" /\ job'[w] = job[w] BY <1>0, <1>1, StayAlone DEF worker_vars
<1>4. Knows(w)' /\ Stack(w)' BY <1>0, <1>1, <1>2 DEF Knows, Stack, Inserting, Looking, worker_vars
<1>5. WakenStay BY <1>1 DEF WakenStay, user_vars
<1>6. Flags' BY <1>0, <1>1 DEF Flags, fiber_vars, user_vars, end_vars, worker_vars
<1>7. Local' BY <1>0, <1>2, <1>4, <1>5, <1>6, LocalMove DEF Belongs
<1>8. pc'[Main] = pc[Main] BY <1>0, <1>1, Distinct DEF Goto, Shape
<1>9. cur_fiber[w] \in Fiber => ~terminate[cur_fiber[w]] /\ ~descheduled[cur_fiber[w]]
  BY <1>1, FiberFacts DEF Looking
<1>10. Fibers' /\ (\A x \in Worker : Sleeping(x)') /\ Ending'
  BY <1>0, <1>1, <1>2, <1>8, <1>9, FiberFacts, Harmless, Distinct
  DEF fiber_vars, user_vars, end_vars, worker_vars, Looking
<1> QED BY <1>7, <1>10 DEF Rest

\* What was taken out before comes first.
LEMMA LookPoppedRest ==
  ASSUME FInv, NEW w \in Worker, LookPopped(w)
  PROVE  Rest'
<1>0. /\ w \in Thread /\ Knows(w) /\ Stack(w) /\ Shape /\ IInv /\ Local /\ Flags
      /\ w # Main /\ w \notin Waker BY WorkerFacts
<1>1. /\ pc[w] = "look" /\ prev_fiber[w] = Null
      /\ job[w].queue \in Queue /\ job[w].queue[1] = w /\ popped[job[w].queue] # Null
      /\ UNCHANGED <<queue_vars, worker_vars, fiber_vars, user_vars, end_vars>>
  BY <1>0 DEF LookPopped, Stack
<1>2. /\ Alone(w) /\ pc'[w] = "take"
      /\ job'[w].queue = job[w].queue /\ job'[w].fiber = popped[job[w].queue]
  <2>1. job[w] \in Jobs BY <1>0 DEF Shape
  <2>2. job' = [job EXCEPT ![w] = [job[w] EXCEPT !.fiber = popped[job[w].queue]]]
    BY <1>0 DEF LookPopped, Shape
  <2>3. Alone(w) /\ pc'[w] = "take" /\ job'[w] = [job[w] EXCEPT !.fiber = popped[job[w].queue]]
    BY <1>0, <1>1, <2>2, MoveAlone DEF LookPopped, worker_vars
  <2> QED BY <2>1, <2>3 DEF Jobs
<1>3. popped[job[w].queue] \in Fiber BY <1>1 DEF FInv, Rest, Fibers, Lists
<1>4. Knows(w)' /\ Stack(w)' BY <1>0, <1>1, <1>2, <1>3 DEF Knows, Stack, Inserting, Looking, worker_vars
<1>5. WakenStay BY <1>1 DEF WakenStay, user_vars
<1>6. Flags' BY <1>0, <1>1 DEF Flags, fiber_vars, user_vars, end_vars, worker_vars
<1>7. Local' BY <1>0, <1>2, <1>4, <1>5, <1>6, LocalMove DEF Belongs
<1>8. pc'[Main] = pc[Main] BY <1>0, Distinct DEF LookPopped, Goto, Shape
<1>9. w \in deleted => ~(InBase(w) /\ Looking(w))'
  BY <1>1, <1>2 DEF Looking, InBase, FInv, Rest, Ending, worker_vars
<1>10. Fibers' /\ (\A x \in Worker : Sleeping(x)') /\ Ending'
  BY <1>0, <1>1, <1>2, <1>8, <1>9, FiberFacts, Harmless, Distinct
  DEF fiber_vars, user_vars, end_vars, worker_vars, Looking
<1> QED BY <1>7, <1>10 DEF Rest

\* A worker that begins to look.
LEMMA StartLookingMoves ==
  ASSUME Shape, NEW w \in Worker, StartLooking(w), UNCHANGED <<cur_fiber, prev_fiber, waiting>>
  PROVE  Alone(w) /\ pc'[w] = "look" /\ job'[w].queue = <<w, "priority">> /\ pc'[Main] = pc[Main]
<1>1. Alone(w) /\ pc'[w] = "look" /\ job'[w] = [NoJob EXCEPT !.queue = <<w, "priority">>]
  BY MoveAlone, Distinct DEF StartLooking
<1>2. pc'[Main] = pc[Main] BY Distinct DEF StartLooking, Goto, Shape
<1> QED BY <1>1, <1>2 DEF NoJob

\* What a fiber does itself.
LEMMA ClientRest ==
  ASSUME FInv, NEW w \in Worker, Client(w)
  PROVE  Rest'
<1>0. /\ w \in Thread /\ Knows(w) /\ Stack(w) /\ Shape /\ IInv /\ Local /\ Flags
      /\ w # Main /\ w \notin Waker BY WorkerFacts
<1> DEFINE f == cur_fiber[w]
<1>1. pc[w] = "client" BY DEF Client, Ask, LockMutex, deschedule_self, Proceed, exit
<1>2. /\ f \in Fiber /\ prev_fiber[w] = Null
      /\ ~terminate[f] /\ ~descheduled[f] /\ scheduleable[f]
      /\ step[f] \notin {"unborn", "dead"} BY <1>1, ClientFacts
<1>3. /\ UNCHANGED <<queue_vars, worker_vars, scheduleable, priority, end_vars>>
      /\ \A g \in Fiber \ {f} : UNCHANGED <<step[g], terminate[g], descheduled[g]>>
      /\ step'[f] \in {"start", "run", "lock", "test"}
      /\ terminate'[f] => step'[f] \in {"start", "run"}
      /\ Flags' /\ WakenStay
  <2>1. CASE Ask(w)
    <3>1. /\ step' = [step EXCEPT ![f] = "lock"] /\ waits[f] < MaxWaits
          /\ ready' = [ready EXCEPT ![f] = FALSE] /\ asked' = asked \cup {f}
          /\ waits' = [waits EXCEPT ![f] = @ + 1]
          /\ UNCHANGED <<queue_vars, worker_vars, fiber_vars, end_vars>> BY <2>1 DEF Ask
    <3> HIDE DEF f
    <3>2. waits' \in [Fiber -> 0 .. MaxWaits] BY <1>0, <1>2, <3>1, ConstantsAssumption DEF Flags
    <3>3. Flags' BY <1>0, <1>2, <3>1, <3>2 DEF Flags, fiber_vars, worker_vars, end_vars
    <3>4. step \in [Fiber -> Steps] BY <1>0 DEF Shape
    <3>5. WakenStay BY <3>1, <3>4 DEF WakenStay
    <3> QED BY <1>2, <3>1, <3>3, <3>4, <3>5 DEF fiber_vars, worker_vars, end_vars
  <2>2. CASE LockMutex(w)
    BY <1>0, <1>2, <2>2, Distinct DEF LockMutex, Flags, WakenStay, IInv, Shape, fiber_vars, worker_vars, end_vars
  <2>3. CASE deschedule_self(w)
    BY <1>0, <1>2, <2>3 DEF deschedule_self, Flags, WakenStay, IInv, Shape, worker_vars, end_vars
  <2>4. CASE Proceed(w)
    BY <1>0, <1>2, <2>4 DEF Proceed, Flags, WakenStay, IInv, Shape, fiber_vars, worker_vars, end_vars
  <2>5. CASE exit(w)
    BY <1>0, <1>2, <2>5 DEF exit, Flags, WakenStay, IInv, Shape, user_vars, worker_vars, end_vars
  <2> QED BY <2>1, <2>2, <2>3, <2>4, <2>5 DEF Client
<1>4. /\ Alone(w) /\ pc'[Main] = pc[Main]
      /\ \/ pc'[w] = "client" /\ job'[w] = job[w] /\ ~terminate'[f] /\ ~descheduled'[f]
         \/ pc'[w] = "look" /\ job'[w].queue = <<w, "priority">>
  <2>1. CASE Ask(w) \/ LockMutex(w)
    BY <1>0, <1>1, <1>2, <2>1, Distinct DEF Ask, LockMutex, Alone, Calm, fiber_vars, worker_vars
  <2>2. CASE ~(Ask(w) \/ LockMutex(w))
    <3>1. StartLooking(w) BY <2>2 DEF Client, deschedule_self, Proceed, exit
    <3> QED BY <1>0, <1>3, <3>1, StartLookingMoves DEF worker_vars
  <2> QED BY <2>1, <2>2
<1> HIDE DEF f
<1>5. Knows(w)' /\ Stack(w)'
  <2>1. CASE pc'[w] = "client" /\ job'[w] = job[w]
    BY <1>0, <1>1, <1>2, <1>3, <2>1, Distinct DEF Knows, Stack, Inserting, Looking, worker_vars, f
  <2>2. CASE pc'[w] = "look" /\ job'[w].queue = <<w, "priority">>
    BY <1>0, <1>2, <1>3, <2>2, Distinct, LookStart DEF worker_vars, f
  <2> QED BY <1>4, <2>1, <2>2
<1>6. Local' BY <1>0, <1>3, <1>4, <1>5, LocalMove DEF Belongs
<1>7. \A g \in Fiber :
           /\ step'[g] = step[g] \/ (step[g] \notin {"unborn", "dead"} /\ step'[g] \notin {"unborn", "dead"})
           /\ ~scheduleable[g] => step'[g] = "lock"
           /\ terminate'[g] => step'[g] \in {"start", "run", "dead"}
           /\ terminate'[g] \/ descheduled'[g] =>
                terminate[g] \/ descheduled[g] \/ (w \in Worker /\ cur_fiber[w] = g)
  BY <1>2, <1>3, FiberFacts DEF f
<1>8. w \in Worker /\ cur_fiber[w] \in Fiber /\ (terminate'[cur_fiber[w]] \/ descheduled'[cur_fiber[w]])
           => Looking(w)' BY <1>4 DEF f, Looking
<1>9. ~InBase(w)' BY <1>2, <1>3, Distinct DEF InBase, worker_vars, f
<1>10. Fibers' /\ (\A x \in Worker : Sleeping(x)') /\ Ending'
  BY <1>0, <1>1, <1>2, <1>3, <1>4, <1>7, <1>8, <1>9, Harmless, Distinct, QueueOf
  DEF end_vars, worker_vars
<1> QED BY <1>6, <1>10 DEF Rest

-----------------------------------------------------------------------------
(* The end of an insertion.                                                *)

\* What there is of a thread.
LEMMA ThreadFacts ==
  ASSUME FInv, NEW t \in Thread
  PROVE  /\ Knows(t) /\ (t \in Worker => Stack(t)) /\ Shape /\ IInv /\ Local /\ Flags /\ AtWork
         /\ t \in Waker => pc[t] \in {"idle", "lock_ready", "schedule_tid", "pick", "unlock"} \/ Inserting(t)
         /\ t = Main => pc[t] \in {"launch", "join", "joining", "delete", "done"} \/ Inserting(t)
         /\ t \in Worker \/ t \in Waker \/ t = Main
BY Distinct DEF FInv, Rest, IInv, Local, Others, Thread

\* The end of an insertion: t goes on, and a sleeper may be woken.
LEMMA InsertedMoves ==
  ASSUME Shape, NEW t \in Thread, NEW woken, \A u \in woken : u \in Worker /\ pc[u] = "asleep",
         Inserted(t, woken), UNCHANGED <<waiting, cur_fiber>>
  PROVE  /\ Alone(t) /\ pc'[t] = AfterInsert(t) /\ (t \in Worker => prev_fiber'[t] = Null)
         /\ job'[t].fiber = IF AfterInsert(t) = "unlock" THEN job[t].fiber ELSE Null
         /\ t = Main \/ pc'[Main] = pc[Main]
         /\ \A w \in Worker \ {t} : w \in woken => pc'[w] = "lock"
<1>1. /\ pc' = [u \in Thread |-> IF u = t THEN AfterInsert(t)
                                 ELSE IF u \in woken THEN "lock" ELSE pc[u]]
      /\ prev_fiber' = IF t \in Worker THEN [prev_fiber EXCEPT ![t] = Null] ELSE prev_fiber
      /\ job' = [job EXCEPT ![t] = IF AfterInsert(t) = "unlock"
                                   THEN [NoJob EXCEPT !.fiber = job[t].fiber] ELSE NoJob] BY DEF Inserted
<1>2. job'[t].fiber = IF AfterInsert(t) = "unlock" THEN job[t].fiber ELSE Null BY <1>1 DEF NoJob, Shape
<1>3. Alone(t) BY <1>1, Distinct DEF Alone, Calm, Shape
<1>4. pc'[t] = AfterInsert(t) /\ (t \in Worker => prev_fiber'[t] = Null) BY <1>1 DEF Shape
<1>5. t = Main \/ pc'[Main] = pc[Main] BY <1>1, Distinct DEF Shape
<1>6. \A w \in Worker \ {t} : w \in woken => pc'[w] = "lock" BY <1>1, Distinct
<1> QED BY <1>2, <1>3, <1>4, <1>5, <1>6

\* What the thread knows after an insertion.
LEMMA InsertedKnows ==
  ASSUME FInv, NEW t \in Thread, pc'[t] = AfterInsert(t), (t \in Worker => prev_fiber'[t] = Null),
         AfterInsert(t) = "unlock" => job[t].fiber \in Fiber,
         job'[t].fiber = IF AfterInsert(t) = "unlock" THEN job[t].fiber ELSE Null,
         UNCHANGED cur_fiber
  PROVE  Knows(t)' /\ (t \in Worker => Stack(t)') /\ Belongs(t, pc'[t])
<1>1. /\ AfterInsert(t) \in {"launch", "settled", "unlock"}
      /\ t = Main <=> AfterInsert(t) = "launch"
      /\ t \in Waker => AfterInsert(t) = "unlock" BY Distinct DEF AfterInsert, Thread
<1>2. Knows(t)' BY <1>1 DEF Knows, Inserting
<1>3. t \in Worker => Stack(t)' BY <1>1, Distinct, ThreadFacts DEF Stack, Inserting, Looking
<1> QED BY <1>1, <1>2, <1>3, Distinct DEF Belongs

\* The worker is told of the fiber, or found awake.
LEMMA CheckSignalRest ==
  ASSUME FInv, NEW t \in Thread, CheckWaiting(t) \/ Signal(t)
  PROVE  Rest'
<1>0. /\ Knows(t) /\ (t \in Worker => Stack(t)) /\ Shape /\ IInv /\ Local /\ Flags BY ThreadFacts
<1> DEFINE v == job[t].queue[1]
<1>1. /\ pc[t] \in {"check", "signal"} /\ job[t].fiber \in Fiber /\ job[t].queue \in Queue /\ v \in Worker
      /\ UNCHANGED <<queue_vars, waiting, cur_fiber, fiber_vars, user_vars, end_vars>>
  BY <1>0, QueueOf DEF CheckWaiting, Signal, Knows, Inserting
<1>2. \/ pc'[t] = "signal" /\ job'[t] = job[t] /\ UNCHANGED prev_fiber /\ Alone(t) /\ (t = Main \/ pc'[Main] = pc[Main])
      \/ /\ pc'[t] = AfterInsert(t) /\ Alone(t) /\ (t \in Worker => prev_fiber'[t] = Null)
         /\ job'[t].fiber = IF AfterInsert(t) = "unlock" THEN job[t].fiber ELSE Null
         /\ t = Main \/ pc'[Main] = pc[Main]
         /\ \/ ~waiting[v]
            \/ ActiveLockFree(v) /\ (v # t /\ pc[v] = "asleep" => pc'[v] = "lock")
  <2>1. CASE CheckWaiting(t) /\ waiting[v]
    BY <1>0, <1>1, <2>1, Distinct DEF CheckWaiting, Goto, Shape, Alone, Calm
  <2>2. CASE CheckWaiting(t) /\ ~waiting[v]
    <3>1. Inserted(t, {}) BY <2>2 DEF CheckWaiting
    <3>2. \A u \in {} : u \in Worker /\ pc[u] = "asleep" OBVIOUS
    <3> HIDE DEF v
    <3> QED BY <1>0, <1>1, <2>2, <3>1, <3>2, InsertedMoves
  <2>3. CASE Signal(t)
    <3>1. Inserted(t, {u \in {v} : pc[u] = "asleep"}) /\ ActiveLockFree(v) BY <2>3 DEF Signal
    <3> HIDE DEF v
    <3>2. \A u \in {u \in {v} : pc[u] = "asleep"} : u \in Worker /\ pc[u] = "asleep" BY <1>1
    <3> QED BY <1>0, <1>1, <3>1, <3>2, InsertedMoves
  <2> QED BY <2>1, <2>2, <2>3
<1>3. /\ AfterInsert(t) \in {"launch", "settled", "unlock"} /\ Alone(t) /\ v = job[t].queue[1]
      /\ pc'[t] \in {"signal", "launch", "settled", "unlock"} BY <1>2, AfterInsertValue
<1> HIDE DEF v
<1>4. Knows(t)' /\ (t \in Worker => Stack(t)') /\ Belongs(t, pc'[t])
  <2>1. CASE pc'[t] = "signal"
    <3>1. job'[t] = job[t] /\ (t \in Worker => prev_fiber'[t] = prev_fiber[t]) BY <1>2, <1>3, <2>1
    <3>2. AfterInsert(t)' = AfterInsert(t) BY <3>1 DEF AfterInsert
    <3>3. Knows(t)' BY <1>0, <1>1, <2>1, <3>1, <3>2 DEF Knows, Inserting, user_vars
    <3>4. t \in Worker => Stack(t)' BY <1>0, <1>1, <2>1, <3>1 DEF Stack, Inserting, Looking
    <3> QED BY <2>1, <3>3, <3>4 DEF Belongs
  <2>2. CASE pc'[t] # "signal" BY <1>1, <1>2, <2>2, InsertedKnows
  <2> QED BY <2>1, <2>2
<1>5. WakenStay BY <1>1 DEF WakenStay, user_vars
<1>6. Flags' BY <1>0, <1>1 DEF Flags, fiber_vars, user_vars, end_vars
<1>7. Local' BY <1>0, <1>3, <1>4, <1>5, <1>6, LocalMove
<1>8. Fibers'
  <2>1. t \in Worker /\ prev_fiber'[t] \in Fiber =>
           /\ prev_fiber'[t] = prev_fiber[t] /\ job'[t] = job[t]
           /\ pc'[t] = "switched" <=> pc[t] = "switched"
           /\ pc'[t] = "swap" <=> pc[t] = "swap" BY <1>1, <1>2, <1>3, Distinct
  <2>2. t \in Worker /\ cur_fiber[t] \in Fiber => ~terminate[cur_fiber[t]] /\ ~descheduled[cur_fiber[t]]
    BY <1>1, FiberFacts DEF Looking
  <2> QED BY <1>1, <1>3, <2>1, <2>2, FibersStay, FiberFacts DEF fiber_vars, user_vars
<1>9. ASSUME NEW x \in Worker PROVE Sleeping(x)'
  <2>0. Sleeping(x) /\ Stack(x) BY <1>0 DEF FInv, Rest, Local
  <2>1. CASE pc'[t] = "signal" \/ x # v
    <3>1. \A k \in Kind : Hangs(<<x, k>>)' => Hangs(<<x, k>>) BY <1>1 DEF Hangs, queue_vars
    <3>2. pc'[x] = "asleep" => pc[x] = "asleep" BY <1>3, Distinct DEF Alone, Calm
    <3>3. pc'[x] = "look" /\ cur_fiber'[x] = Null /\ job'[x].queue[2] = "affinity" =>
            pc[x] = "look" /\ cur_fiber[x] = Null /\ job[x].queue[2] = "affinity"
      BY <1>1, <1>3, Distinct DEF Alone, Calm
    <3>4. \A u \in Thread : pc[u] \in {"check", "signal"} /\ job[u].queue[1] = x =>
            pc'[u] \in {"check", "signal"} /\ job'[u].queue = job[u].queue
      BY <1>1, <1>2, <1>3, <2>1 DEF Alone, Calm
    <3> QED BY <2>0, <3>1, <3>2, <3>3, <3>4, SleepStays
  <2>2. CASE pc'[t] # "signal" /\ x = v
    <3>1. pc'[x] # "asleep" /\ ~(pc'[x] = "look" /\ cur_fiber'[x] = Null)
      <4>1. CASE x = t BY <1>3, <4>1
      <4>2. CASE x # t /\ ~waiting[x] BY <1>1, <1>3, <2>0, <4>2, Distinct DEF Alone, Calm, Stack, Looking
      <4>3. CASE x # t /\ ActiveLockFree(x) /\ (pc[x] = "asleep" => pc'[x] = "lock")
        BY <1>1, <1>3, <4>3, Distinct DEF Alone, Calm, ActiveLockFree, InBase, Looking
      <4> QED BY <1>2, <2>2, <4>1, <4>2, <4>3
    <3> QED BY <3>1 DEF Sleeping
  <2> QED BY <2>1, <2>2
<1>10. Ending'
  <2>0. Ending BY DEF FInv, Rest
  <2>1. Live' = Live BY <1>1 DEF Live, user_vars
  <2>2. \A f \in Fiber : step[f] # "unborn" => step'[f] # "unborn" BY <1>1 DEF user_vars
  <2>3. \A w \in deleted : (InBase(w) /\ Looking(w))' => InBase(w) /\ Looking(w)
    BY <1>0, <1>1, <1>3, Distinct DEF Alone, Calm, InBase, Looking, Flags
  <2>4. pc'[Main] = pc[Main] \/ (pc[Main] = "joining" /\ pc'[Main] = "join") \/
           (pc[Main] \notin {"delete", "done"} /\ pc'[Main] \notin {"join", "joining", "delete", "done"})
    BY <1>1, <1>2, <1>3
  <2> QED BY <1>1, <2>0, <2>1, <2>2, <2>3, <2>4, EndingStays DEF end_vars
<1> QED BY <1>7, <1>8, <1>9, <1>10 DEF Rest

-----------------------------------------------------------------------------
(* Steps of wakers and of the main thread that move no fiber.              *)

\* The last fiber's worker tells join().
LEMMA SignalJoinRest ==
  ASSUME FInv, NEW w \in Worker, SignalJoin(w)
  PROVE  Rest'
<1>0. /\ w \in Thread /\ Knows(w) /\ Stack(w) /\ Shape /\ IInv /\ Local /\ Flags
      /\ w # Main /\ w \notin Waker BY WorkerFacts
<1>1. /\ pc[w] = "signal_join" /\ prev_fiber[w] = Null /\ job' = job
      /\ pc' = [pc EXCEPT ![w] = "settled", ![Main] = IF @ = "joining" THEN "join" ELSE @]
      /\ UNCHANGED <<queue_vars, worker_vars, fiber_vars, user_vars, end_vars>>
  BY <1>0 DEF SignalJoin, Stack
<1>2. /\ Alone(w) /\ pc'[w] = "settled" /\ job'[w] = job[w]
      /\ pc'[Main] = pc[Main] \/ (pc[Main] = "joining" /\ pc'[Main] = "join")
  BY <1>0, <1>1, Distinct DEF Alone, Calm, Shape, worker_vars
<1>4. Knows(w)' /\ Stack(w)' BY <1>0, <1>1, <1>2 DEF Knows, Stack, Inserting, Looking, worker_vars
<1>5. WakenStay BY <1>1 DEF WakenStay, user_vars
<1>6. Flags' BY <1>0, <1>1 DEF Flags, fiber_vars, user_vars, end_vars, worker_vars
<1>7. Local' BY <1>0, <1>2, <1>4, <1>5, <1>6, LocalMove DEF Belongs
<1>9. cur_fiber[w] \in Fiber => ~terminate[cur_fiber[w]] /\ ~descheduled[cur_fiber[w]]
  BY <1>1, FiberFacts DEF Looking
<1>10. Fibers' /\ (\A x \in Worker : Sleeping(x)') /\ Ending'
  BY <1>0, <1>1, <1>2, <1>9, FiberFacts, Harmless, Distinct
  DEF fiber_vars, user_vars, end_vars, worker_vars, Looking
<1> QED BY <1>7, <1>10 DEF Rest

\* A thread that may take calls is not in a queue.
LEMMA TakerFacts ==
  ASSUME FInv, NEW t \in Worker \cup Waker, MayTakeCalls(t)
  PROVE  /\ pc[t] \in {"idle", "settled", "switched"}
         /\ t \in Worker => prev_fiber[t] = Null
         /\ t \in Worker /\ cur_fiber[t] \in Fiber => ~terminate[cur_fiber[t]] /\ ~descheduled[cur_fiber[t]]
<1>1. t \in Worker => Stack(t) BY WorkerFacts
<1>2. pc[t] \in {"idle", "settled", "switched"} BY DEF MayTakeCalls, Settled
<1>3. t \in Worker => prev_fiber[t] = Null BY <1>1 DEF MayTakeCalls, Settled, Stack
<1> QED BY <1>2, <1>3, FiberFacts DEF Looking

\* A call to lock_ready() comes in.
LEMMA TakeCallRest ==
  ASSUME FInv, NEW t \in Worker \cup Waker, TakeCall(t)
  PROVE  Rest'
<1>0. /\ t \in Thread /\ Knows(t) /\ (t \in Worker => Stack(t)) /\ Shape /\ IInv /\ Local /\ Flags /\ t # Main
  BY ThreadFacts, Distinct
<1>1. PICK f \in asked : asked' = asked \ {f} /\ job' = [job EXCEPT ![t].fiber = f] BY DEF TakeCall
<1>2. /\ pc[t] \in {"idle", "settled", "switched"} /\ (t \in Worker => prev_fiber[t] = Null)
      /\ t \in Worker /\ cur_fiber[t] \in Fiber => ~terminate[cur_fiber[t]] /\ ~descheduled[cur_fiber[t]]
  BY TakerFacts DEF TakeCall
<1>3. /\ Goto(t, "lock_ready")
      /\ UNCHANGED <<queue_vars, worker_vars, fiber_vars, step, waits, mutex, ready, end_vars>>
  BY DEF TakeCall
<1>4. /\ Alone(t) /\ pc'[t] = "lock_ready" /\ job'[t].fiber = f /\ f \in Fiber /\ pc'[Main] = pc[Main]
  <2>1. job[t] \in Jobs BY <1>0 DEF Shape
  <2>2. job' = [job EXCEPT ![t] = [job[t] EXCEPT !.fiber = f]] BY <1>0, <1>1 DEF Shape
  <2>3. Alone(t) /\ pc'[t] = "lock_ready" /\ job'[t] = [job[t] EXCEPT !.fiber = f]
    BY <1>0, <1>3, <2>2, MoveAlone DEF worker_vars
  <2>4. f \in Fiber BY <1>0 DEF Flags
  <2>5. pc'[Main] = pc[Main] BY <1>0, <1>3, Distinct DEF Goto, Shape
  <2> QED BY <2>1, <2>3, <2>4, <2>5 DEF Jobs
<1>5. Knows(t)' BY <1>4 DEF Knows, Inserting
<1>6. t \in Worker => Stack(t)' BY <1>0, <1>2, <1>3, <1>4 DEF Stack, Inserting, Looking, worker_vars
<1>7. WakenStay BY <1>3 DEF WakenStay
<1>8. Flags' BY <1>0, <1>1, <1>3 DEF Flags, fiber_vars, end_vars, worker_vars
<1>9. Local' BY <1>0, <1>4, <1>5, <1>6, <1>7, <1>8, LocalMove, Distinct DEF Belongs
<1>10. Fibers' /\ (\A x \in Worker : Sleeping(x)') /\ Ending'
  BY <1>0, <1>2, <1>3, <1>4, FiberFacts, Harmless, Distinct DEF fiber_vars, end_vars, worker_vars, Looking
<1> QED BY <1>9, <1>10 DEF Rest

\* The flags of the fiber a worker runs while it wakes another.
LEMMA WakerFacts ==
  ASSUME FInv, NEW t \in Worker \cup Waker, pc[t] \in {"lock_ready", "schedule_tid", "pick", "unlock"}
  PROVE  /\ job[t].fiber \in Fiber
         /\ t \in Worker => prev_fiber[t] = Null
         /\ t \in Worker /\ cur_fiber[t] \in Fiber => ~terminate[cur_fiber[t]] /\ ~descheduled[cur_fiber[t]]
<1>1. Knows(t) /\ (t \in Worker => Stack(t)) BY ThreadFacts, Distinct
<1>2. job[t].fiber \in Fiber BY <1>1 DEF Knows
<1>3. t \in Worker => prev_fiber[t] = Null BY <1>1 DEF Stack
<1> QED BY <1>2, <1>3, FiberFacts DEF Looking

\* lock_ready() takes the mutex.
LEMMA LockReadyRest ==
  ASSUME FInv, NEW t \in Worker \cup Waker, LockReady(t)
  PROVE  Rest'
<1>0. /\ t \in Thread /\ Knows(t) /\ (t \in Worker => Stack(t)) /\ Shape /\ IInv /\ Local /\ Flags /\ t # Main
  BY ThreadFacts, Distinct
<1>1. /\ pc[t] = "lock_ready" /\ job[t].fiber \in Fiber /\ (t \in Worker => prev_fiber[t] = Null)
      /\ t \in Worker /\ cur_fiber[t] \in Fiber => ~terminate[cur_fiber[t]] /\ ~descheduled[cur_fiber[t]]
      /\ Goto(t, "schedule_tid") /\ job' = job
      /\ ready' = [ready EXCEPT ![job[t].fiber] = TRUE]
      /\ UNCHANGED <<queue_vars, worker_vars, fiber_vars, step, waits, asked, end_vars>>
  BY WakerFacts DEF LockReady
<1>4. Alone(t) /\ pc'[t] = "schedule_tid" /\ job'[t] = job[t] /\ pc'[Main] = pc[Main]
  <2>1. Goto(t, "schedule_tid") /\ UNCHANGED <<job, cur_fiber, prev_fiber, waiting>>
    BY <1>1 DEF worker_vars
  <2>2. pc'[Main] = pc[Main] BY <1>0, <2>1, Distinct DEF Goto, Shape
  <2> QED BY <1>0, <2>1, <2>2, StayAlone
<1>5. Knows(t)' BY <1>1, <1>4 DEF Knows, Inserting
<1>6. t \in Worker => Stack(t)' BY <1>0, <1>1, <1>4 DEF Stack, Inserting, Looking, worker_vars
<1>7. WakenStay BY <1>1 DEF WakenStay
<1>8. Flags' BY <1>0, <1>1 DEF Flags, fiber_vars, end_vars, worker_vars
<1>9. Local' BY <1>0, <1>4, <1>5, <1>6, <1>7, <1>8, LocalMove, Distinct DEF Belongs
<1>10. Fibers' /\ (\A x \in Worker : Sleeping(x)') /\ Ending'
  BY <1>0, <1>1, <1>4, FiberFacts, Harmless, Distinct DEF fiber_vars, end_vars, worker_vars, Looking
<1> QED BY <1>9, <1>10 DEF Rest

\* lock_ready() gives the mutex up.
LEMMA UnlockRest ==
  ASSUME FInv, NEW t \in Worker \cup Waker, Unlock(t)
  PROVE  Rest'
<1>0. /\ t \in Thread /\ Knows(t) /\ (t \in Worker => Stack(t)) /\ Shape /\ IInv /\ Local /\ Flags /\ t # Main
  BY ThreadFacts, Distinct
<1>1. /\ pc[t] = "unlock" /\ job[t].fiber \in Fiber /\ (t \in Worker => prev_fiber[t] = Null)
      /\ t \in Worker /\ cur_fiber[t] \in Fiber => ~terminate[cur_fiber[t]] /\ ~descheduled[cur_fiber[t]]
      /\ Goto(t, IF t \in Worker THEN "settled" ELSE "idle") /\ job' = [job EXCEPT ![t] = NoJob]
      /\ UNCHANGED <<queue_vars, worker_vars, fiber_vars, step, waits, ready, asked, end_vars>>
  BY WakerFacts DEF Unlock
<1>4. /\ Alone(t) /\ pc'[t] = (IF t \in Worker THEN "settled" ELSE "idle") /\ job'[t] = NoJob
      /\ pc'[Main] = pc[Main]
  <2> DEFINE label == IF t \in Worker THEN "settled" ELSE "idle"
  <2>1. Goto(t, label) /\ job' = [job EXCEPT ![t] = NoJob] /\ UNCHANGED <<cur_fiber, prev_fiber, waiting>>
    BY <1>1 DEF worker_vars
  <2> HIDE DEF label
  <2>2. pc'[Main] = pc[Main] BY <1>0, <2>1, Distinct DEF Goto, Shape
  <2>3. Alone(t) /\ pc'[t] = label /\ job'[t] = NoJob BY <1>0, <2>1, MoveAlone
  <2> QED BY <2>2, <2>3 DEF label
<1>5. Knows(t)' BY <1>4 DEF Knows, Inserting
<1>6. t \in Worker => Stack(t)' BY <1>0, <1>1, <1>4 DEF Stack, Inserting, Looking, worker_vars
<1>7. WakenStay BY <1>1 DEF WakenStay
<1>8. Flags' BY <1>0, <1>1 DEF Flags, fiber_vars, end_vars, worker_vars
<1>9. Local' BY <1>0, <1>4, <1>5, <1>6, <1>7, <1>8, LocalMove, Distinct DEF Belongs
<1>10. Fibers' /\ (\A x \in Worker : Sleeping(x)') /\ Ending'
  BY <1>0, <1>1, <1>4, FiberFacts, Harmless, Distinct DEF fiber_vars, end_vars, worker_vars, Looking
<1> QED BY <1>9, <1>10 DEF Rest

\* A fiber that runs or waits in a queue is left alone.
LEMMA ScheduleRunningRest ==
  ASSUME FInv, NEW t \in Worker \cup Waker, schedule_tid(t), scheduleable[job[t].fiber]
  PROVE  Rest'
<1>0. /\ t \in Thread /\ Knows(t) /\ (t \in Worker => Stack(t)) /\ Shape /\ IInv /\ Local /\ Flags /\ t # Main
  BY ThreadFacts, Distinct
<1>1. /\ pc[t] = "schedule_tid" /\ job[t].fiber \in Fiber /\ (t \in Worker => prev_fiber[t] = Null)
      /\ t \in Worker /\ cur_fiber[t] \in Fiber => ~terminate[cur_fiber[t]] /\ ~descheduled[cur_fiber[t]]
      /\ Goto(t, "unlock") /\ job' = job
      /\ descheduled' = [descheduled EXCEPT ![job[t].fiber] = FALSE]
      /\ UNCHANGED <<queue_vars, worker_vars, terminate, scheduleable, priority, user_vars, end_vars>>
  BY WakerFacts DEF schedule_tid
<1>2. \A f \in Fiber : descheduled'[f] => descheduled[f] BY <1>0, <1>1 DEF Shape
<1>4. Alone(t) /\ pc'[t] = "unlock" /\ job'[t] = job[t] /\ pc'[Main] = pc[Main]
  BY ZenonT(60), <1>0, <1>1, StayAlone, Distinct DEF worker_vars, Goto, Shape
<1>5. Knows(t)' BY <1>1, <1>4 DEF Knows, Inserting
<1>6. t \in Worker => Stack(t)' BY <1>0, <1>1, <1>4 DEF Stack, Inserting, Looking, worker_vars
<1>7. WakenStay BY <1>1 DEF WakenStay, user_vars
<1>8. Flags' BY <1>0, <1>1 DEF Flags, user_vars, end_vars, worker_vars
<1>9. Local' BY <1>0, <1>4, <1>5, <1>6, <1>7, <1>8, LocalMove, Distinct DEF Belongs
<1>10. Fibers' /\ (\A x \in Worker : Sleeping(x)') /\ Ending'
  BY <1>0, <1>1, <1>2, <1>4, FiberFacts, Harmless, Distinct DEF user_vars, end_vars, worker_vars, Looking
<1> QED BY <1>9, <1>10 DEF Rest

\* What there is of the main thread.
LEMMA MainFacts ==
  ASSUME FInv, pc[Main] \in {"launch", "join", "joining", "delete", "done"}
  PROVE  /\ Main \in Thread /\ Main \notin Worker \cup Waker /\ Shape /\ IInv /\ Local /\ Flags /\ Ending
         /\ Live \subseteq Fiber /\ IsFiniteSet(Live) /\ Cardinality(Live) \in Nat
<1>1. Live \subseteq Fiber BY DEF Live
<1>2. IsFiniteSet(Live) BY <1>1, ConstantsAssumption, FS_Subset
<1> QED BY <1>1, <1>2, FS_CardinalityType, Distinct, ThreadFacts DEF FInv, Rest

\* A step of the main thread between launch() and the end of the destructor.
LEMMA MainRest ==
  ASSUME FInv, pc[Main] \in {"launch", "join", "joining", "delete", "done"},
         Alone(Main), pc'[Main] \in {"launch", "join", "joining", "delete", "done"},
         UNCHANGED <<queue_vars, worker_vars, fiber_vars, user_vars, fibers_active, job>>,
         stop_workers' \in BOOLEAN, deleted' \subseteq Worker, Ending'
  PROVE  Rest'
<1>0. Main \in Thread /\ Main \notin Worker \cup Waker /\ Shape /\ IInv /\ Local /\ Flags BY MainFacts
<1>1. Knows(Main)' BY DEF Knows, Inserting
<1>2. WakenStay BY DEF WakenStay, user_vars
<1>3. Flags' BY <1>0 DEF Flags, fiber_vars, user_vars, worker_vars
<1>4. Local' BY <1>0, <1>1, <1>2, <1>3, LocalMove DEF Belongs
<1>5. Fibers' BY <1>0, FiberFacts, FibersStay DEF fiber_vars, user_vars, worker_vars
<1>6. ASSUME NEW x \in Worker PROVE Sleeping(x)'
  <2>0. Sleeping(x) /\ x \in Thread /\ x # Main BY Distinct DEF FInv, Rest
  <2>1. \A k \in Kind : Hangs(<<x, k>>)' => Hangs(<<x, k>>) BY DEF Hangs, queue_vars
  <2>2. pc'[x] = "asleep" => pc[x] = "asleep" BY <2>0 DEF Alone, Calm
  <2>3. pc'[x] = "look" /\ cur_fiber'[x] = Null /\ job'[x].queue[2] = "affinity" =>
            pc[x] = "look" /\ cur_fiber[x] = Null /\ job[x].queue[2] = "affinity"
    BY <2>0 DEF Alone, Calm, worker_vars
  <2>4. \A u \in Thread : pc[u] \in {"check", "signal"} /\ job[u].queue[1] = x =>
            pc'[u] \in {"check", "signal"} /\ job'[u].queue = job[u].queue BY DEF Alone, Calm
  <2> QED BY <2>0, <2>1, <2>2, <2>3, <2>4, SleepStays
<1> QED BY <1>4, <1>5, <1>6 DEF Rest

\* join() and the destructor.
LEMMA MainStepRest ==
  ASSUME FInv, join \/ Delete \/ JoinWorkers
  PROVE  Rest'
<1>1. /\ pc[Main] \in {"launch", "join", "delete"} BY DEF join, Delete, JoinWorkers
<1>2. /\ Main \in Thread /\ Main \notin Worker \cup Waker /\ Shape /\ Flags /\ Ending
      /\ Live \subseteq Fiber /\ IsFiniteSet(Live) /\ Cardinality(Live) \in Nat BY <1>1, MainFacts
<1>3. /\ UNCHANGED <<queue_vars, worker_vars, fiber_vars, user_vars, fibers_active, job>>
  BY DEF join, Delete, JoinWorkers, end_vars
<1>4. Live' = Live BY <1>3 DEF Live, user_vars
<1>5. \A w \in Worker : w # Main /\ w \in Thread BY <1>2, Distinct
<1>6. CASE join
  <2>1. /\ pc' = [pc EXCEPT ![Main] = IF fibers_active > 0 THEN "joining" ELSE "delete"]
        /\ stop_workers' = (stop_workers \/ ~(fibers_active > 0)) /\ deleted' = deleted
        /\ \A f \in Fiber : step[f] # "unborn" BY <1>2, <1>6 DEF join, Goto, Ending, Flags
  <2>2. Alone(Main) /\ pc'[Main] = (IF fibers_active > 0 THEN "joining" ELSE "delete")
    BY <1>2, <1>3, <2>1 DEF Alone, Calm, Shape, worker_vars
  <2>3. ~(fibers_active > 0) => Live = {} BY <1>2, FS_EmptySet DEF Ending
  <2>4. ~stop_workers /\ deleted = {} BY <1>1, <1>2, <1>6 DEF Ending, join
  <2>5. Ending'
    <3>1. fibers_active' = Cardinality(Live') BY <1>2, <1>3, <1>4 DEF Ending
    <3>2. stop_workers' <=> pc'[Main] \in {"delete", "done"}
      <4>1. CASE fibers_active > 0
        <5>1. pc'[Main] = "joining" /\ ~stop_workers' BY <2>1, <2>2, <2>4, <4>1
        <5> QED BY <5>1
      <4>2. CASE ~(fibers_active > 0)
        <5>1. pc'[Main] = "delete" /\ stop_workers' BY <2>1, <2>2, <2>4, <4>2
        <5> QED BY <5>1
      <4> QED BY <4>1, <4>2
    <3>3. \A f \in Fiber : step'[f] # "unborn" BY <1>3, <2>1 DEF user_vars
    <3>4. stop_workers' => Live' = {} BY <1>4, <2>1, <2>3, <2>4
    <3>5. deleted' = {} BY <2>1, <2>4
    <3> QED BY <3>1, <3>2, <3>3, <3>4, <3>5 DEF Ending
  <2> QED BY <1>1, <1>2, <1>3, <2>1, <2>2, <2>5, MainRest DEF Flags
<1>7. CASE Delete
  <2>1. PICK w \in Worker \ deleted :
          /\ ActiveLockFree(w) /\ deleted' = deleted \cup {w}
          /\ pc' = [pc EXCEPT ![w] = IF @ = "asleep" THEN "lock" ELSE @] BY <1>7 DEF Delete
  <2>2. pc[Main] = "delete" /\ UNCHANGED stop_workers BY <1>7 DEF Delete
  <2>3. Alone(Main) /\ pc'[Main] = pc[Main] /\ pc'[w] \in {pc[w], "lock"}
        /\ \A x \in Worker : pc'[x] = pc[x] \/ pc'[x] = "lock"
    BY <1>2, <1>3, <1>5, <2>1 DEF Alone, Calm, Shape, worker_vars
  <2>4. \A x \in deleted' : ~(InBase(x) /\ Looking(x))'
    BY <1>2, <1>3, <2>1, <2>3 DEF Ending, InBase, Looking, ActiveLockFree, worker_vars, Flags
  <2>5. Ending' BY <1>2, <1>3, <1>4, <2>2, <2>3, <2>4 DEF Ending, user_vars
  <2> QED BY <1>1, <1>2, <1>3, <2>1, <2>2, <2>3, <2>5, MainRest DEF Flags
<1>8. CASE JoinWorkers
  <2>1. /\ pc' = [pc EXCEPT ![Main] = "done"] /\ pc[Main] = "delete" /\ UNCHANGED end_vars
    BY <1>8 DEF JoinWorkers, Goto
  <2>2. Alone(Main) /\ pc'[Main] = "done" /\ \A x \in Worker : pc'[x] = pc[x]
    BY <1>2, <1>3, <1>5, <2>1 DEF Alone, Calm, Shape, worker_vars
  <2>3. \A x \in deleted' : ~(InBase(x) /\ Looking(x))'
    BY <1>2, <1>3, <2>1, <2>2 DEF Ending, InBase, Looking, worker_vars, Flags, end_vars
  <2>4. Ending' BY <1>2, <1>3, <1>4, <2>1, <2>2, <2>3 DEF Ending, user_vars, end_vars
  <2> QED BY <1>1, <1>2, <1>3, <2>1, <2>2, <2>4, MainRest DEF Flags, end_vars
<1> QED BY <1>6, <1>7, <1>8

-----------------------------------------------------------------------------
(* Steps that move fibers but leave the queues alone.                      *)

\* A queue was empty: the other one, or to sleep.
LEMMA LookEmptyRest ==
  ASSUME FInv, NEW w \in Worker, LookEmpty(w)
  PROVE  Rest'
<1>0. /\ w \in Thread /\ Knows(w) /\ Stack(w) /\ Shape /\ IInv /\ Local /\ Flags
      /\ w # Main /\ w \notin Waker BY WorkerFacts
<1> DEFINE q == job[w].queue
<1>1. /\ pc[w] = "look" /\ prev_fiber[w] = Null /\ q \in Queue /\ q[1] = w
      /\ popped[q] = Null /\ next[q] = Null
      /\ UNCHANGED <<queue_vars, worker_vars, fiber_vars, user_vars, end_vars>>
  BY <1>0 DEF LookEmpty, Stack
<1>2. /\ Alone(w) /\ pc'[Main] = pc[Main]
      /\ \/ q[2] = "priority" /\ pc'[w] = "look" /\ job'[w].queue = <<w, "affinity">>
         \/ /\ q[2] = "affinity" /\ job'[w].fiber = Null
            /\ pc'[w] = IF cur_fiber[w] = Null THEN "asleep" ELSE "found"
  <2>1. CASE q[2] = "priority"
    <3>1. job[w] \in Jobs BY <1>0 DEF Shape
    <3>2. UNCHANGED pc /\ job' = [job EXCEPT ![w] = [job[w] EXCEPT !.queue = <<w, "affinity">>]]
      BY <1>0, <2>1 DEF LookEmpty, Shape
    <3>3. job'[w].queue = <<w, "affinity">> BY <1>0, <3>1, <3>2 DEF Shape, Jobs
    <3>4. Alone(w) BY <1>0, <1>1, <3>2 DEF Shape, Alone, Calm, worker_vars
    <3> QED BY <1>1, <2>1, <3>2, <3>3, <3>4
  <2>2. CASE q[2] # "priority"
    <3> DEFINE label == IF InBase(w) THEN "asleep" ELSE "found"
    <3>1. Goto(w, label) /\ job' = [job EXCEPT ![w] = NoJob] /\ UNCHANGED <<cur_fiber, prev_fiber, waiting>>
      BY <1>1, <2>2 DEF LookEmpty, worker_vars
    <3>2. q[2] = "affinity" BY <1>1, <2>2, QueueOf DEF Kind
    <3> HIDE DEF label, q
    <3>3. Alone(w) /\ pc'[w] = label /\ job'[w] = NoJob BY <1>0, <3>1, MoveAlone
    <3>4. pc'[Main] = pc[Main] BY <1>0, <3>1, Distinct DEF Goto, Shape
    <3> QED BY <3>2, <3>3, <3>4 DEF label, InBase, NoJob
  <2> QED BY <2>1, <2>2
<1>3. <<w, "affinity">> \in Queue /\ <<w, "affinity">>[1] = w /\ <<w, "affinity">>[2] = "affinity"
      /\ q = <<w, q[2]>> BY <1>1, QueueOf DEF Kind
<1> HIDE DEF q
<1>4. Knows(w)' /\ Stack(w)'
  <2>1. CASE pc'[w] = "look" /\ job'[w].queue = <<w, "affinity">>
    BY <1>0, <1>1, <1>3, <2>1 DEF Knows, Stack, Inserting, Looking, worker_vars
  <2>2. CASE pc'[w] = "asleep" /\ cur_fiber[w] = Null
    BY <1>0, <1>1, <2>2 DEF Knows, Stack, Inserting, Looking, worker_vars
  <2>3. CASE pc'[w] = "found" /\ cur_fiber[w] # Null /\ job'[w].fiber = Null
    BY <1>0, <1>1, <2>3 DEF Knows, Stack, Inserting, Looking, worker_vars
  <2> QED BY <1>2, <2>1, <2>2, <2>3
<1>5. WakenStay BY <1>1 DEF WakenStay, user_vars
<1>6. Flags' BY <1>0, <1>1 DEF Flags, fiber_vars, user_vars, end_vars, worker_vars
<1>7. Local' BY <1>0, <1>2, <1>4, <1>5, <1>6, LocalMove DEF Belongs
<1>8. Fibers'
  <2>2. pc'[w] \in {"look", "asleep", "found"} /\ (pc'[w] = "found" => job'[w].fiber \notin Fiber)
    BY <1>2, Distinct
  <2>3. cur_fiber[w] \in Fiber => Looking(w)' BY <1>2, Distinct DEF Looking
  <2> QED BY <1>0, <1>1, <1>2, <2>2, <2>3, FibersStay, FiberFacts, Distinct DEF fiber_vars, user_vars, worker_vars
<1>9. ASSUME NEW x \in Worker PROVE Sleeping(x)'
  <2>0. Sleeping(x) BY DEF FInv, Rest
  <2>1. \A u \in Thread : pc[u] \in {"check", "signal"} /\ job[u].queue[1] = x =>
            pc'[u] \in {"check", "signal"} /\ job'[u].queue = job[u].queue BY <1>1, <1>2 DEF Alone, Calm
  <2>2. \A k \in Kind : Hangs(<<x, k>>)' <=> Hangs(<<x, k>>) BY <1>1 DEF Hangs, queue_vars
  <2>3. CASE x # w
    BY <1>0, <1>1, <1>2, <2>0, <2>1, <2>2, <2>3, SleepStays, Distinct DEF Alone, Calm, worker_vars
  <2>4. CASE x = w
    <3>1. Woken(w) => Woken(w)' BY <2>1, <2>4 DEF Woken
    <3>2. popped'[q] = Null /\ next'[q] = Null BY <1>1 DEF queue_vars
    <3>3. CASE q[2] = "priority"
      <4>1. pc'[w] = "look" /\ ~Hangs(<<w, "priority">>)' BY <1>2, <1>3, <3>2, <3>3 DEF Hangs
      <4> QED BY <2>4, <4>1 DEF Sleeping
    <3>4. CASE q[2] = "affinity"
      <4>1. pc'[w] = (IF cur_fiber[w] = Null THEN "asleep" ELSE "found") BY <1>2, <3>4
      <4>2. cur_fiber[w] = Null => (Hangs(<<w, "priority">>) => Woken(w))
        BY <1>1, <2>0, <2>4, <3>4 DEF Sleeping, q
      <4>3. ~Hangs(<<w, "affinity">>)' BY <1>3, <3>2, <3>4 DEF Hangs
      <4> QED BY <2>2, <2>4, <3>1, <4>1, <4>2, <4>3 DEF Sleeping, Kind
    <3> QED BY <1>2, <3>3, <3>4
  <2> QED BY <2>3, <2>4
<1>10. Ending'
  <2>0. Ending BY DEF FInv, Rest
  <2>1. Live' = Live BY <1>1 DEF Live, user_vars
  <2>2. \A f \in Fiber : step[f] # "unborn" => step'[f] # "unborn" BY <1>1 DEF user_vars
  <2>3. \A x \in deleted : (InBase(x) /\ Looking(x))' => InBase(x) /\ Looking(x)
    BY <1>0, <1>1, <1>2, Distinct DEF Alone, Calm, InBase, Looking, Flags, worker_vars
  <2> QED BY <1>1, <1>2, <2>0, <2>1, <2>2, <2>3, EndingStays DEF end_vars
<1> QED BY <1>7, <1>8, <1>9, <1>10 DEF Rest

\* Where a step of t puts fibers, the queues being left alone.
LEMMA SleepSame ==
  ASSUME FInv, NEW t \in Thread, Alone(t), UNCHANGED queue_vars,
         pc'[t] \notin {"asleep", "look"}, pc[t] \notin {"check", "signal"}
  PROVE  \A x \in Worker : Sleeping(x)'
<1> SUFFICES ASSUME NEW x \in Worker PROVE Sleeping(x)' OBVIOUS
<1>0. Sleeping(x) BY DEF FInv, Rest
<1>1. \A u \in Thread : pc[u] \in {"check", "signal"} /\ job[u].queue[1] = x =>
          pc'[u] \in {"check", "signal"} /\ job'[u].queue = job[u].queue BY DEF Alone, Calm
<1>2. \A k \in Kind : Hangs(<<x, k>>)' => Hangs(<<x, k>>) BY DEF Hangs, queue_vars
<1>3. CASE x = t BY <1>3 DEF Sleeping
<1>4. CASE x # t BY <1>0, <1>1, <1>2, <1>4, SleepStays, Distinct DEF Alone, Calm
<1> QED BY <1>3, <1>4

\* The fiber goes from the worker's hands onto its stack, the old one off it.
LEMMA SwitchToFiberRest ==
  ASSUME FInv, NEW w \in Worker, SwitchToFiber(w)
  PROVE  Rest'
<1>0. /\ w \in Thread /\ Knows(w) /\ Stack(w) /\ Shape /\ IInv /\ Local /\ Flags
      /\ w # Main /\ w \notin Waker BY WorkerFacts
<1>f. PICK f : f = job[w].fiber OBVIOUS
<1>g. PICK g : g = cur_fiber[w] OBVIOUS
<1>1. /\ pc[w] = "found" /\ f \in Fiber /\ prev_fiber[w] = Null
      /\ waiting' = [waiting EXCEPT ![w] = FALSE]
      /\ priority' = [priority EXCEPT ![f] = FALSE]
      /\ prev_fiber' = [prev_fiber EXCEPT ![w] = g]
      /\ cur_fiber' = [cur_fiber EXCEPT ![w] = f]
      /\ UNCHANGED <<queue_vars, descheduled, scheduleable, terminate, user_vars, end_vars>>
      /\ Goto(w, "switched") /\ job' = [job EXCEPT ![w] = NoJob]
  BY <1>0, <1>f, <1>g, Distinct DEF SwitchToFiber, Knows, Stack
<1>2. /\ Alone(w) /\ pc'[w] = "switched" /\ pc'[Main] = pc[Main] /\ cur_fiber'[w] = f /\ prev_fiber'[w] = g
      /\ \A x \in Worker \ {w} : cur_fiber'[x] = cur_fiber[x] /\ prev_fiber'[x] = prev_fiber[x]
  <2> QED BY <1>0, <1>1, Distinct DEF Shape, Flags, Alone, Calm, Goto
<1>4. Knows(w)' /\ Stack(w)' BY <1>0, <1>1, <1>2, <1>g, Distinct DEF Knows, Stack, Inserting, Looking
<1>5. WakenStay BY <1>1 DEF WakenStay, user_vars
<1>6. Flags' BY <1>0, <1>1 DEF Flags, user_vars, end_vars
<1>7. Local' BY <1>0, <1>2, <1>4, <1>5, <1>6, LocalMove DEF Belongs
<1>8. Fibers'
  <2>1. PICK place, ref, out : Placed(place) /\ Alive(place) /\ Lists(place, ref, out) BY DEF FInv, Rest, Fibers
  <2> DEFINE place2 == [h \in Fiber |-> IF h = f THEN <<"cur", w>> ELSE IF h = g THEN <<"prev", w>> ELSE place[h]]
  <2>2. place[f] = <<"job", w>> BY <1>0, <1>1, <1>f, <2>1 DEF Placed
  <2>3. g \in Fiber => place[g] = <<"cur", w>> BY <1>g, <2>1 DEF Placed
  <2>4. g # f BY <1>1, <2>2, <2>3
  <2>5. Placed(place2)'
    <3>1. place2 \in [Fiber -> Place] BY <2>1 DEF Placed, Place
    <3>2. ASSUME NEW x \in Worker, NEW h \in Fiber, cur_fiber'[x] = h PROVE place2[h] = <<"cur", x>>
      <4>1. CASE x = w BY <1>2, <3>2, <4>1
      <4>2. CASE x # w
        <5>1. place[h] = <<"cur", x>> BY <1>2, <2>1, <3>2, <4>2 DEF Placed
        <5>2. h # f /\ h # g BY <2>2, <2>3, <4>2, <5>1
        <5> QED BY <5>1, <5>2
      <4> QED BY <4>1, <4>2
    <3>3. ASSUME NEW x \in Worker, NEW h \in Fiber, prev_fiber'[x] = h
          PROVE  place2[h] = IF pc'[x] = "switched" THEN <<"prev", x>>
                             ELSE IF pc'[x] = "swap" THEN <<"job", x>> ELSE <<"queue", job'[x].queue>>
      <4>1. CASE x = w BY <1>2, <2>4, <3>3, <4>1
      <4>2. CASE x # w
        <5>1. place[h] = IF pc[x] = "switched" THEN <<"prev", x>>
                         ELSE IF pc[x] = "swap" THEN <<"job", x>> ELSE <<"queue", job[x].queue>>
          BY <1>2, <2>1, <3>3, <4>2 DEF Placed
        <5>2. h # f /\ h # g BY <2>2, <2>3, <4>2, <5>1
        <5>3. job'[x] = job[x] /\ (pc'[x] = "switched" <=> pc[x] = "switched") /\ (pc'[x] = "swap" <=> pc[x] = "swap")
          BY <1>2, <4>2, Distinct DEF Alone, Calm
        <5> QED BY <5>1, <5>2, <5>3
      <4> QED BY <4>1, <4>2
    <3>4. ASSUME NEW t \in Thread, NEW h \in Fiber, job'[t].fiber = h, pc'[t] \in {"found", "pick", "swap"}
          PROVE  place2[h] = <<"job", t>>
      <4>1. t # w BY <1>2, <3>4
      <4>2. job'[t] = job[t] /\ pc'[t] = pc[t] BY <1>2, <3>4, <4>1 DEF Alone, Calm
      <4>3. place[h] = <<"job", t>> BY <2>1, <3>4, <4>2 DEF Placed
      <4>4. h # f /\ h # g BY <2>2, <2>3, <4>1, <4>3
      <4> QED BY <4>3, <4>4
    <3> HIDE DEF place2
    <3> QED BY <3>1, <3>2, <3>3, <3>4 DEF Placed
  <2>6. Alive(place2)'
    <3> SUFFICES ASSUME NEW h \in Fiber
                 PROVE  /\ step'[h] = "unborn" => scheduleable'[h] /\ ~terminate'[h]
                        /\ step'[h] \in {"unborn", "dead"} \/ ~scheduleable'[h] => place2[h] = <<"none", Null>>
                        /\ ~scheduleable'[h] => step'[h] = "lock"
                        /\ terminate'[h] => step'[h] \in {"start", "run", "dead"}
                        /\ place2[h][1] \in {"queue", "job"} => ~terminate'[h] /\ ~descheduled'[h]
                        /\ \A x \in Worker : cur_fiber'[x] = h /\ (terminate'[h] \/ descheduled'[h]) => Looking(x)'
      BY DEF Alive
    <3>0. UNCHANGED <<step, scheduleable, terminate, descheduled>> BY <1>1 DEF user_vars
    <3>1. CASE h = f
      <4>1. place[h] = <<"job", w>> BY <2>2, <3>1
      <4>2. ~terminate[h] /\ ~descheduled[h] BY <2>1, <4>1 DEF Alive
      <4>3. step[h] \notin {"unborn", "dead"} /\ scheduleable[h] BY <2>1, <4>1 DEF Alive
      <4> QED BY <3>0, <4>2, <4>3
    <3>2. CASE h # f /\ h = g
      <4>1. place[h] = <<"cur", w>> /\ place2[h] = <<"prev", w>> BY <2>3, <3>2
      <4>2. step[h] \notin {"unborn", "dead"} /\ scheduleable[h] BY <2>1, <4>1 DEF Alive
      <4>3. \A x \in Worker : cur_fiber'[x] # h BY <1>2, <2>1, <3>2, <4>1 DEF Placed
      <4>4. terminate[h] => step[h] \in {"start", "run", "dead"} BY <2>1 DEF Alive
      <4> QED BY <3>0, <4>1, <4>2, <4>3, <4>4
    <3>3. CASE h # f /\ h # g
      <4>1. place2[h] = place[h] BY <3>3
      <4>2. ASSUME NEW x \in Worker, cur_fiber'[x] = h, terminate'[h] \/ descheduled'[h] PROVE Looking(x)'
        <5>1. x # w BY <1>2, <3>3, <4>2
        <5>2. Looking(x) BY <1>2, <2>1, <3>0, <4>2, <5>1 DEF Alive
        <5> QED BY <1>2, <5>1, <5>2, Distinct DEF Alone, Calm, Looking
      <4>3. /\ step[h] = "unborn" => scheduleable[h] /\ ~terminate[h]
            /\ step[h] \in {"unborn", "dead"} \/ ~scheduleable[h] => place[h] = <<"none", Null>>
            /\ ~scheduleable[h] => step[h] = "lock"
            /\ terminate[h] => step[h] \in {"start", "run", "dead"}
            /\ place[h][1] \in {"queue", "job"} => ~terminate[h] /\ ~descheduled[h] BY <2>1 DEF Alive
      <4> HIDE DEF place2
      <4> QED BY <3>0, <4>1, <4>2, <4>3
    <3> QED BY <3>1, <3>2, <3>3
  <2>7. Lists(place2, ref, out)'
    <3>1. \A h \in Fiber, q \in Queue : place2[h] = <<"queue", q>> <=> place[h] = <<"queue", q>>
      BY <2>2, <2>3
    <3> HIDE DEF place2
    <3>2. pc'[w] \notin {"link", "link_sentinel"} /\ (pc'[w] = "take" => popped[job'[w].queue] = job'[w].fiber)
      BY <1>2
    <3>3. Local /\ Alone(w) /\ UNCHANGED queue_vars /\ w \in Thread BY <1>0, <1>1, <1>2
    <3> QED BY <2>1, <3>1, <3>2, <3>3, ListsQuiet
  <2> HIDE DEF place2
  <2> QED BY <2>5, <2>6, <2>7 DEF Fibers
<1>9. \A x \in Worker : Sleeping(x)' BY <1>0, <1>1, <1>2, SleepSame
<1>10. Ending'
  <2>0. Ending BY DEF FInv, Rest
  <2>1. Live' = Live BY <1>1 DEF Live, user_vars
  <2>2. \A h \in Fiber : step[h] # "unborn" => step'[h] # "unborn" BY <1>1 DEF user_vars
  <2>3. \A x \in deleted : (InBase(x) /\ Looking(x))' => InBase(x) /\ Looking(x)
    BY <1>0, <1>1, <1>2, Distinct DEF Alone, Calm, InBase, Looking, Flags
  <2> QED BY <1>1, <1>2, <2>0, <2>1, <2>2, <2>3, EndingStays DEF end_vars
<1> QED BY <1>7, <1>8, <1>9, <1>10 DEF Rest

\* t moves one fiber, which it had or nobody, and not to a queue.
LEMMA MoveFiber ==
  ASSUME FInv, NEW t \in Thread, Alone(t), UNCHANGED queue_vars,
         NEW place, NEW ref, NEW out, Placed(place), Alive(place), Lists(place, ref, out),
         NEW f \in Fiber, NEW p \in Place,
         place[f] \in {<<"cur", t>>, <<"prev", t>>, <<"job", t>>, <<"none", Null>>}, p[1] # "queue",
         \* what t has
         t \in Worker =>
           /\ cur_fiber'[t] = f => p = <<"cur", t>>
           /\ cur_fiber'[t] \in {f, Null, cur_fiber[t]}
           /\ prev_fiber'[t] = f => p = IF pc'[t] = "switched" THEN <<"prev", t>> ELSE <<"job", t>>
           /\ prev_fiber'[t] = f => pc'[t] \in {"switched", "swap"}
           /\ prev_fiber'[t] \in {f, Null},
         pc'[t] \in {"found", "pick", "swap"} => job'[t].fiber = f /\ p = <<"job", t>>,
         pc'[t] \notin {"link", "link_sentinel", "take"},
         \* the flags
         \A h \in Fiber \ {f} : UNCHANGED <<step[h], scheduleable[h], terminate[h], descheduled[h]>>,
         step'[f] # "unborn",
         step'[f] = "dead" \/ ~scheduleable'[f] => p = <<"none", Null>>,
         ~scheduleable'[f] => step'[f] = "lock",
         terminate'[f] => step'[f] \in {"start", "run", "dead"},
         p[1] = "job" => ~terminate'[f] /\ ~descheduled'[f],
         p[1] # "cur",
         t \in Worker /\ cur_fiber'[t] \in Fiber =>
           ~terminate[cur_fiber'[t]] /\ ~descheduled[cur_fiber'[t]]
  PROVE  Fibers'
<1> DEFINE place2 == [place EXCEPT ![f] = p]
<1>0. place \in [Fiber -> Place] /\ place2 \in [Fiber -> Place] /\ place2[f] = p
      /\ \A h \in Fiber \ {f} : place2[h] = place[h] BY DEF Placed
<1> HIDE DEF place2
<1>1. Placed(place2)'
  <2>2. ASSUME NEW x \in Worker, NEW h \in Fiber, cur_fiber'[x] = h PROVE place2[h] = <<"cur", x>>
    <3>1. CASE x = t
      <4>1. CASE h = f BY <1>0, <2>2, <3>1, <4>1
      <4>2. CASE h # f
        <5>1. cur_fiber[x] = h BY <2>2, <3>1, <4>2, Distinct
        <5> QED BY <1>0, <4>2, <5>1 DEF Placed
      <4> QED BY <4>1, <4>2
    <3>2. CASE x # t BY <2>2, <3>2, <1>0 DEF Placed, Alone
    <3> QED BY <3>1, <3>2
  <2>3. ASSUME NEW x \in Worker, NEW h \in Fiber, prev_fiber'[x] = h
        PROVE  place2[h] = IF pc'[x] = "switched" THEN <<"prev", x>>
                           ELSE IF pc'[x] = "swap" THEN <<"job", x>> ELSE <<"queue", job'[x].queue>>
    <3>1. CASE x = t
      <4>1. h = f /\ pc'[x] \in {"switched", "swap"} BY <2>3, <3>1, Distinct
      <4> QED BY <1>0, <2>3, <3>1, <4>1
    <3>2. CASE x # t
      <4>0. prev_fiber[x] = h /\ job'[x] = job[x] /\ (pc'[x] = "switched" <=> pc[x] = "switched")
            /\ (pc'[x] = "swap" <=> pc[x] = "swap") BY <2>3, <3>2, Distinct DEF Alone, Calm
      <4>1. place[h] = IF pc[x] = "switched" THEN <<"prev", x>>
                       ELSE IF pc[x] = "swap" THEN <<"job", x>> ELSE <<"queue", job[x].queue>>
        BY <4>0 DEF Placed
      <4>2. h # f BY <3>2, <4>1
      <4>3. place2[h] = place[h] BY <1>0, <4>2
      <4> QED BY <4>0, <4>1, <4>3
    <3> QED BY <3>1, <3>2
  <2>4. ASSUME NEW u \in Thread, NEW h \in Fiber, job'[u].fiber = h, pc'[u] \in {"found", "pick", "swap"}
        PROVE  place2[h] = <<"job", u>>
    <3>1. CASE u = t BY <1>0, <2>4, <3>1
    <3>2. CASE u # t
      <4>1. job'[u] = job[u] /\ pc'[u] = pc[u] BY <2>4, <3>2 DEF Alone, Calm
      <4>2. place[h] = <<"job", u>> BY <2>4, <4>1 DEF Placed
      <4>3. h # f BY <3>2, <4>2
      <4> QED BY <1>0, <4>2, <4>3
    <3> QED BY <3>1, <3>2
  <2> QED BY <1>0, <2>2, <2>3, <2>4 DEF Placed
<1>2. Alive(place2)'
  <2> SUFFICES ASSUME NEW h \in Fiber
               PROVE  /\ step'[h] = "unborn" => scheduleable'[h] /\ ~terminate'[h]
                      /\ step'[h] \in {"unborn", "dead"} \/ ~scheduleable'[h] => place2[h] = <<"none", Null>>
                      /\ ~scheduleable'[h] => step'[h] = "lock"
                      /\ terminate'[h] => step'[h] \in {"start", "run", "dead"}
                      /\ place2[h][1] \in {"queue", "job"} => ~terminate'[h] /\ ~descheduled'[h]
                      /\ \A x \in Worker : cur_fiber'[x] = h /\ (terminate'[h] \/ descheduled'[h]) => Looking(x)'
    BY DEF Alive
  <2>1. CASE h = f
    <3>1. ASSUME NEW x \in Worker, cur_fiber'[x] = h PROVE FALSE
      <4>1. CASE x = t BY <2>1, <3>1, <4>1
      <4>2. CASE x # t BY <2>1, <3>1, <4>2 DEF Alone, Placed
      <4> QED BY <4>1, <4>2
    <3> QED BY <1>0, <2>1, <3>1
  <2>2. CASE h # f
    <3>1. UNCHANGED <<step[h], scheduleable[h], terminate[h], descheduled[h]>> /\ place2[h] = place[h]
      BY <1>0, <2>2
    <3>2. ASSUME NEW x \in Worker, cur_fiber'[x] = h, terminate'[h] \/ descheduled'[h] PROVE Looking(x)'
      BY <3>1, <3>2, Distinct DEF Alive, Alone, Calm, Looking
    <3>3. /\ step[h] = "unborn" => scheduleable[h] /\ ~terminate[h]
          /\ step[h] \in {"unborn", "dead"} \/ ~scheduleable[h] => place[h] = <<"none", Null>>
          /\ ~scheduleable[h] => step[h] = "lock"
          /\ terminate[h] => step[h] \in {"start", "run", "dead"}
          /\ place[h][1] \in {"queue", "job"} => ~terminate[h] /\ ~descheduled[h] BY DEF Alive
    <3> QED BY <3>1, <3>2, <3>3
  <2> QED BY <2>1, <2>2
<1>3. Lists(place2, ref, out)'
  <2>1. \A h \in Fiber, q \in Queue : place2[h] = <<"queue", q>> <=> place[h] = <<"queue", q>> BY <1>0
  <2>2. Local BY DEF FInv, Rest
  <2>3. pc'[t] \notin {"link", "link_sentinel"} /\ (pc'[t] = "take" => popped[job'[t].queue] = job'[t].fiber)
    OBVIOUS
  <2>4. t \in Thread /\ Alone(t) /\ UNCHANGED queue_vars /\ Lists(place, ref, out) OBVIOUS
  <2> QED BY ONLY <2>1, <2>2, <2>3, <2>4, ListsQuiet
<1> QED BY <1>1, <1>2, <1>3 DEF Fibers

\* The fiber leaves the worker's stack for the base stack.
LEMMA SwitchToBaseRest ==
  ASSUME FInv, NEW w \in Worker, SwitchToBase(w)
  PROVE  Rest'
<1>0. /\ w \in Thread /\ Knows(w) /\ Stack(w) /\ Shape /\ IInv /\ Local /\ Flags
      /\ w # Main /\ w \notin Waker BY WorkerFacts
<1>f. PICK f : f = cur_fiber[w] OBVIOUS
<1>1. /\ pc[w] = "found" /\ f \in Fiber /\ prev_fiber[w] = Null /\ job[w].fiber = Null
      /\ UNCHANGED <<queue_vars, waiting, fiber_vars, user_vars, end_vars, job>>
  BY <1>0, <1>f DEF SwitchToBase, Stack
<1>2. /\ Alone(w) /\ pc'[Main] = pc[Main] /\ job'[w] = job[w]
      /\ \/ /\ terminate[f] \/ descheduled[f]
            /\ cur_fiber'[w] = Null /\ prev_fiber'[w] = f /\ pc'[w] = "switched"
         \/ /\ ~terminate[f] /\ ~descheduled[f]
            /\ UNCHANGED <<cur_fiber, prev_fiber>> /\ pc'[w] = "client"
  BY <1>0, <1>1, <1>f, Distinct DEF SwitchToBase, Alone, Calm, Goto, Shape
<1>4. Knows(w)' /\ Stack(w)' BY <1>0, <1>1, <1>2, <1>f, Distinct DEF Knows, Stack, Inserting, Looking
<1>5. WakenStay BY <1>1 DEF WakenStay, user_vars
<1>6. Flags' BY <1>0, <1>1 DEF Flags, user_vars, end_vars, fiber_vars
<1>7. Local' BY <1>0, <1>2, <1>4, <1>5, <1>6, LocalMove DEF Belongs
<1>8. Fibers'
  <2>1. CASE pc'[w] = "client" /\ UNCHANGED <<cur_fiber, prev_fiber>> /\ ~terminate[f] /\ ~descheduled[f]
    BY <1>0, <1>1, <1>2, <1>f, <2>1, FibersStay, FiberFacts, Distinct DEF fiber_vars, user_vars
  <2>2. CASE cur_fiber'[w] = Null /\ prev_fiber'[w] = f /\ pc'[w] = "switched"
    <3>1. PICK place, ref, out : Placed(place) /\ Alive(place) /\ Lists(place, ref, out) BY DEF FInv, Rest, Fibers
    <3>2. place[f] = <<"cur", w>> BY <1>1, <1>f, <3>1 DEF Placed
    <3>3. step[f] \notin {"unborn", "dead"} /\ scheduleable[f]
          /\ (terminate[f] => step[f] \in {"start", "run", "dead"}) BY <1>1, <3>1, <3>2 DEF Alive
    <3> DEFINE p == <<"prev", w>>
    <3>4. p \in Place /\ p[1] = "prev" BY DEF Place
    <3> HIDE DEF p
    <3>5. p = <<"prev", w>> BY DEF p
    <3> QED BY <1>0, <1>1, <1>2, <2>2, <3>1, <3>2, <3>3, <3>4, <3>5, MoveFiber, Distinct DEF fiber_vars, user_vars
  <2> QED BY <1>2, <2>1, <2>2
<1>9. \A x \in Worker : Sleeping(x)' BY <1>0, <1>1, <1>2, SleepSame
<1>10. Ending'
  <2>0. Ending BY DEF FInv, Rest
  <2>1. Live' = Live BY <1>1 DEF Live, user_vars
  <2>2. \A h \in Fiber : step[h] # "unborn" => step'[h] # "unborn" BY <1>1 DEF user_vars
  <2>3. \A x \in deleted : (InBase(x) /\ Looking(x))' => InBase(x) /\ Looking(x)
    BY <1>0, <1>1, <1>2, Distinct DEF Alone, Calm, InBase, Looking, Flags
  <2> QED BY <1>1, <1>2, <2>0, <2>1, <2>2, <2>3, EndingStays DEF end_vars
<1> QED BY <1>7, <1>8, <1>9, <1>10 DEF Rest

\* A thread takes a fiber that is to be inserted.
LEMMA StartInsertMoves ==
  ASSUME FInv, NEW t \in Thread, NEW v \in Worker, NEW f \in Fiber, scheduleable[f],
         StartInsert(t, v, f), UNCHANGED <<waiting, cur_fiber>>
  PROVE  /\ Alone(t) /\ pc'[t] = "swap" /\ UNCHANGED prev_fiber
         /\ job'[t].fiber = f /\ job'[t].queue \in Queue /\ job'[t].queue[1] = v
         /\ t = Main \/ pc'[Main] = pc[Main]
<1> DEFINE q == <<v, IF priority[f] THEN "priority" ELSE "affinity">>
           j == [fiber |-> f, pred |-> Null, queue |-> q]
<1>0. Shape BY ThreadFacts
<1>1. /\ Goto(t, "swap") /\ job' = [job EXCEPT ![t] = j] /\ UNCHANGED prev_fiber BY DEF StartInsert
<1>2. q \in Queue /\ q[1] = v BY DEF Queue, Kind
<1>3. j.fiber = f /\ j.queue = q OBVIOUS
<1> HIDE DEF q, j
<1>4. Alone(t) /\ pc'[t] = "swap" /\ job'[t] = j BY <1>0, <1>1, MoveAlone
<1>5. t = Main \/ pc'[Main] = pc[Main] BY <1>0, <1>1, Distinct DEF Goto, Shape
<1> QED BY <1>1, <1>2, <1>3, <1>4, <1>5

\* The fiber a worker has just left.
LEMMA LeftFacts ==
  ASSUME FInv, NEW w \in Worker, pc[w] = "switched", prev_fiber[w] # Null
  PROVE  /\ prev_fiber[w] \in Fiber /\ scheduleable[prev_fiber[w]]
         /\ step[prev_fiber[w]] \notin {"unborn", "dead"}
         /\ cur_fiber[w] # prev_fiber[w]
         /\ cur_fiber[w] \in Fiber => ~terminate[cur_fiber[w]] /\ ~descheduled[cur_fiber[w]]
         /\ AfterInsert(w) = "settled"
<1>1. PICK place : Placed(place) /\ Alive(place) BY DEF FInv, Rest, Fibers
<1>2. Stack(w) BY WorkerFacts
<1>3. PICK f \in Fiber : f = prev_fiber[w] BY <1>2 DEF Stack
<1>4. place[f] = <<"prev", w>> BY <1>1, <1>3 DEF Placed
<1>5. scheduleable[f] /\ step[f] \notin {"unborn", "dead"} BY <1>1, <1>4 DEF Alive
<1>6. cur_fiber[w] # f BY <1>1, <1>4 DEF Placed
<1>7. cur_fiber[w] \in Fiber => ~terminate[cur_fiber[w]] /\ ~descheduled[cur_fiber[w]]
  BY FiberFacts DEF Looking
<1>8. AfterInsert(w) = "settled" BY Distinct DEF AfterInsert
<1> QED BY <1>3, <1>5, <1>6, <1>7, <1>8

\* The fiber that was left goes on to a queue, to sleep or to its end.
LEMMA BookkeepRest ==
  ASSUME FInv, NEW w \in Worker, Bookkeep(w)
  PROVE  Rest'
<1>0. /\ w \in Thread /\ Knows(w) /\ Stack(w) /\ Shape /\ IInv /\ Local /\ Flags
      /\ w # Main /\ w \notin Waker BY WorkerFacts
<1>f. PICK f : f = prev_fiber[w] OBVIOUS
<1>1. /\ pc[w] = "switched" /\ f \in Fiber /\ scheduleable[f] /\ step[f] \notin {"unborn", "dead"}
      /\ cur_fiber[w] # f /\ (cur_fiber[w] \in Fiber => ~terminate[cur_fiber[w]] /\ ~descheduled[cur_fiber[w]])
      /\ AfterInsert(w) = "settled"
      /\ Reinsert(w, w, f) \/ Deschedule(w, f) \/ Destroy(w, f)
      /\ UNCHANGED <<queue_vars, waiting, cur_fiber, terminate, priority,
                     waits, ready, asked, stop_workers, deleted>>
  BY <1>f, LeftFacts DEF Bookkeep, reschedule_fiber
<1>2. PICK place, ref, out : Placed(place) /\ Alive(place) /\ Lists(place, ref, out) BY DEF FInv, Rest, Fibers
<1>3. place[f] = <<"prev", w>> BY <1>1, <1>f, <1>2 DEF Placed
<1>4. Ending /\ Live \subseteq Fiber /\ IsFiniteSet(Live) /\ f \in Live
  BY <1>1, ConstantsAssumption, FS_Subset DEF FInv, Rest, Live
<1>5. cur_fiber[w] \in Fiber \cup {Null} /\ cur_fiber'[w] = cur_fiber[w] BY <1>0, <1>1 DEF Stack
<1>6. CASE Reinsert(w, w, f)
  <2>1. /\ ~terminate[f] /\ ~descheduled[f] /\ StartInsert(w, w, f)
        /\ UNCHANGED <<descheduled, scheduleable, step, mutex, fibers_active>> BY <1>6 DEF Reinsert
  <2>2. /\ Alone(w) /\ pc'[w] = "swap" /\ UNCHANGED prev_fiber
        /\ job'[w].fiber = f /\ job'[w].queue \in Queue /\ job'[w].queue[1] = w
        /\ pc'[Main] = pc[Main] BY <1>0, <1>1, <2>1, StartInsertMoves
  <2>3. Knows(w)' /\ Stack(w)'
    <3>1. AfterInsert(w)' = "settled" BY <1>0, <1>1, <1>f, <2>2, Distinct DEF AfterInsert
    <3> QED BY <1>0, <1>1, <1>5, <1>f, <2>2, <3>1 DEF Knows, Stack, Inserting, Looking
  <2>4. WakenStay BY <2>1 DEF WakenStay
  <2>5. Flags' BY <1>0, <1>1, <2>1 DEF Flags
  <2>6. Local' BY <1>0, <2>2, <2>3, <2>4, <2>5, LocalMove DEF Belongs
  <2>7. Fibers'
    <3>1. <<"job", w>> \in Place /\ <<"job", w>>[1] = "job" BY <1>0 DEF Place
    <3>2. terminate[f] => step[f] \in {"start", "run", "dead"} BY FiberFacts, <1>1
    <3>3. PICK p : p = <<"job", w>> OBVIOUS
    <3>4. p \in Place /\ p[1] = "job" BY <3>1, <3>3
    <3> QED BY <1>0, <1>1, <1>2, <1>3, <1>5, <1>f, <2>1, <2>2, <3>2, <3>3, <3>4, MoveFiber
  <2>8. \A x \in Worker : Sleeping(x)' BY <1>0, <1>1, <2>2, SleepSame
  <2>9. Ending'
    <3>1. Live' = Live BY <2>1 DEF Live
    <3>2. \A h \in Fiber : step[h] # "unborn" => step'[h] # "unborn" BY <2>1
    <3>3. \A x \in deleted : (InBase(x) /\ Looking(x))' => InBase(x) /\ Looking(x)
      BY <1>0, <1>1, <2>2, Distinct DEF Alone, Calm, InBase, Looking, Flags
    <3> QED BY <1>1, <1>4, <2>1, <2>2, <3>1, <3>2, <3>3, EndingStays
  <2> QED BY <2>6, <2>7, <2>8, <2>9 DEF Rest
<1>7. CASE Deschedule(w, f)
  <2>1. /\ descheduled[f] /\ step[f] = "lock"
        /\ descheduled' = [descheduled EXCEPT ![f] = FALSE]
        /\ scheduleable' = [scheduleable EXCEPT ![f] = FALSE]
        /\ Inserted(w, {}) /\ UNCHANGED <<step, fibers_active>>
    BY <1>0, <1>1, <1>7 DEF Deschedule, IInv, Held, LeaverHolds
  <2>2. /\ Alone(w) /\ pc'[w] = "settled" /\ prev_fiber'[w] = Null /\ job'[w].fiber = Null
        /\ pc'[Main] = pc[Main]
    <3>1. \A u \in {} : u \in Worker /\ pc[u] = "asleep" OBVIOUS
    <3> QED BY <1>0, <1>1, <2>1, <3>1, InsertedMoves
  <2>3. Knows(w)' /\ Stack(w)' BY <1>0, <1>1, <1>5, <2>2 DEF Knows, Stack, Inserting, Looking
  <2>4. WakenStay BY <2>1 DEF WakenStay
  <2>5. Flags' BY <1>0, <1>1, <2>1 DEF Flags
  <2>6. Local' BY <1>0, <2>2, <2>3, <2>4, <2>5, LocalMove DEF Belongs
  <2>7. Fibers'
    <3>1. <<"none", Null>> \in Place /\ <<"none", Null>>[1] = "none" BY DEF Place
    <3>2. terminate[f] => step[f] \in {"start", "run", "dead"} BY FiberFacts, <1>1
    <3>3. PICK p : p = <<"none", Null>> OBVIOUS
    <3>4. p \in Place /\ p[1] = "none" BY <3>1, <3>3
    <3>5. /\ \A h \in Fiber \ {f} : UNCHANGED <<step[h], scheduleable[h], terminate[h], descheduled[h]>>
          /\ ~descheduled'[f] /\ terminate'[f] = terminate[f] BY <1>0, <1>1, <2>1 DEF Shape, Flags
    <3>6. prev_fiber'[w] # f BY <1>1, <2>2, Distinct
    <3>7. /\ place[f] \in {<<"cur", w>>, <<"prev", w>>, <<"job", w>>, <<"none", Null>>} /\ p[1] # "queue"
          /\ pc'[w] \notin {"found", "pick", "swap"} /\ pc'[w] \notin {"link", "link_sentinel", "take"}
          /\ step'[f] = "lock" /\ (terminate'[f] => step'[f] \in {"start", "run", "dead"})
          /\ p[1] # "job" /\ p[1] # "cur" /\ cur_fiber'[w] # f
          /\ cur_fiber'[w] \in Fiber => ~terminate[cur_fiber'[w]] /\ ~descheduled[cur_fiber'[w]]
      BY <1>1, <1>3, <1>5, <2>1, <2>2, <3>2, <3>4, <3>5
    <3>8. FInv /\ f \in Fiber /\ w \in Thread /\ UNCHANGED queue_vars BY <1>0, <1>1
    <3> QED BY ONLY <1>2, <1>5, <2>2, <3>3, <3>4, <3>5, <3>6, <3>7, <3>8, MoveFiber
  <2>8. \A x \in Worker : Sleeping(x)' BY <1>0, <1>1, <2>2, SleepSame
  <2>9. Ending'
    <3>1. Live' = Live BY <2>1 DEF Live
    <3>2. \A h \in Fiber : step[h] # "unborn" => step'[h] # "unborn" BY <2>1
    <3>3. \A x \in deleted : (InBase(x) /\ Looking(x))' => InBase(x) /\ Looking(x)
      BY <1>0, <1>1, <2>2, Distinct DEF Alone, Calm, InBase, Looking, Flags
    <3> QED BY <1>1, <1>4, <2>1, <2>2, <3>1, <3>2, <3>3, EndingStays
  <2> QED BY <2>6, <2>7, <2>8, <2>9 DEF Rest
<1>8. CASE Destroy(w, f)
  <2>1. /\ terminate[f] /\ ~descheduled[f]
        /\ step' = [step EXCEPT ![f] = "dead"]
        /\ fibers_active' = fibers_active - 1
        /\ prev_fiber' = [prev_fiber EXCEPT ![w] = Null]
        /\ Goto(w, IF fibers_active = 1 THEN "signal_join" ELSE "settled")
        /\ UNCHANGED <<descheduled, scheduleable, job>> BY <1>8 DEF Destroy
  <2>2. /\ Alone(w) /\ pc'[w] \in {"settled", "signal_join"} /\ prev_fiber'[w] = Null /\ job'[w] = job[w]
        /\ pc'[Main] = pc[Main] BY <1>0, <1>1, <2>1, Distinct DEF Alone, Calm, Goto, Shape
  <2>3. Knows(w)' /\ Stack(w)' BY <1>0, <1>1, <1>5, <2>2 DEF Knows, Stack, Inserting, Looking
  <2>a. step[f] # "lock" BY <1>1, <2>1, FiberFacts
  <2>b. /\ step'[f] = "dead" /\ \A h \in Fiber \ {f} : step'[h] = step[h] BY <1>0, <1>1, <2>1 DEF Shape
  <2>4. WakenStay BY <2>a, <2>b DEF WakenStay
  <2>5. Flags' BY <1>0, <1>1, <2>1 DEF Flags
  <2>6. Local' BY <1>0, <2>2, <2>3, <2>4, <2>5, LocalMove DEF Belongs
  <2>7. Fibers'
    <3>1. <<"none", Null>> \in Place /\ <<"none", Null>>[1] = "none" BY DEF Place
    <3>3. PICK p : p = <<"none", Null>> OBVIOUS
    <3>4. p \in Place /\ p[1] = "none" BY <3>1, <3>3
    <3>6. prev_fiber'[w] # f BY <1>1, <2>2, Distinct
    <3> QED BY <1>0, <1>1, <1>2, <1>3, <1>5, <2>1, <2>2, <2>b, <3>3, <3>4, <3>6, MoveFiber
  <2>8. \A x \in Worker : Sleeping(x)' BY <1>0, <1>1, <2>2, SleepSame
  <2>9. Ending'
    <3>1. Live' = Live \ {f} BY <1>1, <2>b DEF Live
    <3>2. Cardinality(Live') = Cardinality(Live) - 1 BY <1>4, <3>1, FS_RemoveElement
    <3>3. \A x \in deleted : (InBase(x) /\ Looking(x))' => InBase(x) /\ Looking(x)
      BY <1>0, <1>1, <2>2, Distinct DEF Alone, Calm, InBase, Looking, Flags
    <3>4. \A h \in Fiber : step[h] # "unborn" => step'[h] # "unborn" BY <2>b
    <3>5. stop_workers' = stop_workers /\ deleted' = deleted BY <1>1
    <3>7. fibers_active' = Cardinality(Live') BY <1>4, <2>1, <3>2 DEF Ending
    <3>8. stop_workers' => Live' = {} BY <1>4, <3>1, <3>5 DEF Ending
    <3> QED BY <1>4, <2>2, <3>3, <3>4, <3>5, <3>7, <3>8 DEF Ending
  <2> QED BY <2>6, <2>7, <2>8, <2>9 DEF Rest
<1> QED BY <1>1, <1>6, <1>7, <1>8

\* The fiber that was woken goes on to a queue.
LEMMA PickWorkerRest ==
  ASSUME FInv, NEW t \in Worker \cup Waker, PickWorker(t)
  PROVE  Rest'
<1>0. /\ t \in Thread /\ Knows(t) /\ (t \in Worker => Stack(t)) /\ Shape /\ IInv /\ Local /\ Flags /\ t # Main
  BY ThreadFacts, Distinct
<1>f. PICK f : f = job[t].fiber OBVIOUS
<1>1. /\ pc[t] = "pick" /\ f \in Fiber /\ (t \in Worker => prev_fiber[t] = Null)
      /\ t \in Worker /\ cur_fiber[t] \in Fiber => ~terminate[cur_fiber[t]] /\ ~descheduled[cur_fiber[t]]
  BY <1>f, WakerFacts DEF PickWorker
<1>2. PICK place, ref, out : Placed(place) /\ Alive(place) /\ Lists(place, ref, out) BY DEF FInv, Rest, Fibers
<1>3. place[f] = <<"job", t>> BY <1>0, <1>1, <1>f, <1>2 DEF Placed
<1>4. ~terminate[f] /\ ~descheduled[f] /\ scheduleable[f] /\ step[f] = "lock"
  <2>1. ~terminate[f] /\ ~descheduled[f] /\ scheduleable[f] BY <1>1, <1>2, <1>3 DEF Alive
  <2>2. step[f] = "lock" BY <1>0, <1>1, <1>f DEF Knows
  <2> QED BY <2>1, <2>2
<1>5. PICK v \in Worker : Reinsert(t, v, f)
  BY <1>4, <1>f DEF PickWorker, PickableWorkers, reschedule_fiber, Deschedule, Destroy
<1>6. /\ StartInsert(t, v, f)
      /\ UNCHANGED <<queue_vars, waiting, cur_fiber, terminate, priority, descheduled, scheduleable, step, mutex,
                     waits, ready, asked, stop_workers, deleted, fibers_active>>
  BY <1>5 DEF PickWorker, reschedule_fiber, Reinsert
<1>7. /\ Alone(t) /\ pc'[t] = "swap" /\ UNCHANGED prev_fiber
      /\ job'[t].fiber = f /\ job'[t].queue \in Queue /\ pc'[Main] = pc[Main]
  BY <1>0, <1>1, <1>4, <1>6, StartInsertMoves
<1>8. Knows(t)' BY <1>1, <1>4, <1>6, <1>7 DEF Knows, Inserting
<1>9. t \in Worker => Stack(t)' BY <1>0, <1>1, <1>6, <1>7 DEF Stack, Inserting, Looking
<1>10. WakenStay BY <1>6 DEF WakenStay
<1>11. Flags' BY <1>0, <1>6 DEF Flags
<1>12. Local' BY <1>0, <1>7, <1>8, <1>9, <1>10, <1>11, LocalMove, Distinct DEF Belongs
<1>13. Fibers'
  <2>1. /\ pc[t] \in {"found", "pick", "swap"} /\ job'[t].fiber = job[t].fiber
        /\ pc'[t] \notin {"link", "link_sentinel"} /\ pc'[t] # "take"
        /\ t \in Worker => prev_fiber'[t] \notin Fiber BY <1>1, <1>f, <1>7, Distinct
  <2> QED BY <1>0, <1>1, <1>6, <1>7, <2>1, FibersStay, FiberFacts
<1>14. \A x \in Worker : Sleeping(x)' BY <1>0, <1>1, <1>6, <1>7, SleepSame
<1>15. Ending'
  <2>0. Ending BY DEF FInv, Rest
  <2>1. Live' = Live BY <1>6 DEF Live
  <2>2. \A h \in Fiber : step[h] # "unborn" => step'[h] # "unborn" BY <1>6
  <2>3. \A x \in deleted : (InBase(x) /\ Looking(x))' => InBase(x) /\ Looking(x)
    BY <1>0, <1>6, <1>7, Distinct DEF Alone, Calm, InBase, Looking, Flags
  <2> QED BY <1>6, <1>7, <2>0, <2>1, <2>2, <2>3, EndingStays
<1> QED BY <1>12, <1>13, <1>14, <1>15 DEF Rest

\* A thread takes a fiber that nobody has.
LEMMA TakeUp ==
  ASSUME FInv, NEW t \in Thread, Alone(t), UNCHANGED <<queue_vars, cur_fiber, prev_fiber>>,
         t \in Worker => prev_fiber[t] = Null,
         t \in Worker /\ cur_fiber[t] \in Fiber => ~terminate[cur_fiber[t]] /\ ~descheduled[cur_fiber[t]],
         NEW f \in Fiber, step[f] = "unborn" \/ ~scheduleable[f],
         pc'[t] \in {"pick", "swap"}, job'[t].fiber = f,
         \A h \in Fiber \ {f} : UNCHANGED <<step[h], scheduleable[h], terminate[h], descheduled[h]>>,
         step'[f] \notin {"unborn", "dead"}, scheduleable'[f], ~descheduled'[f], terminate'[f] = terminate[f]
  PROVE  Fibers'
<1>1. PICK place, ref, out : Placed(place) /\ Alive(place) /\ Lists(place, ref, out) BY DEF FInv, Rest, Fibers
<1>2. place[f] = <<"none", Null>> /\ ~terminate[f] BY <1>1 DEF Alive
<1>3. t \in Worker => cur_fiber[t] # f BY <1>1, <1>2 DEF Placed
<1>4. PICK p : p = <<"job", t>> OBVIOUS
<1>5. p \in Place /\ p[1] = "job" BY <1>4 DEF Place
<1>6. /\ place[f] \in {<<"cur", t>>, <<"prev", t>>, <<"job", t>>, <<"none", Null>>} /\ p[1] # "queue"
      /\ pc'[t] \notin {"link", "link_sentinel", "take"}
      /\ p[1] # "cur" /\ ~terminate'[f]
      /\ t \in Worker => cur_fiber'[t] # f /\ cur_fiber'[t] = cur_fiber[t] /\ prev_fiber'[t] = Null /\ prev_fiber'[t] # f
      /\ t \in Worker /\ cur_fiber'[t] \in Fiber => ~terminate[cur_fiber'[t]] /\ ~descheduled[cur_fiber'[t]]
  BY <1>2, <1>3, <1>5, Distinct
<1> QED BY <1>1, <1>4, <1>5, <1>6, MoveFiber

\* schedule_tid() takes the sleeping fiber.
LEMMA ScheduleSleepingRest ==
  ASSUME FInv, NEW t \in Worker \cup Waker, schedule_tid(t), ~scheduleable[job[t].fiber]
  PROVE  Rest'
<1>0. /\ t \in Thread /\ Knows(t) /\ (t \in Worker => Stack(t)) /\ Shape /\ IInv /\ Local /\ Flags /\ t # Main
  BY ThreadFacts, Distinct
<1>f. PICK f : f = job[t].fiber OBVIOUS
<1>1. /\ pc[t] = "schedule_tid" /\ f \in Fiber /\ (t \in Worker => prev_fiber[t] = Null)
      /\ t \in Worker /\ cur_fiber[t] \in Fiber => ~terminate[cur_fiber[t]] /\ ~descheduled[cur_fiber[t]]
      /\ Goto(t, "pick") /\ job' = job
      /\ descheduled' = [descheduled EXCEPT ![f] = FALSE]
      /\ scheduleable' = [scheduleable EXCEPT ![f] = TRUE]
      /\ priority' = [priority EXCEPT ![f] = TRUE]
      /\ UNCHANGED <<queue_vars, worker_vars, terminate, user_vars, end_vars>>
  BY <1>f, WakerFacts DEF schedule_tid
<1>2. ~scheduleable[f] /\ step[f] = "lock" BY <1>1, <1>f, FiberFacts
<1>4. Alone(t) /\ pc'[t] = "pick" /\ job'[t] = job[t] /\ pc'[Main] = pc[Main]
  <2>1. Goto(t, "pick") /\ UNCHANGED <<job, cur_fiber, prev_fiber, waiting>> BY <1>1 DEF worker_vars
  <2>2. pc'[Main] = pc[Main] BY <1>0, <2>1, Distinct DEF Goto, Shape
  <2> QED BY <1>0, <2>1, <2>2, StayAlone
<1>5. Knows(t)' BY <1>1, <1>2, <1>4, <1>f DEF Knows, Inserting, user_vars
<1>6. t \in Worker => Stack(t)' BY <1>0, <1>1, <1>4 DEF Stack, Inserting, Looking, worker_vars
<1>7. WakenStay BY <1>1 DEF WakenStay, user_vars
<1>8. Flags' BY <1>0, <1>1 DEF Flags, user_vars, end_vars, worker_vars
<1>9. Local' BY <1>0, <1>4, <1>5, <1>6, <1>7, <1>8, LocalMove, Distinct DEF Belongs
<1>10. Fibers'
  <2>1. /\ \A h \in Fiber \ {f} : UNCHANGED <<step[h], scheduleable[h], terminate[h], descheduled[h]>>
        /\ step'[f] \notin {"unborn", "dead"} /\ scheduleable'[f] /\ ~descheduled'[f] /\ terminate'[f] = terminate[f]
        /\ UNCHANGED <<queue_vars, cur_fiber, prev_fiber>> /\ job'[t].fiber = f
    BY <1>0, <1>1, <1>2, <1>4, <1>f DEF Shape, Flags, user_vars, worker_vars
  <2> QED BY ZenonT(60), <1>0, <1>1, <1>2, <1>4, <2>1, TakeUp
<1>11. \A x \in Worker : Sleeping(x)' BY <1>0, <1>1, <1>4, SleepSame
<1>12. Ending'
  <2>0. Ending BY DEF FInv, Rest
  <2>1. Live' = Live BY <1>1 DEF Live, user_vars
  <2>2. \A h \in Fiber : step[h] # "unborn" => step'[h] # "unborn" BY <1>1 DEF user_vars
  <2>3. \A x \in deleted : (InBase(x) /\ Looking(x))' => InBase(x) /\ Looking(x)
    BY <1>0, <1>1, <1>4, Distinct DEF Alone, Calm, InBase, Looking, Flags, worker_vars
  <2> QED BY <1>1, <1>4, <2>0, <2>1, <2>2, <2>3, EndingStays DEF end_vars
<1> QED BY <1>9, <1>10, <1>11, <1>12 DEF Rest

\* launch() makes a fiber and takes it.
LEMMA LaunchRest ==
  ASSUME FInv, launch
  PROVE  Rest'
<1>a. pc[Main] = "launch" BY DEF launch
<1>0. /\ Main \in Thread /\ Main \notin Worker \cup Waker /\ Shape /\ IInv /\ Local /\ Flags /\ Ending
      /\ Live \subseteq Fiber /\ IsFiniteSet(Live) /\ Cardinality(Live) \in Nat BY <1>a, MainFacts
<1>1. PICK f \in Fiber, v \in Worker :
        step[f] = "unborn" /\ step' = [step EXCEPT ![f] = "start"] /\ StartInsert(Main, v, f)
  BY DEF launch
<1>2. /\ fibers_active' = fibers_active + 1
      /\ UNCHANGED <<queue_vars, waiting, cur_fiber, fiber_vars, waits, mutex, ready, asked,
                     stop_workers, deleted>> BY DEF launch
<1>3. scheduleable[f] /\ ~terminate[f] /\ ~descheduled[f]
  <2>1. PICK place : Alive(place) BY DEF FInv, Rest, Fibers
  <2>2. scheduleable[f] /\ ~terminate[f] BY <1>1, <2>1 DEF Alive
  <2>3. ~descheduled[f] BY <1>0, <1>1 DEF IInv, Held, LeaverHolds
  <2> QED BY <2>2, <2>3
<1>4. /\ Alone(Main) /\ pc'[Main] = "swap" /\ UNCHANGED prev_fiber
      /\ job'[Main].fiber = f /\ job'[Main].queue \in Queue BY <1>0, <1>1, <1>2, <1>3, StartInsertMoves
<1>5. step'[f] = "start" /\ \A h \in Fiber \ {f} : step'[h] = step[h] BY <1>0, <1>1 DEF Shape
<1>6. Knows(Main)' BY Distinct, <1>1, <1>4 DEF AfterInsert, Knows, Inserting
<1>7. WakenStay BY <1>1, <1>5 DEF WakenStay
<1>8. Flags' BY <1>0, <1>2 DEF Flags, fiber_vars
<1>9. Local' BY <1>0, <1>4, <1>6, <1>7, <1>8, LocalMove DEF Belongs
<1>10. Fibers'
  <2>1. /\ \A h \in Fiber \ {f} : UNCHANGED <<step[h], scheduleable[h], terminate[h], descheduled[h]>>
        /\ step'[f] \notin {"unborn", "dead"} /\ scheduleable'[f] /\ ~descheduled'[f] /\ terminate'[f] = terminate[f]
        /\ UNCHANGED <<queue_vars, cur_fiber, prev_fiber>> BY <1>2, <1>3, <1>4, <1>5 DEF fiber_vars
  <2> QED BY <1>0, <1>1, <1>4, <2>1, TakeUp
<1>11. \A x \in Worker : Sleeping(x)' BY <1>0, <1>a, <1>2, <1>4, SleepSame
<1>12. Ending'
  <2>1. Live' = Live \cup {f} /\ f \notin Live BY <1>1, <1>5 DEF Live
  <2>2. Cardinality(Live') = Cardinality(Live) + 1 BY <1>0, <2>1, FS_AddElement
  <2>3. fibers_active' = Cardinality(Live') BY <1>0, <1>2, <2>2 DEF Ending
  <2>4. ~stop_workers /\ deleted = {} BY <1>a, <1>0 DEF Ending
  <2> QED BY <1>2, <1>4, <2>3, <2>4 DEF Ending
<1> QED BY <1>9, <1>10, <1>11, <1>12 DEF Rest

-----------------------------------------------------------------------------
(* Steps in the queues.                                                    *)

\* Nodes of different queues are different; what leads to a fiber is one thing.
LEMMA OneQueue ==
  ASSUME NEW place, NEW n, NEW q \in Queue, NEW r \in Queue, Listed(place, n, q), Listed(place, n, r)
  PROVE  q = r BY Distinct DEF Listed

\* Only nodes are in a list.
LEMMA ListedNode ==
  ASSUME NEW place, NEW n, NEW q \in Queue, Listed(place, n, q)
  PROVE  n \in Node BY Distinct DEF Listed

\* What Lists says of the links, the ends and the lists taken out.
LEMMA LinksOf ==
  ASSUME NEW place, NEW ref, NEW out, Lists(place, ref, out)
  PROVE  /\ ref \in [Fiber -> Ref] /\ out \in [Node -> Out]
         /\ \A q \in Queue : \A n : Listed(place, n, q) /\ next[n] # Null =>
              /\ out[n] = <<"next", Null>>
              /\ \/ n \in Fiber /\ next[n] = q
                 \/ /\ next[n] \in Fiber /\ place[next[n]] = <<"queue", q>>
                    /\ ref[next[n]] = <<"next", n>>
         /\ \A q \in Queue :
              /\ Listed(place, tail[q], q) /\ out[tail[q]] = <<"tail", q>> /\ tail[q] \in Node
              /\ popped[q] # Null =>
                   /\ popped[q] \in Fiber /\ place[popped[q]] = <<"queue", q>>
                   /\ ref[popped[q]] = <<"popped", q>> BY ListedNode DEF Lists

\* A thread that links, when another one moves.
LEMMA LinkerOf ==
  ASSUME Local, NEW place, NEW ref, NEW out, Lists(place, ref, out),
         NEW t \in Thread, Alone(t), NEW u \in Thread \ {t}, pc'[u] \in {"link", "link_sentinel"}
  PROVE  /\ pc[u] = pc'[u] /\ job'[u] = job[u]
         /\ job[u].fiber \in Fiber /\ job[u].queue \in Queue
         /\ place[job[u].fiber] = <<"queue", job[u].queue>>
         /\ ref[job[u].fiber] = <<"thread", u>>
         /\ Listed(place, job[u].pred, job[u].queue)
         /\ out[job[u].pred] = <<"thread", u>> /\ job[u].pred \in Node
<1>1. pc[u] = pc'[u] /\ job'[u] = job[u] BY DEF Alone, Calm
<1>2. u \in Worker \/ pc[u] = "link" BY <1>1 DEF Local, Others, Inserting, Thread
<1>3. job[u].fiber \in Fiber /\ job[u].queue \in Queue BY <1>1, <1>2 DEF Local, Knows, Stack, Inserting
<1>4. /\ place[job[u].fiber] = <<"queue", job[u].queue>> /\ ref[job[u].fiber] = <<"thread", u>>
      /\ Listed(place, job[u].pred, job[u].queue) /\ out[job[u].pred] = <<"thread", u>> BY <1>1 DEF Lists
<1> QED BY <1>1, <1>3, <1>4, ListedNode

\* A worker that removes, when another thread moves.
LEMMA RemoverOf ==
  ASSUME Local, NEW place, NEW ref, NEW out, Lists(place, ref, out),
         NEW t \in Thread, Alone(t), NEW w \in Worker \ {t}, pc'[w] \in {"link_sentinel", "take"}
  PROVE  /\ pc[w] = pc'[w] /\ job'[w] = job[w] /\ job[w].queue \in Queue /\ job[w].queue[1] = w
         /\ pc[w] = "link_sentinel" => popped[job[w].queue] = Null /\ job[w].pred \in Fiber
         /\ pc[w] = "take" => popped[job[w].queue] = job[w].fiber
<1>1. pc[w] = pc'[w] /\ job'[w] = job[w] BY Distinct DEF Alone, Calm
<1> QED BY <1>1 DEF Lists, Local, Stack

\* What Lists asks of each queue, link and thread.
LEMMA ListsFrom ==
  ASSUME NEW place, NEW ref, NEW out, ref \in [Fiber -> Ref], out \in [Node -> Out],
         \A q \in Queue, n \in Node : Listed(place, n, q) /\ next'[n] # Null =>
           /\ out[n] = <<"next", Null>>
           /\ \/ n \in Fiber /\ next'[n] = q
              \/ /\ next'[n] \in Fiber /\ place[next'[n]] = <<"queue", q>>
                 /\ ref[next'[n]] = <<"next", n>>,
         \A q \in Queue :
           /\ Listed(place, tail'[q], q) /\ out[tail'[q]] = <<"tail", q>>
           /\ popped'[q] # Null =>
                /\ popped'[q] \in Fiber /\ place[popped'[q]] = <<"queue", q>>
                /\ ref[popped'[q]] = <<"popped", q>>,
         \A t \in Thread : pc'[t] \in {"link", "link_sentinel"} =>
           /\ place[job'[t].fiber] = <<"queue", job'[t].queue>>
           /\ ref[job'[t].fiber] = <<"thread", t>>
           /\ Listed(place, job'[t].pred, job'[t].queue)
           /\ out[job'[t].pred] = <<"thread", t>>,
         \A w \in Worker :
           /\ pc'[w] = "link_sentinel" => popped'[job'[w].queue] = Null /\ job'[w].pred \in Fiber
           /\ pc'[w] = "take" => popped'[job'[w].queue] = job'[w].fiber
  PROVE  Lists(place, ref, out)' BY DEF Lists, Listed

-----------------------------------------------------------------------------
\* The fiber becomes the tail; who exchanged it has the old tail to link.
LEMMA SwapLists ==
  ASSUME FInv, NEW t \in Thread, Swap(t), Alone(t), pc'[t] = "link",
         NEW place, NEW ref, NEW out, Lists(place, ref, out),
         NEW f \in Fiber, NEW q \in Queue, NEW p, f = job[t].fiber, q = job[t].queue, p = tail[q],
         job'[t].fiber = f, job'[t].queue = q, job'[t].pred = p,
         NEW place2, place2[f] = <<"queue", q>>, \A g \in Fiber \ {f} : place2[g] = place[g],
         place[f] = <<"job", t>>,
         NEW ref2 \in [Fiber -> Ref], ref2[f] = <<"thread", t>>, \A g \in Fiber \ {f} : ref2[g] = ref[g],
         NEW out2 \in [Node -> Out], out2[f] = <<"tail", q>>, out2[p] = <<"thread", t>>,
         \A n \in Node \ {f, p} : out2[n] = out[n]
  PROVE  Lists(place2, ref2, out2)'
<1>0. Shape /\ Local BY ThreadFacts
<1>a. /\ next'[f] = Null /\ \A n \in Node \ {f} : next'[n] = next[n]
      /\ tail'[q] = f /\ \A r \in Queue \ {q} : tail'[r] = tail[r]
      /\ popped' = popped BY <1>0, Distinct DEF Swap, Shape
<1>b. /\ \A r \in Queue : \A n : Listed(place, n, r) /\ next[n] # Null =>
              /\ out[n] = <<"next", Null>>
              /\ \/ n \in Fiber /\ next[n] = r
                 \/ /\ next[n] \in Fiber /\ place[next[n]] = <<"queue", r>>
                    /\ ref[next[n]] = <<"next", n>>
      /\ \A r \in Queue :
              /\ Listed(place, tail[r], r) /\ out[tail[r]] = <<"tail", r>> /\ tail[r] \in Node
              /\ popped[r] # Null =>
                   /\ popped[r] \in Fiber /\ place[popped[r]] = <<"queue", r>>
                   /\ ref[popped[r]] = <<"popped", r>> BY LinksOf, SMTT(30)
<1>1. Listed(place, p, q) /\ out[p] = <<"tail", q>> /\ p \in Node BY <1>b
<1>2. p # f BY SMTT(30), <1>1, Distinct DEF Listed
<1>7. \A n, r : n # f => (Listed(place2, n, r) <=> Listed(place, n, r)) BY DEF Listed
<1>8. \A g, r : g \in Fiber /\ place[g] = <<"queue", r>> => g # f /\ place2[g] = place[g] /\ ref2[g] = ref[g]
  OBVIOUS
<1>c. \A n, r : r \in Queue /\ Listed(place, n, r) => n # f BY Distinct DEF Listed
<1>9. ASSUME NEW r \in Queue, NEW n \in Node, Listed(place2, n, r), next'[n] # Null
      PROVE  /\ out2[n] = <<"next", Null>>
             /\ \/ n \in Fiber /\ next'[n] = r
                \/ /\ next'[n] \in Fiber /\ place2[next'[n]] = <<"queue", r>>
                   /\ ref2[next'[n]] = <<"next", n>>
  <2>1. n # f /\ next'[n] = next[n] BY <1>a, <1>9
  <2>2. Listed(place, n, r) BY <1>7, <1>9, <2>1
  <2>a. r \in Queue /\ Listed(place, n, r) /\ next[n] # Null BY <1>9, <2>1, <2>2
  <2>3. /\ out[n] = <<"next", Null>>
        /\ \/ n \in Fiber /\ next[n] = r
           \/ /\ next[n] \in Fiber /\ place[next[n]] = <<"queue", r>>
              /\ ref[next[n]] = <<"next", n>> BY ONLY <1>b, <2>a
  <2>4. n # p BY <1>1, <2>3
  <2>5. out2[n] = out[n] BY <2>1, <2>4
  <2> QED BY ONLY <1>8, <2>1, <2>3, <2>5
<1>10. ASSUME NEW r \in Queue
       PROVE  /\ Listed(place2, tail'[r], r) /\ out2[tail'[r]] = <<"tail", r>>
              /\ popped'[r] # Null =>
                   /\ popped'[r] \in Fiber /\ place2[popped'[r]] = <<"queue", r>>
                   /\ ref2[popped'[r]] = <<"popped", r>>
  <2>a. popped'[r] = popped[r] BY <1>a
  <2>b. popped[r] # Null =>
          /\ popped[r] \in Fiber /\ place[popped[r]] = <<"queue", r>>
          /\ ref[popped[r]] = <<"popped", r>> BY <1>b
  <2>1. popped'[r] # Null =>
                   /\ popped'[r] \in Fiber /\ place2[popped'[r]] = <<"queue", r>>
                   /\ ref2[popped'[r]] = <<"popped", r>>
    <3>1. popped[r] # Null => place2[popped[r]] = place[popped[r]] /\ ref2[popped[r]] = ref[popped[r]]
      BY <1>8, <2>b
    <3> QED BY ONLY <2>a, <2>b, <3>1
  <2>2. CASE r = q BY <1>a, <2>1, <2>2 DEF Listed
  <2>3. CASE r # q
    <3>1. tail'[r] = tail[r] BY <1>a, <2>3
    <3>2. Listed(place, tail[r], r) /\ out[tail[r]] = <<"tail", r>> /\ tail[r] \in Node BY <1>b
    <3>3. tail[r] # p BY <1>1, <2>3, <3>2
    <3>4. tail[r] # f BY <1>c, <3>2
    <3>5. out2[tail[r]] = out[tail[r]] BY <3>2, <3>3, <3>4
    <3> QED BY <1>7, <2>1, <3>1, <3>2, <3>4, <3>5
  <2> QED BY <2>2, <2>3
<1>11. ASSUME NEW u \in Thread, pc'[u] \in {"link", "link_sentinel"}
       PROVE  /\ place2[job'[u].fiber] = <<"queue", job'[u].queue>>
              /\ ref2[job'[u].fiber] = <<"thread", u>>
              /\ Listed(place2, job'[u].pred, job'[u].queue)
              /\ out2[job'[u].pred] = <<"thread", u>>
  <2>1. CASE u = t BY <1>1, <1>2, <1>7, <2>1
  <2>2. CASE u # t
    <3>a. Local /\ Alone(t) /\ Lists(place, ref, out) /\ u \in Thread \ {t} /\ t \in Thread BY <1>0, <2>2
    <3>1. /\ job'[u] = job[u] /\ job[u].fiber \in Fiber /\ job[u].queue \in Queue
          /\ place[job[u].fiber] = <<"queue", job[u].queue>>
          /\ ref[job[u].fiber] = <<"thread", u>>
          /\ Listed(place, job[u].pred, job[u].queue)
          /\ out[job[u].pred] = <<"thread", u>> /\ job[u].pred \in Node BY ONLY <1>11, <3>a, LinkerOf
    <3>2. place2[job[u].fiber] = place[job[u].fiber] /\ ref2[job[u].fiber] = ref[job[u].fiber] BY <1>8, <3>1
    <3>3. job[u].pred # f BY SMTT(30), <1>c, <3>1
    <3>4. job[u].pred # p BY <1>1, <3>1
    <3>5. out2[job[u].pred] = out[job[u].pred] BY <3>1, <3>3, <3>4
    <3>6. Listed(place2, job[u].pred, job[u].queue) BY <1>7, <3>1, <3>3
    <3> QED BY ONLY <3>1, <3>2, <3>5, <3>6
  <2> QED BY <2>1, <2>2
<1>12. ASSUME NEW w \in Worker
       PROVE  /\ pc'[w] = "link_sentinel" => popped'[job'[w].queue] = Null /\ job'[w].pred \in Fiber
              /\ pc'[w] = "take" => popped'[job'[w].queue] = job'[w].fiber BY <1>0, <1>a, RemoverOf
<1>13. ref2 \in [Fiber -> Ref] /\ out2 \in [Node -> Out] OBVIOUS
<1> QED BY ONLY <1>9, <1>10, <1>11, <1>12, <1>13, ListsFrom

\* The old tail leads to the fiber.
LEMMA LinkLists ==
  ASSUME FInv, NEW t \in Thread, Link(t), Alone(t), pc'[t] = "check",
         NEW place, NEW ref, NEW out, Lists(place, ref, out),
         NEW f \in Fiber, NEW q \in Queue, NEW p, f = job[t].fiber, q = job[t].queue, p = job[t].pred,
         place[f] = <<"queue", q>>, ref[f] = <<"thread", t>>, Listed(place, p, q), out[p] = <<"thread", t>>,
         NEW ref2 \in [Fiber -> Ref], ref2[f] = <<"next", p>>, \A g \in Fiber \ {f} : ref2[g] = ref[g],
         NEW out2 \in [Node -> Out], out2[p] = <<"next", Null>>, \A n \in Node \ {p} : out2[n] = out[n]
  PROVE  Lists(place, ref2, out2)'
<1>0. Shape /\ Local BY ThreadFacts
<1>1. p \in Node BY ListedNode
<1>a. /\ next'[p] = f /\ \A n \in Node \ {p} : next'[n] = next[n]
      /\ tail' = tail /\ popped' = popped BY <1>0, <1>1 DEF Link, Shape
<1>b. /\ \A r \in Queue : \A n : Listed(place, n, r) /\ next[n] # Null =>
              /\ out[n] = <<"next", Null>>
              /\ \/ n \in Fiber /\ next[n] = r
                 \/ /\ next[n] \in Fiber /\ place[next[n]] = <<"queue", r>>
                    /\ ref[next[n]] = <<"next", n>>
      /\ \A r \in Queue :
              /\ Listed(place, tail[r], r) /\ out[tail[r]] = <<"tail", r>> /\ tail[r] \in Node
              /\ popped[r] # Null =>
                   /\ popped[r] \in Fiber /\ place[popped[r]] = <<"queue", r>>
                   /\ ref[popped[r]] = <<"popped", r>> BY LinksOf, SMTT(30)
<1>9. ASSUME NEW r \in Queue, NEW n \in Node, Listed(place, n, r), next'[n] # Null
      PROVE  /\ out2[n] = <<"next", Null>>
             /\ \/ n \in Fiber /\ next'[n] = r
                \/ /\ next'[n] \in Fiber /\ place[next'[n]] = <<"queue", r>>
                   /\ ref2[next'[n]] = <<"next", n>>
  <2>1. CASE n = p
    <3>1. r = q BY <1>9, <2>1, OneQueue
    <3> QED BY <1>a, <2>1, <3>1
  <2>2. CASE n # p
    <3>1. next'[n] = next[n] BY <1>a, <2>2
    <3>a. r \in Queue /\ Listed(place, n, r) /\ next[n] # Null BY <1>9, <3>1
    <3>2. /\ out[n] = <<"next", Null>>
        /\ \/ n \in Fiber /\ next[n] = r
           \/ /\ next[n] \in Fiber /\ place[next[n]] = <<"queue", r>>
              /\ ref[next[n]] = <<"next", n>> BY ONLY <1>b, <3>a
    <3>3. next[n] \in Fiber /\ ref[next[n]] = <<"next", n>> => next[n] # f OBVIOUS
    <3>4. out2[n] = out[n] BY <2>2
    <3>5. next[n] \in Fiber /\ ref[next[n]] = <<"next", n>> => ref2[next[n]] = ref[next[n]] BY <3>3
    <3> QED BY ONLY <3>1, <3>2, <3>4, <3>5
  <2> QED BY <2>1, <2>2
<1>10. ASSUME NEW r \in Queue
       PROVE  /\ Listed(place, tail'[r], r) /\ out2[tail'[r]] = <<"tail", r>>
              /\ popped'[r] # Null =>
                   /\ popped'[r] \in Fiber /\ place[popped'[r]] = <<"queue", r>>
                   /\ ref2[popped'[r]] = <<"popped", r>>
  <2>1. popped[r] # Null =>
                   /\ popped[r] \in Fiber /\ place[popped[r]] = <<"queue", r>>
                   /\ ref[popped[r]] = <<"popped", r>> BY <1>b
  <2>2. popped[r] # Null => popped[r] # f BY <2>1
  <2>3. Listed(place, tail[r], r) /\ out[tail[r]] = <<"tail", r>> /\ tail[r] \in Node BY <1>b
  <2>4. tail[r] # p BY <2>3
  <2> QED BY <1>a, <2>1, <2>2, <2>3, <2>4
<1>11. ASSUME NEW u \in Thread, pc'[u] \in {"link", "link_sentinel"}
       PROVE  /\ place[job'[u].fiber] = <<"queue", job'[u].queue>>
              /\ ref2[job'[u].fiber] = <<"thread", u>>
              /\ Listed(place, job'[u].pred, job'[u].queue)
              /\ out2[job'[u].pred] = <<"thread", u>>
  <2>2. u # t BY <1>11
  <2>a. Local /\ Alone(t) /\ Lists(place, ref, out) /\ u \in Thread \ {t} /\ t \in Thread BY <1>0, <2>2
  <2>3. /\ job'[u] = job[u] /\ job[u].fiber \in Fiber /\ job[u].queue \in Queue
        /\ place[job[u].fiber] = <<"queue", job[u].queue>>
        /\ ref[job[u].fiber] = <<"thread", u>>
        /\ Listed(place, job[u].pred, job[u].queue)
        /\ out[job[u].pred] = <<"thread", u>> /\ job[u].pred \in Node BY ONLY <1>11, <2>a, LinkerOf
  <2>4. job[u].fiber # f /\ job[u].pred # p BY <2>2, <2>3
  <2>5. ref2[job[u].fiber] = ref[job[u].fiber] /\ out2[job[u].pred] = out[job[u].pred] BY <2>3, <2>4
  <2> QED BY ONLY <2>3, <2>5
<1>12. ASSUME NEW x \in Worker
       PROVE  /\ pc'[x] = "link_sentinel" => popped'[job'[x].queue] = Null /\ job'[x].pred \in Fiber
              /\ pc'[x] = "take" => popped'[job'[x].queue] = job'[x].fiber BY <1>0, <1>a, RemoverOf
<1>13. ref2 \in [Fiber -> Ref] /\ out2 \in [Node -> Out] OBVIOUS
<1> QED BY ONLY <1>9, <1>10, <1>11, <1>12, <1>13, ListsFrom

\* The sentinel becomes the tail; the worker has the first fiber and the old tail.
LEMMA DequeueLists ==
  ASSUME FInv, NEW w \in Worker, DequeueAll(w), Alone(w), pc'[w] = "link_sentinel",
         NEW place, NEW ref, NEW out, Lists(place, ref, out),
         NEW q \in Queue, NEW p, NEW h \in Fiber, q = job[w].queue, p = tail[q], h = next[q], p \in Fiber,
         job'[w].fiber = h, job'[w].queue = q, job'[w].pred = p,
         place[h] = <<"queue", q>>, ref[h] = <<"next", q>>, out[q] = <<"next", Null>>,
         NEW ref2 \in [Fiber -> Ref], ref2[h] = <<"thread", w>>, \A g \in Fiber \ {h} : ref2[g] = ref[g],
         NEW out2 \in [Node -> Out], out2[p] = <<"thread", w>>, out2[q] = <<"tail", q>>,
         \A n \in Node \ {p, q} : out2[n] = out[n]
  PROVE  Lists(place, ref2, out2)'
<1>0. Shape /\ Local /\ w \in Thread BY WorkerFacts
<1>a. /\ next'[q] = Null /\ \A n \in Node \ {q} : next'[n] = next[n]
      /\ tail'[q] = q /\ \A r \in Queue \ {q} : tail'[r] = tail[r]
      /\ popped' = popped /\ popped[q] = Null BY SMTT(30), <1>0, Distinct DEF DequeueAll, Shape
<1>b. /\ \A r \in Queue : \A n : Listed(place, n, r) /\ next[n] # Null =>
              /\ out[n] = <<"next", Null>>
              /\ \/ n \in Fiber /\ next[n] = r
                 \/ /\ next[n] \in Fiber /\ place[next[n]] = <<"queue", r>>
                    /\ ref[next[n]] = <<"next", n>>
      /\ \A r \in Queue :
              /\ Listed(place, tail[r], r) /\ out[tail[r]] = <<"tail", r>> /\ tail[r] \in Node
              /\ popped[r] # Null =>
                   /\ popped[r] \in Fiber /\ place[popped[r]] = <<"queue", r>>
                   /\ ref[popped[r]] = <<"popped", r>> BY LinksOf, SMTT(30)
<1>1. Listed(place, p, q) /\ out[p] = <<"tail", q>> /\ p \in Node BY <1>b
<1>9. ASSUME NEW r \in Queue, NEW n \in Node, Listed(place, n, r), next'[n] # Null
      PROVE  /\ out2[n] = <<"next", Null>>
             /\ \/ n \in Fiber /\ next'[n] = r
                \/ /\ next'[n] \in Fiber /\ place[next'[n]] = <<"queue", r>>
                   /\ ref2[next'[n]] = <<"next", n>>
  <2>1. n # q /\ next'[n] = next[n] BY <1>a, <1>9
  <2>a. r \in Queue /\ Listed(place, n, r) /\ next[n] # Null BY <1>9, <2>1
  <2>2. /\ out[n] = <<"next", Null>>
        /\ \/ n \in Fiber /\ next[n] = r
           \/ /\ next[n] \in Fiber /\ place[next[n]] = <<"queue", r>>
              /\ ref[next[n]] = <<"next", n>> BY ONLY <1>b, <2>a
  <2>3. n # p BY SMTT(30), <1>1, <2>2
  <2>4. out2[n] = out[n] BY <2>1, <2>3
  <2>5. next[n] \in Fiber /\ ref[next[n]] = <<"next", n>> => next[n] # h BY SMTT(30), <2>1
  <2>6. next[n] \in Fiber /\ ref[next[n]] = <<"next", n>> => ref2[next[n]] = ref[next[n]] BY SMTT(30), <2>5
  <2> QED BY ONLY <2>1, <2>2, <2>4, <2>6
<1>10. ASSUME NEW r \in Queue
       PROVE  /\ Listed(place, tail'[r], r) /\ out2[tail'[r]] = <<"tail", r>>
              /\ popped'[r] # Null =>
                   /\ popped'[r] \in Fiber /\ place[popped'[r]] = <<"queue", r>>
                   /\ ref2[popped'[r]] = <<"popped", r>>
  <2>1. popped[r] # Null =>
                   /\ popped[r] \in Fiber /\ place[popped[r]] = <<"queue", r>>
                   /\ ref[popped[r]] = <<"popped", r>> BY <1>b
  <2>2. popped[r] # Null => popped[r] # h BY SMTT(30), <2>1
  <2>3. CASE r = q BY SMTT(30), <1>a, <2>3 DEF Listed
  <2>4. CASE r # q
    <3>1. tail'[r] = tail[r] BY SMTT(30), <1>a, <2>4
    <3>2. Listed(place, tail[r], r) /\ out[tail[r]] = <<"tail", r>> /\ tail[r] \in Node BY SMTT(30), <1>b
    <3>3. tail[r] # p /\ tail[r] # q BY SMTT(30), <1>1, <2>4, <3>2
    <3>5. out2[tail[r]] = out[tail[r]] BY SMTT(30), <3>2, <3>3
    <3> QED BY SMTT(30), <1>a, <2>1, <2>2, <3>1, <3>2, <3>5
  <2> QED BY SMTT(30), <2>3, <2>4
<1>11. ASSUME NEW u \in Thread, pc'[u] \in {"link", "link_sentinel"}
       PROVE  /\ place[job'[u].fiber] = <<"queue", job'[u].queue>>
              /\ ref2[job'[u].fiber] = <<"thread", u>>
              /\ Listed(place, job'[u].pred, job'[u].queue)
              /\ out2[job'[u].pred] = <<"thread", u>>
  <2>1. CASE u = w BY <1>1, <2>1
  <2>2. CASE u # w
    <3>a. Local /\ Alone(w) /\ Lists(place, ref, out) /\ u \in Thread \ {w} /\ w \in Thread BY <1>0, <2>2
    <3>1. /\ job'[u] = job[u] /\ job[u].fiber \in Fiber /\ job[u].queue \in Queue
          /\ place[job[u].fiber] = <<"queue", job[u].queue>>
          /\ ref[job[u].fiber] = <<"thread", u>>
          /\ Listed(place, job[u].pred, job[u].queue)
          /\ out[job[u].pred] = <<"thread", u>> /\ job[u].pred \in Node BY ONLY SMTT(30), <1>11, <3>a, LinkerOf
    <3>2. job[u].fiber # h BY SMTT(30), <3>1
    <3>3. job[u].pred # p /\ job[u].pred # q BY SMTT(30), <1>1, <3>1
    <3>4. ref2[job[u].fiber] = ref[job[u].fiber] /\ out2[job[u].pred] = out[job[u].pred] BY SMTT(30), <3>1, <3>2, <3>3
    <3> QED BY ONLY <3>1, <3>4
  <2> QED BY SMTT(30), <2>1, <2>2
<1>12. ASSUME NEW x \in Worker
       PROVE  /\ pc'[x] = "link_sentinel" => popped'[job'[x].queue] = Null /\ job'[x].pred \in Fiber
              /\ pc'[x] = "take" => popped'[job'[x].queue] = job'[x].fiber BY SMTT(30), <1>a, <1>0, RemoverOf
<1>13. ref2 \in [Fiber -> Ref] /\ out2 \in [Node -> Out] OBVIOUS
<1> QED BY ONLY <1>9, <1>10, <1>11, <1>12, <1>13, ListsFrom

\* The old tail leads to the sentinel, and the list that was taken out begins at the fiber.
LEMMA SentinelLists ==
  ASSUME FInv, NEW w \in Worker, LinkSentinel(w), Alone(w), pc'[w] = "take", job'[w] = job[w],
         NEW place, NEW ref, NEW out, Lists(place, ref, out),
         NEW q \in Queue, NEW p \in Fiber, NEW h \in Fiber, q = job[w].queue, p = job[w].pred, h = job[w].fiber,
         q[1] = w,
         place[h] = <<"queue", q>>, ref[h] = <<"thread", w>>, Listed(place, p, q), out[p] = <<"thread", w>>,
         NEW ref2 \in [Fiber -> Ref], ref2[h] = <<"popped", q>>, \A g \in Fiber \ {h} : ref2[g] = ref[g],
         NEW out2 \in [Node -> Out], out2[p] = <<"next", Null>>, \A n \in Node \ {p} : out2[n] = out[n]
  PROVE  Lists(place, ref2, out2)'
<1>0. Shape /\ Local /\ w \in Thread BY WorkerFacts
<1>a. /\ next'[p] = q /\ \A n \in Node \ {p} : next'[n] = next[n]
      /\ popped'[q] = h /\ \A r \in Queue \ {q} : popped'[r] = popped[r]
      /\ tail' = tail BY <1>0, Distinct DEF LinkSentinel, Shape
<1>b. /\ \A r \in Queue : \A n : Listed(place, n, r) /\ next[n] # Null =>
              /\ out[n] = <<"next", Null>>
              /\ \/ n \in Fiber /\ next[n] = r
                 \/ /\ next[n] \in Fiber /\ place[next[n]] = <<"queue", r>>
                    /\ ref[next[n]] = <<"next", n>>
      /\ \A r \in Queue :
              /\ Listed(place, tail[r], r) /\ out[tail[r]] = <<"tail", r>> /\ tail[r] \in Node
              /\ popped[r] # Null =>
                   /\ popped[r] \in Fiber /\ place[popped[r]] = <<"queue", r>>
                   /\ ref[popped[r]] = <<"popped", r>> BY LinksOf, SMTT(30)
<1>9. ASSUME NEW r \in Queue, NEW n \in Node, Listed(place, n, r), next'[n] # Null
      PROVE  /\ out2[n] = <<"next", Null>>
             /\ \/ n \in Fiber /\ next'[n] = r
                \/ /\ next'[n] \in Fiber /\ place[next'[n]] = <<"queue", r>>
                   /\ ref2[next'[n]] = <<"next", n>>
  <2>1. CASE n = p
    <3>1. r = q BY <1>9, <2>1, OneQueue
    <3> QED BY <1>a, <2>1, <3>1
  <2>2. CASE n # p
    <3>1. next'[n] = next[n] BY <1>a, <2>2
    <3>a. r \in Queue /\ Listed(place, n, r) /\ next[n] # Null BY <1>9, <3>1
    <3>2. /\ out[n] = <<"next", Null>>
        /\ \/ n \in Fiber /\ next[n] = r
           \/ /\ next[n] \in Fiber /\ place[next[n]] = <<"queue", r>>
              /\ ref[next[n]] = <<"next", n>> BY ONLY <1>b, <3>a
    <3>3. next[n] \in Fiber /\ ref[next[n]] = <<"next", n>> => next[n] # h OBVIOUS
    <3>4. out2[n] = out[n] BY <2>2
    <3>5. next[n] \in Fiber /\ ref[next[n]] = <<"next", n>> => ref2[next[n]] = ref[next[n]] BY <3>3
    <3> QED BY ONLY <3>1, <3>2, <3>4, <3>5
  <2> QED BY <2>1, <2>2
<1>10. ASSUME NEW r \in Queue
       PROVE  /\ Listed(place, tail'[r], r) /\ out2[tail'[r]] = <<"tail", r>>
              /\ popped'[r] # Null =>
                   /\ popped'[r] \in Fiber /\ place[popped'[r]] = <<"queue", r>>
                   /\ ref2[popped'[r]] = <<"popped", r>>
  <2>3. Listed(place, tail[r], r) /\ out[tail[r]] = <<"tail", r>> /\ tail[r] \in Node BY <1>b
  <2>4. tail[r] # p BY <2>3
  <2>5. Listed(place, tail'[r], r) /\ out2[tail'[r]] = <<"tail", r>> BY <1>a, <2>3, <2>4
  <2>6. CASE r = q BY <1>a, <2>5, <2>6
  <2>7. CASE r # q
    <3>1. popped[r] # Null =>
                   /\ popped[r] \in Fiber /\ place[popped[r]] = <<"queue", r>>
                   /\ ref[popped[r]] = <<"popped", r>> BY <1>b
    <3>2. popped[r] # Null => popped[r] # h BY <3>1
    <3> QED BY <1>a, <2>5, <2>7, <3>1, <3>2
  <2> QED BY <2>6, <2>7
<1>11. ASSUME NEW u \in Thread, pc'[u] \in {"link", "link_sentinel"}
       PROVE  /\ place[job'[u].fiber] = <<"queue", job'[u].queue>>
              /\ ref2[job'[u].fiber] = <<"thread", u>>
              /\ Listed(place, job'[u].pred, job'[u].queue)
              /\ out2[job'[u].pred] = <<"thread", u>>
  <2>2. u # w BY <1>11
  <2>a. Local /\ Alone(w) /\ Lists(place, ref, out) /\ u \in Thread \ {w} /\ w \in Thread BY <1>0, <2>2
  <2>3. /\ job'[u] = job[u] /\ job[u].fiber \in Fiber /\ job[u].queue \in Queue
        /\ place[job[u].fiber] = <<"queue", job[u].queue>>
        /\ ref[job[u].fiber] = <<"thread", u>>
        /\ Listed(place, job[u].pred, job[u].queue)
        /\ out[job[u].pred] = <<"thread", u>> /\ job[u].pred \in Node BY ONLY <1>11, <2>a, LinkerOf
  <2>4. job[u].fiber # h /\ job[u].pred # p BY <2>2, <2>3
  <2>5. ref2[job[u].fiber] = ref[job[u].fiber] /\ out2[job[u].pred] = out[job[u].pred] BY <2>3, <2>4
  <2> QED BY ONLY <2>3, <2>5
<1>12. ASSUME NEW x \in Worker
       PROVE  /\ pc'[x] = "link_sentinel" => popped'[job'[x].queue] = Null /\ job'[x].pred \in Fiber
              /\ pc'[x] = "take" => popped'[job'[x].queue] = job'[x].fiber
  <2>1. CASE x = w BY <1>a, <2>1
  <2>2. CASE x # w
    <3>1. pc'[x] \in {"link_sentinel", "take"} =>
            /\ pc[x] = pc'[x] /\ job'[x] = job[x] /\ job[x].queue \in Queue /\ job[x].queue[1] = x
            /\ pc[x] = "link_sentinel" => popped[job[x].queue] = Null /\ job[x].pred \in Fiber
            /\ pc[x] = "take" => popped[job[x].queue] = job[x].fiber BY <1>0, <2>2, RemoverOf
    <3>2. pc'[x] \in {"link_sentinel", "take"} => popped'[job[x].queue] = popped[job[x].queue]
      BY <1>a, <2>2, <3>1
    <3> QED BY <3>1, <3>2
  <2> QED BY <2>1, <2>2
<1>13. ref2 \in [Fiber -> Ref] /\ out2 \in [Node -> Out] OBVIOUS
<1> QED BY ONLY <1>9, <1>10, <1>11, <1>12, <1>13, ListsFrom

\* The fiber leaves the list that was taken out.
LEMMA TakeLists ==
  ASSUME FInv, NEW w \in Worker, Take(w), Alone(w), pc'[w] = "found",
         NEW place, NEW ref, NEW out, Lists(place, ref, out),
         NEW q \in Queue, NEW f \in Fiber, q = job[w].queue, f = job[w].fiber, q[1] = w,
         popped[q] = f,
         NEW place2, place2[f] = <<"job", w>>, \A g \in Fiber \ {f} : place2[g] = place[g],
         NEW ref2 \in [Fiber -> Ref], next[f] \in Fiber => ref2[next[f]] = <<"popped", q>>,
         \A g \in Fiber \ {next[f]} : ref2[g] = ref[g]
  PROVE  Lists(place2, ref2, out)'
<1>0. Shape /\ Local /\ w \in Thread BY WorkerFacts
<1>b. /\ \A r \in Queue : \A n : Listed(place, n, r) /\ next[n] # Null =>
              /\ out[n] = <<"next", Null>>
              /\ \/ n \in Fiber /\ next[n] = r
                 \/ /\ next[n] \in Fiber /\ place[next[n]] = <<"queue", r>>
                    /\ ref[next[n]] = <<"next", n>>
      /\ \A r \in Queue :
              /\ Listed(place, tail[r], r) /\ out[tail[r]] = <<"tail", r>> /\ tail[r] \in Node
              /\ popped[r] # Null =>
                   /\ popped[r] \in Fiber /\ place[popped[r]] = <<"queue", r>>
                   /\ ref[popped[r]] = <<"popped", r>> BY LinksOf, SMTT(30)
<1>1. place[f] = <<"queue", q>> /\ ref[f] = <<"popped", q>> /\ next[f] # Null BY <1>b, Distinct DEF Take
<1>2. /\ out[f] = <<"next", Null>>
      /\ \/ next[f] = q
         \/ /\ next[f] \in Fiber /\ place[next[f]] = <<"queue", q>>
            /\ ref[next[f]] = <<"next", f>> BY ZenonT(60), <1>1, <1>b DEF Listed
<1>3. next[f] # f BY SMTT(30), <1>1, <1>2, Distinct
<1>a. /\ next' = next /\ tail' = tail
      /\ popped'[q] = (IF next[f] = q THEN Null ELSE next[f]) /\ \A r \in Queue \ {q} : popped'[r] = popped[r]
  BY <1>0 DEF Take, Shape
<1>7. \A n, r : n # f => (Listed(place2, n, r) <=> Listed(place, n, r)) BY DEF Listed
<1>8. \A n, r : r \in Queue /\ Listed(place2, n, r) => n # f BY Distinct DEF Listed
<1>9. ASSUME NEW r \in Queue, NEW n \in Node, Listed(place2, n, r), next'[n] # Null
      PROVE  /\ out[n] = <<"next", Null>>
             /\ \/ n \in Fiber /\ next'[n] = r
                \/ /\ next'[n] \in Fiber /\ place2[next'[n]] = <<"queue", r>>
                   /\ ref2[next'[n]] = <<"next", n>>
  <2>1. n # f /\ Listed(place, n, r) BY <1>7, <1>8, <1>9
  <2>a. r \in Queue /\ Listed(place, n, r) /\ next[n] # Null BY <1>9, <1>a, <2>1
  <2>2. /\ out[n] = <<"next", Null>>
        /\ \/ n \in Fiber /\ next[n] = r
           \/ /\ next[n] \in Fiber /\ place[next[n]] = <<"queue", r>>
              /\ ref[next[n]] = <<"next", n>> BY ONLY <1>b, <2>a
  <2>3. next[n] \in Fiber /\ ref[next[n]] = <<"next", n>> => next[n] # f /\ next[n] # next[f]
    BY SMTT(30), <1>1, <1>2, <2>1, Distinct
  <2>4. next[n] \in Fiber /\ ref[next[n]] = <<"next", n>> =>
          place2[next[n]] = place[next[n]] /\ ref2[next[n]] = ref[next[n]] BY <2>3
  <2>5. next'[n] = next[n] BY <1>a
  <2> QED BY ONLY <2>2, <2>4, <2>5
<1>10. ASSUME NEW r \in Queue
       PROVE  /\ Listed(place2, tail'[r], r) /\ out[tail'[r]] = <<"tail", r>>
              /\ popped'[r] # Null =>
                   /\ popped'[r] \in Fiber /\ place2[popped'[r]] = <<"queue", r>>
                   /\ ref2[popped'[r]] = <<"popped", r>>
  <2>1. Listed(place, tail[r], r) /\ out[tail[r]] = <<"tail", r>> BY <1>b
  <2>2. tail[r] # f BY <1>2, <2>1
  <2>3. Listed(place2, tail'[r], r) /\ out[tail'[r]] = <<"tail", r>> BY <1>7, <1>a, <2>1, <2>2
  <2>4. CASE r = q
    <3>1. CASE next[f] = q BY <1>a, <2>3, <2>4, <3>1
    <3>2. CASE next[f] # q
      <4>1. next[f] \in Fiber /\ place[next[f]] = <<"queue", q>> /\ popped'[q] = next[f]
            /\ place2[next[f]] = place[next[f]] BY <1>2, <1>3, <1>a, <3>2
      <4> QED BY SMTT(30), <2>3, <2>4, <4>1
    <3> QED BY <3>1, <3>2
  <2>5. CASE r # q
    <3>1. popped[r] # Null =>
                   /\ popped[r] \in Fiber /\ place[popped[r]] = <<"queue", r>>
                   /\ ref[popped[r]] = <<"popped", r>> BY <1>b
    <3>2. popped[r] # Null => popped[r] # f /\ popped[r] # next[f] BY SMTT(30), <1>1, <1>2, <2>5, <3>1, Distinct
    <3>3. popped'[r] = popped[r] BY <1>a, <2>5
    <3>4. popped[r] # Null => place2[popped[r]] = place[popped[r]] /\ ref2[popped[r]] = ref[popped[r]]
      BY <3>1, <3>2
    <3> QED BY ONLY <2>3, <3>1, <3>3, <3>4
  <2> QED BY <2>4, <2>5
<1>11. ASSUME NEW u \in Thread, pc'[u] \in {"link", "link_sentinel"}
       PROVE  /\ place2[job'[u].fiber] = <<"queue", job'[u].queue>>
              /\ ref2[job'[u].fiber] = <<"thread", u>>
              /\ Listed(place2, job'[u].pred, job'[u].queue)
              /\ out[job'[u].pred] = <<"thread", u>>
  <2>2. u # w BY <1>11
  <2>a. Local /\ Alone(w) /\ Lists(place, ref, out) /\ u \in Thread \ {w} /\ w \in Thread BY <1>0, <2>2
  <2>3. /\ job'[u] = job[u] /\ job[u].fiber \in Fiber /\ job[u].queue \in Queue
        /\ place[job[u].fiber] = <<"queue", job[u].queue>>
        /\ ref[job[u].fiber] = <<"thread", u>>
        /\ Listed(place, job[u].pred, job[u].queue)
        /\ out[job[u].pred] = <<"thread", u>> /\ job[u].pred \in Node BY ONLY SMTT(30), <1>11, <2>a, LinkerOf
  <2>4. job[u].fiber # f /\ job[u].fiber # next[f] /\ job[u].pred # f BY SMTT(30), <1>1, <1>2, <2>2, <2>3, Distinct
  <2>5. place2[job[u].fiber] = place[job[u].fiber] /\ ref2[job[u].fiber] = ref[job[u].fiber] BY <2>3, <2>4
  <2>6. Listed(place2, job[u].pred, job[u].queue) BY <1>7, <2>3, <2>4
  <2> QED BY ONLY <2>3, <2>5, <2>6
<1>12. ASSUME NEW x \in Worker
       PROVE  /\ pc'[x] = "link_sentinel" => popped'[job'[x].queue] = Null /\ job'[x].pred \in Fiber
              /\ pc'[x] = "take" => popped'[job'[x].queue] = job'[x].fiber
  <2>1. CASE x = w BY <2>1
  <2>2. CASE x # w
    <3>1. pc'[x] \in {"link_sentinel", "take"} =>
            /\ pc[x] = pc'[x] /\ job'[x] = job[x] /\ job[x].queue \in Queue /\ job[x].queue[1] = x
            /\ pc[x] = "link_sentinel" => popped[job[x].queue] = Null /\ job[x].pred \in Fiber
            /\ pc[x] = "take" => popped[job[x].queue] = job[x].fiber BY <1>0, <2>2, RemoverOf
    <3>2. pc'[x] \in {"link_sentinel", "take"} => popped'[job[x].queue] = popped[job[x].queue]
      BY <1>a, <2>2, <3>1
    <3> QED BY <3>1, <3>2
  <2> QED BY <2>1, <2>2
<1>c. out \in [Node -> Out] BY LinksOf
<1>13. ref2 \in [Fiber -> Ref] /\ out \in [Node -> Out] BY <1>c
<1> QED BY ONLY ZenonT(60), <1>9, <1>10, <1>11, <1>12, <1>13, ListsFrom

\* A fiber goes into a list or out of one.
LEMMA PlacedMove ==
  ASSUME NEW place, Placed(place), NEW t \in Thread, Alone(t), UNCHANGED <<cur_fiber, prev_fiber>>,
         NEW f \in Fiber, NEW p, NEW place2 \in [Fiber -> Place], place2[f] = p,
         \A g \in Fiber \ {f} : place2[g] = place[g],
         \A x \in Worker : cur_fiber[x] # f,
         \A x \in Worker : prev_fiber[x] = f =>
           p = IF pc'[x] = "switched" THEN <<"prev", x>>
               ELSE IF pc'[x] = "swap" THEN <<"job", x>> ELSE <<"queue", job'[x].queue>>,
         t \in Worker => prev_fiber[t] \in {f, Null},
         pc'[t] \in {"found", "pick", "swap"} => job'[t].fiber = f /\ p = <<"job", t>>,
         \A u \in Thread \ {t} : pc[u] \in {"found", "pick", "swap"} => job[u].fiber # f
  PROVE  Placed(place2)'
<1>1. ASSUME NEW x \in Worker, NEW h \in Fiber, cur_fiber'[x] = h PROVE place2[h] = <<"cur", x>>
  BY <1>1 DEF Placed
<1>2. ASSUME NEW x \in Worker, NEW h \in Fiber, prev_fiber'[x] = h
      PROVE  place2[h] = IF pc'[x] = "switched" THEN <<"prev", x>>
                         ELSE IF pc'[x] = "swap" THEN <<"job", x>> ELSE <<"queue", job'[x].queue>>
  <2>1. CASE h = f BY <1>2, <2>1
  <2>2. CASE h # f BY <1>2, <2>2, Distinct DEF Alone, Calm, Placed
  <2> QED BY <2>1, <2>2
<1>3. ASSUME NEW u \in Thread, NEW h \in Fiber, job'[u].fiber = h, pc'[u] \in {"found", "pick", "swap"}
      PROVE  place2[h] = <<"job", u>>
  <2>1. CASE u = t BY <1>3, <2>1
  <2>2. CASE u # t BY <1>3, <2>2 DEF Alone, Calm, Placed
  <2> QED BY <2>1, <2>2
<1> QED BY ZenonT(60), <1>1, <1>2, <1>3 DEF Placed

\* A step of t in a queue.
LEMMA QueueStep ==
  ASSUME FInv, NEW t \in Thread, Alone(t), UNCHANGED <<worker_vars, fiber_vars, user_vars, end_vars>>,
         Knows(t)', t \in Worker => Stack(t)', Belongs(t, pc'[t]),
         pc'[Main] = pc[Main] \/ (t = Main /\ Inserting(t) /\ Inserting(t)'),
         Looking(t)' <=> Looking(t),
         NEW place, Alive(place),
         NEW place2, NEW ref2, NEW out2, Placed(place2)', Lists(place2, ref2, out2)',
         \A f \in Fiber : place2[f] = place[f] \/ {place[f][1], place2[f][1]} \subseteq {"queue", "job"},
         \A x \in Worker : Sleeping(x)'
  PROVE  Rest'
<1>0. Shape /\ IInv /\ Local /\ Flags /\ Ending BY ThreadFacts DEF FInv, Rest
<1>1. WakenStay BY DEF WakenStay, user_vars
<1>2. Flags' BY <1>0 DEF Flags, fiber_vars, user_vars, end_vars, worker_vars
<1>3. Local' BY <1>0, <1>1, <1>2, LocalMove
<1>4. Alive(place2)'
  <2> SUFFICES ASSUME NEW h \in Fiber
               PROVE  /\ step'[h] = "unborn" => scheduleable'[h] /\ ~terminate'[h]
                      /\ step'[h] \in {"unborn", "dead"} \/ ~scheduleable'[h] => place2[h] = <<"none", Null>>
                      /\ ~scheduleable'[h] => step'[h] = "lock"
                      /\ terminate'[h] => step'[h] \in {"start", "run", "dead"}
                      /\ place2[h][1] \in {"queue", "job"} => ~terminate'[h] /\ ~descheduled'[h]
                      /\ \A x \in Worker : cur_fiber'[x] = h /\ (terminate'[h] \/ descheduled'[h]) => Looking(x)'
    BY DEF Alive
  <2>1. UNCHANGED <<step, scheduleable, terminate, descheduled, cur_fiber>> BY DEF user_vars, fiber_vars, worker_vars
  <2>2. /\ step[h] = "unborn" => scheduleable[h] /\ ~terminate[h]
        /\ step[h] \in {"unborn", "dead"} \/ ~scheduleable[h] => place[h] = <<"none", Null>>
        /\ ~scheduleable[h] => step[h] = "lock"
        /\ terminate[h] => step[h] \in {"start", "run", "dead"}
        /\ place[h][1] \in {"queue", "job"} => ~terminate[h] /\ ~descheduled[h] BY DEF Alive
  <2>3. step[h] \in {"unborn", "dead"} \/ ~scheduleable[h] => place2[h] = place[h] BY <2>2
  <2>4. place2[h][1] \in {"queue", "job"} => place[h][1] \in {"queue", "job"} OBVIOUS
  <2>5. ASSUME NEW x \in Worker, cur_fiber'[x] = h, terminate'[h] \/ descheduled'[h] PROVE Looking(x)'
    BY <2>1, <2>5, Distinct DEF Alive, Alone, Calm, Looking
  <2> QED BY <2>1, <2>2, <2>3, <2>4, <2>5
<1>5. Fibers' BY <1>4 DEF Fibers
<1>6. Ending'
  <2>1. Live' = Live BY DEF Live, user_vars
  <2>2. \A h \in Fiber : step[h] # "unborn" => step'[h] # "unborn" BY DEF user_vars
  <2>3. \A x \in deleted : (InBase(x) /\ Looking(x))' => InBase(x) /\ Looking(x)
    BY <1>0, Distinct DEF Alone, Calm, InBase, Looking, Flags, worker_vars
  <2>4. pc'[Main] = pc[Main] \/ (pc[Main] = "joining" /\ pc'[Main] = "join") \/
           (pc[Main] \notin {"delete", "done"} /\ pc'[Main] \notin {"join", "joining", "delete", "done"})
    BY DEF Inserting
  <2>5. UNCHANGED <<stop_workers, deleted, fibers_active>> BY DEF end_vars
  <2> QED BY ONLY <1>0, <2>1, <2>2, <2>3, <2>4, <2>5, EndingStays
<1> QED BY <1>3, <1>5, <1>6 DEF Rest

\* A step of t in a queue that puts no worker to sleep, off a list that is not the
\* sleeper's.
LEMMA QueueSleep ==
  ASSUME FInv, NEW t \in Thread, Alone(t), UNCHANGED cur_fiber,
         pc'[t] \notin {"asleep", "look"}, pc[t] \notin {"check", "signal"},
         \A q \in Queue : q[1] # t => (Hangs(q)' => Hangs(q)),
         NEW x \in Worker
  PROVE  Sleeping(x)'
<1>0. Sleeping(x) BY DEF FInv, Rest
<1>1. CASE x = t BY <1>1 DEF Sleeping
<1>2. CASE x # t
  <2>1. \A u \in Thread : pc[u] \in {"check", "signal"} /\ job[u].queue[1] = x =>
          pc'[u] \in {"check", "signal"} /\ job'[u].queue = job[u].queue BY DEF Alone, Calm
  <2>2. \A k \in Kind : Hangs(<<x, k>>)' => Hangs(<<x, k>>) BY <1>2 DEF Queue
  <2>3. /\ pc'[x] = "asleep" => pc[x] = "asleep"
        /\ pc'[x] = "look" /\ cur_fiber'[x] = Null /\ job'[x].queue[2] = "affinity" =>
             pc[x] = "look" /\ cur_fiber[x] = Null /\ job[x].queue[2] = "affinity"
    BY <1>2, Distinct DEF Alone, Calm
  <2> QED BY <1>0, <2>1, <2>2, <2>3, SleepStays
<1> QED BY <1>1, <1>2

\* A thread that inserts: its fiber, and whose stack it may be on.
LEMMA InserterFacts ==
  ASSUME FInv, NEW t \in Thread, Inserting(t)
  PROVE  /\ job[t].fiber \in Fiber /\ job[t].queue \in Queue
         /\ t \in Worker => prev_fiber[t] \in {job[t].fiber, Null}
         /\ t \in Worker /\ prev_fiber[t] # Null => job[t].queue[1] = t
         /\ Inserting(t) /\ AfterInsert(t) = "unlock" => step[job[t].fiber] = "lock"
BY ThreadFacts DEF Knows, Stack, Inserting

\* Exchange the tail.
LEMMA SwapRest ==
  ASSUME FInv, NEW t \in Thread, Swap(t)
  PROVE  Rest'
<1>0. /\ Knows(t) /\ (t \in Worker => Stack(t)) /\ Shape /\ IInv /\ Local /\ Flags BY ThreadFacts
<1>i. pc[t] = "swap" /\ Inserting(t) BY DEF Swap, Inserting
<1>f. PICK f : f = job[t].fiber OBVIOUS
<1>q. PICK q : q = job[t].queue OBVIOUS
<1>p. PICK p : p = tail[q] OBVIOUS
<1>1. /\ f \in Fiber /\ q \in Queue
      /\ t \in Worker => prev_fiber[t] \in {f, Null}
      /\ t \in Worker /\ prev_fiber[t] # Null => q[1] = t
      /\ AfterInsert(t) = "unlock" => step[f] = "lock"
      /\ UNCHANGED <<popped, worker_vars, fiber_vars, user_vars, end_vars>>
  BY <1>f, <1>i, <1>q, InserterFacts DEF Swap
<1>2. /\ Alone(t) /\ pc'[t] = "link" /\ job'[t].fiber = f /\ job'[t].queue = q /\ job'[t].pred = p
      /\ pc'[Main] = pc[Main] \/ t = Main
  <2>1. job[t] \in Jobs BY <1>0 DEF Shape
  <2>2. job' = [job EXCEPT ![t] = [job[t] EXCEPT !.pred = p]] /\ Goto(t, "link")
        /\ UNCHANGED <<cur_fiber, prev_fiber, waiting>>
    BY <1>0, <1>p, <1>q, <1>1 DEF Swap, Shape, worker_vars
  <2>3. Alone(t) /\ pc'[t] = "link" /\ job'[t] = [job[t] EXCEPT !.pred = p] BY <1>0, <2>2, MoveAlone
  <2>4. pc'[Main] = pc[Main] \/ t = Main BY <1>0, <2>2, Distinct DEF Goto, Shape
  <2> QED BY <1>f, <1>q, <2>1, <2>3, <2>4 DEF Jobs
<1>3. PICK place, ref, out : Placed(place) /\ Alive(place) /\ Lists(place, ref, out) BY DEF FInv, Rest, Fibers
<1>4. place[f] = <<"job", t>> BY <1>1, <1>3, <1>f, <1>i DEF Placed
<1>5. Listed(place, p, q) /\ p \in Node
  <2>1. /\ \A r \in Queue : Listed(place, tail[r], r) /\ tail[r] \in Node BY <1>3, LinksOf
  <2> QED BY <1>1, <1>p, <2>1
<1>6. p # f BY <1>1, <1>4, <1>5, Distinct DEF Listed
<1>7. PICK place2 : place2 = [place EXCEPT ![f] = <<"queue", q>>] OBVIOUS
<1>8. PICK ref2 : ref2 = [ref EXCEPT ![f] = <<"thread", t>>] OBVIOUS
<1>9. PICK out2 : out2 = [out EXCEPT ![f] = <<"tail", q>>, ![p] = <<"thread", t>>] OBVIOUS
<1>10. /\ place2 \in [Fiber -> Place] /\ place2[f] = <<"queue", q>> /\ \A g \in Fiber \ {f} : place2[g] = place[g]
  BY <1>1, <1>3, <1>7 DEF Placed, Place
<1>11. /\ ref2 \in [Fiber -> Ref] /\ ref2[f] = <<"thread", t>> /\ \A g \in Fiber \ {f} : ref2[g] = ref[g]
  BY <1>3, <1>1, <1>8 DEF Lists, Ref
<1>12. /\ out2 \in [Node -> Out] /\ out2[f] = <<"tail", q>> /\ out2[p] = <<"thread", t>>
       /\ \A n \in Node \ {f, p} : out2[n] = out[n]
  <2>1. out \in [Node -> Out] /\ f \in Node BY <1>1, <1>3, Distinct DEF Lists
  <2> QED BY <1>1, <1>5, <1>6, <1>9, <2>1 DEF Out
<1>13. Lists(place2, ref2, out2)'
  <2>1. f = job[t].fiber /\ q = job[t].queue /\ Lists(place, ref, out) BY <1>f, <1>q, <1>3
  <2>2. FInv /\ Swap(t) /\ t \in Thread OBVIOUS
  <2>3. f \in Fiber /\ q \in Queue BY <1>1
  <2> QED BY ONLY <1>p, <1>2, <1>4, <1>10, <1>11, <1>12, <2>1, <2>2, <2>3, SwapLists
<1>14. Placed(place2)'
  <2>1. \A x \in Worker : cur_fiber[x] # f BY <1>1, <1>3, <1>4 DEF Placed
  <2>2. ASSUME NEW x \in Worker, prev_fiber[x] = f
        PROVE  <<"queue", q>> = IF pc'[x] = "switched" THEN <<"prev", x>>
               ELSE IF pc'[x] = "swap" THEN <<"job", x>> ELSE <<"queue", job'[x].queue>>
    <3>1. <<"job", t>> = IF pc[x] = "switched" THEN <<"prev", x>>
               ELSE IF pc[x] = "swap" THEN <<"job", x>> ELSE <<"queue", job[x].queue>>
      BY <1>1, <1>3, <1>4, <2>2 DEF Placed
    <3>2. x = t BY <3>1
    <3> QED BY <1>2, <3>2
  <2>3. \A u \in Thread \ {t} : pc[u] \in {"found", "pick", "swap"} => job[u].fiber # f
    BY <1>1, <1>3, <1>4 DEF Placed
  <2>4. UNCHANGED <<cur_fiber, prev_fiber>> /\ t \in Thread BY <1>1 DEF worker_vars
  <2>5. pc'[t] \notin {"found", "pick", "swap"} /\ Placed(place) BY <1>2, <1>3
  <2>6. f \in Fiber /\ (t \in Worker => prev_fiber[t] \in {f, Null}) /\ Alone(t) BY <1>1, <1>2
  <2>7. PICK pl : pl = <<"queue", q>> OBVIOUS
  <2>8. \A x \in Worker : prev_fiber[x] = f =>
           pl = IF pc'[x] = "switched" THEN <<"prev", x>>
                ELSE IF pc'[x] = "swap" THEN <<"job", x>> ELSE <<"queue", job'[x].queue>> BY <2>2, <2>7
  <2>9. place2 \in [Fiber -> Place] /\ place2[f] = pl /\ \A g \in Fiber \ {f} : place2[g] = place[g]
    BY <1>10, <2>7
  <2> QED BY ONLY <2>1, <2>3, <2>4, <2>5, <2>6, <2>8, <2>9, PlacedMove
<1>15. \A x \in Worker : Sleeping(x)'
  <2>1. \A r \in Queue : Hangs(r)' => Hangs(r) BY <1>0, <1>1, <1>f, Distinct DEF Hangs, Swap, Shape
  <2> QED BY <1>0, <1>1, <1>2, <1>i, <2>1, QueueSleep DEF worker_vars
<1>16. Knows(t)' /\ (t \in Worker => Stack(t)') /\ Belongs(t, pc'[t])
  <2>1. AfterInsert(t)' = AfterInsert(t) BY <1>1 DEF AfterInsert, worker_vars
  <2>2. Knows(t)' BY <1>1, <1>2, <2>1 DEF Knows, Inserting, user_vars
  <2>3. t \in Worker => Stack(t)' BY <1>0, <1>1, <1>2, Distinct DEF Stack, Inserting, Looking, worker_vars
  <2> QED BY <1>2, <2>2, <2>3 DEF Belongs
<1>17. Looking(t)' <=> Looking(t) BY <1>2, <1>i DEF Looking
<1>18. \A g \in Fiber : place2[g] = place[g] \/ {place[g][1], place2[g][1]} \subseteq {"queue", "job"}
  BY <1>4, <1>10
<1>19. /\ UNCHANGED <<worker_vars, fiber_vars, user_vars, end_vars>>
       /\ pc'[Main] = pc[Main] \/ (t = Main /\ Inserting(t) /\ Inserting(t)')
  BY <1>1, <1>2, <1>i DEF Inserting
<1>20. Alive(place) /\ Alone(t) /\ FInv /\ t \in Thread BY <1>2, <1>3
<1> QED BY ONLY <1>13, <1>14, <1>15, <1>16, <1>17, <1>18, <1>19, <1>20, QueueStep

\* Link the fiber: the worker is not told yet, but will be.
LEMMA LinkRest ==
  ASSUME FInv, NEW t \in Thread, Link(t)
  PROVE  Rest'
<1>0. /\ Knows(t) /\ (t \in Worker => Stack(t)) /\ Shape /\ IInv /\ Local /\ Flags BY ThreadFacts
<1>i. pc[t] = "link" /\ Inserting(t) BY DEF Link, Inserting
<1>f. PICK f : f = job[t].fiber OBVIOUS
<1>q. PICK q : q = job[t].queue OBVIOUS
<1>p. PICK p : p = job[t].pred OBVIOUS
<1>1. /\ f \in Fiber /\ q \in Queue
      /\ t \in Worker => prev_fiber[t] \in {f, Null}
      /\ t \in Worker /\ prev_fiber[t] # Null => q[1] = t
      /\ AfterInsert(t) = "unlock" => step[f] = "lock"
      /\ UNCHANGED <<tail, popped, worker_vars, fiber_vars, user_vars, end_vars, job>>
  BY <1>f, <1>i, <1>q, InserterFacts DEF Link
<1>2. /\ Alone(t) /\ pc'[t] = "check" /\ job'[t] = job[t]
      /\ pc'[Main] = pc[Main] \/ t = Main
  <2>2. Goto(t, "check") /\ UNCHANGED <<job, cur_fiber, prev_fiber, waiting>>
    BY <1>1 DEF Link, worker_vars
  <2>3. Alone(t) /\ pc'[t] = "check" /\ job'[t] = job[t] BY <1>0, <2>2, StayAlone
  <2>4. pc'[Main] = pc[Main] \/ t = Main BY <1>0, <2>2, Distinct DEF Goto, Shape
  <2> QED BY <2>3, <2>4
<1>3. PICK place, ref, out : Placed(place) /\ Alive(place) /\ Lists(place, ref, out) BY DEF FInv, Rest, Fibers
<1>4. place[f] = <<"queue", q>> /\ ref[f] = <<"thread", t>> /\ Listed(place, p, q) /\ out[p] = <<"thread", t>>
  BY <1>3, <1>i, <1>f, <1>q, <1>p DEF Lists
<1>5. p \in Node BY <1>1, <1>4, ListedNode
<1>8. PICK ref2 : ref2 = [ref EXCEPT ![f] = <<"next", p>>] OBVIOUS
<1>9. PICK out2 : out2 = [out EXCEPT ![p] = <<"next", Null>>] OBVIOUS
<1>11. /\ ref2 \in [Fiber -> Ref] /\ ref2[f] = <<"next", p>> /\ \A g \in Fiber \ {f} : ref2[g] = ref[g]
  <2>1. ref \in [Fiber -> Ref] BY <1>3 DEF Lists
  <2> QED BY <1>1, <1>5, <1>8, <2>1 DEF Ref
<1>12. /\ out2 \in [Node -> Out] /\ out2[p] = <<"next", Null>>
       /\ \A n \in Node \ {p} : out2[n] = out[n] BY <1>3, <1>5, <1>9 DEF Lists, Out
<1>13. Lists(place, ref2, out2)'
  <2>1. f = job[t].fiber /\ q = job[t].queue /\ p = job[t].pred /\ Lists(place, ref, out) BY <1>f, <1>q, <1>p, <1>3
  <2>2. FInv /\ Link(t) /\ t \in Thread OBVIOUS
  <2>3. f \in Fiber /\ q \in Queue BY <1>1
  <2> QED BY ONLY <1>2, <1>4, <1>11, <1>12, <2>1, <2>2, <2>3, LinkLists
<1>14. Placed(place)'
  <2>1. \A w \in Worker : prev_fiber'[w] \in Fiber =>
           /\ prev_fiber'[w] = prev_fiber[w] /\ job'[w] = job[w]
           /\ pc'[w] = "switched" <=> pc[w] = "switched"
           /\ pc'[w] = "swap" <=> pc[w] = "swap"
    BY <1>1, <1>2, <1>i, Distinct DEF Alone, Calm, worker_vars
  <2>2. \A u \in Thread : pc'[u] \in {"found", "pick", "swap"} /\ job'[u].fiber \in Fiber =>
           pc[u] \in {"found", "pick", "swap"} /\ job'[u].fiber = job[u].fiber
    BY <1>1, <1>2 DEF Alone, Calm
  <2>3. UNCHANGED cur_fiber BY <1>1 DEF worker_vars
  <2> QED BY <1>3, <2>1, <2>2, <2>3, PlacedQuiet
<1>15. \A x \in Worker : Sleeping(x)'
  <2>1. ASSUME NEW r \in Queue, r # q PROVE Hangs(r)' => Hangs(r)
    <3>1. p # r BY <1>1, <1>4, <2>1, OneQueue DEF Listed
    <3> QED BY <1>0, <1>1, <1>p, <3>1, Distinct DEF Hangs, Link, Shape
  <2>2. ASSUME NEW x \in Worker PROVE Sleeping(x)'
    <3>1. CASE x = q[1] BY <1>2, <1>q, <3>1 DEF Woken, Sleeping
    <3>2. CASE x # q[1]
      <4>0. Sleeping(x) BY DEF FInv, Rest
      <4>1. \A u \in Thread : pc[u] \in {"check", "signal"} /\ job[u].queue[1] = x =>
              pc'[u] \in {"check", "signal"} /\ job'[u].queue = job[u].queue
        BY <1>2, <1>i DEF Alone, Calm
      <4>2. \A k \in Kind : Hangs(<<x, k>>)' => Hangs(<<x, k>>) BY <2>1, <3>2, QueueOf
      <4>3. /\ pc'[x] = "asleep" => pc[x] = "asleep"
            /\ pc'[x] = "look" /\ cur_fiber'[x] = Null /\ job'[x].queue[2] = "affinity" =>
                 pc[x] = "look" /\ cur_fiber[x] = Null /\ job[x].queue[2] = "affinity"
        BY <1>1, <1>2, Distinct DEF Alone, Calm, worker_vars
      <4> QED BY <4>0, <4>1, <4>2, <4>3, SleepStays
    <3> QED BY <3>1, <3>2
  <2> QED BY <2>2
<1>16. Knows(t)' /\ (t \in Worker => Stack(t)') /\ Belongs(t, pc'[t])
  <2>1. AfterInsert(t)' = AfterInsert(t) BY <1>1 DEF AfterInsert, worker_vars
  <2>2. Knows(t)' BY <1>1, <1>2, <1>f, <1>q, <2>1 DEF Knows, Inserting, user_vars
  <2>3. t \in Worker => Stack(t)' BY <1>0, <1>1, <1>2, <1>f, <1>q, Distinct DEF Stack, Inserting, Looking, worker_vars
  <2> QED BY <1>2, <2>2, <2>3 DEF Belongs
<1>17. Looking(t)' <=> Looking(t) BY <1>2, <1>i DEF Looking
<1>18. \A g \in Fiber : place[g] = place[g] \/ {place[g][1], place[g][1]} \subseteq {"queue", "job"}
  OBVIOUS
<1>19. /\ UNCHANGED <<worker_vars, fiber_vars, user_vars, end_vars>>
       /\ pc'[Main] = pc[Main] \/ (t = Main /\ Inserting(t) /\ Inserting(t)')
  BY <1>1, <1>2, <1>i DEF Inserting
<1>20. Alive(place) /\ Alone(t) /\ FInv /\ t \in Thread BY <1>2, <1>3
<1> QED BY ONLY <1>13, <1>14, <1>15, <1>16, <1>17, <1>18, <1>19, <1>20, QueueStep

\* Take everything.
LEMMA DequeueAllRest ==
  ASSUME FInv, NEW w \in Worker, DequeueAll(w)
  PROVE  Rest'
<1>0. /\ w \in Thread /\ Knows(w) /\ Stack(w) /\ Shape /\ IInv /\ Local /\ Flags
      /\ w # Main /\ w \notin Waker BY WorkerFacts
<1>i. pc[w] = "look" BY DEF DequeueAll
<1>q. PICK q : q = job[w].queue OBVIOUS
<1>p. PICK p : p = tail[q] OBVIOUS
<1>h. PICK h : h = next[q] OBVIOUS
<1>1. /\ q \in Queue /\ q[1] = w /\ prev_fiber[w] = Null /\ popped[q] = Null /\ h # Null
      /\ UNCHANGED <<popped, worker_vars, fiber_vars, user_vars, end_vars>>
  BY <1>0, <1>h, <1>i, <1>q DEF DequeueAll, Stack
<1>2. /\ Alone(w) /\ pc'[w] = "link_sentinel" /\ job'[w].fiber = h /\ job'[w].queue = q /\ job'[w].pred = p
      /\ pc'[Main] = pc[Main]
  <2>1. job[w] \in Jobs BY <1>0 DEF Shape
  <2>2. job' = [job EXCEPT ![w] = [job[w] EXCEPT !.fiber = h, !.pred = p]] /\ Goto(w, "link_sentinel")
        /\ UNCHANGED <<cur_fiber, prev_fiber, waiting>>
    BY <1>0, <1>1, <1>p, <1>h, <1>q DEF DequeueAll, Shape, worker_vars
  <2>3. Alone(w) /\ pc'[w] = "link_sentinel" /\ job'[w] = [job[w] EXCEPT !.fiber = h, !.pred = p]
    BY <1>0, <2>2, MoveAlone
  <2>4. pc'[Main] = pc[Main] BY <1>0, <2>2, Distinct DEF Goto, Shape
  <2> QED BY <1>q, <2>1, <2>3, <2>4 DEF Jobs
<1>3. PICK place, ref, out : Placed(place) /\ Alive(place) /\ Lists(place, ref, out) BY DEF FInv, Rest, Fibers
<1>4. /\ h \in Fiber /\ place[h] = <<"queue", q>> /\ ref[h] = <<"next", q>> /\ out[q] = <<"next", Null>>
  <2>1. Listed(place, q, q) /\ next[q] # Null BY <1>1, <1>h DEF Listed
  <2>2. /\ out[q] = <<"next", Null>>
        /\ \/ q \in Fiber /\ next[q] = q
           \/ /\ next[q] \in Fiber /\ place[next[q]] = <<"queue", q>>
              /\ ref[next[q]] = <<"next", q>> BY <1>1, <1>3, <2>1, LinksOf
  <2> QED BY <1>1, <1>h, <2>2, Distinct
<1>5. Listed(place, p, q) /\ out[p] = <<"tail", q>> /\ p \in Node
  <2>1. \A r \in Queue : Listed(place, tail[r], r) /\ out[tail[r]] = <<"tail", r>> /\ tail[r] \in Node
    BY <1>3, LinksOf
  <2> QED BY <1>1, <1>p, <2>1
<1>6. p # q /\ p \in Fiber BY <1>4, <1>5 DEF Listed
<1>8. PICK ref2 : ref2 = [ref EXCEPT ![h] = <<"thread", w>>] OBVIOUS
<1>9. PICK out2 : out2 = [out EXCEPT ![p] = <<"thread", w>>, ![q] = <<"tail", q>>] OBVIOUS
<1>11. /\ ref2 \in [Fiber -> Ref] /\ ref2[h] = <<"thread", w>> /\ \A g \in Fiber \ {h} : ref2[g] = ref[g]
  <2>1. ref \in [Fiber -> Ref] BY <1>3 DEF Lists
  <2> QED BY <1>0, <1>4, <1>8, <2>1 DEF Ref
<1>12. /\ out2 \in [Node -> Out] /\ out2[p] = <<"thread", w>> /\ out2[q] = <<"tail", q>>
       /\ \A n \in Node \ {p, q} : out2[n] = out[n]
  <2>1. out \in [Node -> Out] /\ q \in Node BY SMTT(30), <1>1, <1>3, Distinct DEF Lists
  <2> QED BY <1>0, <1>1, <1>5, <1>6, <1>9, <2>1 DEF Out
<1>13. Lists(place, ref2, out2)'
  <2>1. q = job[w].queue /\ Lists(place, ref, out) BY <1>q, <1>3
  <2>2. FInv /\ DequeueAll(w) /\ w \in Worker OBVIOUS
  <2>3. q \in Queue BY <1>1
  <2> QED BY ONLY SMTT(30), <1>2, <1>p, <1>h, <1>4, <1>6, <1>11, <1>12, <2>1, <2>2, <2>3, DequeueLists
<1>14. Placed(place)'
  <2>1. \A x \in Worker : prev_fiber'[x] \in Fiber =>
           /\ prev_fiber'[x] = prev_fiber[x] /\ job'[x] = job[x]
           /\ pc'[x] = "switched" <=> pc[x] = "switched"
           /\ pc'[x] = "swap" <=> pc[x] = "swap" BY <1>1, <1>2, Distinct DEF Alone, Calm, worker_vars
  <2>2. \A u \in Thread : pc'[u] \in {"found", "pick", "swap"} /\ job'[u].fiber \in Fiber =>
           pc[u] \in {"found", "pick", "swap"} /\ job'[u].fiber = job[u].fiber
    BY <1>1, <1>2 DEF Alone, Calm
  <2>3. UNCHANGED cur_fiber BY <1>1 DEF worker_vars
  <2> QED BY <1>3, <2>1, <2>2, <2>3, PlacedQuiet
<1>15. \A x \in Worker : Sleeping(x)'
  <2>1. \A r \in Queue : Hangs(r)' => Hangs(r) BY <1>0, <1>1, <1>q DEF Hangs, DequeueAll, Shape
  <2> QED BY <1>0, <1>1, <1>2, <1>i, <2>1, QueueSleep DEF worker_vars
<1>16. Knows(w)' /\ Stack(w)' /\ Belongs(w, pc'[w])
  BY <1>0, <1>1, <1>2, <1>4, <1>i DEF Knows, Inserting, Stack, Looking, worker_vars, Belongs
<1>17. Looking(w)' <=> Looking(w) BY <1>2, <1>i DEF Looking
<1>18. \A g \in Fiber : place[g] = place[g] \/ {place[g][1], place[g][1]} \subseteq {"queue", "job"}
  OBVIOUS
<1>19. UNCHANGED <<worker_vars, fiber_vars, user_vars, end_vars>> /\ pc'[Main] = pc[Main] BY <1>1, <1>2
<1>20. Alive(place) /\ Alone(w) /\ FInv /\ w \in Thread BY <1>0, <1>2, <1>3
<1> QED BY ONLY <1>13, <1>14, <1>15, <1>16, <1>17, <1>18, <1>19, <1>20, QueueStep

\* Link the sentinel.
LEMMA LinkSentinelRest ==
  ASSUME FInv, NEW w \in Worker, LinkSentinel(w)
  PROVE  Rest'
<1>0. /\ w \in Thread /\ Knows(w) /\ Stack(w) /\ Shape /\ IInv /\ Local /\ Flags
      /\ w # Main /\ w \notin Waker BY WorkerFacts
<1>i. pc[w] = "link_sentinel" BY DEF LinkSentinel
<1>q. PICK q : q = job[w].queue OBVIOUS
<1>p. PICK p : p = job[w].pred OBVIOUS
<1>h. PICK h : h = job[w].fiber OBVIOUS
<1>1. /\ q \in Queue /\ q[1] = w /\ prev_fiber[w] = Null /\ h \in Fiber
      /\ UNCHANGED <<tail, worker_vars, fiber_vars, user_vars, end_vars, job>>
  BY <1>0, <1>h, <1>i, <1>q DEF LinkSentinel, Stack, Knows
<1>2. Alone(w) /\ pc'[w] = "take" /\ job'[w] = job[w] /\ pc'[Main] = pc[Main]
  <2>2. Goto(w, "take") /\ UNCHANGED <<job, cur_fiber, prev_fiber, waiting>>
    BY <1>1 DEF LinkSentinel, worker_vars
  <2>3. Alone(w) /\ pc'[w] = "take" /\ job'[w] = job[w] BY <1>0, <2>2, StayAlone
  <2>4. pc'[Main] = pc[Main] BY <1>0, <2>2, Distinct DEF Goto, Shape
  <2> QED BY <2>3, <2>4
<1>3. PICK place, ref, out : Placed(place) /\ Alive(place) /\ Lists(place, ref, out) BY DEF FInv, Rest, Fibers
<1>4. /\ place[h] = <<"queue", q>> /\ ref[h] = <<"thread", w>> /\ Listed(place, p, q) /\ out[p] = <<"thread", w>>
      /\ p \in Fiber BY <1>0, <1>3, <1>i, <1>h, <1>q, <1>p DEF Lists
<1>5. p \in Node BY <1>4, Distinct
<1>8. PICK ref2 : ref2 = [ref EXCEPT ![h] = <<"popped", q>>] OBVIOUS
<1>9. PICK out2 : out2 = [out EXCEPT ![p] = <<"next", Null>>] OBVIOUS
<1>11. /\ ref2 \in [Fiber -> Ref] /\ ref2[h] = <<"popped", q>> /\ \A g \in Fiber \ {h} : ref2[g] = ref[g]
  BY <1>3, <1>1, <1>8 DEF Lists, Ref
<1>12. /\ out2 \in [Node -> Out] /\ out2[p] = <<"next", Null>>
       /\ \A n \in Node \ {p} : out2[n] = out[n] BY <1>3, <1>5, <1>9 DEF Lists, Out
<1>13. Lists(place, ref2, out2)'
  <2>1. q = job[w].queue /\ p = job[w].pred /\ h = job[w].fiber /\ Lists(place, ref, out) BY <1>q, <1>p, <1>h, <1>3
  <2>2. FInv /\ LinkSentinel(w) /\ w \in Worker OBVIOUS
  <2>3. q \in Queue /\ q[1] = w /\ h \in Fiber BY <1>1
  <2> QED BY ONLY <1>2, <1>4, <1>11, <1>12, <2>1, <2>2, <2>3, SentinelLists
<1>14. Placed(place)'
  <2>1. \A x \in Worker : prev_fiber'[x] \in Fiber =>
           /\ prev_fiber'[x] = prev_fiber[x] /\ job'[x] = job[x]
           /\ pc'[x] = "switched" <=> pc[x] = "switched"
           /\ pc'[x] = "swap" <=> pc[x] = "swap" BY <1>1, <1>2, Distinct DEF Alone, Calm, worker_vars
  <2>2. \A u \in Thread : pc'[u] \in {"found", "pick", "swap"} /\ job'[u].fiber \in Fiber =>
           pc[u] \in {"found", "pick", "swap"} /\ job'[u].fiber = job[u].fiber
    BY <1>1, <1>2 DEF Alone, Calm
  <2>3. UNCHANGED cur_fiber BY <1>1 DEF worker_vars
  <2> QED BY <1>3, <2>1, <2>2, <2>3, PlacedQuiet
<1>15. \A x \in Worker : Sleeping(x)'
  <2>1. \A r \in Queue : r[1] # w => (Hangs(r)' => Hangs(r))
    BY <1>0, <1>1, <1>4, <1>q, <1>p, Distinct DEF Hangs, LinkSentinel, Shape
  <2> QED BY <1>0, <1>1, <1>2, <1>i, <2>1, QueueSleep DEF worker_vars
<1>16. Knows(w)' /\ Stack(w)' /\ Belongs(w, pc'[w])
  BY <1>0, <1>1, <1>2, <1>i DEF Knows, Inserting, Stack, Looking, worker_vars, Belongs
<1>17. Looking(w)' <=> Looking(w) BY <1>2, <1>i DEF Looking
<1>18. \A g \in Fiber : place[g] = place[g] \/ {place[g][1], place[g][1]} \subseteq {"queue", "job"}
  OBVIOUS
<1>19. UNCHANGED <<worker_vars, fiber_vars, user_vars, end_vars>> /\ pc'[Main] = pc[Main] BY <1>1, <1>2
<1>20. Alive(place) /\ Alone(w) /\ FInv /\ w \in Thread BY <1>0, <1>2, <1>3
<1> QED BY ONLY <1>13, <1>14, <1>15, <1>16, <1>17, <1>18, <1>19, <1>20, QueueStep

\* Take the fiber off the list.
LEMMA TakeRest ==
  ASSUME FInv, NEW w \in Worker, Take(w)
  PROVE  Rest'
<1>0. /\ w \in Thread /\ Knows(w) /\ Stack(w) /\ Shape /\ IInv /\ Local /\ Flags
      /\ w # Main /\ w \notin Waker BY WorkerFacts
<1>i. pc[w] = "take" BY DEF Take
<1>q. PICK q : q = job[w].queue OBVIOUS
<1>f. PICK f : f = job[w].fiber OBVIOUS
<1>1. /\ q \in Queue /\ q[1] = w /\ prev_fiber[w] = Null /\ f \in Fiber /\ next[f] # Null
      /\ UNCHANGED <<next, tail, worker_vars, fiber_vars, user_vars, end_vars, job>>
  BY <1>0, <1>f, <1>i, <1>q DEF Take, Stack, Knows
<1>2. Alone(w) /\ pc'[w] = "found" /\ job'[w] = job[w] /\ pc'[Main] = pc[Main]
  <2>2. Goto(w, "found") /\ UNCHANGED <<job, cur_fiber, prev_fiber, waiting>>
    BY <1>1 DEF Take, worker_vars
  <2>3. Alone(w) /\ pc'[w] = "found" /\ job'[w] = job[w] BY <1>0, <2>2, StayAlone
  <2>4. pc'[Main] = pc[Main] BY <1>0, <2>2, Distinct DEF Goto, Shape
  <2> QED BY <2>3, <2>4
<1>3. PICK place, ref, out : Placed(place) /\ Alive(place) /\ Lists(place, ref, out) BY DEF FInv, Rest, Fibers
<1>a. popped[q] = f BY <1>0, <1>3, <1>i, <1>f, <1>q DEF Lists
<1>4. place[f] = <<"queue", q>>
  <2>1. \A r \in Queue : popped[r] # Null => place[popped[r]] = <<"queue", r>> BY <1>3, LinksOf
  <2> QED BY <1>1, <1>a, <2>1, Distinct
<1>7. PICK place2 : place2 = [place EXCEPT ![f] = <<"job", w>>] OBVIOUS
<1>n. PICK n : n = next[f] OBVIOUS
<1>8. PICK ref2 : ref2 = IF n \in Fiber THEN [ref EXCEPT ![n] = <<"popped", q>>] ELSE ref OBVIOUS
<1>10. /\ place2 \in [Fiber -> Place] /\ place2[f] = <<"job", w>> /\ \A g \in Fiber \ {f} : place2[g] = place[g]
  BY <1>0, <1>1, <1>3, <1>7 DEF Placed, Place
<1>11. /\ ref2 \in [Fiber -> Ref] /\ (n \in Fiber => ref2[n] = <<"popped", q>>)
       /\ \A g \in Fiber \ {n} : ref2[g] = ref[g] BY <1>3, <1>1, <1>8 DEF Lists, Ref
<1>13. Lists(place2, ref2, out)'
  <2>1. q = job[w].queue /\ f = job[w].fiber /\ Lists(place, ref, out) BY <1>q, <1>f, <1>3
  <2>2. FInv /\ Take(w) /\ w \in Worker OBVIOUS
  <2>3. q \in Queue /\ q[1] = w /\ f \in Fiber BY <1>1
  <2>4. /\ ref2 \in [Fiber -> Ref] /\ (next[f] \in Fiber => ref2[next[f]] = <<"popped", q>>)
        /\ \A g \in Fiber \ {next[f]} : ref2[g] = ref[g] BY <1>n, <1>11
  <2> QED BY ONLY <1>2, <1>a, <1>10, <2>1, <2>2, <2>3, <2>4, TakeLists
<1>14. Placed(place2)'
  <2>1. \A x \in Worker : cur_fiber[x] # f BY <1>1, <1>3, <1>4 DEF Placed
  <2>2. ASSUME NEW x \in Worker, prev_fiber[x] = f PROVE FALSE
    <3>1. <<"queue", q>> = IF pc[x] = "switched" THEN <<"prev", x>>
               ELSE IF pc[x] = "swap" THEN <<"job", x>> ELSE <<"queue", job[x].queue>>
      BY <1>1, <1>3, <1>4, <2>2 DEF Placed
    <3>2. job[x].queue = q /\ pc[x] \notin {"switched", "swap"} BY <3>1
    <3>3. Stack(x) BY WorkerFacts
    <3>4. job[x].queue[1] = x BY <1>1, <2>2, <3>2, <3>3, Distinct DEF Stack, Inserting
    <3>5. x = w BY <1>1, <3>2, <3>4
    <3> QED BY <1>1, <2>2, <3>5, Distinct
  <2>3. \A u \in Thread \ {w} : pc[u] \in {"found", "pick", "swap"} => job[u].fiber # f
    BY <1>1, <1>3, <1>4 DEF Placed
  <2>4. UNCHANGED <<cur_fiber, prev_fiber>> /\ w \in Thread BY <1>0, <1>1 DEF worker_vars
  <2>6. f \in Fiber /\ (w \in Worker => prev_fiber[w] \in {f, Null}) /\ Alone(w) /\ Placed(place) BY <1>1, <1>2, <1>3
  <2>7. PICK pl : pl = <<"job", w>> OBVIOUS
  <2>5. pc'[w] \in {"found", "pick", "swap"} => job'[w].fiber = f /\ pl = <<"job", w>> BY <1>2, <1>f, <2>7
  <2>8. \A x \in Worker : prev_fiber[x] = f =>
           pl = IF pc'[x] = "switched" THEN <<"prev", x>>
                ELSE IF pc'[x] = "swap" THEN <<"job", x>> ELSE <<"queue", job'[x].queue>> BY <2>2
  <2>9. place2 \in [Fiber -> Place] /\ place2[f] = pl /\ \A g \in Fiber \ {f} : place2[g] = place[g]
    BY <1>10, <2>7
  <2> QED BY ONLY <2>1, <2>3, <2>4, <2>5, <2>6, <2>8, <2>9, PlacedMove
<1>15. \A x \in Worker : Sleeping(x)'
  <2>1. \A r \in Queue : r[1] # w => (Hangs(r)' => Hangs(r)) BY <1>0, <1>1, <1>q DEF Hangs, Take, Shape
  <2> QED BY <1>0, <1>1, <1>2, <1>i, <2>1, QueueSleep DEF worker_vars
<1>16. Knows(w)' /\ Stack(w)' /\ Belongs(w, pc'[w])
  BY <1>0, <1>1, <1>2, <1>f, <1>i, Distinct DEF Knows, Inserting, Stack, Looking, worker_vars, Belongs
<1>17. Looking(w)' <=> Looking(w) BY <1>2, <1>i DEF Looking
<1>18. \A g \in Fiber : place2[g] = place[g] \/ {place[g][1], place2[g][1]} \subseteq {"queue", "job"}
  BY <1>4, <1>10
<1>19. UNCHANGED <<worker_vars, fiber_vars, user_vars, end_vars>> /\ pc'[Main] = pc[Main] BY <1>1, <1>2
<1>20. Alive(place) /\ Alone(w) /\ FInv /\ w \in Thread BY <1>0, <1>2, <1>3
<1> QED BY ONLY <1>13, <1>14, <1>15, <1>16, <1>17, <1>18, <1>19, <1>20, QueueStep

-----------------------------------------------------------------------------
(* The invariant.                                                          *)

\* At first nothing is anywhere.
LEMMA InitRest == Init => Rest
<1> SUFFICES ASSUME Init PROVE Rest OBVIOUS
<1>0. /\ \A t \in Thread : pc[t] \in {"begin", "idle", "launch"} /\ job[t] = NoJob
      /\ \A w \in Worker : pc[w] = "begin" /\ cur_fiber[w] = Null /\ prev_fiber[w] = Null
      /\ \A t \in Waker : pc[t] = "idle"
      /\ pc[Main] = "launch" BY Distinct DEF Init, Thread
<1>1. Flags
  <2>1. 0 \in 0 .. MaxWaits BY ConstantsAssumption
  <2>2. waits \in [Fiber -> 0 .. MaxWaits] BY <2>1 DEF Init
  <2>3. /\ waiting \in [Worker -> BOOLEAN] /\ stop_workers \in BOOLEAN
        /\ deleted \subseteq Worker /\ asked \subseteq Fiber BY DEF Init
  <2>4. /\ scheduleable \in [Fiber -> BOOLEAN] /\ terminate \in [Fiber -> BOOLEAN]
        /\ priority \in [Fiber -> BOOLEAN] /\ ready \in [Fiber -> BOOLEAN] BY DEF Init
  <2> QED BY <2>2, <2>3, <2>4 DEF Flags
<1>2. Others BY <1>0 DEF Others
<1>3. \A t \in Thread : Knows(t) BY <1>0 DEF Knows, Inserting
<1>4. \A w \in Worker : Stack(w) BY <1>0, Distinct DEF Stack, Looking
<1>5. Fibers
  <2>1. PICK place : place = [f \in Fiber |-> <<"none", Null>>] OBVIOUS
  <2>2. PICK ref : ref = [f \in Fiber |-> <<"thread", Main>>] OBVIOUS
  <2>3. PICK out : out = [n \in Node |-> IF n \in Queue THEN <<"tail", n>> ELSE <<"next", Null>>] OBVIOUS
  <2>4. Placed(place) BY <2>1, <1>0, Distinct DEF Place, Placed
  <2>5. Alive(place) BY <2>1, <1>0, Distinct DEF Init, Alive
  <2>6. Lists(place, ref, out)
    <3>1. ref \in [Fiber -> Ref] BY <2>2, Distinct DEF Ref
    <3>2. out \in [Node -> Out] BY <2>3 DEF Out
    <3>3. \A n \in Node : next[n] = Null BY DEF Init
    <3>4. \A q \in Queue : tail[q] = q /\ popped[q] = Null BY DEF Init
    <3>5. \A q \in Queue : Listed(place, tail[q], q) /\ out[tail[q]] = <<"tail", q>>
      BY <2>3, <3>4, Distinct DEF Listed
    <3>6. \A w \in Worker : pc[w] = "begin" BY <1>0
    <3> QED BY <1>0, <3>1, <3>2, <3>3, <3>4, <3>5, <3>6 DEF Lists
  <2> QED BY <2>4, <2>5, <2>6 DEF Fibers
<1>6. \A w \in Worker : Sleeping(w) BY <1>0 DEF Sleeping
<1>7. Ending BY <1>0, FS_EmptySet DEF Live, Init, Ending
<1> QED BY <1>1, <1>2, <1>3, <1>4, <1>5, <1>6, <1>7 DEF Rest, Local

\* A step in which nothing happens.
LEMMA StutterRest ==
  ASSUME FInv, UNCHANGED vars
  PROVE  Rest'
<1>0. UNCHANGED <<queue_vars, worker_vars, fiber_vars, user_vars, end_vars, pc, job>> BY DEF vars
<1>1. /\ UNCHANGED <<next, tail, popped, waiting, cur_fiber, prev_fiber, descheduled, scheduleable, terminate,
                     priority, step, waits, mutex, ready, asked, stop_workers, deleted, fibers_active, pc, job>>
  BY <1>0 DEF queue_vars, worker_vars, fiber_vars, user_vars, end_vars
<1>2. Rest BY DEF FInv
<1>3. PICK place, ref, out : Placed(place) /\ Alive(place) /\ Lists(place, ref, out) BY <1>2 DEF Rest, Fibers
<1>4. Placed(place)' BY <1>1, <1>3 DEF Placed
<1>5. Alive(place)' BY <1>1, <1>3 DEF Alive, Looking
<1>6. Lists(place, ref, out)' BY <1>1, <1>3 DEF Lists, Listed
<1>7. Fibers' BY <1>4, <1>5, <1>6 DEF Fibers
<1>8. Flags' /\ Others' BY <1>1, <1>2 DEF Rest, Local, Flags, Others, Inserting
<1>9. \A t \in Thread : Knows(t)' BY <1>1, <1>2 DEF Rest, Local, Knows, Inserting, AfterInsert
<1>10. \A w \in Worker : Stack(w)' BY <1>1, <1>2 DEF Rest, Local, Stack, Inserting, Looking
<1>11. \A w \in Worker : Sleeping(w)' BY <1>1, <1>2 DEF Rest, Sleeping, Hangs, Woken
<1>12. Ending' BY <1>1, <1>2 DEF Rest, Ending, Live, InBase, Looking
<1> QED BY <1>7, <1>8, <1>9, <1>10, <1>11, <1>12 DEF Rest, Local

\* Every step keeps what the fibers, the queues and the sleepers rest on.
LEMMA NextRest ==
  ASSUME FInv, Next
  PROVE  Rest'
<1>1. ASSUME NEW t \in Thread, Insert(t) PROVE Rest'
  BY <1>1, SwapRest, LinkRest, CheckSignalRest DEF Insert
<1>2. ASSUME NEW t \in Worker \cup Waker, TakeCall(t) \/ Wake(t) PROVE Rest'
  <2>1. CASE TakeCall(t) BY <2>1, TakeCallRest
  <2>2. CASE LockReady(t) BY <2>2, LockReadyRest
  <2>3. CASE schedule_tid(t) BY <2>3, ScheduleRunningRest, ScheduleSleepingRest
  <2>4. CASE PickWorker(t) BY <2>4, PickWorkerRest
  <2>5. CASE Unlock(t) BY <2>5, UnlockRest
  <2> QED BY <1>2, <2>1, <2>2, <2>3, <2>4, <2>5 DEF Wake
<1>3. ASSUME NEW w \in Worker, WorkerStep(w) PROVE Rest'
  <2>1. CASE Remove(w)
    BY <2>1, LookPoppedRest, LookEmptyRest, DequeueAllRest, LinkSentinelRest, TakeRest DEF Remove
  <2>2. CASE ~Remove(w)
    BY <1>3, <2>2, BeginRest, LoopRest, SwitchToFiberRest, SwitchToBaseRest, BookkeepRest, SignalJoinRest,
       ResumeRest, ClientRest DEF WorkerStep
  <2> QED BY <2>1, <2>2
<1>4. ASSUME MainStep PROVE Rest' BY <1>4, LaunchRest, MainStepRest DEF MainStep
<1> QED BY <1>1, <1>2, <1>3, <1>4 DEF Next

\* A thread only ever carries fibers, although a link may lead to a sentinel.
Carries == \A t \in Thread : job[t].fiber \in Fiber \cup {Null}

\* A thread puts down its job.
LEMMA CarriesMove ==
  ASSUME Shape, Carries, NEW t \in Thread, NEW j, job' = [job EXCEPT ![t] = j], j.fiber \in Fiber \cup {Null}
  PROVE  Carries' BY DEF Shape, Carries

\* The end of an insertion.
LEMMA CarriesInserted ==
  ASSUME Shape, Carries, NEW t \in Thread, NEW woken, Inserted(t, woken)
  PROVE  Carries'
<1> DEFINE j == IF AfterInsert(t) = "unlock" THEN [NoJob EXCEPT !.fiber = job[t].fiber] ELSE NoJob
<1>1. job' = [job EXCEPT ![t] = j] BY DEF Inserted
<1>2. j.fiber \in Fiber \cup {Null} BY DEF Carries, NoJob
<1> HIDE DEF j
<1> QED BY <1>1, <1>2, CarriesMove

\* The beginning of one.
LEMMA CarriesStartInsert ==
  ASSUME Shape, Carries, NEW t \in Thread, NEW v, NEW f \in Fiber, StartInsert(t, v, f)
  PROVE  Carries'
<1>1. CASE scheduleable[f]
  <2> DEFINE j == [fiber |-> f, pred |-> Null, queue |-> <<v, IF priority[f] THEN "priority" ELSE "affinity">>]
  <2>1. job' = [job EXCEPT ![t] = j] BY <1>1 DEF StartInsert
  <2>2. j.fiber \in Fiber \cup {Null} OBVIOUS
  <2> HIDE DEF j
  <2> QED BY <2>1, <2>2, CarriesMove
<1>2. CASE ~scheduleable[f] BY <1>2, CarriesInserted DEF StartInsert
<1> QED BY <1>1, <1>2

\* reschedule_fiber().
LEMMA CarriesReschedule ==
  ASSUME Shape, Carries, NEW t \in Thread, NEW v, NEW f \in Fiber, reschedule_fiber(t, v, f)
  PROVE  Carries'
<1>1. CASE Reinsert(t, v, f) BY <1>1, CarriesStartInsert DEF Reinsert
<1>2. CASE Deschedule(t, f) BY <1>2, CarriesInserted DEF Deschedule
<1>3. CASE Destroy(t, f) BY <1>3 DEF Destroy, Carries
<1> QED BY <1>1, <1>2, <1>3 DEF reschedule_fiber

\* A worker begins to look.
LEMMA CarriesLooking ==
  ASSUME Shape, Carries, NEW w \in Worker, StartLooking(w)
  PROVE  Carries'
<1>1. [NoJob EXCEPT !.queue = <<w, "priority">>].fiber = Null BY DEF NoJob
<1> QED BY <1>1, CarriesMove, Distinct DEF StartLooking

\* A worker finds only fibers in its queues.
LEMMA CarriesRemove ==
  ASSUME FInv, Carries, NEW w \in Worker, Remove(w)
  PROVE  Carries'
<1>0. w \in Thread /\ Shape /\ Stack(w) BY WorkerFacts
<1>1. PICK place, ref, out : Lists(place, ref, out) BY DEF FInv, Rest, Fibers
<1>2. pc[w] = "look" => job[w].queue \in Queue BY <1>0 DEF Stack
<1>3. job[w] \in Jobs /\ job[w].fiber \in Fiber \cup {Null} BY <1>0 DEF Shape, Carries
<1>4. CASE LookPopped(w)
  <2> DEFINE j == [job[w] EXCEPT !.fiber = popped[job[w].queue]]
  <2>1. job' = [job EXCEPT ![w] = j] BY <1>0, <1>4 DEF LookPopped, Shape
  <2>2. popped[job[w].queue] \in Fiber BY <1>1, <1>2, <1>4 DEF LookPopped, Lists
  <2>3. j.fiber \in Fiber \cup {Null} BY <1>3, <2>2 DEF Jobs
  <2> HIDE DEF j
  <2> QED BY <1>0, <2>1, <2>3, CarriesMove
<1>5. CASE LookEmpty(w)
  <2>1. CASE job[w].queue[2] = "priority"
    <3> DEFINE j == [job[w] EXCEPT !.queue = <<w, "affinity">>]
    <3>1. job' = [job EXCEPT ![w] = j] BY <1>0, <1>5, <2>1 DEF LookEmpty, Shape
    <3>2. j.fiber \in Fiber \cup {Null} BY <1>3 DEF Jobs
    <3> HIDE DEF j
    <3> QED BY <1>0, <3>1, <3>2, CarriesMove
  <2>2. CASE job[w].queue[2] # "priority"
    <3>1. job' = [job EXCEPT ![w] = NoJob] BY <1>5, <2>2 DEF LookEmpty
    <3> QED BY <1>0, <3>1, CarriesMove DEF NoJob
  <2> QED BY <2>1, <2>2
<1>6. CASE DequeueAll(w)
  <2> DEFINE j == [job[w] EXCEPT !.fiber = next[job[w].queue], !.pred = tail[job[w].queue]]
  <2>1. job' = [job EXCEPT ![w] = j] BY <1>0, <1>6 DEF DequeueAll, Shape
  <2>2. job[w].queue \in Queue /\ Listed(place, job[w].queue, job[w].queue) /\ next[job[w].queue] # Null
    BY <1>2, <1>6 DEF DequeueAll, Listed
  <2>3. next[job[w].queue] \in Fiber BY <1>1, <2>2, LinksOf, Distinct
  <2>4. j.fiber \in Fiber \cup {Null} BY <1>3, <2>3 DEF Jobs
  <2> HIDE DEF j
  <2> QED BY <1>0, <2>1, <2>4, CarriesMove
<1>7. CASE LinkSentinel(w) \/ Take(w) BY <1>7 DEF LinkSentinel, Take, Carries
<1> QED BY <1>4, <1>5, <1>6, <1>7 DEF Remove

\* Every step keeps Carries.
LEMMA CarriesHolds ==
  ASSUME FInv, Carries, [Next]_vars
  PROVE  Carries'
<1>0. Shape /\ asked \subseteq Fiber /\ Worker \subseteq Thread /\ Waker \subseteq Thread /\ Main \in Thread
  BY Distinct DEF FInv, IInv, Rest, Local, Flags
<1>1. ASSUME NEW t \in Thread, Insert(t) PROVE Carries'
  <2>1. CASE Swap(t)
    <3> DEFINE j == [job[t] EXCEPT !.pred = tail[job[t].queue]]
    <3>1. job' = [job EXCEPT ![t] = j] BY <1>0, <2>1 DEF Swap, Shape
    <3>2. job[t] \in Jobs /\ job[t].fiber \in Fiber \cup {Null} BY <1>0 DEF Shape, Carries
    <3>3. j.fiber \in Fiber \cup {Null} BY <3>2 DEF Jobs
    <3> HIDE DEF j
    <3> QED BY <1>0, <3>1, <3>3, CarriesMove
  <2>2. CASE Link(t) BY <2>2 DEF Link, Carries
  <2>3. CASE CheckWaiting(t) BY <2>3, <1>0, CarriesInserted DEF CheckWaiting, Carries
  <2>4. CASE Signal(t) BY <1>0, <2>4, CarriesInserted DEF Signal
  <2> QED BY <1>1, <2>1, <2>2, <2>3, <2>4 DEF Insert
<1>2. ASSUME NEW t \in Worker \cup Waker, TakeCall(t) \/ Wake(t) PROVE Carries'
  <2>0. t \in Thread BY <1>0
  <2>1. CASE TakeCall(t)
    <3>1. PICK f \in asked : job' = [job EXCEPT ![t].fiber = f] BY <2>1 DEF TakeCall
    <3> DEFINE j == [job[t] EXCEPT !.fiber = f]
    <3>2. job' = [job EXCEPT ![t] = j] /\ job[t] \in Jobs BY <1>0, <2>0, <3>1 DEF Shape
    <3>3. j.fiber \in Fiber \cup {Null} BY <1>0, <3>2 DEF Jobs
    <3> HIDE DEF j
    <3> QED BY <1>0, <2>0, <3>2, <3>3, CarriesMove
  <2>2. CASE LockReady(t) \/ schedule_tid(t) BY <2>2 DEF LockReady, schedule_tid, Carries
  <2>3. CASE PickWorker(t)
    <3>1. job[t].fiber \in Fiber BY <2>3, WakerFacts DEF PickWorker
    <3> QED BY <1>0, <2>0, <2>3, <3>1, CarriesReschedule DEF PickWorker
  <2>4. CASE Unlock(t) BY <1>0, <2>0, <2>4, CarriesMove DEF Unlock, NoJob
  <2> QED BY <1>2, <2>1, <2>2, <2>3, <2>4 DEF Wake
<1>3. ASSUME NEW w \in Worker, WorkerStep(w) PROVE Carries'
  <2>0. w \in Thread BY <1>0
  <2>1. CASE Remove(w) BY <2>1, CarriesRemove
  <2>2. CASE Begin(w) \/ SwitchToBase(w) \/ SignalJoin(w) \/ Resume(w) \/ Ask(w) \/ LockMutex(w)
    BY <2>2 DEF Begin, SwitchToBase, SignalJoin, Resume, Ask, LockMutex, Carries
  <2>3. CASE Loop(w) BY <2>3, <1>0, CarriesLooking DEF Loop, Carries
  <2>4. CASE SwitchToFiber(w) BY <1>0, <2>0, <2>4, CarriesMove DEF SwitchToFiber, NoJob
  <2>5. CASE Bookkeep(w)
    <3>1. prev_fiber[w] \in Fiber BY <2>5, LeftFacts DEF Bookkeep
    <3> QED BY <1>0, <2>0, <2>5, <3>1, CarriesReschedule DEF Bookkeep
  <2>6. CASE deschedule_self(w) \/ Proceed(w) \/ exit(w)
    BY <1>0, <2>6, CarriesLooking DEF deschedule_self, Proceed, exit
  <2> QED BY <1>3, <2>1, <2>2, <2>3, <2>4, <2>5, <2>6 DEF WorkerStep, Client
<1>4. ASSUME MainStep PROVE Carries'
  <2>1. CASE launch BY <2>1, <1>0, CarriesStartInsert DEF launch
  <2>2. CASE join \/ Delete \/ JoinWorkers BY <2>2 DEF join, Delete, JoinWorkers, Carries
  <2> QED BY <1>4, <2>1, <2>2 DEF MainStep
<1>5. CASE UNCHANGED vars BY <1>5 DEF vars, Carries
<1> QED BY <1>1, <1>2, <1>3, <1>4, <1>5 DEF Next

-----------------------------------------------------------------------------
\* FInv is an invariant of the fiber scheduler.
LEMMA Invariant == Spec => [](FInv /\ Carries)
<1>1. Init => FInv /\ Carries BY Distinct, InitHolds, InitRest DEF Init, Carries, NoJob, FInv
<1>2. FInv /\ Carries /\ [Next]_vars => FInv' /\ Carries'
  <2> SUFFICES ASSUME FInv, Carries, [Next]_vars PROVE FInv' /\ Carries' OBVIOUS
  <2>1. IInv' BY StepHolds DEF FInv
  <2>2. Rest' BY NextRest, StutterRest
  <2> QED BY <2>1, <2>2, CarriesHolds DEF FInv
<1> QED BY <1>1, <1>2, PTL DEF Spec

\* Every variable has its type.
LEMMA Typed == FInv /\ Carries => TypeOK
<1> SUFFICES ASSUME FInv, Carries PROVE TypeOK OBVIOUS
<1>0. Shape /\ Flags /\ Ending /\ \A w \in Worker : Stack(w) BY DEF FInv, IInv, Rest, Local
<1>1. PICK place, ref, out : Lists(place, ref, out) BY DEF FInv, Rest, Fibers
<1>2. next \in [Node -> Node \cup {Null}] /\ step \in [Fiber -> {"unborn", "start", "run", "lock", "test", "dead"}]
      /\ descheduled \in [Fiber -> BOOLEAN] /\ mutex \in [Fiber -> Fiber \cup Thread \cup {Null}]
  BY <1>0 DEF Shape, Slot, Steps
<1>3. tail \in [Queue -> Node] /\ popped \in [Queue -> Fiber \cup {Null}]
  BY <1>1, LinksOf, <1>0 DEF Shape
<1>4. cur_fiber \in [Worker -> Fiber \cup {Null}] /\ prev_fiber \in [Worker -> Fiber \cup {Null}]
  BY <1>0 DEF Stack, Shape
<1>5. fibers_active \in 0 .. Cardinality(Fiber)
  <2>1. Live \subseteq Fiber BY DEF Live
  <2>2. /\ Cardinality(Live) \in Nat /\ Cardinality(Fiber) \in Nat /\ Cardinality(Live) <= Cardinality(Fiber)
    BY <2>1, ConstantsAssumption, FS_Subset, FS_CardinalityType
  <2> QED BY <1>0, <2>2 DEF Ending
<1>6. job \in [Thread -> [fiber : Fiber \cup {Null}, queue : Queue \cup {Null}, pred : Node \cup {Null}]]
  <2>1. ASSUME NEW t \in Thread
        PROVE  job[t] \in [fiber : Fiber \cup {Null}, queue : Queue \cup {Null}, pred : Node \cup {Null}]
    BY <1>0 DEF Shape, Carries, Jobs, Slot
  <2>2. job = [t \in Thread |-> job[t]] BY <1>0 DEF Shape
  <2> QED BY <2>1, <2>2
<1>7. pc \in [Thread -> Labels] BY <1>0 DEF Shape
<1>8. /\ waiting \in [Worker -> BOOLEAN] /\ stop_workers \in BOOLEAN /\ deleted \subseteq Worker
      /\ scheduleable \in [Fiber -> BOOLEAN] /\ terminate \in [Fiber -> BOOLEAN] /\ priority \in [Fiber -> BOOLEAN]
      /\ waits \in [Fiber -> 0 .. MaxWaits] /\ ready \in [Fiber -> BOOLEAN] /\ asked \subseteq Fiber
  BY <1>0 DEF Flags
<1> QED BY ONLY <1>2, <1>3, <1>4, <1>5, <1>6, <1>7, <1>8 DEF TypeOK, Labels

\* Every variable has its type, and no worker sleeps over a fiber in one of its
\* queues: who linked it there is still on its way to signal the worker.
THEOREM NobodySleepsOverWork == Spec => []NoWorkerSleepsOverWork
<1>1. FInv /\ Carries => NoWorkerSleepsOverWork
  <2> SUFFICES ASSUME FInv, Carries, NEW w \in Worker, NEW k \in Kind,
                      pc[w] = "asleep", popped[<<w, k>>] # Null \/ next[<<w, k>>] # Null
               PROVE  \E t \in Thread : pc[t] \in {"check", "signal"} /\ job[t].queue[1] = w
    BY Typed DEF NoWorkerSleepsOverWork
  <2>1. Sleeping(w) BY DEF FInv, Rest
  <2> QED BY <2>1 DEF Sleeping, Hangs, Woken
<1> QED BY <1>1, Invariant, PTL

\* The destructor deletes a worker's queues only when no thread is in them.
THEOREM QueuesOutliveTheirUsers == Spec => []NoUseAfterDelete
<1>1. FInv => NoUseAfterDelete
  <2> SUFFICES ASSUME FInv, NEW w \in deleted
               PROVE  ~Looking(w) /\ \A t \in Thread : ~(Inserting(t) /\ job[t].queue[1] = w)
    BY DEF NoUseAfterDelete
  <2>1. /\ Ending /\ Flags BY DEF FInv, Rest, Local
  <2>2. /\ w \in Worker /\ pc[Main] \in {"delete", "done"} /\ \A f \in Fiber : step[f] \in {"unborn", "dead"}
    BY <2>1 DEF Ending, Flags, Live
  <2>3. cur_fiber[w] = Null BY <2>2, WorkerFacts, FiberFacts DEF Stack
  <2>4. ~Looking(w) BY <2>1, <2>3 DEF Ending, InBase
  <2>5. ASSUME NEW t \in Thread, Inserting(t) PROVE FALSE
    <3>1. /\ job[t].fiber \in Fiber /\ (t \in Worker => prev_fiber[t] \in {job[t].fiber, Null})
          /\ AfterInsert(t) = "unlock" => step[job[t].fiber] = "lock" BY <2>5, InserterFacts
    <3>2. AfterInsert(t) # "unlock" BY <2>2, <3>1
    <3>3. t # Main BY <2>2, <2>5 DEF Inserting
    <3>4. t \in Worker /\ prev_fiber[t] # Null BY <3>2, <3>3, Distinct DEF AfterInsert
    <3>5. PICK place : Placed(place) /\ Alive(place) BY DEF FInv, Rest, Fibers
    <3>6. PICK f \in Fiber : f = prev_fiber[t] BY <3>1, <3>4
    <3>7. place[f] \in {<<"prev", t>>, <<"job", t>>, <<"queue", job[t].queue>>}
      BY <3>4, <3>5, <3>6 DEF Placed
    <3>8. place[f] = <<"none", Null>> BY <2>2, <3>5 DEF Alive
    <3> QED BY <3>7, <3>8
  <2> QED BY <2>4, <2>5
<1> QED BY <1>1, Invariant, PTL

-----------------------------------------------------------------------------
(* What a user sees of the fibers.                                         *)

\* What FiberScheduling sees of a fiber that neither starts nor ends.
SameStep(g) == step'[g] = step[g] \/ {step[g], step'[g]} \cap {"unborn", "dead"} = {}

\* What FiberScheduling sees of one fiber, before a step and after it.
LEMMA View ==
  ASSUME NEW f \in Fiber
  PROVE  /\ on[f] = {w \in Worker : f \in {cur_fiber[w], prev_fiber[w]}}
         /\ status[f] = IF step[f] \in {"unborn", "dead"} THEN step[f]
                        ELSE IF on[f] # {} THEN "running"
                        ELSE IF scheduleable[f] THEN "runnable" ELSE "asleep"
         /\ on'[f] = {w \in Worker : f \in {cur_fiber'[w], prev_fiber'[w]}}
         /\ status'[f] = IF step'[f] \in {"unborn", "dead"} THEN step'[f]
                         ELSE IF on'[f] # {} THEN "running"
                         ELSE IF scheduleable'[f] THEN "runnable" ELSE "asleep" BY DEF on, status

\* It sees the same of a fiber on the same workers.
LEMMA SameView ==
  ASSUME NEW g \in Fiber, on'[g] = on[g], scheduleable'[g] = scheduleable[g], SameStep(g)
  PROVE  status'[g] = status[g] BY ZenonT(60), View DEF SameStep

\* It sees no step when it sees the same of all fibers.
LEMMA Stutters ==
  ASSUME \A g \in Fiber : on'[g] = on[g] /\ scheduleable'[g] = scheduleable[g] /\ SameStep(g)
  PROVE  [Promise!Next]_(Promise!vars)
<1>1. \A g \in Fiber : status'[g] = status[g] BY SameView
<1>2. on' = on BY DEF on
<1>3. status' = status BY <1>1 DEF status
<1> QED BY <1>2, <1>3 DEF Promise!vars

\* It sees one fiber change.
LEMMA Moves ==
  ASSUME NEW f \in Fiber,
         \A g \in Fiber \ {f} : on'[g] = on[g] /\ scheduleable'[g] = scheduleable[g] /\ SameStep(g),
         NEW S, on'[f] = S, NEW to, status'[f] = to
  PROVE  on' = [on EXCEPT ![f] = S] /\ status' = [status EXCEPT ![f] = to]
<1>1. \A g \in Fiber \ {f} : status'[g] = status[g] BY SameView
<1>2. on = [g \in Fiber |-> on[g]] /\ on' = [g \in Fiber |-> on'[g]] BY DEF on
<1>3. status = [g \in Fiber |-> status[g]] /\ status' = [g \in Fiber |-> status'[g]] BY DEF status
<1> QED BY <1>1, <1>2, <1>3

\* The stacks hold what they held.
LEMMA SameStacks ==
  ASSUME \A w \in Worker : cur_fiber'[w] = cur_fiber[w] /\ prev_fiber'[w] = prev_fiber[w],
         \A g \in Fiber : scheduleable'[g] = scheduleable[g] /\ SameStep(g)
  PROVE  [Promise!Next]_(Promise!vars)
<1>1. ASSUME NEW g \in Fiber PROVE on'[g] = on[g]
  <2>1. on[g] = {x \in Worker : g \in {cur_fiber[x], prev_fiber[x]}}
        /\ on'[g] = {x \in Worker : g \in {cur_fiber'[x], prev_fiber'[x]}} BY View
  <2> QED BY <2>1
<1> QED BY <1>1, Stutters

\* A fiber that is not on a stack is on no worker.
LEMMA NotOn ==
  ASSUME FInv, NEW place, Placed(place), NEW f \in Fiber, place[f][1] \in {"job", "none"},
         \A t \in Worker : place[f] = <<"job", t>> => pc[t] # "swap"
  PROVE  on[f] = {}
<1>1. SUFFICES ASSUME NEW w \in Worker, f \in {cur_fiber[w], prev_fiber[w]} PROVE FALSE BY View
<1>2. cur_fiber[w] # f BY DEF Placed
<1>3. prev_fiber[w] = f BY <1>1, <1>2
<1>4. place[f] = IF pc[w] = "switched" THEN <<"prev", w>>
                 ELSE IF pc[w] = "swap" THEN <<"job", w>> ELSE <<"queue", job[w].queue>>
  BY <1>3 DEF Placed
<1> QED BY <1>4

\* The fiber that is about to leave w is on w only.
LEMMA OnlyOn ==
  ASSUME FInv, NEW w \in Worker, NEW f \in Fiber, prev_fiber[w] = f
  PROVE  on[f] = {w} /\ cur_fiber[w] # f /\ scheduleable[f] /\ step[f] \notin {"unborn", "dead"}
<1>1. PICK place : Placed(place) /\ Alive(place) BY DEF FInv, Rest, Fibers
<1>2. \A x \in Worker : prev_fiber[x] = f =>
        place[f] = IF pc[x] = "switched" THEN <<"prev", x>>
                   ELSE IF pc[x] = "swap" THEN <<"job", x>> ELSE <<"queue", job[x].queue>>
  BY <1>1 DEF Placed
<1>3. \A x \in Worker : prev_fiber[x] = f /\ pc[x] # "switched" => job[x].queue[1] = x
  BY WorkerFacts, Distinct DEF Stack, Inserting
<1>4. ASSUME NEW x \in Worker, prev_fiber[x] = f PROVE x = w
  <2>1. place[f] = IF pc[x] = "switched" THEN <<"prev", x>>
                   ELSE IF pc[x] = "swap" THEN <<"job", x>> ELSE <<"queue", job[x].queue>> BY <1>2, <1>4
  <2>2. place[f] = IF pc[w] = "switched" THEN <<"prev", w>>
                   ELSE IF pc[w] = "swap" THEN <<"job", w>> ELSE <<"queue", job[w].queue>> BY <1>2
  <2>3. pc[x] # "switched" => job[x].queue[1] = x BY <1>3, <1>4
  <2>4. pc[w] # "switched" => job[w].queue[1] = w BY <1>3
  <2>5. x = w \/ (pc[x] # "switched" /\ pc[w] # "switched" /\ job[x].queue = job[w].queue) BY <2>1, <2>2
  <2> QED BY <2>3, <2>4, <2>5
<1>5. \A x \in Worker : cur_fiber[x] # f BY <1>1, <1>2 DEF Placed
<1>6. place[f] # <<"none", Null>>
  <2>1. place[f] \in {<<"prev", w>>, <<"job", w>>, <<"queue", job[w].queue>>} BY <1>2
  <2> QED BY <2>1
<1>7. scheduleable[f] /\ step[f] \notin {"unborn", "dead"} BY <1>1, <1>6 DEF Alive
<1> QED BY <1>4, <1>5, <1>7, View

\* The fiber that w has switched away from leaves it.
LEMMA Leaves ==
  ASSUME FInv, NEW w \in Worker, NEW f \in Fiber, prev_fiber[w] = f,
         prev_fiber' = [prev_fiber EXCEPT ![w] = Null], UNCHANGED cur_fiber,
         \A g \in Fiber \ {f} : scheduleable'[g] = scheduleable[g] /\ SameStep(g),
         NEW to \in {"runnable", "asleep", "dead"},
         to = IF step'[f] \in {"unborn", "dead"} THEN step'[f]
              ELSE IF scheduleable'[f] THEN "runnable" ELSE "asleep"
  PROVE  [Promise!Next]_(Promise!vars)
<1>1. on[f] = {w} /\ cur_fiber[w] # f /\ scheduleable[f] /\ step[f] \notin {"unborn", "dead"} BY OnlyOn
<1>2. Shape BY WorkerFacts
<1>3. prev_fiber'[w] = Null /\ \A x \in Worker \ {w} : prev_fiber'[x] = prev_fiber[x] BY <1>2 DEF Shape
<1>4. on'[f] = {}
  <2>1. on[f] = {x \in Worker : f \in {cur_fiber[x], prev_fiber[x]}}
        /\ on'[f] = {x \in Worker : f \in {cur_fiber'[x], prev_fiber'[x]}} BY View
  <2> QED BY <1>1, <1>3, <2>1, Distinct
<1>5. \A g \in Fiber \ {f} : on'[g] = on[g]
  <2> SUFFICES ASSUME NEW g \in Fiber \ {f} PROVE on'[g] = on[g] OBVIOUS
  <2>1. on[g] = {x \in Worker : g \in {cur_fiber[x], prev_fiber[x]}}
        /\ on'[g] = {x \in Worker : g \in {cur_fiber'[x], prev_fiber'[x]}} BY View
  <2>2. \A x \in Worker : g \in {cur_fiber[x], prev_fiber[x]} <=> g \in {cur_fiber'[x], prev_fiber'[x]}
    BY <1>3, Distinct
  <2> QED BY <2>1, <2>2
<1>s. status'[f] = to BY <1>4, View
<1>6. on' = [on EXCEPT ![f] = {}] /\ status' = [status EXCEPT ![f] = to] BY <1>4, <1>5, <1>s, Moves
<1>7. status[f] = "running" BY <1>1, View
<1>8. Promise!Leave(f, to) BY <1>6, <1>7 DEF Promise!Leave, Promise!Become
<1> QED BY <1>8 DEF Promise!Next

\* The end of an insertion is where a fiber that yielded leaves its worker.
LEMMA InsertedView ==
  ASSUME FInv, NEW t \in Thread, NEW woken, Inserted(t, woken), UNCHANGED <<cur_fiber, scheduleable, step>>
  PROVE  [Promise!Next]_(Promise!vars)
<1>0. Shape /\ (t \in Worker => Stack(t)) BY ThreadFacts
<1>1. CASE t \in Worker /\ prev_fiber[t] # Null
  <2>1. PICK f \in Fiber : f = prev_fiber[t] BY <1>0, <1>1 DEF Stack
  <2>2. prev_fiber' = [prev_fiber EXCEPT ![t] = Null] BY <1>1 DEF Inserted
  <2>3. scheduleable[f] /\ step[f] \notin {"unborn", "dead"} BY <1>1, <2>1, OnlyOn
  <2> QED BY <1>1, <2>1, <2>2, <2>3, Leaves DEF SameStep
<1>2. CASE ~(t \in Worker /\ prev_fiber[t] # Null)
  BY <1>0, <1>2, SameStacks DEF Inserted, Shape, SameStep
<1> QED BY <1>1, <1>2

\* The beginning of one is not seen.
LEMMA StartInsertView ==
  ASSUME FInv, NEW t \in Thread, NEW v, NEW f, StartInsert(t, v, f), UNCHANGED <<cur_fiber, scheduleable, step>>
  PROVE  [Promise!Next]_(Promise!vars)
<1>1. CASE scheduleable[f] BY <1>1, SameStacks DEF StartInsert, SameStep
<1>2. CASE ~scheduleable[f] BY <1>2, InsertedView DEF StartInsert
<1> QED BY <1>1, <1>2

\* launch() makes the fiber runnable.
LEMMA LaunchView ==
  ASSUME FInv, launch
  PROVE  [Promise!Next]_(Promise!vars)
<1>1. PICK f \in Fiber, v \in Worker :
        step[f] = "unborn" /\ step' = [step EXCEPT ![f] = "start"] /\ StartInsert(Main, v, f)
  BY DEF launch
<1>2. PICK place : Placed(place) /\ Alive(place) BY DEF FInv, Rest, Fibers
<1>3. place[f] = <<"none", Null>> /\ scheduleable[f] BY <1>1, <1>2 DEF Alive
<1>4. on[f] = {} BY <1>2, <1>3, NotOn
<1>5. Shape /\ UNCHANGED <<cur_fiber, prev_fiber, scheduleable>>
  BY <1>1, <1>3, ThreadFacts, Distinct DEF launch, fiber_vars, StartInsert
<1>6. step'[f] = "start" /\ \A g \in Fiber \ {f} : step'[g] = step[g] BY <1>1, <1>5 DEF Shape
<1>7. on' = on BY <1>5 DEF on
<1>8. status[f] = "unborn" /\ status'[f] = "runnable" BY <1>1, <1>3, <1>4, <1>5, <1>6, <1>7, View
<1>9. status' = [status EXCEPT ![f] = "runnable"]
  <2>1. on'[f] = on[f] /\ \A g \in Fiber \ {f} : on'[g] = on[g] /\ scheduleable'[g] = scheduleable[g] /\ SameStep(g)
    BY <1>5, <1>6, <1>7 DEF SameStep
  <2> QED BY <1>8, <2>1, Moves
<1>10. Promise!Launch(f) BY <1>7, <1>8, <1>9 DEF Promise!Launch, Promise!Become
<1> QED BY <1>10 DEF Promise!Next

\* yield_to() a fiber: it was on no worker and runs on w.
LEMMA SwitchToFiberView ==
  ASSUME FInv, NEW w \in Worker, SwitchToFiber(w)
  PROVE  [Promise!Next]_(Promise!vars)
<1>0. Shape /\ Stack(w) /\ Knows(w) /\ w \in Thread BY WorkerFacts
<1>f. PICK f : f = job[w].fiber OBVIOUS
<1>1. /\ pc[w] = "found" /\ f \in Fiber /\ prev_fiber[w] = Null
      /\ prev_fiber' = [prev_fiber EXCEPT ![w] = cur_fiber[w]]
      /\ cur_fiber' = [cur_fiber EXCEPT ![w] = f]
      /\ UNCHANGED <<scheduleable, step>>
  BY <1>0, <1>f, Distinct DEF SwitchToFiber, Knows, Stack, user_vars
<1>2. PICK place : Placed(place) /\ Alive(place) BY DEF FInv, Rest, Fibers
<1>3. place[f] = <<"job", w>> BY <1>0, <1>1, <1>f, <1>2 DEF Placed
<1>4. scheduleable[f] /\ step[f] \notin {"unborn", "dead"} BY <1>1, <1>2, <1>3 DEF Alive
<1>5. on[f] = {}
  <2>1. place[f][1] = "job" /\ \A t \in Worker : place[f] = <<"job", t>> => t = w BY <1>3
  <2> QED BY <1>1, <1>2, <2>1, NotOn
<1>6. /\ cur_fiber'[w] = f /\ prev_fiber'[w] = cur_fiber[w]
      /\ \A x \in Worker \ {w} : cur_fiber'[x] = cur_fiber[x] /\ prev_fiber'[x] = prev_fiber[x]
  BY <1>0, <1>1 DEF Shape
<1>7. on'[f] = {w}
  <2>1. on[f] = {x \in Worker : f \in {cur_fiber[x], prev_fiber[x]}}
        /\ on'[f] = {x \in Worker : f \in {cur_fiber'[x], prev_fiber'[x]}} BY <1>1, View
  <2> QED BY <1>5, <1>6, <2>1
<1>8. ASSUME NEW g \in Fiber \ {f} PROVE on'[g] = on[g]
  <2>1. on[g] = {x \in Worker : g \in {cur_fiber[x], prev_fiber[x]}}
        /\ on'[g] = {x \in Worker : g \in {cur_fiber'[x], prev_fiber'[x]}} BY View
  <2>2. \A x \in Worker : g \in {cur_fiber[x], prev_fiber[x]} <=> g \in {cur_fiber'[x], prev_fiber'[x]}
    BY <1>1, <1>6, Distinct
  <2> QED BY <2>1, <2>2
<1>9. status[f] = "runnable" /\ status'[f] = "running" BY <1>1, <1>4, <1>5, <1>7, View
<1>10. on' = [on EXCEPT ![f] = {w}] /\ status' = [status EXCEPT ![f] = "running"]
  BY <1>1, <1>7, <1>8, <1>9, Moves DEF SameStep
<1>11. Promise!Run(f, w) BY <1>5, <1>9, <1>10 DEF Promise!Run, Promise!Become
<1> QED BY <1>1, <1>11 DEF Promise!Next

\* yield_to() the base stack: the fiber is still on w.
LEMMA SwitchToBaseView ==
  ASSUME FInv, NEW w \in Worker, SwitchToBase(w)
  PROVE  [Promise!Next]_(Promise!vars)
<1>0. Shape /\ Stack(w) BY WorkerFacts
<1>1. pc[w] = "found" /\ prev_fiber[w] = Null /\ UNCHANGED <<scheduleable, step>>
  BY <1>0 DEF SwitchToBase, Stack, fiber_vars, user_vars
<1>2. CASE UNCHANGED <<prev_fiber, cur_fiber>> BY <1>1, <1>2, SameStacks DEF SameStep
<1>3. CASE prev_fiber' = [prev_fiber EXCEPT ![w] = cur_fiber[w]] /\ cur_fiber' = [cur_fiber EXCEPT ![w] = Null]
  <2>1. /\ cur_fiber'[w] = Null /\ prev_fiber'[w] = cur_fiber[w]
        /\ \A x \in Worker \ {w} : cur_fiber'[x] = cur_fiber[x] /\ prev_fiber'[x] = prev_fiber[x]
    BY <1>0, <1>3 DEF Shape
  <2>2. ASSUME NEW g \in Fiber PROVE on'[g] = on[g]
    <3>1. on[g] = {x \in Worker : g \in {cur_fiber[x], prev_fiber[x]}}
          /\ on'[g] = {x \in Worker : g \in {cur_fiber'[x], prev_fiber'[x]}} BY View
    <3>2. \A x \in Worker : g \in {cur_fiber[x], prev_fiber[x]} <=> g \in {cur_fiber'[x], prev_fiber'[x]}
      BY <1>1, <2>1, Distinct
    <3> QED BY <3>1, <3>2
  <2> QED BY <1>1, <2>2, Stutters DEF SameStep
<1> QED BY <1>2, <1>3 DEF SwitchToBase

\* The bookkeeping after a switch: the fiber sleeps, ends or is still on w.
LEMMA BookkeepView ==
  ASSUME FInv, NEW w \in Worker, Bookkeep(w)
  PROVE  [Promise!Next]_(Promise!vars)
<1>0. Shape /\ w \in Thread /\ Flags BY WorkerFacts
<1>f. PICK f : f = prev_fiber[w] OBVIOUS
<1>1. /\ f \in Fiber /\ UNCHANGED cur_fiber
      /\ Reinsert(w, w, f) \/ Deschedule(w, f) \/ Destroy(w, f)
  BY <1>f, LeftFacts DEF Bookkeep, reschedule_fiber
<1>2. scheduleable[f] /\ step[f] \notin {"unborn", "dead"} BY <1>1, <1>f, OnlyOn
<1>3. CASE Reinsert(w, w, f) BY <1>0, <1>1, <1>3, StartInsertView DEF Reinsert
<1>4. CASE Deschedule(w, f)
  <2>1. prev_fiber' = [prev_fiber EXCEPT ![w] = Null] /\ UNCHANGED step
        /\ scheduleable'[f] = FALSE /\ \A g \in Fiber \ {f} : scheduleable'[g] = scheduleable[g]
    BY <1>0, <1>1, <1>4 DEF Deschedule, Inserted, Flags
  <2> QED BY <1>1, <1>2, <1>f, <2>1, Leaves DEF SameStep
<1>5. CASE Destroy(w, f)
  <2>1. prev_fiber' = [prev_fiber EXCEPT ![w] = Null] /\ UNCHANGED scheduleable
        /\ step'[f] = "dead" /\ \A g \in Fiber \ {f} : step'[g] = step[g]
    BY <1>0, <1>1, <1>5 DEF Destroy, Shape
  <2> QED BY <1>1, <1>2, <1>f, <2>1, Leaves DEF SameStep
<1> QED BY <1>1, <1>3, <1>4, <1>5

\* schedule_tid() wakes a fiber that sleeps, or nobody.
LEMMA ScheduleView ==
  ASSUME FInv, NEW t \in Worker \cup Waker, schedule_tid(t)
  PROVE  [Promise!Next]_(Promise!vars)
<1>0. Shape /\ Flags BY ThreadFacts, Distinct
<1>f. PICK f : f = job[t].fiber OBVIOUS
<1>1. f \in Fiber /\ UNCHANGED <<cur_fiber, prev_fiber, step>>
  BY <1>f, WakerFacts DEF schedule_tid, worker_vars, user_vars
<1>2. CASE scheduleable[f] BY <1>1, <1>2, <1>f, SameStacks DEF schedule_tid, SameStep
<1>3. CASE ~scheduleable[f]
  <2>1. scheduleable'[f] = TRUE /\ \A g \in Fiber \ {f} : scheduleable'[g] = scheduleable[g]
    BY <1>0, <1>1, <1>3, <1>f DEF schedule_tid, Flags
  <2>2. PICK place : Placed(place) /\ Alive(place) BY DEF FInv, Rest, Fibers
  <2>3. place[f] = <<"none", Null>> /\ step[f] = "lock" BY <1>1, <1>3, <2>2 DEF Alive
  <2>4. on[f] = {} BY <1>1, <2>2, <2>3, NotOn
  <2>5. on' = on BY <1>1 DEF on
  <2>6. status[f] = "asleep" /\ status'[f] = "runnable" BY <1>1, <1>3, <2>1, <2>3, <2>4, <2>5, View
  <2>7. status' = [status EXCEPT ![f] = "runnable"]
    <3>1. on'[f] = on[f] /\ \A g \in Fiber \ {f} : on'[g] = on[g] /\ scheduleable'[g] = scheduleable[g] /\ SameStep(g)
      BY <1>1, <2>1, <2>5 DEF SameStep
    <3> QED BY <1>1, <2>6, <3>1, Moves
  <2>8. Promise!Wake(f) BY <2>5, <2>6, <2>7 DEF Promise!Wake, Promise!Become
  <2> QED BY <1>1, <2>8 DEF Promise!Next
<1> QED BY <1>2, <1>3

\* The fiber that was woken is only inserted.
LEMMA PickWorkerView ==
  ASSUME FInv, NEW t \in Worker \cup Waker, PickWorker(t)
  PROVE  [Promise!Next]_(Promise!vars)
<1>0. Knows(t) /\ IInv /\ t \in Thread BY ThreadFacts, Distinct
<1>f. PICK f : f = job[t].fiber OBVIOUS
<1>1. f \in Fiber /\ step[f] = "lock" /\ UNCHANGED cur_fiber
  BY <1>0, <1>f DEF PickWorker, Knows, reschedule_fiber
<1>2. PICK v \in Worker : Reinsert(t, v, f) \/ Deschedule(t, f) \/ Destroy(t, f)
  BY <1>0, <1>f, Distinct DEF PickWorker, PickableWorkers, reschedule_fiber
<1>3. ~terminate[f] BY <1>1, FiberFacts
<1>4. ~descheduled[f]
  <2>1. mutex[f] = t BY <1>0, <1>1, <1>f DEF PickWorker, IInv, Held, WakerHolds, Holding
  <2> QED BY <1>0, <1>1, <2>1, HoldersDiffer DEF IInv, Held, LeaverHolds
<1>5. Reinsert(t, v, f) BY <1>2, <1>3, <1>4 DEF Deschedule, Destroy
<1> QED BY <1>0, <1>1, <1>5, StartInsertView DEF Reinsert

\* What a fiber does itself is not seen.
LEMMA ClientView ==
  ASSUME FInv, NEW w \in Worker, Client(w)
  PROVE  [Promise!Next]_(Promise!vars)
<1>0. Shape BY WorkerFacts
<1>1. UNCHANGED <<cur_fiber, prev_fiber, scheduleable>>
  BY DEF Client, Ask, LockMutex, deschedule_self, Proceed, exit, worker_vars, fiber_vars
<1>2. PICK f : f = cur_fiber[w] OBVIOUS
<1>3. f \in Fiber BY <1>2, WorkerFacts DEF Client, Ask, LockMutex, deschedule_self, Proceed, exit, Stack
<1>4. step[f] \notin {"unborn", "dead"} BY <1>2, <1>3, FiberFacts
<1>5. \E s \in {"lock", "test", "run"} : step' = [step EXCEPT ![f] = s] \/ step' = step
  BY <1>2 DEF Client, Ask, LockMutex, deschedule_self, Proceed, exit, user_vars
<1>6. \A g \in Fiber : SameStep(g) BY <1>0, <1>3, <1>4, <1>5 DEF SameStep, Shape
<1> QED BY <1>1, <1>6, SameStacks

\* A step of the scheduler is a step of what it promises, or none.
LEMMA StepView ==
  ASSUME FInv, [Next]_vars
  PROVE  [Promise!Next]_(Promise!vars)
<1>1. ASSUME NEW t \in Thread, Insert(t) PROVE [Promise!Next]_(Promise!vars)
  <2>1. CASE Swap(t) \/ Link(t)
    BY <2>1, SameStacks DEF Swap, Link, SameStep, worker_vars, fiber_vars, user_vars
  <2>2. CASE CheckWaiting(t)
    BY <2>2, InsertedView, SameStacks DEF CheckWaiting, fiber_vars, user_vars, SameStep
  <2>3. CASE Signal(t) BY <2>3, InsertedView DEF Signal, fiber_vars, user_vars
  <2> QED BY <1>1, <2>1, <2>2, <2>3 DEF Insert
<1>2. ASSUME NEW t \in Worker \cup Waker, TakeCall(t) \/ Wake(t) PROVE [Promise!Next]_(Promise!vars)
  <2>1. CASE TakeCall(t) \/ LockReady(t) \/ Unlock(t)
    BY <2>1, SameStacks DEF TakeCall, LockReady, Unlock, SameStep, worker_vars, fiber_vars
  <2>2. CASE schedule_tid(t) BY <2>2, ScheduleView
  <2>3. CASE PickWorker(t) BY <2>3, PickWorkerView
  <2> QED BY <1>2, <2>1, <2>2, <2>3 DEF Wake
<1>3. ASSUME NEW w \in Worker, WorkerStep(w) PROVE [Promise!Next]_(Promise!vars)
  <2>1. CASE Remove(w)
    BY <2>1, SameStacks DEF Remove, LookPopped, LookEmpty, DequeueAll, LinkSentinel, Take, SameStep,
       worker_vars, fiber_vars, user_vars
  <2>2. CASE Begin(w) \/ Loop(w) \/ SignalJoin(w) \/ Resume(w)
    BY <2>2, SameStacks DEF Begin, Loop, SignalJoin, Resume, SameStep, worker_vars, fiber_vars, user_vars
  <2>3. CASE ~Remove(w) /\ ~(Begin(w) \/ Loop(w) \/ SignalJoin(w) \/ Resume(w))
    BY <1>3, <2>3, SwitchToFiberView, SwitchToBaseView, BookkeepView, ClientView DEF WorkerStep
  <2> QED BY <2>1, <2>2, <2>3
<1>4. ASSUME MainStep PROVE [Promise!Next]_(Promise!vars)
  <2>1. CASE join \/ Delete \/ JoinWorkers
    BY <2>1, SameStacks DEF join, Delete, JoinWorkers, SameStep, worker_vars, fiber_vars, user_vars
  <2> QED BY <1>4, <2>1, LaunchView DEF MainStep
<1>5. CASE UNCHANGED vars BY <1>5, SameStacks DEF vars, SameStep, worker_vars, fiber_vars, user_vars
<1> QED BY <1>1, <1>2, <1>3, <1>4, <1>5 DEF Next

\* The scheduler keeps what FiberScheduling promises: a fiber runs on at most one
\* worker, is woken only after it has left its worker, and ends once.
THEOREM SchedulesFibers == Spec => ImplementsFiberScheduling
<1>1. Init => Promise!Init
  <2> SUFFICES ASSUME Init PROVE Promise!Init OBVIOUS
  <2>1. \A w \in Worker, f \in Fiber : f \notin {cur_fiber[w], prev_fiber[w]} BY Distinct DEF Init
  <2>2. on = [f \in Fiber |-> {}] BY <2>1 DEF on
  <2>3. status = [f \in Fiber |-> "unborn"] BY DEF Init, status
  <2> QED BY <2>2, <2>3 DEF Promise!Init
<1>2. FInv /\ [Next]_vars => [Promise!Next]_(Promise!vars) BY StepView
<1> QED BY <1>1, <1>2, Invariant, PTL DEF Spec, Promise!Spec, ImplementsFiberScheduling
=============================================================================
