-------------------------- MODULE AsyncEngineProofs --------------------------
(***************************************************************************)
(* For every number of machines, replicas, fibers, handlers and queues, no *)
(* message of the asynchronous engine is stranded in the message array,    *)
(* and the replicas of a vertex agree whenever its program does not run.   *)
(*                                                                         *)
(* A vertex is run by one fiber at a time, on its master's machine         *)
(* (Exclusive).  While it runs, a mirror that is not up to date has one    *)
(* request on its way, and the fiber waits for it (Requested).  The bit of *)
(* the scheduler stands for exactly one place in a queue, or one thread    *)
(* that is about to fill it (Queued); and a message in the array has the   *)
(* bit, a thread that is about to set it, a fiber that is about to look,   *)
(* or a running program that will set it again (Followed).                 *)
(*                                                                         *)
(* The engine as a whole implements VertexExecution, what it promises the  *)
(* programmer of a vertex program.  Each message is in one place: in an    *)
(* array, in a fiber's hand, in a call, or given to a program (Hands,      *)
(* OnePlace).  A vertex marked as running is run (Runs).  While a vertex   *)
(* is in a queue of a machine that runs, a fiber will look there before it *)
(* sleeps, or a handler will wake those who sleep (Watched): when all      *)
(* sleep and no call is on its way, no message is left.  And once one      *)
(* machine has been told, nothing happens but that the others are, too     *)
(* (Over).                                                                 *)
(*                                                                         *)
(* First come the threads: where a thread may be, with which vertex, and   *)
(* where it goes next (Placed), together with the types.  The proofs after *)
(* that see the states of threads only through the lemmas LoopEffects,     *)
(* WorkEffects and ConsensusEffects.                                       *)
(***************************************************************************)
EXTENDS AsyncEngine, FiniteSetTheorems, TLAPS

\* In internal_signal().
Signalling == {"schedule", "push", "cancel", "wake"}

\* A thread at a vertex, or signalling one, is on a machine with a replica of it,
\* and comes back to where it called internal_signal().
WellPlaced(t, at, v, to, back) ==
  /\ at = "scatter" => back \in {"scan", "scatter"}
  /\ at = "unlock" => back = "unlock"
  /\ back # "scan" => at \in {"scatter", "unlock"} \cup Signalling
  /\ at \in Signalling => back # "scan" /\ <<t[1], to>> \in Replica
  /\ at = "scatter" \/ back = "scatter" => <<t[1], v>> \in Replica
  /\ t \in Fiber =>
       /\ at # "idle" /\ back # "idle"
       /\ at \in {"take", "found", "eval", "apply", "scatter", "unlock"} \cup Signalling
            => <<t[1], v>> \in Replica
       /\ back = "unlock" => at \in {"unlock"} \cup Signalling
       /\ at = "schedule" /\ back = "unlock" => to = v
  /\ t \in Handler => at \in {"idle", "scatter"} \cup Signalling /\ back # "unlock"

Placed ==
  /\ \A t \in Thread :
       WellPlaced(t, thread[t].at, thread[t].v, thread[t].to, thread[t].back)
  /\ \A k \in Machine : \A q \in Queue : \A v \in queue[k][q] : <<k, v>> \in Replica

-----------------------------------------------------------------------------
(* Facts about the sets.                                                   *)

\* Replicas, threads and their machines.
LEMMA SetFacts ==
  /\ \A r \in Replica : /\ r = <<r[1], r[2]>> /\ r[1] \in Machine /\ r[2] \in Vertex
                        /\ r[1] \in ReplicasOf[r[2]]
  /\ \A v \in Vertex : Master(v) \in Replica /\ Mirrors(v) \subseteq Mirror
  /\ \A r \in Mirror : r \in Replica /\ r \in Mirrors(r[2]) /\ r # Master(r[2])
  /\ Fiber \subseteq Thread /\ Handler \subseteq Thread
  /\ \A t \in Thread : t[1] \in Machine
  /\ \A t \in Thread : t \in Fiber <=> t \notin Handler BY ConstantsAssumption
   DEF ConstantsAssumption, Replica, Master, Mirrors, Mirror, Fiber, Handler, Thread

\* The initial state has the declared types.
LEMMA TypeInit == Init => TypeOK
<1> SUFFICES ASSUME Init PROVE TypeOK OBVIOUS
<1>1. \A r \in Replica : SignalledAtStart(r) \subseteq Message
  BY ConstantsAssumption DEF ConstantsAssumption, SignalledAtStart, Message
<1>2. queue \in [Machine -> [Queue -> SUBSET Vertex]]
  <2> PICK q \in [Replica -> Queue] :
        queue = [k \in Machine |-> [i \in Queue |->
                  {r[2] : r \in {s \in Replica : s[1] = k /\ q[s] = i /\ scheduled[s]}}]] BY DEF Init
  <2>1. \A k \in Machine, i \in Queue :
          {r[2] : r \in {s \in Replica : s[1] = k /\ q[s] = i /\ scheduled[s]}} \subseteq Vertex
    BY SetFacts
  <2> QED BY <2>1
<1>3. thread \in [Thread -> [at : Places, v : Vertex \cup {Nobody}, msg : SUBSET Message,
                             to : Vertex \cup {Nobody},
                             back : {"scan", "scatter", "unlock", "idle"},
                             left : SUBSET Queue, quitting : BOOLEAN]]
  BY DEF Init, Looking, Resting, Places
<1>4. created \in 0 .. MaxMessages BY ConstantsAssumption DEF Init, ConstantsAssumption
<1> QED BY <1>1, <1>2, <1>3, <1>4 DEF Init, TypeOK


ThreadState ==
  [at : Places, v : Vertex \cup {Nobody}, msg : SUBSET Message, to : Vertex \cup {Nobody},
   back : {"scan", "scatter", "unlock", "idle"}, left : SUBSET Queue, quitting : BOOLEAN]

-----------------------------------------------------------------------------
(* What the actions do to the threads.                                     *)

\* Thread u goes on as before, or wakes up.
Stays(u) ==
  /\ thread'[u].v = thread[u].v
  /\ thread'[u].to = thread[u].to
  /\ thread'[u].back = thread[u].back
  /\ thread'[u].at = thread[u].at \/ (At(u, "asleep") /\ thread'[u].at = "woken")

\* Thread t is given a place, a vertex, one to signal, and where to go on.
Turns(t, place, v, to, back) ==
  /\ thread'[t].at = place
  /\ thread'[t].v = v
  /\ thread'[t].to = to
  /\ thread'[t].back = back
  /\ \A u \in Thread \ {t} : Stays(u)

Goes(t, place) == Turns(t, place, thread[t].v, thread[t].to, thread[t].back)
Starts(t, place) == Turns(t, place, Nobody, Nobody, "scan")
Returns(t) == IF thread[t].back = "idle" THEN Starts(t, "idle")
              ELSE Turns(t, thread[t].back, thread[t].v, Nobody, thread[t].back)

\* The two states that threads start from.
LEMMA ThreadStates ==
  /\ \A q \in BOOLEAN :
       /\ Looking(q) \in ThreadState
       /\ Looking(q).at = "scan" /\ Looking(q).v = Nobody
       /\ Looking(q).to = Nobody /\ Looking(q).back = "scan"
  /\ Resting \in ThreadState
  /\ Resting.at = "idle" /\ Resting.v = Nobody /\ Resting.to = Nobody /\ Resting.back = "scan"
BY DEF Looking, Resting, ThreadState, Places

\* What becomes of a thread is seen in its state, and the others stay.
LEMMA BecomeTurns ==
  ASSUME TypeOK, NEW t \in Thread, NEW s \in ThreadState, Become(t, s)
  PROVE  /\ thread' \in [Thread -> ThreadState]
         /\ Turns(t, s.at, s.v, s.to, s.back) BY DEF TypeOK, ThreadState, Become, Turns, Stays

\* A thread that only changes its place.
LEMMA GotoGoes ==
  ASSUME TypeOK, NEW t \in Thread, NEW place \in Places, Goto(t, place)
  PROVE  /\ thread' \in [Thread -> ThreadState]
         /\ Goes(t, place) BY ZenonT(60) DEF TypeOK, ThreadState, Become, Goto, Goes, Turns, Stays

\* A fiber that goes back to the main loop.
LEMMA LookingStarts ==
  ASSUME TypeOK, NEW t \in Thread, NEW q \in BOOLEAN, Become(t, Looking(q))
  PROVE  /\ thread' \in [Thread -> ThreadState]
         /\ Starts(t, "scan") BY ThreadStates, BecomeTurns DEF Starts

\* A fiber that looks for a task, or tries to quit.
LEMMA LoopEffects ==
  ASSUME TypeOK, Placed, NEW t \in Fiber
  PROVE  /\ ScanQueue(t) => /\ thread' \in [Thread -> ThreadState]
                            /\ \E place \in {"scan", "end", "quit"} : Goes(t, place)
         /\ PopQueue(t) => /\ thread' \in [Thread -> ThreadState]
                           /\ \E q \in Queue : \E v \in queue[t[1]][q] :
                                /\ queue' = [queue EXCEPT ![t[1]][q] = @ \ {v}]
                                /\ IF scheduled[<<t[1], v>>]
                                   THEN Turns(t, "take", v, thread[t].to, thread[t].back)
                                   ELSE UNCHANGED thread
                                /\ scheduled' = [scheduled EXCEPT ![<<t[1], v>>] = FALSE]
         /\ TakeMessage(t) => /\ thread' \in [Thread -> ThreadState]
                              /\ Goes(t, "found") \/ Goes(t, "eval")
         /\ TakeNothing(t) \/ LockDone(t) \/ Forward(t) \/ SomeoneElseRunning(t) \/ Release(t)
              => thread' \in [Thread -> ThreadState] /\ Starts(t, "scan")
         /\ BeginDone(t) => thread' \in [Thread -> ThreadState] /\ Goes(t, "begin")
         /\ Found(t) => thread' \in [Thread -> ThreadState] /\ Goes(t, "eval")
         /\ FoundTooLate(t) => thread' \in [Thread -> ThreadState] /\ Starts(t, "end")
         /\ EndDone(t) => /\ thread' \in [Thread -> ThreadState]
                          /\ Starts(t, "exit") \/ Starts(t, "asleep")
         /\ LeaveDone(t) => /\ thread' \in [Thread -> ThreadState]
                            /\ Goes(t, "exit") \/ Starts(t, "scan")
<1> DEFINE s == thread[t]
<1>a. t \in Thread /\ s \in ThreadState BY SetFacts DEF TypeOK, ThreadState
<1>p. At(t, "take") => Here(t) \in Replica BY SetFacts DEF Placed, WellPlaced, At, Here
<1>1. ASSUME ScanQueue(t)
      PROVE  /\ thread' \in [Thread -> ThreadState]
             /\ \E place \in {"scan", "end", "quit"} : Goes(t, place)
  <2> PICK q \in s.left : ScanQueue(t)!(q) BY <1>1 DEF ScanQueue
  <2> DEFINE place == IF s.left \ {q} # {} THEN "scan" ELSE IF s.quitting THEN "end" ELSE "quit"
             n == [s EXCEPT !.left = s.left \ {q}, !.at = place]
  <2>1. n \in ThreadState /\ n.at = place /\ n.v = s.v /\ n.to = s.to /\ n.back = s.back
    BY <1>a DEF ThreadState, Places
  <2>2. Become(t, n) OBVIOUS
  <2>3. place \in {"scan", "end", "quit"} OBVIOUS
  <2> HIDE DEF n, place
  <2> QED BY <1>a, <2>1, <2>2, <2>3, BecomeTurns DEF Goes
<1>2. ASSUME PopQueue(t)
      PROVE  /\ thread' \in [Thread -> ThreadState]
             /\ \E q \in Queue : \E v \in queue[t[1]][q] :
                  /\ queue' = [queue EXCEPT ![t[1]][q] = @ \ {v}]
                  /\ IF scheduled[<<t[1], v>>]
                     THEN Turns(t, "take", v, s.to, s.back)
                     ELSE UNCHANGED thread
                  /\ scheduled' = [scheduled EXCEPT ![<<t[1], v>>] = FALSE]
  <2>0. PICK q \in s.left : \E v \in queue[t[1]][q] : PopQueue(t)!(q)!(v) BY <1>2 DEF PopQueue
  <2>1. PICK v \in queue[t[1]][q] : PopQueue(t)!(q)!(v) BY <2>0
  <2> DEFINE n == [s EXCEPT !.at = "take", !.v = v, !.left = {}]
  <2>2. /\ queue' = [queue EXCEPT ![t[1]][q] = @ \ {v}]
        /\ scheduled' = [scheduled EXCEPT ![<<t[1], v>>] = FALSE]
        /\ IF scheduled[<<t[1], v>>] THEN Become(t, n) ELSE UNCHANGED thread BY <2>1
  <2>3. q \in Queue /\ v \in Vertex BY <1>a, SetFacts DEF ThreadState, TypeOK
  <2>4. n \in ThreadState /\ n.at = "take" /\ n.v = v /\ n.to = s.to /\ n.back = s.back
    BY <1>a, <2>3 DEF ThreadState, Places
  <2> HIDE DEF n
  <2>5. IF scheduled[<<t[1], v>>] THEN Turns(t, "take", v, s.to, s.back) ELSE UNCHANGED thread
    BY <1>a, <2>2, <2>4, BecomeTurns
  <2>6. thread' \in [Thread -> ThreadState] BY <1>a, <2>2, <2>4, BecomeTurns DEF TypeOK, ThreadState
  <2> QED BY <2>2, <2>3, <2>5, <2>6
<1>3. ASSUME TakeMessage(t)
      PROVE  thread' \in [Thread -> ThreadState] /\ (Goes(t, "found") \/ Goes(t, "eval"))
  <2> DEFINE place == IF s.quitting THEN "found" ELSE "eval"
             n == [s EXCEPT !.at = place, !.msg = box[Here(t)]]
  <2>1. box[Here(t)] \in SUBSET Message BY <1>3, <1>p DEF TypeOK, TakeMessage
  <2>2. n \in ThreadState /\ n.at = place /\ n.v = s.v /\ n.to = s.to /\ n.back = s.back
    BY <1>a, <2>1 DEF ThreadState, Places
  <2>3. Become(t, n) BY <1>3 DEF TakeMessage
  <2>4. place = "found" \/ place = "eval" OBVIOUS
  <2> HIDE DEF n
  <2> QED BY <1>a, <2>2, <2>3, <2>4, BecomeTurns DEF Goes
<1>4. ASSUME TakeNothing(t) \/ LockDone(t) \/ Forward(t) \/ SomeoneElseRunning(t) \/ Release(t)
      PROVE  thread' \in [Thread -> ThreadState] /\ Starts(t, "scan")
  <2>1. \E q \in BOOLEAN : Become(t, Looking(q))
    BY <1>4, <1>a DEF TakeNothing, LockDone, Forward, SomeoneElseRunning, Release, ThreadState
  <2> QED BY <1>a, <2>1, LookingStarts
<1>5. BeginDone(t) => thread' \in [Thread -> ThreadState] /\ Goes(t, "begin")
  BY <1>a, GotoGoes DEF BeginDone, Places
<1>6. ASSUME Found(t) PROVE thread' \in [Thread -> ThreadState] /\ Goes(t, "eval")
  <2> DEFINE n == [s EXCEPT !.at = "eval", !.quitting = FALSE]
  <2>1. n \in ThreadState /\ n.at = "eval" /\ n.v = s.v /\ n.to = s.to /\ n.back = s.back
    BY <1>a DEF ThreadState, Places
  <2> QED BY <1>a, <1>6, <2>1, BecomeTurns DEF Found, Goes
<1>b. ASSUME NEW q \in BOOLEAN, NEW place \in Places,
             Become(t, [Looking(q) EXCEPT !.at = place, !.left = {}])
      PROVE  thread' \in [Thread -> ThreadState] /\ Starts(t, place)
  <2> DEFINE l == Looking(q)
             n == [l EXCEPT !.at = place, !.left = {}]
  <2>1. l \in ThreadState /\ l.v = Nobody /\ l.to = Nobody /\ l.back = "scan" BY ThreadStates
  <2>2. Become(t, n) BY <1>b
  <2> HIDE DEF l
  <2>3. n \in ThreadState /\ n.at = place /\ n.v = Nobody /\ n.to = Nobody /\ n.back = "scan"
    BY <2>1 DEF ThreadState
  <2> HIDE DEF n
  <2> QED BY <1>a, <2>2, <2>3, BecomeTurns DEF Starts
<1>7. FoundTooLate(t) => thread' \in [Thread -> ThreadState] /\ Starts(t, "end")
  BY <1>b DEF FoundTooLate, Places
<1>8. ASSUME EndDone(t)
      PROVE  thread' \in [Thread -> ThreadState] /\ (Starts(t, "exit") \/ Starts(t, "asleep"))
  <2> DEFINE place == IF done[t[1]] THEN "exit" ELSE "asleep"
  <2>1. Become(t, [Looking(FALSE) EXCEPT !.at = place, !.left = {}]) BY <1>8 DEF EndDone
  <2>2. place \in Places /\ (place = "exit" \/ place = "asleep") BY DEF Places
  <2> HIDE DEF place
  <2> QED BY <1>b, <2>1, <2>2
<1>9. LeaveDone(t) => thread' \in [Thread -> ThreadState] /\ (Goes(t, "exit") \/ Starts(t, "scan"))
  BY <1>a, GotoGoes, LookingStarts DEF LeaveDone, Places
<1> QED BY <1>1, <1>2, <1>3, <1>4, <1>5, <1>6, <1>7, <1>8, <1>9

\* A thread that runs a program, signals, or answers a call.
LEMMA WorkEffects ==
  ASSUME TypeOK, NEW t \in Thread
  PROVE  /\ ExclusiveAccess(t) => thread' \in [Thread -> ThreadState] /\ Goes(t, "apply")
         /\ Apply(t) => thread' \in [Thread -> ThreadState] /\ Goes(t, "scatter")
         /\ Reschedule(t) =>
              /\ thread' \in [Thread -> ThreadState]
              /\ Turns(t, "schedule", thread[t].v, thread[t].v, "unlock")
         /\ Signal(t) =>
              /\ thread' \in [Thread -> ThreadState]
              /\ \/ UNCHANGED <<thread, box>>
                 \/ \E u \in Vertex, m \in SUBSET Message :
                      /\ <<t[1], u>> \in Replica
                      /\ box' = [box EXCEPT ![<<t[1], u>>] = @ \cup m]
                      /\ Turns(t, "schedule", thread[t].v, u, "scatter")
         /\ Schedule(t) => /\ thread' \in [Thread -> ThreadState]
                           /\ Goes(t, IF scheduled[There(t)] THEN "cancel" ELSE "push")
         /\ Push(t) => thread' \in [Thread -> ThreadState] /\ Goes(t, "cancel")
         /\ CancelTest(t) \/ Wake(t) => /\ thread' \in [Thread -> ThreadState]
                                        /\ Goes(t, "wake") \/ Returns(t)
         /\ ReceiveSignal(t) =>
              /\ thread' \in [Thread -> ThreadState]
              /\ \/ UNCHANGED <<thread, box>>
                 \/ \E u \in Vertex, m \in SUBSET Message :
                      /\ t[1] = Owner[u]
                      /\ box' = [box EXCEPT ![Master(u)] = @ \cup m]
                      /\ Turns(t, "schedule", Nobody, u, "idle")
         /\ PerformScatter(t) =>
              /\ thread' \in [Thread -> ThreadState]
              /\ \E c \in scatters :
                   /\ t[1] = c.to[1]
                   /\ scatters' = scatters \ {c}
                   /\ data' = [data EXCEPT ![c.to] = c.data]
                   /\ Turns(t, "scatter", c.to[2], Nobody, "scan")
         /\ Scattered(t) => thread' \in [Thread -> ThreadState] /\ Starts(t, "idle")
<1> DEFINE s == thread[t]
<1>a. s \in ThreadState BY DEF TypeOK, ThreadState
<1>1. ExclusiveAccess(t) => thread' \in [Thread -> ThreadState] /\ Goes(t, "apply")
  BY GotoGoes DEF ExclusiveAccess, Places
<1>2. ASSUME Apply(t) PROVE thread' \in [Thread -> ThreadState] /\ Goes(t, "scatter")
  <2> DEFINE n == [s EXCEPT !.at = "scatter", !.msg = {}]
  <2>1. Become(t, n) BY <1>2 DEF Apply
  <2>2. n \in ThreadState /\ n.at = "scatter" /\ n.v = s.v /\ n.to = s.to /\ n.back = s.back
    BY <1>a DEF ThreadState, Places
  <2> HIDE DEF n
  <2> QED BY <2>1, <2>2, BecomeTurns DEF Goes
<1>b. ASSUME NEW u \in Vertex \cup {Nobody}, NEW back \in {"scan", "scatter", "unlock", "idle"},
             Become(t, [s EXCEPT !.at = "schedule", !.to = u, !.back = back])
      PROVE  thread' \in [Thread -> ThreadState] /\ Turns(t, "schedule", s.v, u, back)
  <2> DEFINE n == [s EXCEPT !.at = "schedule", !.to = u, !.back = back]
  <2>1. Become(t, n) BY <1>b
  <2>2. n \in ThreadState /\ n.at = "schedule" /\ n.v = s.v /\ n.to = u /\ n.back = back
    BY <1>a DEF ThreadState, Places
  <2> HIDE DEF n
  <2> QED BY <2>1, <2>2, BecomeTurns
<1>3. ASSUME Reschedule(t)
      PROVE  /\ thread' \in [Thread -> ThreadState]
             /\ Turns(t, "schedule", s.v, s.v, "unlock") BY <1>3, <1>a, <1>b DEF Reschedule, ThreadState
<1>4. ASSUME Signal(t)
      PROVE  /\ thread' \in [Thread -> ThreadState]
             /\ \/ UNCHANGED <<thread, box>>
                \/ \E u \in Vertex, m \in SUBSET Message :
                     /\ <<t[1], u>> \in Replica
                     /\ box' = [box EXCEPT ![<<t[1], u>>] = @ \cup m]
                     /\ Turns(t, "schedule", s.v, u, "scatter")
  <2>1. PICK u \in Vertex : Signal(t)!(u) BY <1>4 DEF Signal
  <2>a. created' = created + 1 /\ created < MaxMessages BY <2>1
  <2>2. created' \in Message BY <2>a, ConstantsAssumption DEF ConstantsAssumption, TypeOK, Message
  <2>3. <<t[1], u>> \in Replica BY <2>1, SetFacts DEF Replica
  <2>4. CASE UNCHANGED <<thread, box>> BY <2>4 DEF TypeOK, ThreadState
  <2>5. CASE /\ box' = [box EXCEPT ![<<t[1], u>>] = @ \cup {created'}]
             /\ Become(t, [s EXCEPT !.at = "schedule", !.to = u, !.back = "scatter"])
    <3>1. Turns(t, "schedule", s.v, u, "scatter") /\ thread' \in [Thread -> ThreadState] BY <1>b, <2>5
    <3>2. box' = [box EXCEPT ![<<t[1], u>>] = @ \cup {created'}] BY <2>5
    <3> QED BY <2>2, <2>3, <3>1, <3>2
  <2> QED BY <2>1, <2>4, <2>5
<1>5. Schedule(t) => /\ thread' \in [Thread -> ThreadState]
                     /\ Goes(t, IF scheduled[There(t)] THEN "cancel" ELSE "push")
  BY GotoGoes DEF Schedule, Places
<1>6. Push(t) => thread' \in [Thread -> ThreadState] /\ Goes(t, "cancel") BY GotoGoes DEF Push, Places
<1>c. LET n == Return(t)
      IN  /\ n \in ThreadState
          /\ \A r : Become(t, n) => Returns(t)
          /\ s.back = "idle" => n.at = "idle" /\ n.v = Nobody /\ n.to = Nobody /\ n.back = "scan"
          /\ s.back # "idle" => n.at = s.back /\ n.v = s.v /\ n.to = Nobody /\ n.back = s.back
  <2>1. CASE s.back = "idle" BY <2>1, ThreadStates, BecomeTurns DEF Return, Returns, Starts
  <2>2. CASE s.back # "idle"
    <3> DEFINE n == [s EXCEPT !.at = s.back, !.to = Nobody]
    <3>1. Return(t) = n BY <2>2 DEF Return
    <3>2. n \in ThreadState /\ n.at = s.back /\ n.v = s.v /\ n.to = Nobody /\ n.back = s.back
      BY <1>a DEF ThreadState, Places
    <3> HIDE DEF n
    <3> QED BY <2>2, <3>1, <3>2, BecomeTurns DEF Returns
  <2> QED BY <2>1, <2>2
<1>7. ASSUME CancelTest(t)
      PROVE  thread' \in [Thread -> ThreadState] /\ (Goes(t, "wake") \/ Returns(t))
  <2> DEFINE n == [s EXCEPT !.at = "wake"]
  <2>1. n \in ThreadState /\ n.at = "wake" /\ n.v = s.v /\ n.to = s.to /\ n.back = s.back
    BY <1>a DEF ThreadState, Places
  <2>2. Become(t, n) \/ Become(t, Return(t)) BY <1>7 DEF CancelTest
  <2> HIDE DEF n
  <2> QED BY <1>c, <2>1, <2>2, BecomeTurns DEF Goes
<1>8. ASSUME Wake(t)
      PROVE  thread' \in [Thread -> ThreadState] /\ Returns(t)
  <2>1. ASSUME NEW u \in Asleep(t[1])
        PROVE  LET n == [thread[u] EXCEPT !.at = "woken"]
               IN  /\ n \in ThreadState /\ n.at = "woken" /\ n.v = thread[u].v
                   /\ n.to = thread[u].to /\ n.back = thread[u].back
    <3>1. thread[u] \in ThreadState BY SetFacts DEF TypeOK, ThreadState, Asleep
    <3> QED BY <3>1 DEF ThreadState, Places
  <2>2. thread' \in [Thread -> ThreadState] BY <1>8, <1>c, <2>1 DEF Wake, TypeOK, ThreadState
  <2>3. ASSUME NEW u \in Thread \ {t} PROVE Stays(u)
    <3>1. CASE u \in Asleep(t[1]) BY <1>8, <3>1, <2>1 DEF Wake, Asleep, Stays
    <3>2. CASE u \notin Asleep(t[1]) BY <1>8, <3>2 DEF Wake, Stays
    <3> QED BY <3>1, <3>2
  <2>4. thread'[t] = Return(t) BY <1>8 DEF Wake
  <2> QED BY <1>c, <2>2, <2>3, <2>4 DEF Returns, Turns, Starts
<1>9. ASSUME ReceiveSignal(t)
      PROVE  /\ thread' \in [Thread -> ThreadState]
             /\ \/ UNCHANGED <<thread, box>>
                \/ \E u \in Vertex, m \in SUBSET Message :
                     /\ t[1] = Owner[u]
                     /\ box' = [box EXCEPT ![Master(u)] = @ \cup m]
                     /\ Turns(t, "schedule", Nobody, u, "idle")
  <2>1. PICK c \in signals : ReceiveSignal(t)!(c) BY <1>9 DEF ReceiveSignal
  <2>2. c.v \in Vertex /\ c.msg \in SUBSET Message BY DEF TypeOK
  <2>3. CASE force_stop[t[1]] BY <2>1, <2>3 DEF TypeOK, ThreadState
  <2>4. CASE ~force_stop[t[1]]
    <3> DEFINE n == [Resting EXCEPT !.at = "schedule", !.to = c.v, !.back = "idle"]
    <3>1. Become(t, n) /\ box' = [box EXCEPT ![Master(c.v)] = @ \cup c.msg] /\ t[1] = Owner[c.v]
      BY <2>1, <2>4
    <3> DEFINE rest == Resting
    <3>2. rest \in ThreadState /\ rest.v = Nobody BY ThreadStates
    <3> HIDE DEF rest
    <3>3. LET o == [rest EXCEPT !.at = "schedule", !.to = c.v, !.back = "idle"]
          IN  o \in ThreadState /\ o.at = "schedule" /\ o.v = Nobody /\ o.to = c.v /\ o.back = "idle"
      BY <2>2, <3>2 DEF ThreadState, Places
    <3>4. n \in ThreadState /\ n.at = "schedule" /\ n.v = Nobody /\ n.to = c.v /\ n.back = "idle"
      BY <3>3, Zenon DEF rest
    <3> HIDE DEF n
    <3>5. thread' \in [Thread -> ThreadState] /\ Turns(t, "schedule", Nobody, c.v, "idle")
      BY <3>1, <3>4, BecomeTurns
    <3> QED BY <2>2, <3>1, <3>5
  <2> QED BY <2>3, <2>4
<1>10. ASSUME PerformScatter(t)
       PROVE  /\ thread' \in [Thread -> ThreadState]
              /\ \E c \in scatters :
                   /\ t[1] = c.to[1]
                   /\ scatters' = scatters \ {c}
                   /\ data' = [data EXCEPT ![c.to] = c.data]
                   /\ Turns(t, "scatter", c.to[2], Nobody, "scan")
  <2>1. PICK c \in scatters : PerformScatter(t)!(c) BY <1>10 DEF PerformScatter
  <2>2. c.to[2] \in Vertex BY SetFacts DEF TypeOK
  <2> DEFINE n == [Resting EXCEPT !.at = "scatter", !.v = c.to[2]]
  <2>3. /\ Become(t, n) /\ t[1] = c.to[1] /\ scatters' = scatters \ {c}
        /\ data' = [data EXCEPT ![c.to] = c.data] BY <2>1
  <2> DEFINE rest == Resting
  <2>4. rest \in ThreadState /\ rest.to = Nobody /\ rest.back = "scan" BY ThreadStates
  <2> HIDE DEF rest
  <2>5. LET o == [rest EXCEPT !.at = "scatter", !.v = c.to[2]]
        IN  o \in ThreadState /\ o.at = "scatter" /\ o.v = c.to[2] /\ o.to = Nobody /\ o.back = "scan"
    BY <2>2, <2>4 DEF ThreadState, Places
  <2>6. n \in ThreadState /\ n.at = "scatter" /\ n.v = c.to[2] /\ n.to = Nobody /\ n.back = "scan"
    BY <2>5, Zenon DEF rest
  <2> HIDE DEF n
  <2>7. thread' \in [Thread -> ThreadState] /\ Turns(t, "scatter", c.to[2], Nobody, "scan")
    BY <2>3, <2>6, BecomeTurns
  <2> QED BY <2>3, <2>7
<1>11. Scattered(t) => thread' \in [Thread -> ThreadState] /\ Starts(t, "idle")
  BY ThreadStates, BecomeTurns DEF Scattered, Starts
<1> QED BY <1>1, <1>2, <1>3, <1>4, <1>5, <1>6, <1>7, <1>8, <1>9, <1>10, <1>11

\* The end of the run wakes fibers.
LEMMA ConsensusEffects ==
  ASSUME TypeOK, NEW k \in Machine, Consensus(k)
  PROVE  thread' \in [Thread -> ThreadState] /\ \A u \in Thread : Stays(u)
<1>1. ASSUME NEW u \in Asleep(k)
      PROVE  LET n == [thread[u] EXCEPT !.at = "woken"]
             IN  /\ n \in ThreadState /\ n.at = "woken" /\ n.v = thread[u].v
                 /\ n.to = thread[u].to /\ n.back = thread[u].back
  <2>1. thread[u] \in ThreadState BY SetFacts DEF TypeOK, ThreadState, Asleep
  <2> QED BY <2>1 DEF ThreadState, Places
<1>2. thread' \in [Thread -> ThreadState] BY <1>1 DEF Consensus, TypeOK, ThreadState
<1>3. ASSUME NEW u \in Thread PROVE Stays(u)
  <2>1. CASE u \in Asleep(k) BY <2>1, <1>1 DEF Consensus, Asleep, Stays
  <2>2. CASE u \notin Asleep(k) BY <2>2 DEF Consensus, Stays
  <2> QED BY <2>1, <2>2
<1> QED BY <1>2, <1>3

-----------------------------------------------------------------------------
(* Types.                                                                  *)

\* Every step is one of these.
LEMMA NextSteps ==
  ASSUME [Next]_vars
  PROVE  \/ \E t \in Fiber :
              \/ ScanQueue(t) \/ PopQueue(t) \/ TakeMessage(t) \/ TakeNothing(t)
              \/ TimeOut(t) \/ BeginDone(t) \/ LockDone(t) \/ Found(t) \/ FoundTooLate(t)
              \/ EndDone(t) \/ LeaveDone(t) \/ Forward(t) \/ SomeoneElseRunning(t)
              \/ ExclusiveAccess(t) \/ Apply(t) \/ Reschedule(t) \/ Release(t)
         \/ \E t \in Thread :
              Signal(t) \/ Schedule(t) \/ Push(t) \/ CancelTest(t) \/ Wake(t)
         \/ \E t \in Handler :
              ReceiveSignal(t) \/ PerformScatter(t) \/ Scattered(t) \/ ReceiveEndgame(t)
         \/ \E k \in Machine : Consensus(k)
         \/ UNCHANGED vars BY DEF Next, FiberStep, SignalStep, HandlerStep, Terminated

\* Every step keeps the types.
LEMMA TypeNext ==
  ASSUME TypeOK, Placed, [Next]_vars
  PROVE  TypeOK'
<1> USE DEF sched_vars, vertex_vars, mode_vars, rpc_vars, count_vars
<1>1. ASSUME NEW t \in Fiber, ScanQueue(t) PROVE TypeOK'
  BY <1>1, SetFacts, LoopEffects DEF ScanQueue, TypeOK, ThreadState
<1>2. ASSUME NEW t \in Fiber, PopQueue(t) PROVE TypeOK'
  <2>1. thread' \in [Thread -> ThreadState] BY <1>2, SetFacts, LoopEffects
  <2>2. PICK q \in Queue : \E v \in queue[t[1]][q] :
               /\ queue' = [queue EXCEPT ![t[1]][q] = @ \ {v}]
               /\ scheduled' = [scheduled EXCEPT ![<<t[1], v>>] = FALSE] BY <1>2, LoopEffects
  <2>3. queue' \in [Machine -> [Queue -> SUBSET Vertex]] BY <2>2, SetFacts DEF TypeOK
  <2>4. scheduled' \in [Replica -> BOOLEAN] BY <2>2 DEF TypeOK
  <2>5. UNCHANGED <<box, vertex_vars, mode_vars, rpc_vars, count_vars>> BY <1>2 DEF PopQueue
  <2> QED BY <2>1, <2>3, <2>4, <2>5 DEF TypeOK, ThreadState
<1>3. ASSUME NEW t \in Fiber, TakeMessage(t) PROVE TypeOK'
  BY <1>3, SetFacts, LoopEffects DEF TakeMessage, TypeOK, ThreadState
<1>4. ASSUME NEW t \in Fiber, TakeNothing(t) PROVE TypeOK'
  BY <1>4, SetFacts, LoopEffects DEF TakeNothing, TypeOK, ThreadState
<1>5. ASSUME NEW t \in Fiber, TimeOut(t) PROVE TypeOK' BY <1>5, SetFacts DEF TimeOut, TypeOK, ThreadState
<1>6. ASSUME NEW t \in Fiber, BeginDone(t) PROVE TypeOK'
  BY <1>6, SetFacts, LoopEffects DEF BeginDone, TypeOK, ThreadState
<1>7. ASSUME NEW t \in Fiber, LockDone(t) PROVE TypeOK'
  BY <1>7, SetFacts, LoopEffects DEF LockDone, TypeOK, ThreadState
<1>8. ASSUME NEW t \in Fiber, Found(t) PROVE TypeOK'
  BY <1>8, SetFacts, LoopEffects DEF Found, TypeOK, ThreadState
<1>9. ASSUME NEW t \in Fiber, FoundTooLate(t) PROVE TypeOK'
  BY <1>9, SetFacts, LoopEffects DEF FoundTooLate, TypeOK, ThreadState
<1>10. ASSUME NEW t \in Fiber, EndDone(t) PROVE TypeOK'
  BY <1>10, SetFacts, LoopEffects DEF EndDone, TypeOK, ThreadState
<1>11. ASSUME NEW t \in Fiber, LeaveDone(t) PROVE TypeOK'
  BY <1>11, SetFacts, LoopEffects DEF LeaveDone, TypeOK, ThreadState
<1>12. ASSUME NEW t \in Fiber, Forward(t) PROVE TypeOK'
  <2>1. thread' \in [Thread -> ThreadState] BY <1>12, SetFacts, LoopEffects
  <2>2. thread[t].v \in Vertex /\ thread[t].msg \in SUBSET Message
    BY <1>12, SetFacts DEF Forward, Placed, WellPlaced, Here, At, TypeOK, Replica
  <2>3. signals' \subseteq [v : Vertex, msg : SUBSET Message] BY <1>12, <2>2 DEF Forward, TypeOK
  <2> QED BY <1>12, <2>1, <2>3 DEF Forward, TypeOK, ThreadState
<1>13. ASSUME NEW t \in Fiber, SomeoneElseRunning(t) PROVE TypeOK'
  BY <1>13, SetFacts, LoopEffects DEF SomeoneElseRunning, TypeOK, ThreadState
<1>14. ASSUME NEW t \in Fiber, ExclusiveAccess(t) PROVE TypeOK'
  BY <1>14, SetFacts, WorkEffects DEF ExclusiveAccess, TypeOK, ThreadState
<1>15. ASSUME NEW t \in Fiber, Apply(t) PROVE TypeOK'
  <2>1. thread' \in [Thread -> ThreadState] BY <1>15, SetFacts, WorkEffects
  <2> DEFINE v == thread[t].v
  <2>2. v \in Vertex /\ thread[t].msg \in SUBSET Message
    BY <1>15, SetFacts DEF Apply, Placed, WellPlaced, Here, At, TypeOK, Replica
  <2>3. data[Master(v)] \in Nat BY <2>2, SetFacts DEF TypeOK
  <2>4. ScatterRequests(v) \subseteq [to : Mirror, data : Nat]
    BY <2>2, <2>3, SetFacts DEF ScatterRequests
  <2>5. /\ data' = [data EXCEPT ![Master(v)] = @ + 1]
        /\ scatters' = scatters \cup ScatterRequests(v)
        /\ awaited' = awaited \cup {c.to : c \in ScatterRequests(v)}
        /\ executed' = executed \cup thread[t].msg
        /\ UNCHANGED <<box, sched_vars, program_running, hasnext, mode_vars, signals, created>>
    BY <1>15 DEF Apply
  <2>6. data' \in [Replica -> Nat]
    <3>1. data' = [data EXCEPT ![Master(v)] = @ + 1] BY <2>5
    <3>2. PICK n \in Nat : n = data[Master(v)] + 1 BY <2>3
    <3> QED BY <3>1, <3>2 DEF TypeOK
  <2>7. scatters' \subseteq [to : Mirror, data : Nat] /\ awaited' \subseteq Mirror
    BY <2>4, <2>5 DEF TypeOK
  <2> QED BY <2>1, <2>2, <2>5, <2>6, <2>7 DEF TypeOK, ThreadState
<1>16. ASSUME NEW t \in Fiber, Reschedule(t) PROVE TypeOK'
  BY <1>16, SetFacts, WorkEffects DEF Reschedule, TypeOK, ThreadState
<1>17. ASSUME NEW t \in Fiber, Release(t) PROVE TypeOK'
  BY <1>17, SetFacts, LoopEffects DEF Release, TypeOK, ThreadState
<1>18. ASSUME NEW t \in Thread, Signal(t) PROVE TypeOK'
  <2>1. thread' \in [Thread -> ThreadState] BY <1>18, SetFacts, WorkEffects
  <2>2. PICK u \in Vertex : Signal(t)!(u) BY <1>18 DEF Signal
  <2>3. created' = created + 1 /\ created < MaxMessages BY <2>2
  <2>4. created' \in 0 .. MaxMessages /\ created' \in Message
    BY <2>3, ConstantsAssumption DEF ConstantsAssumption, TypeOK, Message
  <2>5. signals' \subseteq [v : Vertex, msg : SUBSET Message] BY <2>2, <2>4 DEF TypeOK
  <2>6. box' \in [Replica -> SUBSET Message]
    <3>1. \/ UNCHANGED box
          \/ \E r \in Replica, m \in SUBSET Message : box' = [box EXCEPT ![r] = @ \cup m]
      BY ZenonT(60), <1>18, WorkEffects
    <3> QED BY <3>1 DEF TypeOK
  <2>7. UNCHANGED <<sched_vars, vertex_vars, mode_vars, scatters, awaited, executed>> BY <2>2
  <2> QED BY <2>1, <2>4, <2>5, <2>6, <2>7 DEF TypeOK, ThreadState
<1>19. ASSUME NEW t \in Thread, Schedule(t) PROVE TypeOK'
  BY <1>19, SetFacts, WorkEffects DEF Schedule, TypeOK, ThreadState
<1>20. ASSUME NEW t \in Thread, Push(t) PROVE TypeOK'
  <2>1. thread' \in [Thread -> ThreadState] BY <1>20, SetFacts, WorkEffects
  <2>2. thread[t].to \in Vertex
    BY <1>20, SetFacts DEF Push, Placed, WellPlaced, Signalling, There, At, Replica
  <2>3. queue' \in [Machine -> [Queue -> SUBSET Vertex]] BY <1>20, <2>2, SetFacts DEF Push, TypeOK
  <2> QED BY <1>20, <2>1, <2>3 DEF Push, TypeOK, ThreadState
<1>21. ASSUME NEW t \in Thread, CancelTest(t) PROVE TypeOK'
  BY <1>21, SetFacts, WorkEffects DEF CancelTest, TypeOK, ThreadState
<1>22. ASSUME NEW t \in Thread, Wake(t) PROVE TypeOK'
  BY <1>22, SetFacts, WorkEffects DEF Wake, TypeOK, ThreadState
<1>23. ASSUME NEW t \in Handler, ReceiveSignal(t) PROVE TypeOK'
  <2>1. thread' \in [Thread -> ThreadState] BY <1>23, SetFacts, WorkEffects
  <2>2. box' \in [Replica -> SUBSET Message]
    <3>1. \/ UNCHANGED box
          \/ \E u \in Vertex, m \in SUBSET Message : box' = [box EXCEPT ![Master(u)] = @ \cup m]
      BY ZenonT(60), <1>23, SetFacts, WorkEffects
    <3> QED BY ZenonT(60), <3>1, SetFacts DEF TypeOK
  <2>3. /\ signals' \subseteq signals
        /\ UNCHANGED <<sched_vars, vertex_vars, mode_vars, scatters, awaited, count_vars>>
    BY <1>23 DEF ReceiveSignal
  <2> QED BY <2>1, <2>2, <2>3 DEF TypeOK, ThreadState
<1>24. ASSUME NEW t \in Handler, PerformScatter(t) PROVE TypeOK'
  BY <1>24, SetFacts, WorkEffects DEF PerformScatter, TypeOK, ThreadState
<1>25. ASSUME NEW t \in Handler, Scattered(t) PROVE TypeOK'
  BY <1>25, SetFacts, WorkEffects DEF Scattered, TypeOK, ThreadState
<1>26. ASSUME NEW t \in Handler, ReceiveEndgame(t) PROVE TypeOK'
  BY <1>26, SetFacts DEF ReceiveEndgame, TypeOK, ThreadState
<1>27. ASSUME NEW k \in Machine, Consensus(k) PROVE TypeOK'
  BY <1>27, ConsensusEffects DEF Consensus, TypeOK, ThreadState
<1>28. CASE UNCHANGED vars BY <1>28 DEF vars, TypeOK
<1> QED BY NextSteps, <1>1, <1>2, <1>3, <1>4, <1>5, <1>6, <1>7, <1>8, <1>9, <1>10, <1>11,
     <1>12, <1>13, <1>14, <1>15, <1>16, <1>17, <1>18, <1>19, <1>20, <1>21, <1>22, <1>23,
     <1>24, <1>25, <1>26, <1>27, <1>28

-----------------------------------------------------------------------------
(* Where threads are.                                                      *)

\* All fibers begin in the main loop, all handlers idle.
LEMMA PlacedInit == Init => Placed
<1> SUFFICES ASSUME Init PROVE Placed OBVIOUS
<1>1. ASSUME NEW t \in Thread
      PROVE  WellPlaced(t, thread[t].at, thread[t].v, thread[t].to, thread[t].back)
  BY SetFacts, ThreadStates DEF Init, WellPlaced, Signalling
<1>2. ASSUME NEW k \in Machine, NEW i \in Queue, NEW v \in queue[k][i] PROVE <<k, v>> \in Replica
  <2> PICK q \in [Replica -> Queue] :
        queue = [j \in Machine |-> [o \in Queue |->
                  {r[2] : r \in {s \in Replica : s[1] = j /\ q[s] = o /\ scheduled[s]}}]] BY DEF Init
  <2> QED BY <1>2, SetFacts
<1> QED BY <1>1, <1>2 DEF Placed

\* A thread that turns to a good place disturbs no other.
LEMMA PlacedTurns ==
  ASSUME TypeOK, Placed, NEW t \in Thread,
         NEW at, NEW v, NEW to, NEW back, Turns(t, at, v, to, back),
         WellPlaced(t, at, v, to, back),
         UNCHANGED queue
  PROVE  Placed'
<1>1. ASSUME NEW u \in Thread
      PROVE  WellPlaced(u, thread'[u].at, thread'[u].v, thread'[u].to, thread'[u].back)
  <2>1. CASE u = t BY <2>1 DEF Turns
  <2>2. CASE u # t BY <2>2 DEF Turns, Stays, Placed, WellPlaced, At, Signalling
  <2> QED BY <2>1, <2>2
<1> QED BY <1>1 DEF Placed

Idling == {"scan", "quit", "begin", "end", "asleep", "woken", "exit"}

\* The places where a fiber has no vertex are always good.
LEMMA IdlePlaced ==
  ASSUME NEW t \in Fiber, NEW place \in Idling, NEW v, NEW to
  PROVE  WellPlaced(t, place, v, to, "scan") BY SetFacts DEF WellPlaced, Signalling, Idling

\* Who does not signal goes on in the main loop.
LEMMA BackScan ==
  ASSUME Placed, NEW t \in Thread,
         thread[t].at \in Idling \cup {"take", "found", "eval", "apply"}
  PROVE  thread[t].back = "scan" /\ t \in Fiber
<1>1. WellPlaced(t, thread[t].at, thread[t].v, thread[t].to, thread[t].back) BY DEF Placed
<1>2. thread[t].at \notin {"scatter", "unlock", "idle"} \cup Signalling BY DEF Idling, Signalling
<1> QED BY <1>1, <1>2, SetFacts DEF WellPlaced

\* A fiber keeps its vertex from get_next() to the end of the program.
LEMMA RunPlaced ==
  ASSUME Placed, NEW t \in Fiber, thread[t].at \in {"take", "found", "eval", "apply"},
         NEW place \in {"found", "eval", "apply", "scatter"}
  PROVE  WellPlaced(t, place, thread[t].v, thread[t].to, "scan")
<1>1. WellPlaced(t, thread[t].at, thread[t].v, thread[t].to, thread[t].back) BY SetFacts DEF Placed
<1> QED BY <1>1, SetFacts DEF WellPlaced, Signalling

\* Steps of the main loop that find nothing to do.
LEMMA IdleSteps ==
  ASSUME TypeOK, Placed, NEW t \in Fiber, NEW place \in Idling, UNCHANGED queue,
         Starts(t, place) \/ (thread[t].at \in Idling /\ Goes(t, place))
  PROVE  Placed' BY BackScan, IdlePlaced, PlacedTurns, SetFacts DEF Starts, Goes

\* Steps of the main loop with a task.
LEMMA RunSteps ==
  ASSUME TypeOK, Placed, NEW t \in Fiber, NEW place \in {"found", "eval", "apply", "scatter"},
         thread[t].at \in {"take", "found", "eval", "apply"}, Goes(t, place), UNCHANGED queue
  PROVE  Placed' BY BackScan, RunPlaced, PlacedTurns, SetFacts DEF Goes

\* Every step leaves the threads well placed.
LEMMA PlacedNext ==
  ASSUME TypeOK, Placed, [Next]_vars
  PROVE  Placed'
<1> USE DEF sched_vars, vertex_vars, mode_vars, rpc_vars, count_vars
<1>a. ASSUME NEW t \in Thread
      PROVE  WellPlaced(t, thread[t].at, thread[t].v, thread[t].to, thread[t].back) BY DEF Placed
<1>1. ASSUME NEW t \in Fiber, ScanQueue(t) PROVE Placed'
  BY ZenonT(60), <1>1, LoopEffects, IdleSteps DEF ScanQueue, At, Idling
<1>2. ASSUME NEW t \in Fiber, PopQueue(t) PROVE Placed'
  <2>1. PICK q \in Queue : \E v \in queue[t[1]][q] :
               /\ queue' = [queue EXCEPT ![t[1]][q] = @ \ {v}]
               /\ IF scheduled[<<t[1], v>>]
                  THEN Turns(t, "take", v, thread[t].to, thread[t].back)
                  ELSE UNCHANGED thread BY <1>2, LoopEffects
  <2>2. PICK v \in queue[t[1]][q] :
               /\ queue' = [queue EXCEPT ![t[1]][q] = @ \ {v}]
               /\ IF scheduled[<<t[1], v>>]
                  THEN Turns(t, "take", v, thread[t].to, thread[t].back)
                  ELSE UNCHANGED thread BY <2>1
  <2>3. At(t, "scan") BY <1>2 DEF PopQueue
  <2>4. <<t[1], v>> \in Replica /\ t[1] \in Machine BY SetFacts DEF Placed
  <2>5. \A k \in Machine : \A i \in Queue : queue'[k][i] \subseteq queue[k][i] BY <2>2 DEF TypeOK
  <2>6. thread[t].back = "scan" /\ t \in Thread BY <2>3, BackScan, SetFacts DEF At, Idling
  <2>7. WellPlaced(t, "take", v, thread[t].to, "scan") BY <2>4, SetFacts DEF WellPlaced, Signalling
  <2>8. ASSUME NEW u \in Thread
        PROVE  WellPlaced(u, thread'[u].at, thread'[u].v, thread'[u].to, thread'[u].back)
    <3>1. CASE UNCHANGED thread BY <1>a, <3>1
    <3>2. CASE u = t /\ ~UNCHANGED thread BY <2>2, <2>6, <2>7, <3>2 DEF Turns
    <3>3. CASE u # t /\ ~UNCHANGED thread
      BY <1>a, <2>2, <3>3 DEF Turns, Stays, At, WellPlaced, Signalling
    <3> QED BY <3>1, <3>2, <3>3
  <2> QED BY <2>5, <2>8 DEF Placed
<1>3. ASSUME NEW t \in Fiber, TakeMessage(t) PROVE Placed'
  BY <1>3, LoopEffects, RunSteps, SetFacts DEF TakeMessage, At
<1>4. ASSUME NEW t \in Fiber, TakeNothing(t) PROVE Placed'
  BY <1>4, LoopEffects, IdleSteps, SetFacts DEF TakeNothing, Idling
<1>5. ASSUME NEW t \in Fiber, TimeOut(t) PROVE Placed' BY <1>5 DEF TimeOut, Placed
<1>6. ASSUME NEW t \in Fiber, BeginDone(t) PROVE Placed'
  BY <1>6, LoopEffects, IdleSteps, SetFacts DEF BeginDone, Idling, At
<1>7. ASSUME NEW t \in Fiber, LockDone(t) PROVE Placed'
  BY <1>7, LoopEffects, IdleSteps, SetFacts DEF LockDone, Idling
<1>8. ASSUME NEW t \in Fiber, Found(t) PROVE Placed'
  BY <1>8, LoopEffects, RunSteps, SetFacts DEF Found, At
<1>9. ASSUME NEW t \in Fiber, FoundTooLate(t) PROVE Placed'
  BY <1>9, LoopEffects, IdleSteps, SetFacts DEF FoundTooLate, Idling
<1>10. ASSUME NEW t \in Fiber, EndDone(t) PROVE Placed'
  BY <1>10, LoopEffects, IdleSteps, SetFacts DEF EndDone, Idling
<1>11. ASSUME NEW t \in Fiber, LeaveDone(t) PROVE Placed'
  BY <1>11, LoopEffects, IdleSteps, SetFacts DEF LeaveDone, Idling, At
<1>12. ASSUME NEW t \in Fiber, Forward(t) PROVE Placed'
  BY <1>12, LoopEffects, IdleSteps, SetFacts DEF Forward, Idling
<1>13. ASSUME NEW t \in Fiber, SomeoneElseRunning(t) PROVE Placed'
  BY <1>13, LoopEffects, IdleSteps, SetFacts DEF SomeoneElseRunning, Idling
<1>14. ASSUME NEW t \in Fiber, ExclusiveAccess(t) PROVE Placed'
  BY <1>14, WorkEffects, RunSteps, SetFacts DEF ExclusiveAccess, At
<1>15. ASSUME NEW t \in Fiber, Apply(t) PROVE Placed'
  BY <1>15, WorkEffects, RunSteps, SetFacts DEF Apply, At
<1>16. ASSUME NEW t \in Fiber, Reschedule(t) PROVE Placed'
  <2>1. At(t, "scatter") /\ UNCHANGED queue /\ t \in Thread
    BY <1>16, SetFacts DEF Reschedule, ScatteredEverywhere
  <2>2. WellPlaced(t, "schedule", thread[t].v, thread[t].v, "unlock")
    BY <1>a, <2>1, SetFacts DEF WellPlaced, At, Signalling
  <2> QED BY <1>16, <2>1, <2>2, WorkEffects, PlacedTurns
<1>17. ASSUME NEW t \in Fiber, Release(t) PROVE Placed'
  BY <1>17, LoopEffects, IdleSteps, SetFacts DEF Release, Idling
<1>18. ASSUME NEW t \in Thread, Signal(t) PROVE Placed'
  <2>1. At(t, "scatter") /\ UNCHANGED queue BY <1>18 DEF Signal
  <2>2. ASSUME NEW u, <<t[1], u>> \in Replica
        PROVE  WellPlaced(t, "schedule", thread[t].v, u, "scatter")
    BY <1>a, <2>1, <2>2, SetFacts DEF WellPlaced, At, Signalling
  <2>3. \/ UNCHANGED thread
        \/ \E u \in Vertex : /\ <<t[1], u>> \in Replica
                             /\ Turns(t, "schedule", thread[t].v, u, "scatter") BY <1>18, WorkEffects
  <2>4. UNCHANGED thread => Placed' BY <2>1 DEF Placed
  <2> QED BY <2>1, <2>2, <2>3, <2>4, PlacedTurns
<1>19. ASSUME NEW t \in Thread, Schedule(t) PROVE Placed'
  <2>1. At(t, "schedule") /\ UNCHANGED queue BY <1>19 DEF Schedule
  <2>2. \E place \in {"push", "cancel"} : Goes(t, place) BY <1>19, WorkEffects
  <2>3. \A place \in {"push", "cancel"} :
          WellPlaced(t, place, thread[t].v, thread[t].to, thread[t].back)
    BY <1>a, <2>1 DEF WellPlaced, At, Signalling
  <2> QED BY <2>1, <2>2, <2>3, PlacedTurns DEF Goes
<1>20. ASSUME NEW t \in Thread, Push(t) PROVE Placed'
  <2>1. PICK q \in Queue : queue' = [queue EXCEPT ![t[1]][q] = @ \cup {thread[t].to}] BY <1>20 DEF Push
  <2>2. At(t, "push") /\ Goes(t, "cancel") BY <1>20, WorkEffects DEF Push
  <2>3. /\ WellPlaced(t, "cancel", thread[t].v, thread[t].to, thread[t].back)
        /\ <<t[1], thread[t].to>> \in Replica BY <1>a, <2>2 DEF WellPlaced, At, Signalling
  <2>4. ASSUME NEW u \in Thread
        PROVE  WellPlaced(u, thread'[u].at, thread'[u].v, thread'[u].to, thread'[u].back)
    <3>1. CASE u = t BY <2>2, <2>3, <3>1 DEF Goes, Turns
    <3>2. CASE u # t BY <1>a, <2>2, <3>2 DEF Goes, Turns, Stays, At, WellPlaced, Signalling
    <3> QED BY <3>1, <3>2
  <2>5. ASSUME NEW k \in Machine, NEW i \in Queue, NEW v \in queue'[k][i] PROVE <<k, v>> \in Replica
    <3>1. v \in queue[k][i] \/ (k = t[1] /\ v = thread[t].to) BY <2>1, <2>5 DEF TypeOK
    <3> QED BY <2>3, <3>1 DEF Placed
  <2> QED BY <2>4, <2>5 DEF Placed
<1>21. ASSUME NEW t \in Thread, CancelTest(t) \/ Wake(t) PROVE Placed'
  <2>1. thread[t].at \in {"cancel", "wake"} /\ UNCHANGED queue BY <1>21 DEF CancelTest, Wake, At
  <2>2. Goes(t, "wake") \/ Returns(t) BY <1>21, WorkEffects
  <2>3. WellPlaced(t, "wake", thread[t].v, thread[t].to, thread[t].back)
    BY <1>a, <2>1 DEF WellPlaced, Signalling
  <2>4. thread[t].back = "idle" => WellPlaced(t, "idle", Nobody, Nobody, "scan")
    BY <1>a, <2>1, SetFacts DEF WellPlaced, Signalling
  <2>5. thread[t].back # "idle" => WellPlaced(t, thread[t].back, thread[t].v, Nobody, thread[t].back)
    BY <1>a, <2>1, SetFacts DEF WellPlaced, Signalling, TypeOK
  <2> QED BY <2>1, <2>2, <2>3, <2>4, <2>5, PlacedTurns DEF Goes, Returns, Starts
<1>23. ASSUME NEW t \in Handler, ReceiveSignal(t) PROVE Placed'
  <2>1. At(t, "idle") /\ UNCHANGED queue /\ t \in Thread /\ t \notin Fiber
    BY <1>23, SetFacts DEF ReceiveSignal
  <2>2. \A u \in Vertex : t[1] = Owner[u] => WellPlaced(t, "schedule", Nobody, u, "idle")
    BY <2>1, SetFacts DEF WellPlaced, Signalling, Master
  <2>3. \/ UNCHANGED thread
        \/ \E u \in Vertex : t[1] = Owner[u] /\ Turns(t, "schedule", Nobody, u, "idle")
    BY <1>23, <2>1, WorkEffects
  <2>4. UNCHANGED thread => Placed' BY <2>1 DEF Placed
  <2> QED BY <2>1, <2>2, <2>3, <2>4, PlacedTurns
<1>24. ASSUME NEW t \in Handler, PerformScatter(t) PROVE Placed'
  <2>1. UNCHANGED queue /\ t \in Thread /\ t \notin Fiber BY <1>24, SetFacts DEF PerformScatter
  <2>2. PICK c \in scatters : t[1] = c.to[1] /\ Turns(t, "scatter", c.to[2], Nobody, "scan")
    BY <1>24, <2>1, WorkEffects
  <2>3. c.to \in Replica BY SetFacts DEF TypeOK
  <2>4. WellPlaced(t, "scatter", c.to[2], Nobody, "scan")
    BY <2>1, <2>2, <2>3, SetFacts DEF WellPlaced, Signalling
  <2> QED BY <2>1, <2>2, <2>4, PlacedTurns
<1>25. ASSUME NEW t \in Handler, Scattered(t) PROVE Placed'
  <2>1. UNCHANGED queue /\ t \in Thread /\ t \notin Fiber BY <1>25, SetFacts DEF Scattered
  <2>2. WellPlaced(t, "idle", Nobody, Nobody, "scan") BY <2>1 DEF WellPlaced, Signalling
  <2> QED BY <1>25, <2>1, <2>2, WorkEffects, PlacedTurns DEF Starts
<1>26. ASSUME NEW t \in Handler, ReceiveEndgame(t) PROVE Placed' BY <1>26 DEF ReceiveEndgame, Placed
<1>27. ASSUME NEW k \in Machine, Consensus(k) PROVE Placed'
  <2>1. UNCHANGED queue /\ \A u \in Thread : Stays(u) BY <1>27, ConsensusEffects DEF Consensus
  <2> QED BY <1>a, <2>1 DEF Placed, WellPlaced, Stays, At, Signalling
<1>28. CASE UNCHANGED vars BY <1>28 DEF vars, Placed
<1> QED BY NextSteps, <1>1, <1>2, <1>3, <1>4, <1>5, <1>6, <1>7, <1>8, <1>9, <1>10, <1>11,
     <1>12, <1>13, <1>14, <1>15, <1>16, <1>17, <1>18, <1>19, <1>20, <1>21, <1>23, <1>24,
     <1>25, <1>26, <1>27, <1>28

-----------------------------------------------------------------------------
(* Messages, requests and data.                                            *)

\* Between get_exclusive_access_to_vertex() and the release.
Inside(f) == thread[f].at \in {"apply", "scatter", "unlock"} \cup Signalling

\* A program that scatters, or signals and will go on to scatter.
Scattering(t) == At(t, "scatter") \/ thread[t].back = "scatter"

Exclusive ==
  /\ \A f \in Fiber : Inside(f) => /\ program_running[thread[f].v]
                                   /\ f[1] = Owner[thread[f].v]
  /\ \A f, g \in Fiber : Inside(f) /\ Inside(g) /\ thread[f].v = thread[g].v => f = g

Requested ==
  /\ \A c \in scatters : c.to \in awaited /\ c.data = data[Master(c.to[2])]
  /\ \A h \in Handler : Scattering(h) =>
       /\ Here(h) \in awaited
       /\ \A c \in scatters : c.to # Here(h)
       /\ \A g \in Handler : Scattering(g) /\ Here(g) = Here(h) => g = h
  /\ \A r \in awaited : \E f \in Fiber : Scattering(f) /\ thread[f].v = r[2]
  /\ \A v \in Vertex : \A r \in Mirrors(v) :
       data[r] = data[Master(v)] \/ \E c \in scatters : c.to = r

\* t is about to put the vertex of r in a queue.
Pushing(t, r) == At(t, "push") /\ There(t) = r

\* The vertex of r is in queue q of its machine.
InQueue(r, q) == r[2] \in queue[r[1]][q]

\* The bit stands for one place in a queue, or for one thread.
QueuedAt(r) ==
  /\ scheduled[r] => \/ \E q \in Queue : InQueue(r, q)
                     \/ \E t \in Thread : Pushing(t, r)
  /\ \A q \in Queue : InQueue(r, q) =>
       /\ scheduled[r]
       /\ \A i \in Queue : InQueue(r, i) => i = q
       /\ \A t \in Thread : ~Pushing(t, r)
  /\ \A t \in Thread : Pushing(t, r) =>
       /\ scheduled[r]
       /\ \A u \in Thread : Pushing(u, r) => u = t

Queued == \A r \in Replica : QueuedAt(r)

\* Somebody will look into the message array.
LookedAt(r) ==
  \/ scheduled[r]
  \/ \E t \in Thread : At(t, "schedule") /\ There(t) = r
  \/ \E f \in Fiber : At(f, "take") /\ Here(f) = r

\* The program that runs r has been told of a message.
Told(r) == r = Master(r[2]) /\ hasnext[r[2]] /\ program_running[r[2]]

\* A fiber that has set the bit again will not come back to the message.
Followed ==
  /\ \A r \in Replica : box[r] # {} => LookedAt(r) \/ Told(r)
  /\ \A f \in Fiber : thread[f].back = "unlock" /\ box[Here(f)] # {} => LookedAt(Here(f))

IInv == TypeOK /\ Placed /\ Exclusive /\ Requested /\ Queued /\ Followed

-----------------------------------------------------------------------------
(* One fiber at a time runs a vertex.                                      *)

\* No program runs at first.
LEMMA ExclusiveInit == Init => Exclusive
BY SetFacts, ThreadStates DEF Init, Exclusive, Inside, Signalling

\* No fiber begins to run a program in this step.
NobodyEnters ==
  \A f \in Fiber : Inside(f)' => Inside(f) /\ thread'[f].v = thread[f].v

\* Who stays where he is does not enter.
LEMMA StaysInside ==
  ASSUME NEW u \in Thread, Stays(u), Inside(u)'
  PROVE  Inside(u) /\ thread'[u].v = thread[u].v BY DEF Stays, Inside, Signalling, At

\* A step that takes thread t to a place outside, or from a place inside, or a handler.
LEMMA NobodyEntersTurns ==
  ASSUME NEW t \in Thread, NEW at, NEW v, NEW to, NEW back, Turns(t, at, v, to, back),
         \/ at \in Idling \cup {"take", "found", "eval"}
         \/ Inside(t) /\ v = thread[t].v
         \/ t \in Handler
  PROVE  NobodyEnters
<1> SUFFICES ASSUME NEW f \in Fiber, Inside(f)' PROVE Inside(f) /\ thread'[f].v = thread[f].v
  BY DEF NobodyEnters
<1>1. CASE f # t BY <1>1, StaysInside, SetFacts DEF Turns
<1>2. CASE f = t BY <1>2, SetFacts DEF Turns, Inside, Idling, Signalling
<1> QED BY <1>1, <1>2

\* The bit and the fibers inside stay, or the fibers leave.
LEMMA ExclusiveKept ==
  ASSUME Exclusive, NobodyEnters, UNCHANGED program_running
  PROVE  Exclusive' BY DEF Exclusive, NobodyEnters

\* Only get_exclusive_access_to_vertex() lets a fiber in.
LEMMA EntersOnly ==
  ASSUME TypeOK, Placed, [Next]_vars,
         ~ \E t \in Fiber : ExclusiveAccess(t)
  PROVE  NobodyEnters
<1>a. ASSUME NEW t \in Thread, \E place \in Idling : Starts(t, place)
      PROVE  NobodyEnters BY <1>a, NobodyEntersTurns DEF Starts
<1>b. ASSUME NEW t \in Thread, \E place \in Idling \cup {"found", "eval"} : Goes(t, place)
      PROVE  NobodyEnters BY <1>b, NobodyEntersTurns DEF Goes
<1>c. UNCHANGED thread => NobodyEnters BY DEF NobodyEnters, Inside
<1>1. ASSUME NEW t \in Fiber,
             \/ ScanQueue(t) \/ TakeMessage(t) \/ TakeNothing(t)
             \/ BeginDone(t) \/ LockDone(t) \/ Found(t) \/ FoundTooLate(t)
             \/ EndDone(t) \/ LeaveDone(t) \/ Forward(t) \/ SomeoneElseRunning(t) \/ Release(t)
      PROVE  NobodyEnters
  <2>1. \/ \E place \in Idling : Starts(t, place)
        \/ \E place \in Idling \cup {"found", "eval"} : Goes(t, place) BY <1>1, LoopEffects DEF Idling
  <2> QED BY <1>a, <1>b, <2>1, SetFacts
<1>2. ASSUME NEW t \in Fiber, PopQueue(t) PROVE NobodyEnters
  <2>1. UNCHANGED thread \/ \E v : Turns(t, "take", v, thread[t].to, thread[t].back) BY <1>2, LoopEffects
  <2> QED BY <1>c, <2>1, NobodyEntersTurns, SetFacts
<1>3. ASSUME NEW t \in Fiber, TimeOut(t) PROVE NobodyEnters BY <1>c, <1>3 DEF TimeOut
<1>4. ASSUME NEW t \in Fiber, Apply(t) PROVE NobodyEnters
  <2>1. Inside(t) /\ t \in Thread BY <1>4, SetFacts DEF Apply, Inside, At
  <2> QED BY <1>4, <2>1, WorkEffects, NobodyEntersTurns DEF Goes
<1>5. ASSUME NEW t \in Fiber, Reschedule(t) PROVE NobodyEnters
  BY <1>5, WorkEffects, NobodyEntersTurns, SetFacts DEF Reschedule, ScatteredEverywhere, Goes, Inside, At
<1>6. ASSUME NEW t \in Thread, Signal(t) PROVE NobodyEnters
  <2>1. UNCHANGED thread \/ \E u : Turns(t, "schedule", thread[t].v, u, "scatter") BY <1>6, WorkEffects
  <2>2. Inside(t) BY <1>6 DEF Signal, Inside, At
  <2> QED BY <1>c, <2>1, <2>2, NobodyEntersTurns
<1>7. ASSUME NEW t \in Thread, Schedule(t) \/ Push(t) \/ CancelTest(t) \/ Wake(t)
      PROVE  NobodyEnters
  <2>1. Inside(t) BY <1>7 DEF Schedule, Push, CancelTest, Wake, Inside, Signalling, At
  <2>2. (\E place : Goes(t, place)) \/ Returns(t) BY <1>7, WorkEffects
  <2>3. thread[t].back = "idle" => t \in Handler BY SetFacts DEF Placed, WellPlaced
  <2> QED BY <2>1, <2>2, <2>3, NobodyEntersTurns DEF Goes, Returns, Starts
<1>8. ASSUME NEW t \in Handler,
             ReceiveSignal(t) \/ PerformScatter(t) \/ Scattered(t) \/ ReceiveEndgame(t)
      PROVE  NobodyEnters
  <2>1. UNCHANGED thread \/ \E at, v, to, back : Turns(t, at, v, to, back)
    BY <1>8, WorkEffects, SetFacts DEF Starts, ReceiveEndgame
  <2> QED BY <1>c, <2>1, NobodyEntersTurns, SetFacts
<1>9. ASSUME NEW k \in Machine, Consensus(k) PROVE NobodyEnters
  BY <1>9, ConsensusEffects, StaysInside, SetFacts DEF NobodyEnters
<1>10. CASE UNCHANGED vars BY <1>c, <1>10 DEF vars
<1> QED BY NextSteps, <1>1, <1>2, <1>3, <1>4, <1>5, <1>6, <1>7, <1>8, <1>9, <1>10

\* Every step keeps one fiber per vertex.
LEMMA ExclusiveNext ==
  ASSUME TypeOK, Placed, Exclusive, [Next]_vars
  PROVE  Exclusive'
<1> USE DEF sched_vars, vertex_vars, mode_vars, rpc_vars, count_vars
<1>1. ASSUME NEW t \in Fiber, ExclusiveAccess(t) PROVE Exclusive'
  <2> DEFINE v == thread[t].v
  <2>1. /\ ~Inside(t) /\ Owner[v] = t[1] /\ ~program_running[v]
        /\ program_running' = [program_running EXCEPT ![v] = TRUE]
    BY <1>1 DEF ExclusiveAccess, Inside, At, Signalling
  <2>2. v \in Vertex BY <1>1, SetFacts DEF ExclusiveAccess, Placed, WellPlaced, At
  <2>3. Goes(t, "apply") /\ t \in Thread BY <1>1, WorkEffects, SetFacts
  <2>4. ASSUME NEW f \in Fiber \ {t}, Inside(f)'
        PROVE  Inside(f) /\ thread'[f].v = thread[f].v
    BY <2>3, <2>4, StaysInside, SetFacts DEF Goes, Turns
  <2>5. \A f \in Fiber \ {t} : Inside(f) => thread[f].v # v BY <2>1 DEF Exclusive
  <2>6. thread'[t].v = v BY <2>3 DEF Goes, Turns
  <2>7. \A w : program_running[w] => program_running'[w] BY <2>1, <2>2 DEF TypeOK
  <2>8. program_running'[v] BY <2>1, <2>2 DEF TypeOK
  <2> HIDE DEF v
  <2> QED BY <2>1, <2>4, <2>5, <2>6, <2>7, <2>8 DEF Exclusive
<1>2. ASSUME NEW t \in Fiber, Release(t) PROVE Exclusive'
  <2> DEFINE v == thread[t].v
  <2>1. /\ Inside(t)
        /\ program_running' = [program_running EXCEPT ![v] = FALSE]
    BY <1>2 DEF Release, ScatteredEverywhere, Inside, At
  <2>2. Starts(t, "scan") /\ t \in Thread BY <1>2, LoopEffects, SetFacts
  <2>3. ~Inside(t)' BY <2>2 DEF Starts, Turns, Inside, Signalling
  <2>4. ASSUME NEW f \in Fiber, Inside(f)'
        PROVE  f # t /\ Inside(f) /\ thread'[f].v = thread[f].v
    BY <2>2, <2>3, <2>4, StaysInside, SetFacts DEF Starts, Turns
  <2>5. \A f \in Fiber \ {t} : Inside(f) => thread[f].v # v BY <2>1 DEF Exclusive
  <2>6. \A w \in Vertex \ {v} : program_running'[w] = program_running[w] BY <2>1 DEF TypeOK
  <2>7. ASSUME NEW f \in Fiber, Inside(f) PROVE thread[f].v \in Vertex
    BY <2>7, SetFacts DEF Placed, WellPlaced, Inside
  <2> HIDE DEF v
  <2> QED BY <2>4, <2>5, <2>6, <2>7 DEF Exclusive
<1>3. ASSUME ~ \E t \in Fiber : ExclusiveAccess(t) \/ Release(t)
      PROVE  Exclusive'
  <2>1. UNCHANGED program_running BY ZenonT(60), <1>3, NextSteps
       DEF ScanQueue, PopQueue, TakeMessage, TakeNothing, TimeOut, BeginDone, LockDone, Found,
           FoundTooLate, EndDone, LeaveDone, Forward, SomeoneElseRunning, Apply, Reschedule,
           Signal, Schedule, Push, CancelTest, Wake, ReceiveSignal, PerformScatter, Scattered,
           ReceiveEndgame, Consensus, vars
  <2> QED BY <1>3, <2>1, EntersOnly, ExclusiveKept
<1> QED BY <1>1, <1>2, <1>3

-----------------------------------------------------------------------------
(* What a run asks of the mirrors.                                         *)

\* Nobody scatters, and the data is the same everywhere, at first.
LEMMA RequestedInit == Init => Requested
<1> SUFFICES ASSUME Init PROVE Requested OBVIOUS
<1>1. \A h \in Handler : ~Scattering(h) BY SetFacts, ThreadStates DEF Init, Scattering, At
<1>2. \A r \in Replica : data[r] = 0 BY DEF Init
<1> QED BY <1>1, <1>2, SetFacts DEF Init, Requested

\* Whom a thread scatters for, or nobody: all that Requested sees of it.
SameScattering(t) ==
  /\ Scattering(t)' = Scattering(t)
  /\ Scattering(t) => thread'[t].v = thread[t].v

\* Who stays where he is scatters as before.
LEMMA StaysScattering ==
  ASSUME NEW u \in Thread, Stays(u)
  PROVE  SameScattering(u) BY DEF Stays, Scattering, SameScattering, At

\* A step of a thread that scatters no more and no less than before.
LEMMA ScatteringTurns ==
  ASSUME NEW t \in Thread, NEW at, NEW v, NEW to, NEW back, Turns(t, at, v, to, back),
         (at = "scatter" \/ back = "scatter") <=> Scattering(t),
         Scattering(t) => v = thread[t].v
  PROVE  \A u \in Thread : SameScattering(u)
<1> SUFFICES ASSUME NEW u \in Thread PROVE SameScattering(u) OBVIOUS
<1>1. CASE u # t BY <1>1, StaysScattering DEF Turns
<1>2. CASE u = t BY <1>2 DEF Turns, Scattering, SameScattering, At
<1> QED BY <1>1, <1>2

\* A step that neither scatters nor applies.
LEMMA RequestedKept ==
  ASSUME Requested, \A u \in Thread : SameScattering(u), UNCHANGED <<data, scatters, awaited>>
  PROVE  Requested'
<1>1. \A h \in Handler : Scattering(h)' => Scattering(h) /\ Here(h)' = Here(h)
  BY SetFacts DEF SameScattering, Here
<1>2. \A f \in Fiber : Scattering(f) => Scattering(f)' /\ thread'[f].v = thread[f].v
  BY SetFacts DEF SameScattering
<1>3. \A v : Mirrors(v)' = Mirrors(v) /\ Master(v)' = Master(v) BY DEF Mirrors, Master, Replica
<1> QED BY <1>1, <1>2, <1>3 DEF Requested

\* Scattering begins and ends in five actions.
LEMMA ScatteringSteps ==
  ASSUME TypeOK, Placed, [Next]_vars,
         ~ \E t \in Fiber : Apply(t) \/ Reschedule(t) \/ Release(t),
         ~ \E t \in Handler : PerformScatter(t) \/ Scattered(t)
  PROVE  \A u \in Thread : SameScattering(u)
<1>a. UNCHANGED thread => \A u \in Thread : SameScattering(u) BY DEF SameScattering, Scattering, At
<1>b. ASSUME NEW t \in Fiber, thread[t].at \in Idling \cup {"take", "found", "eval", "apply"},
             NEW at, NEW v, NEW to, Turns(t, at, v, to, "scan"), at # "scatter"
      PROVE  \A u \in Thread : SameScattering(u)
  <2>1. ~Scattering(t) /\ t \in Thread BY <1>b, BackScan, SetFacts DEF Scattering, At, Idling
  <2> QED BY <1>b, <2>1, ScatteringTurns
<1>1. ASSUME NEW t \in Fiber,
             \/ ScanQueue(t) \/ TakeMessage(t) \/ TakeNothing(t)
             \/ BeginDone(t) \/ LockDone(t) \/ Found(t) \/ FoundTooLate(t)
             \/ EndDone(t) \/ LeaveDone(t) \/ Forward(t) \/ SomeoneElseRunning(t)
             \/ ExclusiveAccess(t)
      PROVE  \A u \in Thread : SameScattering(u)
  <2>1. thread[t].at \in Idling \cup {"take", "found", "eval", "apply"}
    BY <1>1 DEF ScanQueue, TakeMessage, TakeNothing, BeginDone, LockDone, Found, FoundTooLate,
                EndDone, LeaveDone, Forward, SomeoneElseRunning, ExclusiveAccess, At, Idling
  <2>2. \/ \E place \in Idling : Starts(t, place)
        \/ \E place \in Idling \cup {"found", "eval", "apply"} : Goes(t, place)
    BY <1>1, LoopEffects, WorkEffects, SetFacts DEF Idling
  <2>3. thread[t].back = "scan" BY <2>1, BackScan, SetFacts
  <2> QED BY <1>b, <2>1, <2>2, <2>3 DEF Starts, Goes, Idling
<1>2. ASSUME NEW t \in Fiber, PopQueue(t) PROVE \A u \in Thread : SameScattering(u)
  <2>1. UNCHANGED thread \/ \E v : Turns(t, "take", v, thread[t].to, thread[t].back) BY <1>2, LoopEffects
  <2>2. thread[t].at \in Idling BY <1>2 DEF PopQueue, At, Idling
  <2>3. thread[t].back = "scan" BY <2>2, BackScan, SetFacts
  <2> QED BY <1>a, <1>b, <2>1, <2>2, <2>3
<1>3. ASSUME NEW t \in Fiber, TimeOut(t) PROVE \A u \in Thread : SameScattering(u)
  BY <1>a, <1>3 DEF TimeOut
<1>4. ASSUME NEW t \in Thread, Signal(t) PROVE \A u \in Thread : SameScattering(u)
  <2>1. UNCHANGED thread \/ \E u : Turns(t, "schedule", thread[t].v, u, "scatter") BY <1>4, WorkEffects
  <2>2. Scattering(t) BY <1>4 DEF Signal, Scattering
  <2> QED BY <1>a, <2>1, <2>2, ScatteringTurns
<1>5. ASSUME NEW t \in Thread, Schedule(t) \/ Push(t) \/ CancelTest(t) \/ Wake(t)
      PROVE  \A u \in Thread : SameScattering(u)
  <2>1. (\E place \in {"push", "cancel", "wake"} : Goes(t, place)) \/ Returns(t) BY <1>5, WorkEffects
  <2>2. thread[t].at \in Signalling BY <1>5 DEF Schedule, Push, CancelTest, Wake, Signalling, At
  <2>3. Scattering(t) <=> thread[t].back = "scatter" BY <2>2 DEF Scattering, Signalling, At
  <2> QED BY <2>1, <2>3, ScatteringTurns DEF Goes, Returns, Starts
<1>6. ASSUME NEW t \in Handler, ReceiveSignal(t) PROVE \A u \in Thread : SameScattering(u)
  <2>1. UNCHANGED thread \/ \E u : Turns(t, "schedule", Nobody, u, "idle") BY <1>6, WorkEffects, SetFacts
  <2>2. At(t, "idle") /\ t \in Thread BY <1>6, SetFacts DEF ReceiveSignal
  <2>3. ~Scattering(t) BY <2>2 DEF Scattering, Placed, WellPlaced, Signalling, At
  <2> QED BY <1>a, <2>1, <2>2, <2>3, ScatteringTurns
<1>7. ASSUME NEW t \in Handler, ReceiveEndgame(t) PROVE \A u \in Thread : SameScattering(u)
  BY <1>a, <1>7 DEF ReceiveEndgame
<1>8. ASSUME NEW k \in Machine, Consensus(k) PROVE \A u \in Thread : SameScattering(u)
  BY <1>8, ConsensusEffects, StaysScattering
<1>9. CASE UNCHANGED vars BY <1>a, <1>9 DEF vars
<1> QED BY NextSteps, <1>1, <1>2, <1>3, <1>4, <1>5, <1>6, <1>7, <1>8, <1>9

\* The fiber that waits for a mirror is inside.
LEMMA ScatteringInside ==
  ASSUME Placed, NEW f \in Fiber, Scattering(f)
  PROVE  Inside(f) /\ ~At(f, "apply") /\ ~At(f, "unlock") /\ thread[f].back # "unlock"
BY SetFacts DEF Placed, WellPlaced, Scattering, Inside, Signalling, At

\* apply() finds no request of an earlier run, and makes one for every mirror.
LEMMA RequestedApply ==
  ASSUME TypeOK, Placed, Exclusive, Requested, NEW t \in Fiber, Apply(t)
  PROVE  Requested'
<1> DEFINE v == thread[t].v
           d == data[Master(v)] + 1
<1>1. /\ data' = [data EXCEPT ![Master(v)] = d]
      /\ scatters' = scatters \cup ScatterRequests(v)
      /\ awaited' = awaited \cup {c.to : c \in ScatterRequests(v)}
      /\ At(t, "apply") BY DEF Apply
<1>2. v \in Vertex /\ Inside(t) /\ t \in Thread BY <1>1, SetFacts DEF Placed, WellPlaced, Inside, At
<1>3. Goes(t, "scatter") BY <1>2, WorkEffects
<1>4. ASSUME NEW r \in awaited PROVE r \in Mirror /\ r[2] # v
  BY <1>1, ScatteringInside, <1>2 DEF Requested, Exclusive, TypeOK
<1>5. \A c \in scatters : c.to \in Mirror /\ c.to[2] # v /\ Master(c.to[2]) \in Replica
  BY <1>4, SetFacts DEF Requested
<1>6. \A c \in ScatterRequests(v) : c.to \in Mirrors(v) /\ c.to[2] = v /\ c.data = d
  BY DEF ScatterRequests, Mirrors
<1>7. \A r \in Mirrors(v) : \E c \in ScatterRequests(v) : c.to = r
  <2> TAKE r \in Mirrors(v)
  <2>1. [to |-> r, data |-> d] \in ScatterRequests(v) BY DEF ScatterRequests
  <2> QED BY <2>1
<1>8. \A r \in Replica : data'[r] = IF r = Master(v) THEN d ELSE data[r] BY <1>1 DEF TypeOK
<1>9. \A w : Master(w) = Master(v) => w = v BY DEF Master
<1>10. \A h \in Handler : /\ h \in Thread
                          /\ Scattering(h)' = Scattering(h)
                          /\ Scattering(h) => Here(h)' = Here(h) /\ Here(h) \in awaited
  BY <1>3, StaysScattering, SetFacts DEF Goes, Turns, SameScattering, Here, Requested
<1>11. \A f \in Fiber : Scattering(f) => Scattering(f)' /\ thread'[f].v = thread[f].v
  <2> TAKE f \in Fiber
  <2>1. CASE f = t BY <1>3, <2>1 DEF Goes, Turns, Scattering, At
  <2>2. CASE f # t BY <1>3, <2>2, StaysScattering, SetFacts DEF Goes, Turns, SameScattering
  <2> QED BY <2>1, <2>2
<1>12. Scattering(t)' /\ thread'[t].v = v BY <1>3 DEF Goes, Turns, Scattering, At
<1> HIDE DEF v, d
<1>13. ASSUME NEW c \in scatters' PROVE c.to \in awaited' /\ c.data = data'[Master(c.to[2])]
  <2>1. CASE c \in scatters BY <1>1, <1>5, <1>8, <1>9, <2>1 DEF Requested
  <2>2. CASE c \in ScatterRequests(v) BY <1>1, <1>2, <1>6, <1>8, <2>2, SetFacts
  <2> QED BY <1>1, <2>1, <2>2
<1>14. ASSUME NEW h \in Handler, Scattering(h)'
       PROVE  /\ Here(h)' \in awaited'
              /\ \A c \in scatters' : c.to # Here(h)'
              /\ \A g \in Handler : Scattering(g)' /\ Here(g)' = Here(h)' => g = h
  <2>1. Scattering(h) /\ Here(h)' = Here(h) /\ Here(h) \in awaited BY <1>10, <1>14
  <2>2. \A c \in scatters' : c.to # Here(h) BY <1>1, <1>4, <1>6, <2>1 DEF Requested
  <2>3. \A g \in Handler : Scattering(g)' /\ Here(g)' = Here(h)' => g = h BY <1>10, <2>1 DEF Requested
  <2> QED BY <1>1, <2>1, <2>2, <2>3
<1>15. ASSUME NEW r \in awaited' PROVE \E f \in Fiber : Scattering(f)' /\ thread'[f].v = r[2]
  <2>1. CASE r \in awaited BY <1>11, <2>1 DEF Requested
  <2>2. CASE \E c \in ScatterRequests(v) : r = c.to BY <1>6, <1>12, <2>2
  <2> QED BY <1>1, <2>1, <2>2
<1>16. ASSUME NEW w \in Vertex, NEW r \in Mirrors(w)
       PROVE  data'[r] = data'[Master(w)] \/ \E c \in scatters' : c.to = r
  <2>1. CASE w = v BY <1>1, <1>7, <2>1
  <2>2. CASE w # v
    <3>1. r \in Replica /\ r # Master(v) /\ Master(w) \in Replica /\ Master(w) # Master(v)
      BY <1>9, <2>2, SetFacts DEF Mirrors, Master
    <3> QED BY <1>1, <1>8, <3>1 DEF Requested
  <2> QED BY <2>1, <2>2
<1>17. \A w : Mirrors(w)' = Mirrors(w) /\ Master(w)' = Master(w) BY DEF Mirrors, Master, Replica
<1> QED BY <1>13, <1>14, <1>15, <1>16, <1>17 DEF Requested

\* The run leaves its vertex when it waits for nobody.
LEMMA RequestedLeave ==
  ASSUME TypeOK, Placed, Exclusive, Requested, NEW t \in Fiber, Reschedule(t) \/ Release(t)
  PROVE  Requested'
<1>1. UNCHANGED <<data, scatters, awaited>> BY DEF Reschedule, Release, vertex_vars, rpc_vars
<1>2. Turns(t, "schedule", thread[t].v, thread[t].v, "unlock") \/ Starts(t, "scan")
  BY LoopEffects, WorkEffects, SetFacts
<1>3. At(t, "unlock") \/ (At(t, "scatter") /\ awaited \cap Mirrors(thread[t].v) = {})
  BY DEF Reschedule, Release, ScatteredEverywhere
<1>4. \A r \in awaited : r \in Mirrors(r[2]) BY SetFacts DEF TypeOK
<1>5. ASSUME NEW r \in awaited
      PROVE  \E f \in Fiber : Scattering(f)' /\ thread'[f].v = r[2]
  <2>1. PICK f \in Fiber : Scattering(f) /\ thread[f].v = r[2] BY DEF Requested
  <2>2. f # t BY <1>3, <1>4, <2>1, ScatteringInside
  <2> QED BY <1>2, <2>1, <2>2, StaysScattering, SetFacts DEF Starts, Turns, SameScattering
<1>6. \A h \in Handler : Scattering(h)' => Scattering(h) /\ Here(h)' = Here(h)
  BY <1>2, StaysScattering, SetFacts DEF Starts, Turns, SameScattering, Here
<1>7. \A w : Mirrors(w)' = Mirrors(w) /\ Master(w)' = Master(w) BY DEF Mirrors, Master, Replica
<1> QED BY <1>1, <1>5, <1>6, <1>7 DEF Requested

\* A mirror takes the data of its master, and its request is gone.
LEMMA RequestedPerform ==
  ASSUME TypeOK, Placed, Requested, NEW t \in Handler, PerformScatter(t)
  PROVE  Requested'
<1>1. t \in Thread /\ At(t, "idle") /\ UNCHANGED awaited BY SetFacts DEF PerformScatter
<1>2. PICK c \in scatters : /\ t[1] = c.to[1]
                            /\ scatters' = scatters \ {c}
                            /\ data' = [data EXCEPT ![c.to] = c.data]
                            /\ Turns(t, "scatter", c.to[2], Nobody, "scan") BY <1>1, WorkEffects
<1>3. /\ c.to \in Mirror /\ c.to \in Replica /\ c.to # Master(c.to[2]) /\ c.to = <<t[1], c.to[2]>>
      /\ c.to[2] \in Vertex BY <1>2, SetFacts DEF TypeOK
<1>4. \A w \in Vertex : Master(w) \in Replica /\ Master(w) # c.to BY <1>3, SetFacts DEF Master
<1>5. \A r \in Replica : data'[r] = IF r = c.to THEN c.data ELSE data[r] BY <1>2 DEF TypeOK
<1>6. \A o \in scatters : o.to = c.to => o = c BY DEF Requested, TypeOK
<1>8. Here(t)' = c.to BY <1>2, <1>3 DEF Turns, Here
<1>9. \A u \in Thread \ {t} : Scattering(u)' = Scattering(u)
                              /\ (Scattering(u) => thread'[u].v = thread[u].v /\ Here(u)' = Here(u))
  BY <1>2, StaysScattering DEF Turns, SameScattering, Here
<1>10. ASSUME NEW o \in scatters' PROVE o.to \in awaited' /\ o.data = data'[Master(o.to[2])]
  <2>1. o.to[2] \in Vertex BY <1>2, SetFacts DEF TypeOK
  <2> QED BY <1>1, <1>2, <1>4, <1>5, <2>1 DEF Requested
<1>11. ASSUME NEW h \in Handler, Scattering(h)'
       PROVE  /\ Here(h)' \in awaited'
              /\ \A o \in scatters' : o.to # Here(h)'
              /\ \A g \in Handler : Scattering(g)' /\ Here(g)' = Here(h)' => g = h
  <2>1. \A g \in Handler \ {t} : Scattering(g)' => /\ Scattering(g) /\ Here(g)' = Here(g)
                                                   /\ Here(g) # c.to BY <1>9, SetFacts DEF Requested
  <2>2. CASE h = t BY <1>1, <1>2, <1>6, <1>8, <2>1, <2>2 DEF Requested
  <2>3. CASE h # t BY <1>1, <1>2, <1>8, <1>11, <2>1, <2>3 DEF Requested
  <2> QED BY <2>2, <2>3
<1>12. ASSUME NEW r \in awaited' PROVE \E f \in Fiber : Scattering(f)' /\ thread'[f].v = r[2]
  BY <1>1, <1>9, SetFacts DEF Requested
<1>13. ASSUME NEW w \in Vertex, NEW r \in Mirrors(w)
       PROVE  data'[r] = data'[Master(w)] \/ \E o \in scatters' : o.to = r
  <2>1. r \in Replica /\ r[2] = w BY DEF Mirrors
  <2>2. CASE r = c.to BY <1>3, <1>4, <1>5, <2>1, <2>2 DEF Requested
  <2>3. CASE r # c.to BY <1>2, <1>4, <1>5, <2>1, <2>3 DEF Requested
  <2> QED BY <2>2, <2>3
<1>14. \A w : Mirrors(w)' = Mirrors(w) /\ Master(w)' = Master(w) BY DEF Mirrors, Master, Replica
<1> QED BY <1>10, <1>11, <1>12, <1>13, <1>14 DEF Requested

\* A reply: the mirror has the data, and is waited for no longer.
LEMMA RequestedScattered ==
  ASSUME TypeOK, Placed, Requested, NEW t \in Handler, Scattered(t)
  PROVE  Requested'
<1>1. /\ t \in Thread /\ Scattering(t)
      /\ awaited' = awaited \ {Here(t)} /\ UNCHANGED <<data, scatters>>
  BY SetFacts DEF Scattered, Scattering, vertex_vars
<1>2. Starts(t, "idle") BY <1>1, WorkEffects
<1>3. ~Scattering(t)' BY <1>2 DEF Starts, Turns, Scattering, At
<1>4. \A u \in Thread \ {t} : Scattering(u)' = Scattering(u)
                              /\ (Scattering(u) => thread'[u].v = thread[u].v /\ Here(u)' = Here(u))
  BY <1>2, StaysScattering DEF Starts, Turns, SameScattering, Here
<1>5. \A w : Mirrors(w)' = Mirrors(w) /\ Master(w)' = Master(w) BY DEF Mirrors, Master, Replica
<1>6. \A c \in scatters : c.to # Here(t) BY <1>1 DEF Requested
<1>7. ASSUME NEW h \in Handler, Scattering(h)'
      PROVE  /\ Scattering(h) /\ Here(h)' = Here(h) /\ Here(h) # Here(t)
  BY <1>1, <1>3, <1>4, <1>7, SetFacts DEF Requested
<1>8. \A f \in Fiber : Scattering(f) => Scattering(f)' /\ thread'[f].v = thread[f].v BY <1>4, SetFacts
<1> QED BY <1>1, <1>5, <1>6, <1>7, <1>8 DEF Requested

\* Every step leaves a mirror current, or a request on its way to it.
LEMMA RequestedNext ==
  ASSUME TypeOK, Placed, Exclusive, Requested, [Next]_vars
  PROVE  Requested'
<1> USE DEF sched_vars, vertex_vars, mode_vars, rpc_vars, count_vars
<1>1. ASSUME ~ \E t \in Fiber : Apply(t) \/ Reschedule(t) \/ Release(t),
             ~ \E t \in Handler : PerformScatter(t) \/ Scattered(t)
      PROVE  Requested'
  <2>1. UNCHANGED <<data, scatters, awaited>> BY ZenonT(60), <1>1, NextSteps
       DEF ScanQueue, PopQueue, TakeMessage, TakeNothing, TimeOut, BeginDone, LockDone, Found,
           FoundTooLate, EndDone, LeaveDone, Forward, SomeoneElseRunning, ExclusiveAccess,
           Signal, Schedule, Push, CancelTest, Wake, ReceiveSignal, ReceiveEndgame, Consensus, vars
  <2> QED BY <1>1, <2>1, ScatteringSteps, RequestedKept
<1> QED BY <1>1, RequestedApply, RequestedLeave, RequestedPerform, RequestedScattered

-----------------------------------------------------------------------------
(* The scheduler.                                                          *)

\* start() finds each scheduled vertex in one queue.
LEMMA QueuedInit == Init => Queued
<1> SUFFICES ASSUME Init PROVE Queued OBVIOUS
<1>1. \A t \in Thread : ~At(t, "push") BY ThreadStates DEF Init, At
<1>2. PICK q \in [Replica -> Queue] :
        queue = [k \in Machine |-> [i \in Queue |->
                  {r[2] : r \in {s \in Replica : s[1] = k /\ q[s] = i /\ scheduled[s]}}]] BY DEF Init
<1>3. ASSUME NEW r \in Replica, NEW i \in Queue
      PROVE  r[2] \in queue[r[1]][i] <=> q[r] = i /\ scheduled[r] BY SetFacts, <1>2
<1> QED BY <1>1, <1>3 DEF Queued, QueuedAt, InQueue, Pushing

\* Who is about to push what: all that Queued sees of a thread.
SamePushing(t) == \A r : Pushing(t, r)' = Pushing(t, r)

\* Who stays where he is pushes as before.
LEMMA StaysPushing ==
  ASSUME NEW u \in Thread, Stays(u)
  PROVE  SamePushing(u) BY DEF Stays, SamePushing, Pushing, There, At

\* A thread that goes from elsewhere to elsewhere.
LEMMA PushingTurns ==
  ASSUME NEW t \in Thread, NEW at, NEW v, NEW to, NEW back, Turns(t, at, v, to, back),
         at # "push", ~At(t, "push")
  PROVE  \A u \in Thread : SamePushing(u)
<1> SUFFICES ASSUME NEW u \in Thread PROVE SamePushing(u) OBVIOUS
<1>1. CASE u # t BY <1>1, StaysPushing DEF Turns
<1>2. CASE u = t BY <1>2 DEF Turns, Pushing, SamePushing, At
<1> QED BY <1>1, <1>2

\* A step that leaves bits, queues and pushing threads alone.
LEMMA QueuedKept ==
  ASSUME Queued, \A u \in Thread : SamePushing(u), UNCHANGED <<scheduled, queue>>
  PROVE  Queued'
<1>1. \A r : \A q : InQueue(r, q)' <=> InQueue(r, q) BY DEF InQueue
<1>2. \A r : \A t \in Thread : Pushing(t, r)' <=> Pushing(t, r) BY DEF SamePushing
<1> QED BY <1>1, <1>2 DEF Queued, QueuedAt

\* The bit and the queues are changed in three actions, and so is pushing.
LEMMA PushingSteps ==
  ASSUME TypeOK, Placed, [Next]_vars,
         ~ \E t \in Fiber : PopQueue(t),
         ~ \E t \in Thread : Schedule(t) \/ Push(t)
  PROVE  (\A u \in Thread : SamePushing(u)) /\ UNCHANGED <<scheduled, queue>>
<1>a. UNCHANGED thread => \A u \in Thread : SamePushing(u) BY DEF SamePushing, Pushing, There, At
<1>0. UNCHANGED <<scheduled, queue>> BY ZenonT(60), NextSteps
     DEF sched_vars, vars, ScanQueue, TakeMessage, TakeNothing, TimeOut, BeginDone, LockDone, Found,
         FoundTooLate, EndDone, LeaveDone, Forward, SomeoneElseRunning, ExclusiveAccess, Apply,
         Reschedule, Release, Signal, CancelTest, Wake, ReceiveSignal, PerformScatter, Scattered,
         ReceiveEndgame, Consensus
<1>1. ASSUME NEW t \in Fiber,
             \/ ScanQueue(t) \/ TakeMessage(t) \/ TakeNothing(t)
             \/ BeginDone(t) \/ LockDone(t) \/ Found(t) \/ FoundTooLate(t)
             \/ EndDone(t) \/ LeaveDone(t) \/ Forward(t) \/ SomeoneElseRunning(t)
             \/ ExclusiveAccess(t) \/ Apply(t) \/ Reschedule(t) \/ Release(t)
      PROVE  \A u \in Thread : SamePushing(u)
  <2>1. ~At(t, "push") /\ t \in Thread BY <1>1, SetFacts
       DEF ScanQueue, TakeMessage, TakeNothing, BeginDone, LockDone, Found, FoundTooLate, EndDone,
           LeaveDone, Forward, SomeoneElseRunning, ExclusiveAccess, Apply, Reschedule, Release,
           ScatteredEverywhere, At
  <2>2. \/ \E place \in Idling : Starts(t, place)
        \/ \E place \in Idling \cup {"found", "eval", "apply", "scatter"} : Goes(t, place)
        \/ Turns(t, "schedule", thread[t].v, thread[t].v, "unlock")
    BY <1>1, LoopEffects, WorkEffects, SetFacts DEF Idling
  <2> QED BY <2>1, <2>2, PushingTurns DEF Starts, Goes, Idling
<1>2. ASSUME NEW t \in Fiber, TimeOut(t) PROVE \A u \in Thread : SamePushing(u) BY <1>a, <1>2 DEF TimeOut
<1>3. ASSUME NEW t \in Thread, Signal(t) PROVE \A u \in Thread : SamePushing(u)
  <2>1. UNCHANGED thread \/ \E u : Turns(t, "schedule", thread[t].v, u, "scatter") BY <1>3, WorkEffects
  <2>2. ~At(t, "push") BY <1>3 DEF Signal, At
  <2> QED BY <1>a, <2>1, <2>2, PushingTurns
<1>4. ASSUME NEW t \in Thread, CancelTest(t) \/ Wake(t)
      PROVE  \A u \in Thread : SamePushing(u)
  <2>1. Goes(t, "wake") \/ Returns(t) BY <1>4, WorkEffects
  <2>2. ~At(t, "push") BY <1>4 DEF CancelTest, Wake, At
  <2>3. thread[t].back # "push" BY SMTT(30) DEF TypeOK
  <2> QED BY <2>1, <2>2, <2>3, PushingTurns DEF Goes, Returns, Starts
<1>5. ASSUME NEW t \in Handler,
             ReceiveSignal(t) \/ PerformScatter(t) \/ Scattered(t)
      PROVE  \A u \in Thread : SamePushing(u)
  <2>1. \/ UNCHANGED thread
        \/ \E place \in {"schedule", "scatter", "idle"} : \E v, to, back :
             Turns(t, place, v, to, back) BY <1>5, WorkEffects, SetFacts DEF Starts
  <2>2. ~At(t, "push") /\ t \in Thread BY <1>5, SetFacts DEF ReceiveSignal, PerformScatter, Scattered, At
  <2> QED BY <1>a, <2>1, <2>2, PushingTurns
<1>6. ASSUME NEW t \in Handler, ReceiveEndgame(t) PROVE \A u \in Thread : SamePushing(u)
  BY <1>a, <1>6 DEF ReceiveEndgame
<1>7. ASSUME NEW k \in Machine, Consensus(k) PROVE \A u \in Thread : SamePushing(u)
  BY <1>7, ConsensusEffects, StaysPushing
<1>8. CASE UNCHANGED vars BY <1>a, <1>0, <1>8 DEF vars
<1> QED BY NextSteps, <1>0, <1>1, <1>2, <1>3, <1>4, <1>5, <1>6, <1>7, <1>8

\* schedule() sets the bit; only who finds it clear will push.
LEMMA QueuedSchedule ==
  ASSUME TypeOK, Placed, Queued, NEW t \in Thread, Schedule(t)
  PROVE  Queued'
<1> DEFINE s == There(t)
<1>1. At(t, "schedule") /\ UNCHANGED queue /\ scheduled' = [scheduled EXCEPT ![s] = TRUE] BY DEF Schedule
<1>2. s \in Replica BY <1>1 DEF Placed, WellPlaced, Signalling, There, At
<1>3. Goes(t, IF scheduled[s] THEN "cancel" ELSE "push") BY WorkEffects
<1>4. \A r \in Replica : scheduled'[r] = (r = s \/ scheduled[r]) BY <1>1, <1>2 DEF TypeOK
<1>5. \A r : Pushing(t, r)' <=> (r = s /\ ~scheduled[s]) BY <1>3 DEF Goes, Turns, Pushing, There, At
<1>6. \A u \in Thread \ {t} : \A r : Pushing(u, r)' <=> Pushing(u, r)
  BY <1>3, StaysPushing DEF Goes, Turns, SamePushing
<1>7. \A r : ~Pushing(t, r) BY <1>1 DEF Pushing, At
<1>8. \A r : \A q : InQueue(r, q)' <=> InQueue(r, q) BY <1>1 DEF InQueue
<1> HIDE DEF s
<1> SUFFICES ASSUME NEW r \in Replica PROVE QueuedAt(r)' BY DEF Queued
<1>9. CASE r = s /\ ~scheduled[s] BY <1>4, <1>5, <1>6, <1>8, <1>9 DEF Queued, QueuedAt
<1>10. CASE ~(r = s /\ ~scheduled[s])
  <2>1. \A u \in Thread : Pushing(u, r)' <=> Pushing(u, r) BY <1>5, <1>6, <1>7, <1>10
  <2>2. scheduled'[r] = scheduled[r] BY <1>4, <1>10 DEF TypeOK
  <2> QED BY <1>8, <2>1, <2>2 DEF Queued, QueuedAt
<1> QED BY <1>9, <1>10

\* The vertex goes from the hand of a thread to a queue.
LEMMA QueuedPush ==
  ASSUME TypeOK, Placed, Queued, NEW t \in Thread, Push(t)
  PROVE  Queued'
<1> DEFINE s == There(t)
<1>1. PICK q \in Queue : queue' = [queue EXCEPT ![t[1]][q] = @ \cup {thread[t].to}] BY DEF Push
<1>2. At(t, "push") /\ UNCHANGED scheduled /\ Goes(t, "cancel") BY WorkEffects DEF Push
<1>3. s \in Replica /\ s[1] = t[1] /\ s[2] = thread[t].to /\ t[1] \in Machine
  BY <1>2, SetFacts DEF Placed, WellPlaced, Signalling, There, At
<1> DEFINE v == thread[t].to
<1>0. s = <<t[1], v>> BY DEF There
<1>4. ASSUME NEW r \in Replica, NEW i \in Queue
      PROVE  InQueue(r, i)' <=> (InQueue(r, i) \/ (r = s /\ i = q))
  <2> HIDE DEF v, s
  <2>1. queue \in [Machine -> [Queue -> SUBSET Vertex]] /\ r[1] \in Machine BY SetFacts DEF TypeOK
  <2>2. r = s <=> r[1] = t[1] /\ r[2] = v BY <1>0, <1>3, SetFacts DEF v
  <2> QED BY <1>1, <1>3, <2>1, <2>2 DEF InQueue, v
<1>5. Pushing(t, s) /\ \A r : ~Pushing(t, r)' BY <1>2 DEF Goes, Turns, Pushing, There, At
<1>6. \A u \in Thread \ {t} : \A r : Pushing(u, r)' <=> Pushing(u, r)
  BY <1>2, StaysPushing DEF Goes, Turns, SamePushing
<1>7. \A r : Pushing(t, r) => r = s BY DEF Pushing
<1> HIDE DEF s, v
<1> SUFFICES ASSUME NEW r \in Replica PROVE QueuedAt(r)' BY DEF Queued
<1>8. CASE r = s
  <2>1. \A u \in Thread : Pushing(u, s) => u = t BY <1>3, <1>5 DEF Queued, QueuedAt
  <2>2. scheduled[s] /\ \A i \in Queue : ~InQueue(s, i) BY <1>3, <1>5 DEF Queued, QueuedAt
  <2> QED BY <1>2, <1>4, <1>5, <1>6, <1>8, <2>1, <2>2 DEF QueuedAt
<1>9. CASE r # s
  <2>1. \A u \in Thread : Pushing(u, r)' <=> Pushing(u, r) BY <1>5, <1>6, <1>7, <1>9
  <2> QED BY <1>2, <1>4, <1>9, <2>1 DEF Queued, QueuedAt
<1> QED BY <1>8, <1>9

\* The vertex leaves its only place, and the bit is cleared.
LEMMA QueuedPop ==
  ASSUME TypeOK, Placed, Queued, NEW t \in Fiber, PopQueue(t)
  PROVE  Queued'
<1>1. PICK q \in Queue : \E v \in queue[t[1]][q] :
             /\ queue' = [queue EXCEPT ![t[1]][q] = @ \ {v}]
             /\ IF scheduled[<<t[1], v>>]
                THEN Turns(t, "take", v, thread[t].to, thread[t].back)
                ELSE UNCHANGED thread
             /\ scheduled' = [scheduled EXCEPT ![<<t[1], v>>] = FALSE] BY LoopEffects
<1>2. PICK v \in queue[t[1]][q] :
             /\ queue' = [queue EXCEPT ![t[1]][q] = @ \ {v}]
             /\ IF scheduled[<<t[1], v>>]
                THEN Turns(t, "take", v, thread[t].to, thread[t].back)
                ELSE UNCHANGED thread
             /\ scheduled' = [scheduled EXCEPT ![<<t[1], v>>] = FALSE] BY <1>1
<1> DEFINE s == <<t[1], v>>
<1>3. At(t, "scan") /\ t \in Thread /\ t[1] \in Machine BY SetFacts DEF PopQueue
<1>4. s \in Replica /\ s[1] = t[1] /\ s[2] = v BY <1>3 DEF Placed
<1>5. scheduled[s] BY <1>4 DEF Queued, QueuedAt, InQueue
<1>6. \A u \in Thread : SamePushing(u) BY <1>2, <1>3, <1>5, PushingTurns DEF At
<1>7. \A r \in Replica : \A i \in Queue :
        InQueue(r, i)' <=> (InQueue(r, i) /\ ~(r = s /\ i = q))
  BY <1>2, <1>3, <1>4, SetFacts DEF TypeOK, InQueue
<1>8. \A r \in Replica : scheduled'[r] = (r # s /\ scheduled[r]) BY <1>2, <1>4 DEF TypeOK
<1>9. InQueue(s, q) BY <1>4 DEF InQueue
<1> HIDE DEF s
<1>10. \A r : \A u \in Thread : Pushing(u, r)' <=> Pushing(u, r) BY <1>6 DEF SamePushing
<1> SUFFICES ASSUME NEW r \in Replica PROVE QueuedAt(r)' BY DEF Queued
<1>11. CASE r = s BY <1>4, <1>7, <1>8, <1>9, <1>10, <1>11 DEF Queued, QueuedAt
<1>12. CASE r # s BY <1>7, <1>8, <1>10, <1>12 DEF Queued, QueuedAt
<1> QED BY <1>11, <1>12

\* Every step leaves a vertex in as many places as its bit says.
LEMMA QueuedNext ==
  ASSUME TypeOK, Placed, Queued, [Next]_vars
  PROVE  Queued' BY PushingSteps, QueuedKept, QueuedSchedule, QueuedPush, QueuedPop

-----------------------------------------------------------------------------
(* The message array.                                                      *)

\* start() finds the bit set wherever there is a message.
LEMMA FollowedInit == Init => Followed
<1> SUFFICES ASSUME Init PROVE Followed OBVIOUS
<1>1. \A f \in Fiber : thread[f].back = "scan" BY SetFacts, ThreadStates DEF Init
<1>2. \A r \in Replica : box[r] # {} => scheduled[r] BY DEF Init
<1> QED BY <1>1, <1>2 DEF Followed, LookedAt

\* Whoever is about to set a bit, or to look, still is.
SameLooking(t) ==
  /\ At(t, "schedule") => At(t, "schedule")' /\ There(t)' = There(t)
  /\ t \in Fiber /\ At(t, "take") => At(t, "take")' /\ Here(t)' = Here(t)

\* Who stays where he is looks as before.
LEMMA StaysLooking ==
  ASSUME NEW u \in Thread, Stays(u)
  PROVE  SameLooking(u) BY DEF Stays, SameLooking, There, Here, At

\* A thread that was neither to set a bit nor to look.
LEMMA LookingTurns ==
  ASSUME NEW t \in Thread, NEW at, NEW v, NEW to, NEW back, Turns(t, at, v, to, back),
         ~At(t, "schedule"), ~At(t, "take")
  PROVE  \A u \in Thread : SameLooking(u) BY StaysLooking DEF Turns, SameLooking

\* All steps but those that look, or set a bit.
LEMMA LookingSteps ==
  ASSUME TypeOK, Placed, [Next]_vars,
         ~ \E t \in Fiber : PopQueue(t) \/ TakeMessage(t) \/ TakeNothing(t),
         ~ \E t \in Thread : Schedule(t)
  PROVE  \A u \in Thread : SameLooking(u)
<1>a. UNCHANGED thread => \A u \in Thread : SameLooking(u) BY DEF SameLooking, There, Here, At
<1>1. ASSUME NEW t \in Fiber,
             \/ ScanQueue(t) \/ BeginDone(t) \/ LockDone(t) \/ Found(t) \/ FoundTooLate(t)
             \/ EndDone(t) \/ LeaveDone(t) \/ Forward(t) \/ SomeoneElseRunning(t)
             \/ ExclusiveAccess(t) \/ Apply(t) \/ Reschedule(t) \/ Release(t)
      PROVE  \A u \in Thread : SameLooking(u)
  <2>1. ~At(t, "schedule") /\ ~At(t, "take") /\ t \in Thread BY <1>1, SetFacts
       DEF ScanQueue, BeginDone, LockDone, Found, FoundTooLate, EndDone, LeaveDone, Forward,
           SomeoneElseRunning, ExclusiveAccess, Apply, Reschedule, Release, ScatteredEverywhere, At
  <2>2. \/ \E place : Starts(t, place) \/ Goes(t, place)
        \/ Turns(t, "schedule", thread[t].v, thread[t].v, "unlock")
    BY <1>1, LoopEffects, WorkEffects, SetFacts
  <2> QED BY <2>1, <2>2, LookingTurns DEF Starts, Goes
<1>2. ASSUME NEW t \in Fiber, TimeOut(t) PROVE \A u \in Thread : SameLooking(u) BY <1>a, <1>2 DEF TimeOut
<1>3. ASSUME NEW t \in Thread, Signal(t) PROVE \A u \in Thread : SameLooking(u)
  <2>1. UNCHANGED thread \/ \E u : Turns(t, "schedule", thread[t].v, u, "scatter") BY <1>3, WorkEffects
  <2>2. ~At(t, "schedule") /\ ~At(t, "take") BY <1>3 DEF Signal, At
  <2> QED BY <1>a, <2>1, <2>2, LookingTurns
<1>4. ASSUME NEW t \in Thread, Push(t) \/ CancelTest(t) \/ Wake(t)
      PROVE  \A u \in Thread : SameLooking(u)
  <2>1. (\E place : Goes(t, place)) \/ Returns(t) BY <1>4, WorkEffects
  <2>2. ~At(t, "schedule") /\ ~At(t, "take") BY <1>4 DEF Push, CancelTest, Wake, At
  <2> QED BY <2>1, <2>2, LookingTurns DEF Goes, Returns, Starts
<1>5. ASSUME NEW t \in Handler,
             ReceiveSignal(t) \/ PerformScatter(t) \/ Scattered(t)
      PROVE  \A u \in Thread : SameLooking(u)
  <2>1. UNCHANGED thread \/ \E at, v, to, back : Turns(t, at, v, to, back)
    BY SMTT(30), <1>5, WorkEffects, SetFacts DEF Starts
  <2>2. ~At(t, "schedule") /\ ~At(t, "take") /\ t \in Thread
    BY <1>5, SetFacts DEF ReceiveSignal, PerformScatter, Scattered, At
  <2> QED BY <1>a, <2>1, <2>2, LookingTurns
<1>6. ASSUME NEW t \in Handler, ReceiveEndgame(t) PROVE \A u \in Thread : SameLooking(u)
  BY <1>a, <1>6 DEF ReceiveEndgame
<1>7. ASSUME NEW k \in Machine, Consensus(k) PROVE \A u \in Thread : SameLooking(u)
  BY <1>7, ConsensusEffects, StaysLooking
<1>8. CASE UNCHANGED vars BY <1>a, <1>8 DEF vars
<1> QED BY NextSteps, <1>1, <1>2, <1>3, <1>4, <1>5, <1>6, <1>7, <1>8

\* No fiber begins to leave its vertex in this step.
NoNewUnlock ==
  \A f \in Fiber : (thread[f].back = "unlock")' => thread[f].back = "unlock" /\ Here(f)' = Here(f)

\* A thread that turns anywhere but to the end of release_exclusive_access.
LEMMA UnlockTurns ==
  ASSUME NEW t \in Thread, NEW at, NEW v, NEW to, NEW back, Turns(t, at, v, to, back),
         back # "unlock" \/ (back = thread[t].back /\ v = thread[t].v)
  PROVE  NoNewUnlock
<1> SUFFICES ASSUME NEW f \in Fiber, thread'[f].back = "unlock"
             PROVE  thread[f].back = "unlock" /\ Here(f)' = Here(f) BY DEF NoNewUnlock
<1>1. CASE f # t BY <1>1, SetFacts DEF Turns, Stays, Here
<1>2. CASE f = t BY <1>2 DEF Turns, Here
<1> QED BY <1>1, <1>2

\* Only the rescheduling of a vertex begins the end of its run.
LEMMA UnlockSteps ==
  ASSUME TypeOK, Placed, [Next]_vars,
         ~ \E t \in Fiber : Reschedule(t)
  PROVE  NoNewUnlock
<1>a. UNCHANGED thread => NoNewUnlock BY DEF NoNewUnlock, Here
<1>1. ASSUME NEW t \in Fiber,
             \/ ScanQueue(t) \/ TakeMessage(t) \/ TakeNothing(t)
             \/ BeginDone(t) \/ LockDone(t) \/ Found(t) \/ FoundTooLate(t)
             \/ EndDone(t) \/ LeaveDone(t) \/ Forward(t) \/ SomeoneElseRunning(t)
             \/ ExclusiveAccess(t) \/ Apply(t) \/ Release(t)
      PROVE  NoNewUnlock
  <2>1. \E place : Starts(t, place) \/ Goes(t, place) BY <1>1, LoopEffects, WorkEffects, SetFacts
  <2> QED BY <2>1, UnlockTurns, SetFacts DEF Starts, Goes
<1>2. ASSUME NEW t \in Fiber, PopQueue(t) PROVE NoNewUnlock
  <2>1. UNCHANGED thread \/ \E v : Turns(t, "take", v, thread[t].to, thread[t].back) BY <1>2, LoopEffects
  <2>2. thread[t].back = "scan" BY <1>2, BackScan, SetFacts DEF PopQueue, At, Idling
  <2> QED BY <1>a, <2>1, <2>2, UnlockTurns, SetFacts
<1>3. ASSUME NEW t \in Fiber, TimeOut(t) PROVE NoNewUnlock BY <1>a, <1>3 DEF TimeOut
<1>4. ASSUME NEW t \in Thread, Signal(t) PROVE NoNewUnlock
  <2>1. UNCHANGED thread \/ \E u : Turns(t, "schedule", thread[t].v, u, "scatter") BY <1>4, WorkEffects
  <2> QED BY <1>a, <2>1, UnlockTurns
<1>5. ASSUME NEW t \in Thread, Schedule(t) \/ Push(t) \/ CancelTest(t) \/ Wake(t)
      PROVE  NoNewUnlock BY <1>5, WorkEffects, UnlockTurns DEF Goes, Returns, Starts
<1>6. ASSUME NEW t \in Handler,
             ReceiveSignal(t) \/ PerformScatter(t) \/ Scattered(t)
      PROVE  NoNewUnlock
  <2>1. UNCHANGED thread \/ \E at, v, to, back : Turns(t, at, v, to, back) /\ back # "unlock"
    BY <1>6, WorkEffects, SetFacts DEF Starts
  <2> QED BY <1>a, <2>1, UnlockTurns, SetFacts
<1>7. ASSUME NEW t \in Handler, ReceiveEndgame(t) PROVE NoNewUnlock BY <1>a, <1>7 DEF ReceiveEndgame
<1>8. ASSUME NEW k \in Machine, Consensus(k) PROVE NoNewUnlock
  BY <1>8, ConsensusEffects, SetFacts DEF NoNewUnlock, Stays, Here
<1>9. CASE UNCHANGED vars BY <1>a, <1>9 DEF vars
<1> QED BY NextSteps, <1>1, <1>2, <1>3, <1>4, <1>5, <1>6, <1>7, <1>8, <1>9

\* A message that somebody was about to look at still is looked at, or is taken.
StillLookedAt(r) == LookedAt(r) => LookedAt(r)' \/ box'[r] = {}

\* Bits stay set and threads stay: somebody still looks.
LEMMA LookingKept ==
  ASSUME \A u \in Thread : SameLooking(u), \A r \in Replica : scheduled[r] => scheduled'[r]
  PROVE  \A r \in Replica : LookedAt(r) => LookedAt(r)' BY SetFacts DEF SameLooking, LookedAt

\* A fiber that leaves its vertex is on a machine that has it.
LEMMA UnlockHere ==
  ASSUME Placed, NEW f \in Fiber, thread[f].back = "unlock"
  PROVE  Here(f) \in Replica BY SetFacts DEF Placed, WellPlaced, Here, Signalling

\* Nothing new in the message array.
LEMMA FollowedKept ==
  ASSUME Placed, Followed, NoNewUnlock,
         \A r \in Replica : StillLookedAt(r),
         \A r \in Replica : box[r] = {} => box'[r] = {},
         \A r \in Replica : Told(r) => Told(r)'
  PROVE  Followed'
<1>1. ASSUME NEW r \in Replica, box'[r] # {}
      PROVE  LookedAt(r)' \/ Told(r)' BY <1>1 DEF Followed, StillLookedAt
<1>2. ASSUME NEW f \in Fiber, thread'[f].back = "unlock", box'[Here(f)'] # {}
      PROVE  LookedAt(Here(f))'
  <2>1. Here(f)' = Here(f) /\ thread[f].back = "unlock" /\ Here(f) \in Replica
    BY <1>2, UnlockHere DEF NoNewUnlock
  <2>2. LookedAt(Here(f)) /\ StillLookedAt(Here(f)) BY <1>2, <2>1 DEF Followed
  <2>3. PICK r \in Replica : r = Here(f) /\ r = Here(f)' BY <2>1
  <2>4. LookedAt(r)' BY <1>2, <2>2, <2>3 DEF StillLookedAt
  <2> QED BY <2>3, <2>4 DEF LookedAt, Here
<1> QED BY <1>1, <1>2 DEF Followed

\* A vertex leaves a queue into the hands of a fiber.
LEMMA FollowedPop ==
  ASSUME TypeOK, Placed, Queued, Followed, NEW t \in Fiber, PopQueue(t)
  PROVE  Followed'
<1>1. PICK v \in Vertex :
             /\ scheduled[<<t[1], v>>]
             /\ Turns(t, "take", v, thread[t].to, thread[t].back)
             /\ scheduled' = [scheduled EXCEPT ![<<t[1], v>>] = FALSE]
  <2>1. PICK q \in Queue : \E v \in queue[t[1]][q] :
               /\ IF scheduled[<<t[1], v>>]
                  THEN Turns(t, "take", v, thread[t].to, thread[t].back)
                  ELSE UNCHANGED thread
               /\ scheduled' = [scheduled EXCEPT ![<<t[1], v>>] = FALSE] BY LoopEffects
  <2>2. PICK v \in queue[t[1]][q] :
               /\ IF scheduled[<<t[1], v>>]
                  THEN Turns(t, "take", v, thread[t].to, thread[t].back)
                  ELSE UNCHANGED thread
               /\ scheduled' = [scheduled EXCEPT ![<<t[1], v>>] = FALSE] BY <2>1
  <2>3. <<t[1], v>> \in Replica /\ v \in Vertex BY SetFacts DEF Placed, TypeOK
  <2>4. scheduled[<<t[1], v>>] BY <2>3 DEF Queued, QueuedAt, InQueue
  <2> QED BY <2>2, <2>3, <2>4
<1>2. At(t, "scan") /\ UNCHANGED <<box, hasnext, program_running>> BY DEF PopQueue, vertex_vars
<1>3. \A u \in Thread : SameLooking(u) BY <1>1, <1>2, LookingTurns, SetFacts DEF At
<1>4. NoNewUnlock BY <1>1, <1>2, BackScan, UnlockTurns, SetFacts DEF At, Idling
<1>5. At(t, "take")' /\ Here(t)' = <<t[1], v>> BY <1>1 DEF Turns, At, Here
<1>6. ASSUME NEW r \in Replica, LookedAt(r) PROVE LookedAt(r)'
  <2>1. CASE r = <<t[1], v>> BY <1>5, <2>1 DEF LookedAt
  <2>2. CASE r # <<t[1], v>>
    <3>1. scheduled'[r] = scheduled[r] BY <1>1, <2>2 DEF TypeOK
    <3> QED BY <1>3, <1>6, <3>1, SetFacts DEF LookedAt, SameLooking
  <2> QED BY <2>1, <2>2
<1>7. \A r : Told(r)' = Told(r) BY <1>2 DEF Told, Master
<1> QED BY <1>2, <1>4, <1>6, <1>7, FollowedKept DEF StillLookedAt

\* A fiber looks, and leaves nothing there.
LEMMA FollowedTake ==
  ASSUME TypeOK, Placed, Followed, NEW t \in Fiber, TakeMessage(t) \/ TakeNothing(t)
  PROVE  Followed'
<1>1. At(t, "take") /\ UNCHANGED <<scheduled, hasnext, program_running>> /\ t \in Thread
  BY SetFacts DEF TakeMessage, TakeNothing, sched_vars, vertex_vars
<1>2. Goes(t, "found") \/ Goes(t, "eval") \/ Starts(t, "scan") BY LoopEffects
<1>3. Here(t) \in Replica BY <1>1 DEF Placed, WellPlaced, Here, At
<1>4. box'[Here(t)] = {} /\ \A r \in Replica \ {Here(t)} : box'[r] = box[r]
  BY <1>3 DEF TakeMessage, TakeNothing, TypeOK
<1>5. \A u \in Thread \ {t} : SameLooking(u) BY <1>2, StaysLooking DEF Goes, Starts, Turns
<1>6. NoNewUnlock BY <1>1, <1>2, UnlockTurns DEF Goes, Starts
<1>7. ~At(t, "schedule") BY <1>1 DEF At
<1>8. ASSUME NEW r \in Replica, LookedAt(r), box'[r] # {} PROVE LookedAt(r)'
  <2>1. r # Here(t) BY <1>4, <1>8
  <2> QED BY <1>1, <1>5, <1>7, <1>8, <2>1, SetFacts DEF LookedAt, SameLooking
<1>9. \A r : Told(r)' = Told(r) BY <1>1 DEF Told, Master
<1>10. \A r \in Replica : box[r] = {} => box'[r] = {} BY <1>4
<1> QED BY <1>6, <1>8, <1>9, <1>10, FollowedKept DEF StillLookedAt

\* The bit is set.
LEMMA FollowedSchedule ==
  ASSUME TypeOK, Placed, Followed, NEW t \in Thread, Schedule(t)
  PROVE  Followed'
<1>1. /\ At(t, "schedule") /\ scheduled' = [scheduled EXCEPT ![There(t)] = TRUE]
      /\ UNCHANGED <<box, hasnext, program_running>> BY DEF Schedule, vertex_vars
<1>2. \E place : Goes(t, place) BY WorkEffects
<1>3. There(t) \in Replica BY <1>1 DEF Placed, WellPlaced, Signalling, There, At
<1>4. scheduled'[There(t)] /\ \A r \in Replica : scheduled[r] => scheduled'[r] BY <1>1, <1>3 DEF TypeOK
<1>5. \A u \in Thread \ {t} : SameLooking(u) BY <1>2, StaysLooking DEF Goes, Turns
<1>6. NoNewUnlock BY <1>2, UnlockTurns DEF Goes
<1>7. ~At(t, "take") BY <1>1 DEF At
<1>8. ASSUME NEW r \in Replica, LookedAt(r) PROVE LookedAt(r)'
  <2>1. CASE r = There(t) BY <1>4, <2>1 DEF LookedAt
  <2>2. CASE r # There(t) BY <1>4, <1>5, <1>7, <1>8, <2>2, SetFacts DEF LookedAt, SameLooking
  <2> QED BY <2>1, <2>2
<1>9. \A r : Told(r)' = Told(r) BY <1>1 DEF Told, Master
<1> QED BY <1>1, <1>6, <1>8, <1>9, FollowedKept DEF StillLookedAt

\* add() comes before schedule(): who put the message there is about to set the bit.
LEMMA FollowedAdd ==
  ASSUME TypeOK, Placed, Followed, NEW t \in Thread,
         NEW r \in Replica, NEW m, NEW v, NEW back \in {"scatter", "idle"},
         Turns(t, "schedule", v, r[2], back), r[1] = t[1],
         ~At(t, "schedule"), ~At(t, "take"),
         box' = [box EXCEPT ![r] = @ \cup m],
         UNCHANGED <<scheduled, hasnext, program_running>>
  PROVE  Followed'
<1>1. At(t, "schedule")' /\ There(t)' = r BY SetFacts DEF Turns, At, There
<1>2. LookedAt(r)' BY <1>1 DEF LookedAt
<1>3. \A o \in Replica : LookedAt(o) => LookedAt(o)' BY LookingTurns, LookingKept
<1>4. \A o \in Replica \ {r} : box'[o] = box[o] BY DEF TypeOK
<1>5. NoNewUnlock BY UnlockTurns
<1>6. \A o : Told(o)' = Told(o) BY DEF Told, Master
<1>7. ASSUME NEW o \in Replica, box'[o] # {} PROVE LookedAt(o)' \/ Told(o)'
  BY <1>2, <1>3, <1>4, <1>6, <1>7 DEF Followed
<1>8. ASSUME NEW f \in Fiber, thread'[f].back = "unlock", box'[Here(f)'] # {}
      PROVE  LookedAt(Here(f))'
  <2>1. Here(f)' = Here(f) /\ thread[f].back = "unlock" /\ Here(f) \in Replica
    BY <1>5, <1>8, UnlockHere DEF NoNewUnlock
  <2>2. PICK o \in Replica : o = Here(f) /\ o = Here(f)' BY <2>1
  <2>3. LookedAt(o)' BY <1>2, <1>3, <1>4, <1>8, <2>1, <2>2 DEF Followed
  <2> QED BY <2>2, <2>3 DEF LookedAt, Here
<1> QED BY <1>7, <1>8 DEF Followed

\* The running program is told of the message that is put back.
LEMMA FollowedPutBack ==
  ASSUME TypeOK, Placed, Followed, NEW t \in Fiber, SomeoneElseRunning(t)
  PROVE  Followed'
<1> DEFINE w == thread[t].v
<1>1. /\ At(t, "eval") /\ Owner[w] = t[1] /\ VertexFree(w) /\ program_running[w]
      /\ box' = [box EXCEPT ![Here(t)] = @ \cup thread[t].msg]
      /\ hasnext' = [hasnext EXCEPT ![w] = TRUE]
      /\ UNCHANGED <<scheduled, program_running>> BY DEF SomeoneElseRunning, sched_vars
<1>2. Starts(t, "scan") /\ t \in Thread BY LoopEffects, SetFacts
<1>3. Here(t) \in Replica /\ Here(t) = Master(w) /\ w \in Vertex /\ Here(t)[2] = w
  BY <1>1, <1>2, SetFacts DEF Placed, WellPlaced, Here, Master, At
<1>4. \A r \in Replica \ {Here(t)} : box'[r] = box[r] BY <1>1 DEF TypeOK
<1>t. hasnext'[w] /\ \A x \in Vertex : hasnext[x] => hasnext'[x] BY <1>1, <1>3 DEF TypeOK
<1>5. \A r \in Replica : Told(r) => Told(r)' BY <1>1, <1>t, SetFacts DEF Told, Master
<1>6. \A r \in Replica : r = Here(t) => Told(r)' BY <1>1, <1>3, <1>t DEF Told, Master
<1>7. NoNewUnlock BY <1>2, UnlockTurns DEF Starts
<1>8. \A r \in Replica : LookedAt(r) => LookedAt(r)'
  BY <1>1, <1>2, LookingTurns, LookingKept DEF Starts, At
<1>9. ASSUME NEW r \in Replica, box'[r] # {} PROVE LookedAt(r)' \/ Told(r)'
  BY <1>4, <1>5, <1>6, <1>8, <1>9 DEF Followed
<1>10. ASSUME NEW f \in Fiber, thread'[f].back = "unlock", box'[Here(f)'] # {}
       PROVE  LookedAt(Here(f))'
  <2>1. Here(f)' = Here(f) /\ thread[f].back = "unlock" /\ Here(f) \in Replica
    BY <1>7, <1>10, UnlockHere DEF NoNewUnlock
  <2>2. thread[f].v # w BY <1>1, <2>1 DEF VertexFree
  <2>3. PICK o \in Replica : o = Here(f) /\ o = Here(f)' /\ o # Here(t) BY <2>1, <2>2 DEF Here
  <2>4. LookedAt(o)' BY <1>4, <1>8, <1>10, <2>1, <2>3 DEF Followed
  <2> QED BY <2>3, <2>4 DEF LookedAt, Here
<1> QED BY <1>9, <1>10 DEF Followed

\* The fiber that reschedules its vertex is itself about to set the bit.
LEMMA FollowedReschedule ==
  ASSUME TypeOK, Placed, Followed, NEW t \in Fiber, Reschedule(t)
  PROVE  Followed'
<1>1. At(t, "scatter") /\ UNCHANGED <<box, scheduled, hasnext, program_running>> /\ t \in Thread
  BY SetFacts DEF Reschedule, ScatteredEverywhere, sched_vars, vertex_vars
<1>2. Turns(t, "schedule", thread[t].v, thread[t].v, "unlock") BY <1>1, WorkEffects
<1>3. \A r \in Replica : LookedAt(r) => LookedAt(r)' BY <1>1, <1>2, LookingTurns, LookingKept DEF At
<1>4. At(t, "schedule")' /\ There(t)' = Here(t)' BY <1>2 DEF Turns, At, There, Here
<1>5. \A r : Told(r)' = Told(r) BY <1>1 DEF Told, Master
<1>6. ASSUME NEW f \in Fiber, thread'[f].back = "unlock", box'[Here(f)'] # {}
      PROVE  LookedAt(Here(f))'
  <2>1. CASE f = t BY <1>1, <1>4, <2>1 DEF LookedAt
  <2>2. CASE f # t
    <3>1. Here(f)' = Here(f) /\ thread[f].back = "unlock"
      BY <1>2, <1>6, <2>2, SetFacts DEF Turns, Stays, Here
    <3>2. PICK o \in Replica : o = Here(f) /\ o = Here(f)' BY <3>1, UnlockHere
    <3>3. LookedAt(o)' BY <1>1, <1>3, <1>6, <3>1, <3>2 DEF Followed
    <3> QED BY <3>2, <3>3 DEF LookedAt, Here
  <2> QED BY <2>1, <2>2
<1> QED BY <1>1, <1>3, <1>5, <1>6 DEF Followed

\* A program returns untold, or after it has set the bit again.
LEMMA FollowedRelease ==
  ASSUME TypeOK, Placed, Exclusive, Followed, NEW t \in Fiber, Release(t)
  PROVE  Followed'
<1> DEFINE w == thread[t].v
<1>1. /\ At(t, "unlock") \/ (At(t, "scatter") /\ ~hasnext[w])
      /\ hasnext' = [hasnext EXCEPT ![w] = FALSE]
      /\ program_running' = [program_running EXCEPT ![w] = FALSE]
      /\ UNCHANGED <<box, scheduled>> BY DEF Release, ScatteredEverywhere, sched_vars
<1>2. Starts(t, "scan") /\ t \in Thread BY LoopEffects, SetFacts
<1>3. Here(t) \in Replica /\ Here(t) = Master(w) /\ w \in Vertex
  BY <1>1, <1>2, SetFacts DEF Placed, WellPlaced, Exclusive, Inside, Here, Master, At
<1>4. \A r \in Replica : LookedAt(r) => LookedAt(r)'
  BY <1>1, <1>2, LookingTurns, LookingKept DEF Starts, At
<1>5. box[Here(t)] # {} => LookedAt(Here(t))
  <2>1. CASE At(t, "unlock") BY <1>2, <2>1 DEF Followed, Placed, WellPlaced, At
  <2>2. CASE ~hasnext[w] BY <1>3, <2>2 DEF Followed, Told, Master
  <2> QED BY <1>1, <2>1, <2>2
<1>6. NoNewUnlock BY <1>2, UnlockTurns DEF Starts
<1>7. \A r \in Replica : r # Here(t) => (Told(r) => Told(r)')
  BY <1>1, <1>3, SetFacts DEF Told, Master, TypeOK
<1>8. ASSUME NEW r \in Replica, box'[r] # {} PROVE LookedAt(r)' \/ Told(r)'
  BY <1>1, <1>3, <1>4, <1>5, <1>7, <1>8 DEF Followed
<1>9. ASSUME NEW f \in Fiber, thread'[f].back = "unlock", box'[Here(f)'] # {}
      PROVE  LookedAt(Here(f))'
  <2>1. Here(f)' = Here(f) /\ thread[f].back = "unlock" BY <1>6, <1>9 DEF NoNewUnlock
  <2>2. PICK o \in Replica : o = Here(f) /\ o = Here(f)' BY <2>1, UnlockHere
  <2>3. LookedAt(o)' BY <1>1, <1>4, <1>9, <2>1, <2>2 DEF Followed
  <2> QED BY <2>2, <2>3 DEF LookedAt, Here
<1> QED BY <1>8, <1>9 DEF Followed

\* Every step leaves each message followed.
LEMMA FollowedNext ==
  ASSUME TypeOK, Placed, Exclusive, Queued, Followed, [Next]_vars
  PROVE  Followed'
<1> USE DEF sched_vars, vertex_vars, mode_vars, rpc_vars, count_vars
<1>1. ASSUME NEW t \in Thread, Signal(t) PROVE Followed'
  <2>1. At(t, "scatter") /\ UNCHANGED <<scheduled, hasnext, program_running>> BY <1>1 DEF Signal
  <2>2. \/ UNCHANGED <<thread, box>>
        \/ \E u \in Vertex, m \in SUBSET Message :
             /\ <<t[1], u>> \in Replica
             /\ box' = [box EXCEPT ![<<t[1], u>>] = @ \cup m]
             /\ Turns(t, "schedule", thread[t].v, u, "scatter") BY <1>1, WorkEffects
  <2>3. CASE UNCHANGED <<thread, box>>
    BY <2>1, <2>3 DEF Followed, LookedAt, Told, Here, There, At, Master
  <2>4. ASSUME NEW u \in Vertex, NEW m \in SUBSET Message,
               <<t[1], u>> \in Replica,
               box' = [box EXCEPT ![<<t[1], u>>] = @ \cup m],
               Turns(t, "schedule", thread[t].v, u, "scatter")
        PROVE  Followed'
    <3> DEFINE r == <<t[1], u>>
    <3>1. /\ r \in Replica /\ r[1] = t[1] /\ r[2] = u
          /\ ~At(t, "schedule") /\ ~At(t, "take")
          /\ box' = [box EXCEPT ![r] = @ \cup m] BY <2>1, <2>4 DEF At
    <3> HIDE DEF r
    <3> QED BY <2>1, <2>4, <3>1, FollowedAdd
  <2> QED BY <2>2, <2>3, <2>4
<1>2. ASSUME NEW t \in Handler, ReceiveSignal(t) PROVE Followed'
  <2>1. At(t, "idle") /\ UNCHANGED <<scheduled, hasnext, program_running>> /\ t \in Thread
    BY <1>2, SetFacts DEF ReceiveSignal
  <2>2. \/ UNCHANGED <<thread, box>>
        \/ \E u \in Vertex, m \in SUBSET Message :
             /\ t[1] = Owner[u]
             /\ box' = [box EXCEPT ![Master(u)] = @ \cup m]
             /\ Turns(t, "schedule", Nobody, u, "idle") BY <1>2, <2>1, WorkEffects
  <2>3. CASE UNCHANGED <<thread, box>>
    BY <2>1, <2>3 DEF Followed, LookedAt, Told, Here, There, At, Master
  <2>4. ASSUME NEW u \in Vertex, NEW m \in SUBSET Message,
               t[1] = Owner[u],
               box' = [box EXCEPT ![Master(u)] = @ \cup m],
               Turns(t, "schedule", Nobody, u, "idle")
        PROVE  Followed'
    <3>1. /\ Master(u) \in Replica /\ Master(u)[1] = t[1] /\ Master(u)[2] = u
          /\ ~At(t, "schedule") /\ ~At(t, "take") BY <2>1, <2>4, SetFacts DEF Master, At
    <3> QED BY <2>1, <2>4, <3>1, FollowedAdd
  <2> QED BY <2>2, <2>3, <2>4
<1>3. ASSUME ~ \E t \in Fiber : \/ PopQueue(t) \/ TakeMessage(t) \/ TakeNothing(t)
                                \/ SomeoneElseRunning(t) \/ Reschedule(t) \/ Release(t),
             ~ \E t \in Thread : Schedule(t) \/ Signal(t),
             ~ \E t \in Handler : ReceiveSignal(t)
      PROVE  Followed'
  <2>1. UNCHANGED <<box, scheduled, hasnext>> BY <1>3, NextSteps
       DEF ScanQueue, TimeOut, BeginDone, LockDone, Found, FoundTooLate, EndDone, LeaveDone,
           Forward, ExclusiveAccess, Apply, Push, CancelTest, Wake, PerformScatter, Scattered,
           ReceiveEndgame, Consensus, vars
  <2>2. UNCHANGED program_running \/ \E v : program_running' = [program_running EXCEPT ![v] = TRUE]
    BY <1>3, NextSteps
       DEF ScanQueue, TimeOut, BeginDone, LockDone, Found, FoundTooLate, EndDone, LeaveDone,
           Forward, ExclusiveAccess, Apply, Push, CancelTest, Wake, PerformScatter, Scattered,
           ReceiveEndgame, Consensus, vars
  <2>3. \A v \in Vertex : program_running[v] => program_running'[v] BY <2>2 DEF TypeOK
  <2>4. \A r \in Replica : Told(r) => Told(r)' BY <2>1, <2>3, SetFacts DEF Told, Master
  <2>5. \A r \in Replica : LookedAt(r) => LookedAt(r)' BY <1>3, <2>1, LookingSteps, LookingKept
  <2>6. NoNewUnlock BY <1>3, UnlockSteps
  <2> QED BY <2>1, <2>4, <2>5, <2>6, FollowedKept DEF StillLookedAt
<1> QED BY <1>1, <1>2, <1>3, FollowedPop, FollowedTake, FollowedSchedule, FollowedPutBack,
           FollowedReschedule, FollowedRelease

-----------------------------------------------------------------------------
(* Theorems.                                                               *)

\* The conjunction is an inductive invariant.
LEMMA Invariance == Spec => []IInv
<1>1. Init => IInv
  BY TypeInit, PlacedInit, ExclusiveInit, RequestedInit, QueuedInit, FollowedInit DEF IInv
<1>2. IInv /\ [Next]_vars => IInv'
  BY TypeNext, PlacedNext, ExclusiveNext, RequestedNext, QueuedNext, FollowedNext DEF IInv
<1> QED BY <1>1, <1>2, PTL DEF Spec

\* Every reachable state of the engine has the declared types.
THEOREM TypeCorrect == Spec => []TypeOK
<1>1. IInv => TypeOK BY DEF IInv
<1> QED BY <1>1, Invariance, PTL

\* Between two runs of a vertex its mirrors have the data of its master.
THEOREM ReplicasAgreeBetweenRuns == Spec => []ReplicasAgree
<1>1. IInv => ReplicasAgree
  <2> SUFFICES ASSUME IInv, NEW v \in Vertex, ~program_running[v], NEW r \in Mirrors(v)
               PROVE  data[r] = data[Master(v)] BY DEF ReplicasAgree
  <2>1. \A f \in Fiber : Scattering(f) => thread[f].v # v BY ScatteringInside DEF IInv, Exclusive
  <2>2. r \notin awaited BY <2>1 DEF IInv, Requested, Mirrors
  <2> QED BY <2>2 DEF IInv, Requested
<1> QED BY <1>1, Invariance, PTL

\* No message is stranded in the message array, and the scheduler neither loses a
\* vertex nor has it twice.
THEOREM NoMessageStranded == Spec => []NothingStranded
<1>1. IInv => NothingStranded
  <2> SUFFICES ASSUME IInv, NEW r \in Replica
               PROVE  QueuedOnce(r) /\ (box[r] # {} => LookedAt(r) \/ Told(r))
    BY DEF NothingStranded, LookedAt, Told
  <2> DEFINE Q == {q \in Queue : r[2] \in queue[r[1]][q]}
             P == {t \in Thread : At(t, "push") /\ There(t) = r}
  <2>1. QueuedAt(r) BY DEF IInv, Queued
  <2>2. box[r] # {} => LookedAt(r) \/ Told(r) BY DEF IInv, Followed
  <2>3. QueuedOnce(r) <=> Cardinality(Q) + Cardinality(P) = IF scheduled[r] THEN 1 ELSE 0
    BY DEF QueuedOnce
  <2>4. CASE ~scheduled[r]
    <3>1. Q = {} /\ P = {} BY <2>1, <2>4 DEF QueuedAt, InQueue, Pushing
    <3>2. Cardinality(Q) = 0 /\ Cardinality(P) = 0 BY <3>1, FS_EmptySet
    <3> QED BY <2>2, <2>3, <2>4, <3>2
  <2>5. CASE \E q \in Queue : scheduled[r] /\ InQueue(r, q)
    <3> PICK q \in Queue : scheduled[r] /\ InQueue(r, q) BY <2>5
    <3>1. Q = {q} /\ P = {} BY <2>1 DEF QueuedAt, InQueue, Pushing
    <3>2. Cardinality(Q) = 1 /\ Cardinality(P) = 0 BY <3>1, FS_EmptySet, FS_Singleton
    <3> QED BY <2>2, <2>3, <3>2
  <2>6. CASE \E t \in Thread : scheduled[r] /\ Pushing(t, r)
    <3> PICK t \in Thread : scheduled[r] /\ Pushing(t, r) BY <2>6
    <3>1. Q = {} /\ P = {t} BY <2>1 DEF QueuedAt, InQueue, Pushing
    <3>2. Cardinality(Q) = 0 /\ Cardinality(P) = 1 BY <3>1, FS_EmptySet, FS_Singleton
    <3> QED BY <2>2, <2>3, <3>2
  <2> QED BY <2>1, <2>4, <2>5, <2>6 DEF QueuedAt
<1> QED BY <1>1, Invariance, PTL

-----------------------------------------------------------------------------
(* What the engine promises.                                               *)

\* Who holds a message, and who has looked where before he sleeps.
Handed(t) ==
  /\ t \in Fiber => (thread[t].msg # {} <=> thread[t].at \in {"found", "eval", "apply"})
  /\ t \in Handler => thread[t].msg = {} /\ ~thread[t].quitting
  /\ thread[t].quitting => thread[t].at \in {"scan", "take", "found", "end"}
  /\ thread[t].at \in {"found", "end"} => thread[t].quitting

Hands == \A t \in Thread : Handed(t)

\* A vertex that is marked as running is run by a fiber.
Runs == \A v \in Vertex : program_running[v] => \E f \in Fiber : Inside(f) /\ thread[f].v = v

\* Where a message can be.
Where ==
  ({"box"} \X Replica) \cup ({"hand"} \X Fiber)
    \cup ({"call"} \X [v : Vertex, msg : SUBSET Message]) \cup {<<"run", Nobody>>}

Has(x, m) ==
  \/ x[1] = "box" /\ m \in box[x[2]]
  \/ x[1] = "hand" /\ m \in thread[x[2]].msg
  \/ x[1] = "call" /\ x[2] \in signals /\ m \in x[2].msg
  \/ x[1] = "run" /\ m \in executed

\* A message is in one place.
OnePlace ==
  \A m \in Message : \A x \in Where : Has(x, m) =>
    /\ m <= created
    /\ \A y \in Where : Has(y, m) => y = x

\* Fiber f will look at queue q before it sleeps.
WillLook(f, q) ==
  IF thread[f].quitting
  THEN (At(f, "scan") /\ q \in thread[f].left) \/ At(f, "take") \/ At(f, "found")
  ELSE ~At(f, "asleep") /\ ~At(f, "exit")

\* While there is a vertex in queue q of machine k, somebody will look there or
\* wake those who sleep, if the machine still runs.
WatchedAt(k, q) ==
  \/ force_stop[k] \/ done[k]
  \/ \E f \in Fiber : f[1] = k /\ WillLook(f, q)
  \/ \E h \in Handler : h[1] = k /\ thread[h].at \in {"cancel", "wake"}

Watched == \A k \in Machine, q \in Queue : queue[k][q] # {} => WatchedAt(k, q)

Stopped == \E k \in Machine : force_stop[k]

\* Once the first machine is told, nothing happens but that the others are told, too.
Over ==
  \/ /\ \A k \in Machine : ~done[k]
     /\ \A f \in Fiber : ~At(f, "exit")
  \/ /\ signals = {} /\ scatters = {} /\ endgames = {}
     /\ \A h \in Handler : At(h, "idle")
     /\ \A f \in Fiber : IF done[f[1]] THEN At(f, "woken") \/ At(f, "exit") ELSE At(f, "asleep")
     /\ Stopped \/ \A r \in Replica : box[r] = {}

PInv == IInv /\ Hands /\ Runs /\ OnePlace /\ Watched /\ Over

-----------------------------------------------------------------------------
(* What the actions do to the hands of the threads.                        *)

\* The hands of u stay as they are.
Keeps(u) ==
  /\ thread'[u].msg = thread[u].msg
  /\ thread'[u].left = thread[u].left
  /\ thread'[u].quitting = thread[u].quitting

\* Thread t has a message, queues to visit and a reason to; the others keep theirs.
Holds(t, msg, left, quitting) ==
  /\ thread'[t].msg = msg
  /\ thread'[t].left = left
  /\ thread'[t].quitting = quitting
  /\ \A u \in Thread \ {t} : Keeps(u)

HoldsOn(t) == Holds(t, thread[t].msg, thread[t].left, thread[t].quitting)
Drops(t) == Holds(t, {}, {}, FALSE)

\* The hands of a thread are those of its new state.
LEMMA BecomeHolds ==
  ASSUME TypeOK, NEW t \in Thread, NEW s, Become(t, s)
  PROVE  Holds(t, s.msg, s.left, s.quitting) BY DEF TypeOK, Become, Holds, Keeps

\* Going somewhere else leaves the hands alone.
LEMMA GotoHolds ==
  ASSUME TypeOK, NEW t \in Thread, NEW place, Goto(t, place)
  PROVE  HoldsOn(t)
<1>1. thread[t] \in ThreadState BY DEF TypeOK, ThreadState
<1> DEFINE n == [thread[t] EXCEPT !.at = place]
<1>2. n.msg = thread[t].msg /\ n.left = thread[t].left /\ n.quitting = thread[t].quitting
  BY <1>1 DEF ThreadState
<1>3. Become(t, n) BY DEF Goto
<1> HIDE DEF n
<1> QED BY <1>2, <1>3, BecomeHolds DEF HoldsOn

\* The hands of the two states that threads start from.
LEMMA FreshHands ==
  /\ \A q \in BOOLEAN :
       Looking(q).msg = {} /\ Looking(q).left = Queue /\ Looking(q).quitting = q
  /\ Resting.msg = {} /\ Resting.left = {} /\ Resting.quitting = FALSE BY DEF Looking, Resting

\* A fiber that goes back to the main loop has empty hands.
LEMMA LookingHolds ==
  ASSUME TypeOK, NEW t \in Thread, NEW q \in BOOLEAN, Become(t, Looking(q))
  PROVE  Holds(t, {}, Queue, q) BY FreshHands, BecomeHolds

\* A fiber that looks for a task, or tries to quit.
LEMMA LoopHands ==
  ASSUME TypeOK, Placed, NEW t \in Fiber
  PROVE  /\ ScanQueue(t) =>
              \E q \in thread[t].left :
                /\ queue[t[1]][q] = {}
                /\ Holds(t, thread[t].msg, thread[t].left \ {q}, thread[t].quitting)
                /\ Goes(t, IF thread[t].left \ {q} # {} THEN "scan"
                           ELSE IF thread[t].quitting THEN "end" ELSE "quit")
         /\ PopQueue(t) => \/ UNCHANGED thread
                           \/ Holds(t, thread[t].msg, {}, thread[t].quitting)
         /\ TakeMessage(t) => /\ Holds(t, box[Here(t)], thread[t].left, thread[t].quitting)
                              /\ Goes(t, IF thread[t].quitting THEN "found" ELSE "eval")
         /\ TakeNothing(t) => Holds(t, {}, Queue, thread[t].quitting)
         /\ BeginDone(t) => HoldsOn(t)
         /\ LockDone(t) => Holds(t, {}, Queue, TRUE)
         /\ Found(t) => Holds(t, thread[t].msg, thread[t].left, FALSE)
         /\ FoundTooLate(t) => Holds(t, {}, {}, TRUE)
         /\ EndDone(t) => Drops(t) /\ Starts(t, IF done[t[1]] THEN "exit" ELSE "asleep")
         /\ LeaveDone(t) => IF done[t[1]] THEN HoldsOn(t) /\ Goes(t, "exit")
                            ELSE Holds(t, {}, Queue, FALSE) /\ Starts(t, "scan")
         /\ Forward(t) \/ SomeoneElseRunning(t) \/ Release(t) => Holds(t, {}, Queue, FALSE)
<1> DEFINE s == thread[t]
<1>a. t \in Thread /\ s \in ThreadState /\ s.quitting \in BOOLEAN BY SetFacts DEF TypeOK, ThreadState
<1>1. ASSUME ScanQueue(t)
      PROVE  \E q \in s.left :
               /\ queue[t[1]][q] = {}
               /\ Holds(t, s.msg, s.left \ {q}, s.quitting)
               /\ Goes(t, IF s.left \ {q} # {} THEN "scan"
                          ELSE IF s.quitting THEN "end" ELSE "quit")
  <2> PICK q \in s.left : ScanQueue(t)!(q) BY <1>1 DEF ScanQueue
  <2> DEFINE place == IF s.left \ {q} # {} THEN "scan" ELSE IF s.quitting THEN "end" ELSE "quit"
             n == [s EXCEPT !.left = s.left \ {q}, !.at = place]
  <2>1. /\ n \in ThreadState /\ n.at = place /\ n.v = s.v /\ n.to = s.to /\ n.back = s.back
        /\ n.msg = s.msg /\ n.left = s.left \ {q} /\ n.quitting = s.quitting
    BY <1>a DEF ThreadState, Places
  <2>2. Become(t, n) /\ queue[t[1]][q] = {} OBVIOUS
  <2> HIDE DEF n
  <2>3. Holds(t, s.msg, s.left \ {q}, s.quitting) BY <1>a, <2>1, <2>2, BecomeHolds
  <2>4. Goes(t, place) BY <1>a, <2>1, <2>2, BecomeTurns DEF Goes
  <2> QED BY <2>2, <2>3, <2>4
<1>2. ASSUME PopQueue(t)
      PROVE  UNCHANGED thread \/ Holds(t, s.msg, {}, s.quitting)
  <2>0. PICK q \in s.left : \E v \in queue[t[1]][q] : PopQueue(t)!(q)!(v) BY <1>2 DEF PopQueue
  <2>1. PICK v \in queue[t[1]][q] : PopQueue(t)!(q)!(v) BY <2>0
  <2> DEFINE n == [s EXCEPT !.at = "take", !.v = v, !.left = {}]
  <2>2. UNCHANGED thread \/ Become(t, n) BY <2>1
  <2>3. n.msg = s.msg /\ n.left = {} /\ n.quitting = s.quitting BY <1>a DEF ThreadState
  <2> HIDE DEF n
  <2> QED BY <1>a, <2>2, <2>3, BecomeHolds
<1>3. ASSUME TakeMessage(t)
      PROVE  /\ Holds(t, box[Here(t)], s.left, s.quitting)
             /\ Goes(t, IF s.quitting THEN "found" ELSE "eval")
  <2> DEFINE place == IF s.quitting THEN "found" ELSE "eval"
             n == [s EXCEPT !.at = place, !.msg = box[Here(t)]]
  <2>0. box[Here(t)] \in SUBSET Message
    BY <1>3, SetFacts DEF TypeOK, TakeMessage, Placed, WellPlaced, At, Here
  <2>1. /\ n \in ThreadState /\ n.at = place /\ n.v = s.v /\ n.to = s.to /\ n.back = s.back
        /\ n.msg = box[Here(t)] /\ n.left = s.left /\ n.quitting = s.quitting
    BY <1>a, <2>0 DEF ThreadState, Places
  <2>2. Become(t, n) BY <1>3 DEF TakeMessage
  <2> HIDE DEF n
  <2>3. Goes(t, place) BY <1>a, <2>1, <2>2, BecomeTurns DEF Goes
  <2> QED BY <1>a, <2>1, <2>2, <2>3, BecomeHolds
<1>4. TakeNothing(t) => Holds(t, {}, Queue, s.quitting) BY <1>a, LookingHolds DEF TakeNothing
<1>5. BeginDone(t) => HoldsOn(t) BY <1>a, GotoHolds DEF BeginDone
<1>6. LockDone(t) => Holds(t, {}, Queue, TRUE) BY <1>a, LookingHolds DEF LockDone
<1>7. ASSUME Found(t) PROVE Holds(t, s.msg, s.left, FALSE)
  <2> DEFINE n == [s EXCEPT !.at = "eval", !.quitting = FALSE]
  <2>1. n.msg = s.msg /\ n.left = s.left /\ n.quitting = FALSE BY <1>a DEF ThreadState
  <2>2. Become(t, n) BY <1>7 DEF Found
  <2> HIDE DEF n
  <2> QED BY <1>a, <2>1, <2>2, BecomeHolds
<1>b. ASSUME NEW q \in BOOLEAN, NEW place \in Places,
             Become(t, [Looking(q) EXCEPT !.at = place, !.left = {}])
      PROVE  Holds(t, {}, {}, q) /\ Starts(t, place)
  <2> DEFINE l == Looking(q)
             n == [l EXCEPT !.at = place, !.left = {}]
  <2>1. /\ l \in ThreadState /\ l.v = Nobody /\ l.to = Nobody /\ l.back = "scan"
        /\ l.msg = {} /\ l.quitting = q BY ThreadStates, FreshHands
  <2>2. Become(t, n) BY <1>b
  <2> HIDE DEF l
  <2>3. /\ n \in ThreadState /\ n.at = place /\ n.v = Nobody /\ n.to = Nobody /\ n.back = "scan"
        /\ n.msg = {} /\ n.left = {} /\ n.quitting = q BY <2>1 DEF ThreadState
  <2> HIDE DEF n
  <2> QED BY <1>a, <2>2, <2>3, BecomeTurns, BecomeHolds DEF Starts
<1>8. FoundTooLate(t) => Holds(t, {}, {}, TRUE) BY <1>b DEF FoundTooLate, Places
<1>9. ASSUME EndDone(t) PROVE Drops(t) /\ Starts(t, IF done[t[1]] THEN "exit" ELSE "asleep")
  <2> DEFINE place == IF done[t[1]] THEN "exit" ELSE "asleep"
  <2>1. Become(t, [Looking(FALSE) EXCEPT !.at = place, !.left = {}]) BY <1>9 DEF EndDone
  <2>2. place \in Places BY DEF Places
  <2> HIDE DEF place
  <2>3. Holds(t, {}, {}, FALSE) /\ Starts(t, place) BY <1>b, <2>1, <2>2
  <2> QED BY <2>3 DEF Drops, place
<1>10. LeaveDone(t) => IF done[t[1]] THEN HoldsOn(t) /\ Goes(t, "exit")
                       ELSE Holds(t, {}, Queue, FALSE) /\ Starts(t, "scan")
  BY <1>a, GotoGoes, GotoHolds, LookingStarts, LookingHolds DEF LeaveDone, Places
<1>11. Forward(t) \/ SomeoneElseRunning(t) \/ Release(t) => Holds(t, {}, Queue, FALSE)
  BY <1>a, LookingHolds DEF Forward, SomeoneElseRunning, Release
<1> HIDE DEF s
<1> QED BY <1>1, <1>2, <1>3, <1>4, <1>5, <1>6, <1>7, <1>8, <1>9, <1>10, <1>11 DEF s

\* A thread that runs a program, signals, or answers a call.
LEMMA WorkHands ==
  ASSUME TypeOK, NEW t \in Thread
  PROVE  /\ ExclusiveAccess(t) => HoldsOn(t)
         /\ Apply(t) => Holds(t, {}, thread[t].left, thread[t].quitting)
         /\ Reschedule(t) => HoldsOn(t)
         /\ Signal(t) => UNCHANGED thread \/ HoldsOn(t)
         /\ Schedule(t) \/ Push(t) => HoldsOn(t)
         /\ CancelTest(t) => /\ Drops(t) \/ HoldsOn(t)
                             /\ IF Critical(t[1]) # {} THEN Goes(t, "wake") ELSE Returns(t)
         /\ Wake(t) => (IF thread[t].back = "idle" THEN Drops(t) ELSE HoldsOn(t)) /\ Returns(t)
         /\ ReceiveSignal(t) => UNCHANGED thread \/ Drops(t)
         /\ PerformScatter(t) \/ Scattered(t) => Drops(t)
<1> DEFINE s == thread[t]
<1>a. s \in ThreadState BY DEF TypeOK, ThreadState
<1>1. ExclusiveAccess(t) => HoldsOn(t) BY GotoHolds DEF ExclusiveAccess
<1>2. ASSUME Apply(t) PROVE Holds(t, {}, s.left, s.quitting)
  <2> DEFINE n == [s EXCEPT !.at = "scatter", !.msg = {}]
  <2>1. Become(t, n) BY <1>2 DEF Apply
  <2>2. n.msg = {} /\ n.left = s.left /\ n.quitting = s.quitting BY <1>a DEF ThreadState
  <2> HIDE DEF n
  <2> QED BY <2>1, <2>2, BecomeHolds
<1>b. ASSUME NEW u, NEW back, Become(t, [s EXCEPT !.at = "schedule", !.to = u, !.back = back])
      PROVE  HoldsOn(t)
  <2> DEFINE n == [s EXCEPT !.at = "schedule", !.to = u, !.back = back]
  <2>1. Become(t, n) BY <1>b
  <2>2. n.msg = s.msg /\ n.left = s.left /\ n.quitting = s.quitting BY <1>a DEF ThreadState
  <2> HIDE DEF n
  <2> QED BY <2>1, <2>2, BecomeHolds DEF HoldsOn
<1>3. Reschedule(t) => HoldsOn(t) BY <1>b DEF Reschedule
<1>4. Signal(t) => UNCHANGED thread \/ HoldsOn(t) BY <1>b DEF Signal
<1>5. Schedule(t) \/ Push(t) => HoldsOn(t) BY GotoHolds DEF Schedule, Push
<1>c. LET n == Return(t)
      IN  /\ n \in ThreadState
          /\ s.back = "idle" => /\ n.msg = {} /\ n.left = {} /\ n.quitting = FALSE
                                /\ n.at = "idle" /\ n.v = Nobody /\ n.to = Nobody /\ n.back = "scan"
          /\ s.back # "idle" => /\ n.msg = s.msg /\ n.left = s.left /\ n.quitting = s.quitting
                                /\ n.at = s.back /\ n.v = s.v /\ n.to = Nobody /\ n.back = s.back
  <2>1. CASE s.back = "idle" BY <2>1, ThreadStates, FreshHands DEF Return
  <2>2. CASE s.back # "idle"
    <3> DEFINE n == [s EXCEPT !.at = s.back, !.to = Nobody]
    <3>1. Return(t) = n BY <2>2 DEF Return
    <3>2. /\ n \in ThreadState /\ n.at = s.back /\ n.v = s.v /\ n.to = Nobody /\ n.back = s.back
          /\ n.msg = s.msg /\ n.left = s.left /\ n.quitting = s.quitting BY <1>a DEF ThreadState, Places
    <3> HIDE DEF n
    <3> QED BY <2>2, <3>1, <3>2
  <2> QED BY <2>1, <2>2
<1>6. ASSUME CancelTest(t)
      PROVE  /\ Drops(t) \/ HoldsOn(t)
             /\ IF Critical(t[1]) # {} THEN Goes(t, "wake") ELSE Returns(t)
  <2>1. CASE Critical(t[1]) # {}
    <3> DEFINE n == [s EXCEPT !.at = "wake"]
    <3>1. /\ n \in ThreadState /\ n.at = "wake" /\ n.v = s.v /\ n.to = s.to /\ n.back = s.back
          /\ n.msg = s.msg /\ n.left = s.left /\ n.quitting = s.quitting BY <1>a DEF ThreadState, Places
    <3>2. Become(t, n) BY <1>6, <2>1 DEF CancelTest
    <3> HIDE DEF n
    <3> QED BY <2>1, <3>1, <3>2, BecomeTurns, BecomeHolds DEF Goes, HoldsOn
  <2>2. CASE Critical(t[1]) = {}
    <3> DEFINE n == Return(t)
    <3>1. Become(t, n) BY <1>6, <2>2 DEF CancelTest
    <3>2. /\ n \in ThreadState
          /\ s.back = "idle" => /\ n.msg = {} /\ n.left = {} /\ n.quitting = FALSE
                                /\ n.at = "idle" /\ n.v = Nobody /\ n.to = Nobody /\ n.back = "scan"
          /\ s.back # "idle" => /\ n.msg = s.msg /\ n.left = s.left /\ n.quitting = s.quitting
                                /\ n.at = s.back /\ n.v = s.v /\ n.to = Nobody /\ n.back = s.back BY <1>c
    <3> HIDE DEF n
    <3>3. Holds(t, n.msg, n.left, n.quitting) /\ Turns(t, n.at, n.v, n.to, n.back)
      BY <3>1, <3>2, BecomeTurns, BecomeHolds
    <3>4. CASE s.back = "idle" BY <2>2, <3>2, <3>3, <3>4 DEF Drops, Returns, Starts
    <3>5. CASE s.back # "idle" BY <2>2, <3>2, <3>3, <3>5 DEF HoldsOn, Returns
    <3> QED BY <3>4, <3>5
  <2> QED BY <2>1, <2>2
<1>7. ASSUME Wake(t)
      PROVE  (IF s.back = "idle" THEN Drops(t) ELSE HoldsOn(t)) /\ Returns(t)
  <2>1. ASSUME NEW u \in Thread \ {t} PROVE Keeps(u) /\ Stays(u)
    <3>0. thread[u] \in ThreadState BY DEF TypeOK, ThreadState
    <3>1. CASE u \in Asleep(t[1])
      <4> DEFINE n == [thread[u] EXCEPT !.at = "woken"]
      <4>1. thread'[u] = n /\ At(u, "asleep") BY <1>7, <3>1 DEF Wake, Asleep
      <4>2. /\ n.msg = thread[u].msg /\ n.left = thread[u].left /\ n.quitting = thread[u].quitting
            /\ n.v = thread[u].v /\ n.to = thread[u].to /\ n.back = thread[u].back
            /\ n.at = "woken" BY <3>0 DEF ThreadState
      <4> HIDE DEF n
      <4> QED BY <4>1, <4>2 DEF Keeps, Stays
    <3>2. CASE u \notin Asleep(t[1]) BY <1>7, <3>2 DEF Wake, Keeps, Stays
    <3> QED BY <3>1, <3>2
  <2> DEFINE n == Return(t)
  <2>2. thread'[t] = n BY <1>7 DEF Wake
  <2>3. /\ s.back = "idle" => /\ n.msg = {} /\ n.left = {} /\ n.quitting = FALSE
                              /\ n.at = "idle" /\ n.v = Nobody /\ n.to = Nobody /\ n.back = "scan"
        /\ s.back # "idle" => /\ n.msg = s.msg /\ n.left = s.left /\ n.quitting = s.quitting
                              /\ n.at = s.back /\ n.v = s.v /\ n.to = Nobody /\ n.back = s.back BY <1>c
  <2> HIDE DEF n
  <2>4. CASE s.back = "idle" BY <2>1, <2>2, <2>3, <2>4 DEF Drops, Holds, Returns, Starts, Turns
  <2>5. CASE s.back # "idle" BY <2>1, <2>2, <2>3, <2>5 DEF HoldsOn, Holds, Returns, Turns
  <2> QED BY <2>4, <2>5
<1>d. ASSUME NEW place, NEW u, NEW back,
             \/ Become(t, [Resting EXCEPT !.at = place, !.to = u, !.back = back])
             \/ Become(t, [Resting EXCEPT !.at = place, !.v = u])
             \/ Become(t, Resting)
      PROVE  Drops(t)
  <2> DEFINE r == Resting
  <2>1. r \in ThreadState /\ r.msg = {} /\ r.left = {} /\ r.quitting = FALSE BY ThreadStates, FreshHands
  <2>2. \/ Become(t, [r EXCEPT !.at = place, !.to = u, !.back = back])
        \/ Become(t, [r EXCEPT !.at = place, !.v = u])
        \/ Become(t, r) BY <1>d
  <2> HIDE DEF r
  <2> DEFINE n1 == [r EXCEPT !.at = place, !.to = u, !.back = back]
             n2 == [r EXCEPT !.at = place, !.v = u]
  <2>3. /\ n1.msg = {} /\ n1.left = {} /\ n1.quitting = FALSE
        /\ n2.msg = {} /\ n2.left = {} /\ n2.quitting = FALSE BY <2>1 DEF ThreadState
  <2>4. Become(t, n1) \/ Become(t, n2) \/ Become(t, r) BY <2>2
  <2> HIDE DEF n1, n2
  <2> QED BY <2>1, <2>3, <2>4, BecomeHolds DEF Drops
<1>8. ReceiveSignal(t) => UNCHANGED thread \/ Drops(t) BY <1>d DEF ReceiveSignal
<1>9. PerformScatter(t) \/ Scattered(t) => Drops(t) BY <1>d DEF PerformScatter, Scattered
<1> HIDE DEF s
<1> QED BY <1>1, <1>2, <1>3, <1>4, <1>5, <1>6, <1>7, <1>8, <1>9 DEF s

\* The end of the run wakes fibers.
LEMMA ConsensusHands ==
  ASSUME TypeOK, NEW k \in Machine, Consensus(k)
  PROVE  /\ \A u \in Thread : Keeps(u)
         /\ \A f \in Fiber : thread'[f].at = IF f[1] = k /\ At(f, "asleep") THEN "woken"
                                             ELSE thread[f].at
<1>1. ASSUME NEW u \in Thread
      PROVE  Keeps(u) /\ thread'[u].at = IF u \in Asleep(k) THEN "woken" ELSE thread[u].at
  <2>0. thread[u] \in ThreadState BY DEF TypeOK, ThreadState
  <2>1. CASE u \in Asleep(k)
    <3> DEFINE n == [thread[u] EXCEPT !.at = "woken"]
    <3>1. thread'[u] = n BY <2>1 DEF Consensus
    <3>2. /\ n.msg = thread[u].msg /\ n.left = thread[u].left /\ n.quitting = thread[u].quitting
          /\ n.at = "woken" BY <2>0 DEF ThreadState
    <3> HIDE DEF n
    <3> QED BY <2>1, <3>1, <3>2 DEF Keeps
  <2>2. CASE u \notin Asleep(k) BY <2>2 DEF Consensus, Keeps
  <2> QED BY <2>1, <2>2
<1> QED BY <1>1, SetFacts DEF Asleep

-----------------------------------------------------------------------------
(* Who holds a message.                                                    *)

\* What Handed asks of a thread at a place, with a message and a reason to look.
WellHanded(t, at, msg, quitting) ==
  /\ t \in Fiber => (msg # {} <=> at \in {"found", "eval", "apply"})
  /\ t \in Handler => msg = {} /\ ~quitting
  /\ quitting => at \in {"scan", "take", "found", "end"}
  /\ at \in {"found", "end"} => quitting

\* At first all hands are empty.
LEMMA HandsInit == Init => Hands
BY SetFacts, ThreadStates, FreshHands DEF Init, Hands, Handed

\* A thread that turns to a place with what it must hold there disturbs no other.
LEMMA HandsTurns ==
  ASSUME Hands, NEW t \in Thread,
         NEW at, NEW v, NEW to, NEW back, Turns(t, at, v, to, back),
         NEW msg, NEW left, NEW quitting, Holds(t, msg, left, quitting),
         WellHanded(t, at, msg, quitting)
  PROVE  Hands'
<1> SUFFICES ASSUME NEW u \in Thread PROVE Handed(u)' BY DEF Hands
<1>1. CASE u = t BY <1>1 DEF Turns, Holds, Handed, WellHanded
<1>2. CASE u # t
  <2>1. Stays(u) /\ Keeps(u) /\ Handed(u) BY <1>2 DEF Turns, Holds, Hands
  <2> QED BY <2>1 DEF Stays, Keeps, Handed, At
<1> QED BY <1>1, <1>2

\* Every step leaves the hands in order.
LEMMA HandsNext ==
  ASSUME TypeOK, Placed, Hands, [Next]_vars
  PROVE  Hands'
<1>a. \A t \in Thread : /\ Handed(t)
                        /\ WellPlaced(t, thread[t].at, thread[t].v, thread[t].to, thread[t].back)
                        /\ thread[t].quitting \in BOOLEAN BY DEF Hands, Placed, TypeOK
<1>b. UNCHANGED thread => Hands' BY DEF Hands, Handed
<1>c. \A t \in Fiber : t \in Thread /\ t \notin Handler BY SetFacts
<1>1. ASSUME NEW t \in Fiber, ScanQueue(t) PROVE Hands'
  <2>1. At(t, "scan") BY <1>1 DEF ScanQueue
  <2>2. PICK q \in thread[t].left :
          /\ Holds(t, thread[t].msg, thread[t].left \ {q}, thread[t].quitting)
          /\ Goes(t, IF thread[t].left \ {q} # {} THEN "scan"
                     ELSE IF thread[t].quitting THEN "end" ELSE "quit") BY <1>1, LoopHands
  <2> DEFINE place == IF thread[t].left \ {q} # {} THEN "scan"
                      ELSE IF thread[t].quitting THEN "end" ELSE "quit"
  <2>3. WellHanded(t, place, thread[t].msg, thread[t].quitting)
    BY <2>1, <1>a, <1>c DEF WellHanded, Handed, At
  <2> HIDE DEF place
  <2> QED BY <1>c, <2>2, <2>3, HandsTurns DEF Goes, place
<1>2. ASSUME NEW t \in Fiber, PopQueue(t) PROVE Hands'
  <2>1. At(t, "scan") BY <1>2 DEF PopQueue
  <2>2. UNCHANGED thread \/ Holds(t, thread[t].msg, {}, thread[t].quitting) BY <1>2, LoopHands
  <2>3. UNCHANGED thread \/ \E v : Turns(t, "take", v, thread[t].to, thread[t].back) BY <1>2, LoopEffects
  <2>4. WellHanded(t, "take", thread[t].msg, thread[t].quitting)
    BY <2>1, <1>a, <1>c DEF WellHanded, Handed, At
  <2> QED BY <1>b, <1>c, <2>2, <2>3, <2>4, HandsTurns
<1>3. ASSUME NEW t \in Fiber, TakeMessage(t) PROVE Hands'
  <2>1. box[Here(t)] # {} BY <1>3 DEF TakeMessage
  <2>2. /\ Holds(t, box[Here(t)], thread[t].left, thread[t].quitting)
        /\ Goes(t, IF thread[t].quitting THEN "found" ELSE "eval") BY <1>3, LoopHands
  <2>3. WellHanded(t, IF thread[t].quitting THEN "found" ELSE "eval", box[Here(t)], thread[t].quitting)
    BY <2>1, <1>c DEF WellHanded
  <2> QED BY <1>c, <2>2, <2>3, HandsTurns DEF Goes
<1>4. ASSUME NEW t \in Fiber, NEW q \in BOOLEAN, Starts(t, "scan"), Holds(t, {}, Queue, q)
      PROVE  Hands' BY <1>c, <1>4, HandsTurns DEF WellHanded, Starts
<1>5. ASSUME NEW t \in Fiber, TakeNothing(t) \/ LockDone(t) \/ Forward(t)
                              \/ SomeoneElseRunning(t) \/ Release(t)
      PROVE  Hands' BY ZenonT(60), <1>5, <1>4, <1>a, <1>c, LoopEffects, LoopHands
<1>6. ASSUME NEW t \in Fiber, BeginDone(t) PROVE Hands'
  <2>1. At(t, "quit") BY <1>6 DEF BeginDone
  <2>2. WellHanded(t, "begin", thread[t].msg, thread[t].quitting)
    BY <2>1, <1>a, <1>c DEF WellHanded, Handed, At
  <2> QED BY <1>6, <1>c, <2>2, LoopEffects, LoopHands, HandsTurns DEF Goes, HoldsOn
<1>7. ASSUME NEW t \in Fiber, Found(t) PROVE Hands'
  <2>1. At(t, "found") BY <1>7 DEF Found
  <2>2. WellHanded(t, "eval", thread[t].msg, FALSE) BY <2>1, <1>a, <1>c DEF WellHanded, Handed, At
  <2> QED BY <1>7, <1>c, <2>2, LoopEffects, LoopHands, HandsTurns DEF Goes
<1>8. ASSUME NEW t \in Fiber, FoundTooLate(t) PROVE Hands'
  <2>2. WellHanded(t, "end", {}, TRUE) BY <1>c DEF WellHanded
  <2> QED BY <1>8, <1>c, <2>2, LoopEffects, LoopHands, HandsTurns DEF Starts
<1>9. ASSUME NEW t \in Fiber, EndDone(t) PROVE Hands'
  <2>2. WellHanded(t, IF done[t[1]] THEN "exit" ELSE "asleep", {}, FALSE) BY <1>c DEF WellHanded
  <2> QED BY <1>9, <1>c, <2>2, LoopHands, HandsTurns DEF Starts, Drops
<1>10. ASSUME NEW t \in Fiber, LeaveDone(t) PROVE Hands'
  <2>1. At(t, "woken") BY <1>10 DEF LeaveDone
  <2>2. WellHanded(t, "exit", thread[t].msg, thread[t].quitting)
    BY <2>1, <1>a, <1>c DEF WellHanded, Handed, At
  <2>3. CASE done[t[1]] BY <1>10, <1>c, <2>2, <2>3, LoopHands, HandsTurns DEF Goes, HoldsOn
  <2>4. CASE ~done[t[1]] BY <1>10, <1>4, <2>4, LoopHands
  <2> QED BY <2>3, <2>4
<1>11. ASSUME NEW t \in Fiber, ExclusiveAccess(t) PROVE Hands'
  <2>1. At(t, "eval") BY <1>11 DEF ExclusiveAccess
  <2>2. WellHanded(t, "apply", thread[t].msg, thread[t].quitting)
    BY <2>1, <1>a, <1>c DEF WellHanded, Handed, At
  <2> QED BY <1>11, <1>c, <2>2, WorkEffects, WorkHands, HandsTurns DEF Goes, HoldsOn
<1>12. ASSUME NEW t \in Fiber, Apply(t) PROVE Hands'
  <2>1. At(t, "apply") BY <1>12 DEF Apply
  <2>2. WellHanded(t, "scatter", {}, thread[t].quitting) BY <2>1, <1>a, <1>c DEF WellHanded, Handed, At
  <2> QED BY <1>12, <1>c, <2>2, WorkEffects, WorkHands, HandsTurns DEF Goes
<1>d. ASSUME NEW t \in Thread, HoldsOn(t),
             thread[t].at \in {"scatter"} \cup Signalling,
             \E at \in {"scatter", "unlock"} \cup Signalling :
               \E v, to, back : Turns(t, at, v, to, back)
      PROVE  Hands' BY <1>d, <1>a, HandsTurns DEF WellHanded, Handed, Signalling, HoldsOn
<1>13. ASSUME NEW t \in Fiber, Reschedule(t) PROVE Hands'
  <2>1. At(t, "scatter") BY <1>13 DEF Reschedule, ScatteredEverywhere
  <2> QED BY <1>13, <1>c, <1>d, <2>1, WorkEffects, WorkHands DEF At, Signalling
<1>14. ASSUME NEW t \in Thread, Signal(t) PROVE Hands'
  <2>1. At(t, "scatter") BY <1>14 DEF Signal
  <2>2. UNCHANGED thread \/ \E u : Turns(t, "schedule", thread[t].v, u, "scatter") BY <1>14, WorkEffects
  <2> QED BY <1>14, <1>b, <1>d, <2>1, <2>2, WorkHands DEF At, Signalling
<1>15. ASSUME NEW t \in Thread, Schedule(t) \/ Push(t) PROVE Hands'
  <2>1. thread[t].at \in Signalling BY <1>15 DEF Schedule, Push, At, Signalling
  <2>2. Goes(t, "cancel") \/ Goes(t, "push") BY <1>15, WorkEffects
  <2> QED BY <1>15, <1>d, <2>1, <2>2, WorkHands DEF Goes, Signalling
<1>16. ASSUME NEW t \in Thread, CancelTest(t) \/ Wake(t) PROVE Hands'
  <2>1. thread[t].at \in Signalling BY <1>16 DEF CancelTest, Wake, At, Signalling
  <2>2. Goes(t, "wake") \/ Returns(t) BY <1>16, WorkEffects
  <2>3. Drops(t) \/ HoldsOn(t) BY <1>16, WorkHands
  <2>4. thread[t].back \in {"scatter", "unlock", "idle"} /\ (t \in Fiber => thread[t].back # "idle")
    BY <1>a, <2>1 DEF WellPlaced, TypeOK, ThreadState
  <2>5. \E at \in {"scatter", "unlock", "idle"} \cup Signalling :
          /\ \E v, to, back : Turns(t, at, v, to, back)
          /\ t \in Fiber => at # "idle" BY <2>2, <2>4 DEF Goes, Returns, Starts, Signalling
  <2>6. PICK at \in {"scatter", "unlock", "idle"} \cup Signalling :
          /\ \E v, to, back : Turns(t, at, v, to, back)
          /\ t \in Fiber => at # "idle" BY <2>5
  <2>7. WellHanded(t, at, {}, FALSE) BY <2>6 DEF WellHanded, Signalling
  <2>8. WellHanded(t, at, thread[t].msg, thread[t].quitting)
    BY <2>1, <2>6, <1>a DEF WellHanded, Handed, Signalling
  <2> QED BY <2>3, <2>6, <2>7, <2>8, HandsTurns DEF Drops, HoldsOn
<1>17. ASSUME NEW t \in Handler, ReceiveSignal(t) PROVE Hands'
  <2>1. t \in Thread /\ t \notin Fiber BY SetFacts
  <2>2. UNCHANGED thread \/ \E u : Turns(t, "schedule", Nobody, u, "idle") BY <1>17, <2>1, WorkEffects
  <2>3. UNCHANGED thread \/ Drops(t) BY <1>17, <2>1, WorkHands
  <2>4. WellHanded(t, "schedule", {}, FALSE) BY <2>1 DEF WellHanded
  <2> QED BY <1>b, <2>1, <2>2, <2>3, <2>4, HandsTurns DEF Drops
<1>18. ASSUME NEW t \in Handler, PerformScatter(t) \/ Scattered(t) PROVE Hands'
  <2>1. t \in Thread /\ t \notin Fiber BY SetFacts
  <2>2. \E at \in {"scatter", "idle"} : \E v, to, back : Turns(t, at, v, to, back)
    BY <1>18, <2>1, WorkEffects DEF Starts
  <2>3. Drops(t) BY <1>18, <2>1, WorkHands
  <2>4. WellHanded(t, "scatter", {}, FALSE) /\ WellHanded(t, "idle", {}, FALSE) BY <2>1 DEF WellHanded
  <2> QED BY <2>1, <2>2, <2>3, <2>4, HandsTurns DEF Drops
<1>19. ASSUME NEW k \in Machine, Consensus(k) PROVE Hands'
  <2>1. \A u \in Thread : Keeps(u) /\ Stays(u) BY <1>19, ConsensusHands, ConsensusEffects
  <2> QED BY <2>1 DEF Hands, Handed, Keeps, Stays, At
<1>20. ASSUME \/ \E t \in Fiber : TimeOut(t)
              \/ \E t \in Handler : ReceiveEndgame(t)
              \/ UNCHANGED vars
       PROVE  Hands' BY <1>20, <1>b DEF TimeOut, ReceiveEndgame, vars
<1> QED BY NextSteps, <1>1, <1>2, <1>3, <1>5, <1>6, <1>7, <1>8, <1>9, <1>10, <1>11, <1>12,
     <1>13, <1>14, <1>15, <1>16, <1>17, <1>18, <1>19, <1>20

-----------------------------------------------------------------------------
(* A vertex that runs is run by a fiber.                                   *)

\* At first no program runs.
LEMMA RunsInit == Init => Runs
BY DEF Init, Runs

\* No fiber leaves its program in this step.
NobodyLeaves == \A f \in Fiber : Inside(f) => Inside(f)' /\ thread'[f].v = thread[f].v

\* A step of a thread that is outside, stays inside, or is a handler.
LEMMA NobodyLeavesTurns ==
  ASSUME NEW t \in Thread, NEW at, NEW v, NEW to, NEW back, Turns(t, at, v, to, back),
         \/ ~Inside(t)
         \/ v = thread[t].v /\ at \in {"scatter", "unlock"} \cup Signalling
         \/ t \in Handler
  PROVE  NobodyLeaves
<1> SUFFICES ASSUME NEW f \in Fiber, Inside(f) PROVE Inside(f)' /\ thread'[f].v = thread[f].v
  BY DEF NobodyLeaves
<1>1. CASE f # t BY <1>1, SetFacts DEF Turns, Stays, Inside, Signalling, At
<1>2. CASE f = t BY <1>2, SetFacts DEF Turns, Inside
<1> QED BY <1>1, <1>2

\* Only the release lets a fiber out.
LEMMA LeavesOnly ==
  ASSUME TypeOK, Placed, [Next]_vars, ~ \E t \in Fiber : Release(t)
  PROVE  NobodyLeaves
<1>a. UNCHANGED thread => NobodyLeaves BY DEF NobodyLeaves, Inside
<1>1. ASSUME NEW t \in Fiber,
             \/ ScanQueue(t) \/ TakeMessage(t) \/ TakeNothing(t)
             \/ BeginDone(t) \/ LockDone(t) \/ Found(t) \/ FoundTooLate(t)
             \/ EndDone(t) \/ LeaveDone(t) \/ Forward(t) \/ SomeoneElseRunning(t)
             \/ ExclusiveAccess(t)
      PROVE  NobodyLeaves
  <2>1. ~Inside(t) /\ t \in Thread BY <1>1, SetFacts
       DEF ScanQueue, TakeMessage, TakeNothing, BeginDone, LockDone, Found, FoundTooLate,
           EndDone, LeaveDone, Forward, SomeoneElseRunning, ExclusiveAccess, At, Inside, Signalling
  <2>2. \E place : Starts(t, place) \/ Goes(t, place) BY <1>1, <2>1, LoopEffects, WorkEffects
  <2> QED BY SMTT(30), <2>1, <2>2, NobodyLeavesTurns DEF Starts, Goes
<1>2. ASSUME NEW t \in Fiber, PopQueue(t) PROVE NobodyLeaves
  <2>1. UNCHANGED thread \/ \E v : Turns(t, "take", v, thread[t].to, thread[t].back) BY <1>2, LoopEffects
  <2>2. ~Inside(t) /\ t \in Thread BY <1>2, SetFacts DEF PopQueue, At, Inside, Signalling
  <2> QED BY <1>a, <2>1, <2>2, NobodyLeavesTurns
<1>3. ASSUME NEW t \in Fiber, Apply(t) \/ Reschedule(t) PROVE NobodyLeaves
  <2>1. Goes(t, "scatter") \/ Turns(t, "schedule", thread[t].v, thread[t].v, "unlock")
    BY <1>3, WorkEffects, SetFacts
  <2> QED BY <2>1, NobodyLeavesTurns, SetFacts DEF Goes, Signalling
<1>4. ASSUME NEW t \in Thread, Signal(t) PROVE NobodyLeaves
  <2>1. UNCHANGED thread \/ \E u : Turns(t, "schedule", thread[t].v, u, "scatter") BY <1>4, WorkEffects
  <2> QED BY <1>a, <2>1, NobodyLeavesTurns DEF Signalling
<1>5. ASSUME NEW t \in Thread, Schedule(t) \/ Push(t) \/ CancelTest(t) \/ Wake(t)
      PROVE  NobodyLeaves
  <2>1. thread[t].at \in Signalling BY <1>5 DEF Schedule, Push, CancelTest, Wake, At, Signalling
  <2>2. (\E place \in Signalling : Goes(t, place)) \/ Returns(t) BY <1>5, WorkEffects DEF Signalling
  <2>3. t \in Handler \/ thread[t].back \in {"scatter", "unlock"}
    BY <2>1, SetFacts DEF Placed, WellPlaced, TypeOK, ThreadState
  <2> QED BY <2>2, <2>3, NobodyLeavesTurns DEF Goes, Returns, Starts
<1>6. ASSUME NEW t \in Handler, ReceiveSignal(t) \/ PerformScatter(t) \/ Scattered(t)
      PROVE  NobodyLeaves
  <2>1. UNCHANGED thread \/ \E at, v, to, back : Turns(t, at, v, to, back)
    BY <1>6, WorkEffects, SetFacts DEF Starts
  <2> QED BY <1>a, <2>1, NobodyLeavesTurns, SetFacts
<1>7. ASSUME NEW k \in Machine, Consensus(k) PROVE NobodyLeaves
  BY <1>7, ConsensusEffects, SetFacts DEF NobodyLeaves, Stays, Inside, Signalling, At
<1>8. ASSUME \/ \E t \in Fiber : TimeOut(t)
             \/ \E t \in Handler : ReceiveEndgame(t)
             \/ UNCHANGED vars
      PROVE  NobodyLeaves BY <1>8, <1>a DEF TimeOut, ReceiveEndgame, vars
<1> QED BY NextSteps, <1>1, <1>2, <1>3, <1>4, <1>5, <1>6, <1>7, <1>8

\* Every step keeps a fiber at each vertex that runs.
LEMMA RunsNext ==
  ASSUME TypeOK, Placed, Exclusive, Runs, [Next]_vars
  PROVE  Runs'
<1>1. ASSUME NEW t \in Fiber, Release(t) PROVE Runs'
  <2> DEFINE v == thread[t].v
  <2>1. program_running' = [program_running EXCEPT ![v] = FALSE] /\ Inside(t)
    BY <1>1 DEF Release, ScatteredEverywhere, Inside, At
  <2>2. v \in Vertex BY <2>1, SetFacts DEF Placed, WellPlaced, Inside
  <2>3. Starts(t, "scan") /\ t \in Thread BY <1>1, LoopEffects, SetFacts
  <2> SUFFICES ASSUME NEW w \in Vertex, program_running'[w]
               PROVE  \E f \in Fiber : Inside(f)' /\ thread'[f].v = w BY DEF Runs
  <2>4. w # v /\ program_running[w] BY <2>1, <2>2 DEF TypeOK
  <2>5. PICK f \in Fiber : Inside(f) /\ thread[f].v = w BY <2>4 DEF Runs
  <2>6. f # t /\ f \in Thread BY <2>4, <2>5, SetFacts
  <2>7. Stays(f) BY <2>3, <2>6 DEF Starts, Turns
  <2> QED BY <2>5, <2>7 DEF Stays, Inside, Signalling, At
<1>2. ASSUME NEW t \in Fiber, ExclusiveAccess(t) PROVE Runs'
  <2> DEFINE v == thread[t].v
  <2>1. program_running' = [program_running EXCEPT ![v] = TRUE] /\ Goes(t, "apply")
    BY <1>2, WorkEffects, SetFacts DEF ExclusiveAccess
  <2>a. ~Inside(t) BY <1>2 DEF ExclusiveAccess, Inside, Signalling, At
  <2>2. NobodyLeaves BY <2>1, <2>a, NobodyLeavesTurns, SetFacts DEF Goes
  <2>3. Inside(t)' /\ thread'[t].v = v BY <2>1 DEF Goes, Turns, Inside
  <2>4. \A w \in Vertex \ {v} : program_running'[w] = program_running[w] BY <2>1 DEF TypeOK
  <2> HIDE DEF v
  <2> QED BY <2>2, <2>3, <2>4 DEF Runs, NobodyLeaves
<1>3. ASSUME ~ \E t \in Fiber : ExclusiveAccess(t) \/ Release(t) PROVE Runs'
  <2>1. UNCHANGED program_running BY ZenonT(60), <1>3, NextSteps
       DEF ScanQueue, PopQueue, TakeMessage, TakeNothing, TimeOut, BeginDone, LockDone, Found,
           FoundTooLate, EndDone, LeaveDone, Forward, SomeoneElseRunning, Apply, Reschedule,
           Signal, Schedule, Push, CancelTest, Wake, ReceiveSignal, PerformScatter, Scattered,
           ReceiveEndgame, Consensus, vars, sched_vars, vertex_vars, mode_vars, rpc_vars, count_vars
  <2> QED BY <1>3, <2>1, LeavesOnly DEF Runs, NobodyLeaves
<1> QED BY <1>1, <1>2, <1>3

-----------------------------------------------------------------------------
(* A message is in one place.                                              *)

\* The places one by one.
LEMMA HasAt ==
  /\ \A r \in Replica : /\ <<"box", r>> \in Where
                        /\ \A m : Has(<<"box", r>>, m) <=> m \in box[r]
  /\ \A f \in Fiber : /\ <<"hand", f>> \in Where
                      /\ \A m : Has(<<"hand", f>>, m) <=> m \in thread[f].msg
  /\ \A c \in [v : Vertex, msg : SUBSET Message] :
       /\ <<"call", c>> \in Where
       /\ \A m : Has(<<"call", c>>, m) <=> c \in signals /\ m \in c.msg
  /\ <<"run", Nobody>> \in Where
  /\ \A m : Has(<<"run", Nobody>>, m) <=> m \in executed
  /\ \A x \in Where : \/ \E r \in Replica : x = <<"box", r>>
                      \/ \E f \in Fiber : x = <<"hand", f>>
                      \/ \E c \in [v : Vertex, msg : SUBSET Message] : x = <<"call", c>>
                      \/ x = <<"run", Nobody>> BY DEF Has, Where

\* At first messages are in the arrays of masters.
LEMMA OnePlaceInit == Init => OnePlace
<1> SUFFICES ASSUME Init, NEW m \in Message, NEW x \in Where, Has(x, m)
             PROVE  m <= created /\ \A y \in Where : Has(y, m) => y = x BY DEF OnePlace
<1>0. /\ box = [r \in Replica |-> SignalledAtStart(r)] /\ signals = {} /\ executed = {}
      /\ created = Len(Start)
      /\ \A f \in Fiber : thread[f].msg = {} BY SetFacts, FreshHands DEF Init
<1>1. ASSUME NEW y \in Where, Has(y, m)
      PROVE  m \in DOMAIN Start /\ y = <<"box", Master(Start[m])>>
  BY <1>0, <1>1, HasAt DEF SignalledAtStart
<1>2. m <= created BY <1>0, <1>1, ConstantsAssumption DEF ConstantsAssumption
<1> QED BY <1>1, <1>2

\* m leaves a place, or is new.
Moves(from, m) ==
  \/ Has(from, m) /\ ~Has(from, m)'
  \/ created < m /\ m <= created'

\* Messages go from one place to another, are made, or are lost.
LEMMA MessagesMove ==
  ASSUME TypeOK, TypeOK', OnePlace, created <= created',
         NEW from \in Where, NEW to \in Where,
         \A r \in Replica : \A m \in box'[r] :
           m \in box[r] \/ (to = <<"box", r>> /\ Moves(from, m)),
         \A f \in Fiber : \A m \in thread'[f].msg :
           m \in thread[f].msg \/ (to = <<"hand", f>> /\ Moves(from, m)),
         \A c \in signals' : \A m \in c.msg :
           c \in signals \/ (to = <<"call", c>> /\ Moves(from, m)),
         \A m \in executed' : m \in executed \/ (to = <<"run", Nobody>> /\ Moves(from, m))
  PROVE  OnePlace'
<1>0. created \in Nat /\ created' \in Nat /\ Message \subseteq Nat
  BY ConstantsAssumption DEF ConstantsAssumption, TypeOK, Message
<1>1. ASSUME NEW x \in Where, NEW m \in Message, Has(x, m)'
      PROVE  Has(x, m) \/ (x = to /\ Moves(from, m))
  <2>1. CASE \E r \in Replica : x = <<"box", r>> BY <1>1, <2>1 DEF Has
  <2>2. CASE \E f \in Fiber : x = <<"hand", f>> BY <1>1, <2>2 DEF Has
  <2>3. CASE \E c \in [v : Vertex, msg : SUBSET Message] : x = <<"call", c>> BY <1>1, <2>3 DEF Has
  <2>4. CASE x = <<"run", Nobody>> BY <1>1, <2>4 DEF Has
  <2> QED BY <2>1, <2>2, <2>3, <2>4, HasAt
<1>2. ASSUME NEW m \in Message, NEW x \in Where, Has(x, m)'
      PROVE  m <= created' /\ \A y \in Where : Has(y, m)' => y = x
  <2>1. ASSUME NEW z \in Where, Has(z, m) PROVE m <= created BY <2>1 DEF OnePlace
  <2>2. m <= created' BY <1>0, <1>1, <1>2, <2>1 DEF Moves
  <2>3. ASSUME NEW y \in Where, Has(y, m)' PROVE y = x
    <3>1. CASE Has(x, m) /\ Has(y, m) BY <3>1 DEF OnePlace
    <3>2. CASE Has(x, m) /\ ~Has(y, m)
      <4>1. y = to /\ Moves(from, m) /\ m <= created BY <1>1, <2>1, <2>3, <3>2
      <4>2. Has(from, m) /\ ~Has(from, m)' BY <1>0, <4>1 DEF Moves
      <4>3. x = from BY <3>2, <4>2 DEF OnePlace
      <4> QED BY <1>2, <4>2, <4>3
    <3>3. CASE ~Has(x, m) /\ Has(y, m)
      <4>1. x = to /\ Moves(from, m) /\ m <= created BY <1>1, <1>2, <2>1, <3>3
      <4>2. Has(from, m) /\ ~Has(from, m)' BY <1>0, <4>1 DEF Moves
      <4>3. y = from BY <3>3, <4>2 DEF OnePlace
      <4> QED BY <2>3, <4>2, <4>3
    <3>4. CASE ~Has(x, m) /\ ~Has(y, m) BY <1>1, <1>2, <2>3, <3>4
    <3> QED BY <3>1, <3>2, <3>3, <3>4
  <2> QED BY <2>2, <2>3
<1> QED BY <1>2 DEF OnePlace, Where, Has

\* The hands of the others stay as they are.
LEMMA OtherHands ==
  ASSUME NEW t \in Thread, NEW msg, NEW left, NEW quitting, Holds(t, msg, left, quitting)
  PROVE  /\ thread'[t].msg = msg
         /\ \A f \in Fiber : f # t => thread'[f].msg = thread[f].msg BY SetFacts DEF Holds, Keeps

\* Who had a message has it, or nobody has; none is made.
Fewer ==
  /\ \A r \in Replica : box'[r] \subseteq box[r]
  /\ \A f \in Fiber : thread'[f].msg \subseteq thread[f].msg
  /\ signals' \subseteq signals
  /\ UNCHANGED <<executed, created>>

\* Where messages only disappear, each stays in one place.
LEMMA FewerKeeps ==
  ASSUME TypeOK, TypeOK', OnePlace, Fewer
  PROVE  OnePlace'
<1>1. created <= created' BY DEF Fewer, TypeOK
<1>2. <<"run", Nobody>> \in Where BY DEF Where
<1> QED BY <1>1, <1>2, MessagesMove DEF Fewer

\* The steps that move no message.
LEMMA FewerSteps ==
  ASSUME TypeOK, Placed, Hands, [Next]_vars,
         ~ \E t \in Fiber : TakeMessage(t) \/ Forward(t) \/ SomeoneElseRunning(t) \/ Apply(t),
         ~ \E t \in Thread : Signal(t),
         ~ \E h \in Handler : ReceiveSignal(h)
  PROVE  Fewer
<1> USE DEF sched_vars, vertex_vars, mode_vars, rpc_vars, count_vars
<1>1. UNCHANGED <<box, signals, executed, created>> BY ZenonT(60), NextSteps
     DEF ScanQueue, PopQueue, TakeNothing, TimeOut, BeginDone, LockDone, Found,
         FoundTooLate, EndDone, LeaveDone, ExclusiveAccess, Reschedule, Release,
         Schedule, Push, CancelTest, Wake, PerformScatter, Scattered, ReceiveEndgame, Consensus, vars
<1>a. ASSUME NEW t \in Thread, NEW msg, NEW left, NEW quitting, Holds(t, msg, left, quitting),
             msg \subseteq thread[t].msg
      PROVE  \A f \in Fiber : thread'[f].msg \subseteq thread[f].msg BY <1>a, OtherHands
<1>2. ASSUME NEW t \in Fiber, ScanQueue(t) \/ PopQueue(t) \/ TakeNothing(t) \/ BeginDone(t)
                              \/ LockDone(t) \/ Found(t) \/ FoundTooLate(t) \/ EndDone(t)
                              \/ LeaveDone(t) \/ Release(t)
      PROVE  \A f \in Fiber : thread'[f].msg \subseteq thread[f].msg
  <2>1. \/ UNCHANGED thread
        \/ \E left, quitting : Holds(t, {}, left, quitting) \/ Holds(t, thread[t].msg, left, quitting)
    BY <1>2, LoopHands DEF Drops, HoldsOn
  <2> QED BY <2>1, <1>a, SetFacts
<1>3. ASSUME NEW t \in Thread, ExclusiveAccess(t) \/ Reschedule(t) \/ Schedule(t) \/ Push(t)
                              \/ CancelTest(t) \/ Wake(t) \/ PerformScatter(t) \/ Scattered(t)
      PROVE  \A f \in Fiber : thread'[f].msg \subseteq thread[f].msg
  BY <1>3, <1>a, WorkHands DEF Drops, HoldsOn
<1>4. ASSUME NEW k \in Machine, Consensus(k)
      PROVE  \A f \in Fiber : thread'[f].msg \subseteq thread[f].msg
  BY <1>4, ConsensusHands, SetFacts DEF Keeps
<1>5. UNCHANGED thread => \A f \in Fiber : thread'[f].msg \subseteq thread[f].msg OBVIOUS
<1>6. (\E t \in Fiber : TimeOut(t)) \/ (\E t \in Handler : ReceiveEndgame(t)) \/ UNCHANGED vars
        => UNCHANGED thread BY DEF TimeOut, ReceiveEndgame, vars
<1>7. \A f \in Fiber : thread'[f].msg \subseteq thread[f].msg
  BY NextSteps, <1>2, <1>3, <1>4, <1>5, <1>6, SetFacts
<1> QED BY <1>1, <1>7 DEF Fewer

\* Every step leaves a message in one place.
LEMMA OnePlaceNext ==
  ASSUME TypeOK, TypeOK', Placed, Hands, OnePlace, [Next]_vars
  PROVE  OnePlace'
<1> USE DEF sched_vars, vertex_vars, mode_vars, rpc_vars, count_vars
<1>0. created \in Nat /\ Fiber \subseteq Thread BY SetFacts DEF TypeOK
<1>1. ASSUME NEW t \in Fiber, TakeMessage(t) PROVE OnePlace'
  <2>1. /\ box' = [box EXCEPT ![Here(t)] = {}] /\ UNCHANGED <<signals, executed, created>>
        /\ Here(t) \in Replica BY <1>1, SetFacts DEF TakeMessage, Placed, WellPlaced, At, Here
  <2>2. Holds(t, box[Here(t)], thread[t].left, thread[t].quitting) BY <1>1, LoopHands
  <2>3. PICK r \in Replica : r = Here(t) /\ box' = [box EXCEPT ![r] = {}] BY <2>1
  <2>4. thread'[t].msg = box[r] /\ \A f \in Fiber : f # t => thread'[f].msg = thread[f].msg
    BY <1>0, <2>2, <2>3, OtherHands
  <2> DEFINE from == <<"box", r>>
  <2>5. \A m \in box[r] : Moves(from, m) BY <2>3 DEF Moves, Has, TypeOK
  <2>6. \A s \in Replica : box'[s] \subseteq box[s] BY <2>3 DEF TypeOK
  <2>7. from \in Where /\ <<"hand", t>> \in Where BY <2>3 DEF Where
  <2> HIDE DEF from
  <2> QED BY <1>0, <2>1, <2>4, <2>5, <2>6, <2>7, MessagesMove
<1>2. ASSUME NEW t \in Fiber, Forward(t) PROVE OnePlace'
  <2>0. PICK c \in [v : Vertex, msg : SUBSET Message] :
               c = [v |-> thread[t].v, msg |-> thread[t].msg]
    BY <1>0, <1>2, SetFacts DEF Forward, Placed, WellPlaced, At, TypeOK
  <2> DEFINE from == <<"hand", t>>
             to == <<"call", c>>
  <2>1. signals' = signals \cup {c} /\ UNCHANGED <<box, executed, created>> BY <1>2, <2>0 DEF Forward
  <2>2. c \in [v : Vertex, msg : SUBSET Message] /\ c.msg = thread[t].msg BY <2>0
  <2>3. thread'[t].msg = {} /\ \A f \in Fiber : f # t => thread'[f].msg = thread[f].msg
    BY <1>0, <1>2, LoopHands, OtherHands
  <2>4. \A m \in c.msg : Moves(from, m) BY <2>2, <2>3 DEF Moves, Has
  <2>5. from \in Where /\ to \in Where BY <2>2 DEF Where
  <2>6. \A d \in signals' : \A m \in d.msg : d \in signals \/ (to = <<"call", d>> /\ Moves(from, m))
    BY <2>1, <2>4
  <2> HIDE DEF from, to
  <2> QED BY <1>0, <2>1, <2>3, <2>5, <2>6, MessagesMove
<1>3. ASSUME NEW t \in Fiber, SomeoneElseRunning(t) PROVE OnePlace'
  <2>2. PICK r \in Replica : r = Here(t)
    BY <1>0, <1>3, SetFacts DEF SomeoneElseRunning, Placed, WellPlaced, At, Here
  <2> DEFINE from == <<"hand", t>>
             to == <<"box", r>>
  <2>1. box' = [box EXCEPT ![r] = @ \cup thread[t].msg] /\ UNCHANGED <<signals, executed, created>>
    BY <1>3, <2>2 DEF SomeoneElseRunning
  <2>3. thread'[t].msg = {} /\ \A f \in Fiber : f # t => thread'[f].msg = thread[f].msg
    BY <1>0, <1>3, LoopHands, OtherHands
  <2>4. \A m \in thread[t].msg : Moves(from, m) BY <2>3 DEF Moves, Has
  <2>5. from \in Where /\ to \in Where BY <2>2 DEF Where
  <2>6. \A s \in Replica : \A m \in box'[s] : m \in box[s] \/ (to = <<"box", s>> /\ Moves(from, m))
    BY <2>1, <2>2, <2>4 DEF TypeOK
  <2> HIDE DEF from, to
  <2> QED BY <1>0, <2>1, <2>3, <2>5, <2>6, MessagesMove
<1>4. ASSUME NEW t \in Fiber, Apply(t) PROVE OnePlace'
  <2> DEFINE from == <<"hand", t>>
             to == <<"run", Nobody>>
  <2>1. executed' = executed \cup thread[t].msg /\ UNCHANGED <<box, signals, created>> BY <1>4 DEF Apply
  <2>3. thread'[t].msg = {} /\ \A f \in Fiber : f # t => thread'[f].msg = thread[f].msg
    BY <1>0, <1>4, WorkHands, OtherHands
  <2>4. \A m \in thread[t].msg : Moves(from, m) BY <2>3 DEF Moves, Has
  <2>5. from \in Where /\ to \in Where BY DEF Where
  <2> HIDE DEF from
  <2> QED BY <1>0, <2>1, <2>3, <2>4, <2>5, MessagesMove
<1>5. ASSUME NEW t \in Thread, Signal(t) PROVE OnePlace'
  <2>1. PICK u \in Vertex : Signal(t)!(u) BY <1>5 DEF Signal
  <2>2. created' = created + 1 /\ UNCHANGED executed /\ t[1] \in ReplicasOf[u] BY <2>1
  <2>3. \A f \in Fiber : thread'[f].msg = thread[f].msg BY <1>0, <1>5, WorkHands, OtherHands DEF HoldsOn
  <2> DEFINE r == <<t[1], u>>
             from == <<"run", Nobody>>
  <2>4. r \in Replica BY <2>2, SetFacts DEF Replica
  <2>6. PICK n \in Message : n = created'
    BY <2>1, <2>2, <1>0, ConstantsAssumption DEF ConstantsAssumption, Message
  <2>5. Moves(from, n) BY <1>0, <2>2, <2>6 DEF Moves
  <2> DEFINE c == [v |-> u, msg |-> {n}]
  <2>7. from \in Where /\ <<"box", r>> \in Where /\ <<"call", c>> \in Where BY <2>4, <2>6 DEF Where
  <2>8. CASE signals' = signals \cup {c} /\ UNCHANGED box
    <3>1. \A d \in signals' : \A m \in d.msg :
            d \in signals \/ (<<"call", c>> = <<"call", d>> /\ Moves(from, m)) BY <2>5, <2>8
    <3> DEFINE to == <<"call", c>>
    <3>2. to \in Where BY <2>7
    <3>3. \A d \in signals' : \A m \in d.msg : d \in signals \/ (to = <<"call", d>> /\ Moves(from, m))
      BY <3>1
    <3> HIDE DEF to, from, c
    <3> QED BY <1>0, <2>2, <2>3, <2>7, <2>8, <3>2, <3>3, MessagesMove
  <2>9. CASE box' = [box EXCEPT ![r] = @ \cup {n}] /\ UNCHANGED signals
    <3> HIDE DEF r
    <3> DEFINE to == <<"box", r>>
    <3>1. \A s \in Replica : \A m \in box'[s] : m \in box[s] \/ (to = <<"box", s>> /\ Moves(from, m))
      BY <2>4, <2>5, <2>9 DEF TypeOK
    <3>2. to \in Where BY <2>7
    <3> HIDE DEF to, from
    <3> QED BY <1>0, <2>2, <2>3, <2>7, <2>9, <3>1, <3>2, MessagesMove
  <2> QED BY <2>1, <2>6, <2>8, <2>9
<1>6. ASSUME NEW t \in Handler, ReceiveSignal(t) PROVE OnePlace'
  <2>1. PICK c \in signals : ReceiveSignal(t)!(c) BY <1>6 DEF ReceiveSignal
  <2>2. /\ signals' = signals \ {c} /\ UNCHANGED <<executed, created>>
        /\ UNCHANGED box \/ box' = [box EXCEPT ![Master(c.v)] = @ \cup c.msg] BY <2>1
  <2>3. t \in Thread /\ t \notin Fiber BY SetFacts
  <2>4. \A f \in Fiber : thread'[f].msg = thread[f].msg BY <1>6, <2>3, WorkHands, OtherHands DEF Drops
  <2> DEFINE r == Master(c.v)
             from == <<"call", c>>
             to == <<"box", r>>
  <2>5. c \in [v : Vertex, msg : SUBSET Message] /\ r \in Replica BY SetFacts DEF TypeOK
  <2>6. from \in Where /\ to \in Where BY <2>5 DEF Where
  <2>7. \A m \in c.msg : Moves(from, m) BY <2>2 DEF Moves, Has
  <2>8. UNCHANGED box \/ box' = [box EXCEPT ![r] = @ \cup c.msg] BY <2>2
  <2> HIDE DEF r
  <2>9. \A s \in Replica : \A m \in box'[s] : m \in box[s] \/ (to = <<"box", s>> /\ Moves(from, m))
    BY ZenonT(60), <2>5, <2>7, <2>8 DEF TypeOK
  <2> HIDE DEF from, to
  <2> QED BY <1>0, <2>2, <2>4, <2>6, <2>9, MessagesMove
<1> QED BY <1>1, <1>2, <1>3, <1>4, <1>5, <1>6, FewerSteps, FewerKeeps

-----------------------------------------------------------------------------
(* Nobody sleeps over a queue.                                             *)

\* All fibers look into all queues at first.
LEMMA WatchedInit == Init => Watched
<1> SUFFICES ASSUME Init, NEW k \in Machine, NEW q \in Queue PROVE WatchedAt(k, q) BY DEF Watched
<1>1. PICK i \in FibersOf[k] : TRUE BY ConstantsAssumption DEF ConstantsAssumption
<1>2. <<k, i>> \in Fiber /\ <<k, i>>[1] = k BY DEF Fiber
<1>3. WillLook(<<k, i>>, q) BY <1>2, SetFacts, ThreadStates, FreshHands DEF Init, WillLook, At
<1> QED BY <1>2, <1>3 DEF WatchedAt

\* Who stays where he is will look where he would.
LEMMA StaysWatching ==
  ASSUME NEW u \in Thread, Stays(u), Keeps(u), NEW q, WillLook(u, q)
  PROVE  WillLook(u, q)' BY DEF Stays, Keeps, WillLook, At

\* No queue grows, and no machine goes on after it was stopped.
QueuesShrink ==
  /\ \A k \in Machine, q \in Queue : queue'[k][q] # {} => queue[k][q] # {}
  /\ \A k \in Machine : (force_stop[k] => force_stop'[k]) /\ (done[k] => done'[k])

\* A thread turns to a place from where it will look as it would.
LEMMA WatchedTurns ==
  ASSUME Watched, QueuesShrink, NEW t \in Thread,
         NEW at, NEW v, NEW to, NEW back, Turns(t, at, v, to, back),
         NEW msg, NEW left, NEW quitting, Holds(t, msg, left, quitting),
         \/ force_stop'[t[1]] \/ done'[t[1]]
         \/ t \in Fiber /\ \A q \in Queue : queue'[t[1]][q] # {} /\ WillLook(t, q) => WillLook(t, q)'
         \/ t \in Handler /\ (at \in {"cancel", "wake"} \/ thread[t].at \notin {"cancel", "wake"})
  PROVE  Watched'
<1> SUFFICES ASSUME NEW k \in Machine, NEW q \in Queue, queue'[k][q] # {},
                    ~force_stop'[k], ~done'[k]
             PROVE  \/ \E f \in Fiber : f[1] = k /\ WillLook(f, q)'
                    \/ \E h \in Handler : h[1] = k /\ thread'[h].at \in {"cancel", "wake"}
  BY DEF Watched, WatchedAt
<1>1. WatchedAt(k, q) /\ ~force_stop[k] /\ ~done[k] BY DEF Watched, QueuesShrink
<1>2. CASE \E f \in Fiber : f[1] = k /\ WillLook(f, q) BY <1>2, SetFacts, StaysWatching DEF Turns, Holds
<1>3. CASE \E h \in Handler : h[1] = k /\ thread[h].at \in {"cancel", "wake"}
  BY <1>3, SetFacts DEF Turns, Stays, At
<1> QED BY <1>1, <1>2, <1>3 DEF WatchedAt

\* All steps but an insertion leave the queues no fuller.
LEMMA ShrinkSteps ==
  ASSUME TypeOK, Placed, [Next]_vars, ~ \E t \in Thread : Push(t)
  PROVE  QueuesShrink
<1> USE DEF sched_vars, vertex_vars, mode_vars, rpc_vars, count_vars
<1>1. ASSUME NEW t \in Fiber, PopQueue(t) PROVE QueuesShrink
  <2>1. PICK q \in Queue : \E v \in queue[t[1]][q] :
               queue' = [queue EXCEPT ![t[1]][q] = @ \ {v}] BY ZenonT(60), <1>1, LoopEffects
  <2>2. UNCHANGED <<force_stop, done>> BY <1>1 DEF PopQueue
  <2> QED BY <2>1, <2>2, SetFacts DEF QueuesShrink, TypeOK
<1>2. ASSUME NEW t \in Fiber, TimeOut(t) PROVE QueuesShrink BY <1>2 DEF TimeOut, QueuesShrink, TypeOK
<1>3. ASSUME NEW k \in Machine, Consensus(k) PROVE QueuesShrink
  BY <1>3 DEF Consensus, QueuesShrink, TypeOK
<1>4. ASSUME ~ \E t \in Fiber : PopQueue(t) \/ TimeOut(t), ~ \E k \in Machine : Consensus(k)
      PROVE  QueuesShrink
  <2>1. UNCHANGED <<queue, force_stop, done>> BY ZenonT(60), <1>4, NextSteps
       DEF ScanQueue, TakeMessage, TakeNothing, BeginDone, LockDone, Found,
           FoundTooLate, EndDone, LeaveDone, Forward, SomeoneElseRunning, ExclusiveAccess, Apply,
           Reschedule, Release, Signal, Schedule, CancelTest, Wake, ReceiveSignal, PerformScatter,
           Scattered, ReceiveEndgame, vars
  <2> QED BY <2>1 DEF QueuesShrink
<1> QED BY <1>1, <1>2, <1>3, <1>4

\* A fiber that is about to visit all queues, or has left the main loop.
LEMMA BusyLooks ==
  ASSUME NEW t \in Thread, NEW at, NEW v, NEW to, NEW back, Turns(t, at, v, to, back),
         NEW msg, NEW left, NEW quitting \in BOOLEAN, Holds(t, msg, left, quitting),
         \/ ~quitting /\ at \notin {"asleep", "exit"}
         \/ quitting /\ (at \in {"take", "found"} \/ (at = "scan" /\ left = Queue))
  PROVE  \A q \in Queue : WillLook(t, q)' BY DEF Turns, Holds, WillLook, At

\* A fiber turns to where it will look into all queues.
LEMMA WatchedBusy ==
  ASSUME Watched, QueuesShrink, NEW t \in Fiber,
         NEW at, NEW v, NEW to, NEW back, Turns(t, at, v, to, back),
         NEW msg, NEW left, NEW quitting \in BOOLEAN, Holds(t, msg, left, quitting),
         \/ ~quitting /\ at \notin {"asleep", "exit"}
         \/ quitting /\ (at \in {"take", "found"} \/ (at = "scan" /\ left = Queue))
  PROVE  Watched' BY BusyLooks, WatchedTurns, SetFacts

\* A vertex comes into a queue, and its thread will wake the sleepers.
LEMMA WatchedPush ==
  ASSUME TypeOK, Placed, Hands, Watched, NEW t \in Thread, Push(t)
  PROVE  Watched'
<1>1. Goes(t, "cancel") /\ HoldsOn(t) /\ UNCHANGED <<force_stop, done>>
  BY WorkEffects, WorkHands DEF Push, mode_vars
<1>2. PICK i \in Queue : queue' = [queue EXCEPT ![t[1]][i] = @ \cup {thread[t].to}] BY DEF Push
<1>3. At(t, "push") /\ Handed(t) BY DEF Push, Hands
<1> SUFFICES ASSUME NEW k \in Machine, NEW q \in Queue, queue'[k][q] # {} PROVE WatchedAt(k, q)'
  BY DEF Watched
<1>4. CASE t[1] = k
  <2>1. CASE t \in Handler BY <1>1, <1>4, <2>1 DEF Goes, Turns, WatchedAt
  <2>2. CASE t \in Fiber
    <3>1. ~thread[t].quitting /\ thread[t].quitting \in BOOLEAN
      BY <1>3 DEF Handed, At, TypeOK, ThreadState
    <3>2. WillLook(t, q)' BY <1>1, <3>1, BusyLooks DEF Goes, HoldsOn
    <3> QED BY <1>4, <2>2, <3>2 DEF WatchedAt
  <2> QED BY <2>1, <2>2, SetFacts
<1>5. CASE t[1] # k
  <2>1. queue[k][q] # {} BY <1>2, <1>5, SetFacts DEF TypeOK
  <2>2. WatchedAt(k, q) BY <2>1 DEF Watched
  <2>3. ASSUME NEW f \in Fiber, f[1] = k, WillLook(f, q) PROVE WillLook(f, q)'
    BY <1>1, <1>5, <2>3, StaysWatching, SetFacts DEF Goes, Turns, HoldsOn, Holds
  <2>4. ASSUME NEW h \in Handler, h[1] = k, thread[h].at \in {"cancel", "wake"}
        PROVE  thread'[h].at \in {"cancel", "wake"}
    BY <1>1, <1>5, <2>4, SetFacts DEF Goes, Turns, Stays, At
  <2> QED BY <1>1, <2>2, <2>3, <2>4 DEF WatchedAt
<1> QED BY <1>4, <1>5

\* cancel() finds fibers in the critical section, or somebody is awake.
LEMMA WatchedCancel ==
  ASSUME TypeOK, Placed, Hands, Over, Watched, QueuesShrink, NEW t \in Handler, CancelTest(t)
  PROVE  Watched'
<1>1. /\ IF Critical(t[1]) # {} THEN Goes(t, "wake") ELSE Returns(t)
      /\ Drops(t) \/ HoldsOn(t)
      /\ t \in Thread /\ At(t, "cancel") /\ UNCHANGED <<done, force_stop>>
  BY SetFacts, WorkHands DEF CancelTest, mode_vars
<1>2. CASE Critical(t[1]) # {} BY <1>1, <1>2, WatchedTurns DEF Goes, Drops, HoldsOn
<1>3. CASE Critical(t[1]) = {}
  <2>1. \E at, v, to, back : Turns(t, at, v, to, back) BY <1>1, <1>3 DEF Returns, Starts
  <2>2. \E msg, left, quitting : Holds(t, msg, left, quitting) BY <1>1 DEF Drops, HoldsOn
  <2>3. t[1] \in Machine BY <1>1, SetFacts
  <2>4. PICK i \in FibersOf[t[1]] : TRUE BY <2>3, ConstantsAssumption DEF ConstantsAssumption
  <2> DEFINE f == <<t[1], i>>
  <2>5. f \in Fiber /\ f[1] = t[1] /\ f # t /\ f \in Thread BY <2>3, <2>4, SetFacts DEF Fiber
  <2> HIDE DEF f
  <2>6. f \notin Critical(t[1]) BY <1>3
  <2>7. ~thread[f].quitting /\ ~At(f, "asleep") BY <2>5, <2>6 DEF Critical, At
  <2>8. ~At(f, "exit") BY <1>1, <2>5 DEF Over, At
  <2>9. \A q \in Queue : WillLook(f, q)'
    BY <2>1, <2>2, <2>5, <2>7, <2>8, StaysWatching DEF WillLook, Turns, Holds
  <2> SUFFICES ASSUME NEW k \in Machine, NEW q \in Queue, queue'[k][q] # {} PROVE WatchedAt(k, q)'
    BY DEF Watched
  <2>10. CASE k = t[1] BY <2>5, <2>9, <2>10 DEF WatchedAt
  <2>11. CASE k # t[1]
    <3>1. WatchedAt(k, q) BY DEF Watched, QueuesShrink
    <3>2. ASSUME NEW g \in Fiber, g[1] = k, WillLook(g, q) PROVE WillLook(g, q)'
      BY <2>1, <2>2, <2>11, <3>2, StaysWatching, SetFacts DEF Turns, Holds
    <3>3. ASSUME NEW h \in Handler, h[1] = k, thread[h].at \in {"cancel", "wake"}
          PROVE  thread'[h].at \in {"cancel", "wake"} BY <2>1, <2>11, <3>3, SetFacts DEF Turns, Stays, At
    <3> QED BY <1>1, <3>1, <3>2, <3>3 DEF WatchedAt
  <2> QED BY <2>10, <2>11
<1> QED BY <1>2, <1>3

\* cancel() wakes all fibers that sleep.
LEMMA WatchedWake ==
  ASSUME TypeOK, Placed, Hands, Over, Watched, QueuesShrink, NEW t \in Handler, Wake(t)
  PROVE  Watched'
<1>1. /\ Returns(t) /\ (Drops(t) \/ HoldsOn(t))
      /\ t \in Thread /\ At(t, "wake") /\ UNCHANGED <<done, force_stop>> /\ MutexFree(t[1])
  BY SetFacts, WorkHands DEF Wake, mode_vars
<1>2. \E at, v, to, back : Turns(t, at, v, to, back) BY <1>1 DEF Returns, Starts
<1>3. \E msg, left, quitting : Holds(t, msg, left, quitting) BY <1>1 DEF Drops, HoldsOn
<1>4. t[1] \in Machine BY <1>1, SetFacts
<1>5. PICK i \in FibersOf[t[1]] : TRUE BY <1>4, ConstantsAssumption DEF ConstantsAssumption
<1> DEFINE f == <<t[1], i>>
<1>6. f \in Fiber /\ f[1] = t[1] /\ f # t /\ f \in Thread BY <1>4, <1>5, SetFacts DEF Fiber
<1> HIDE DEF f
<1>7. ~thread[f].quitting /\ ~At(f, "exit") BY <1>1, <1>6 DEF Over, At, MutexFree
<1>8. thread'[f].at # "asleep"
  <2>1. CASE At(f, "asleep") BY <1>6, <2>1 DEF Asleep, Wake, TypeOK
  <2>2. CASE ~At(f, "asleep") BY <1>2, <1>6, <2>2 DEF Turns, Stays, At
  <2> QED BY <2>1, <2>2
<1>9. \A q \in Queue : WillLook(f, q)'
  BY <1>2, <1>3, <1>6, <1>7, <1>8 DEF WillLook, Turns, Stays, Holds, Keeps, At
<1> SUFFICES ASSUME NEW k \in Machine, NEW q \in Queue, queue'[k][q] # {} PROVE WatchedAt(k, q)'
  BY DEF Watched
<1>10. CASE k = t[1] BY <1>6, <1>9, <1>10 DEF WatchedAt
<1>11. CASE k # t[1]
  <2>1. WatchedAt(k, q) BY DEF Watched, QueuesShrink
  <2>2. ASSUME NEW g \in Fiber, g[1] = k, WillLook(g, q) PROVE WillLook(g, q)'
    BY <1>2, <1>3, <1>11, <2>2, StaysWatching, SetFacts DEF Turns, Holds
  <2>3. ASSUME NEW h \in Handler, h[1] = k, thread[h].at \in {"cancel", "wake"}
        PROVE  thread'[h].at \in {"cancel", "wake"} BY <1>2, <1>11, <2>3, SetFacts DEF Turns, Stays, At
  <2> QED BY <1>1, <2>1, <2>2, <2>3 DEF WatchedAt
<1> QED BY <1>10, <1>11

\* Every step keeps the queues watched.
LEMMA WatchedNext ==
  ASSUME TypeOK, Placed, Hands, Over, Watched, [Next]_vars
  PROVE  Watched'
<1> USE DEF sched_vars, vertex_vars, mode_vars, rpc_vars, count_vars
<1>a. \A t \in Thread : /\ Handed(t) /\ thread[t].quitting \in BOOLEAN
                        /\ WellPlaced(t, thread[t].at, thread[t].v, thread[t].to, thread[t].back)
                        /\ thread[t].left \subseteq Queue BY DEF Hands, TypeOK, Placed
<1>b. \A t \in Fiber : t \in Thread /\ t \notin Handler BY SetFacts
<1>c. CASE \E t \in Thread : Push(t) BY <1>c, WatchedPush
<1> SUFFICES ASSUME ~ \E t \in Thread : Push(t) PROVE Watched' BY <1>c
<1>d. QueuesShrink BY ShrinkSteps
<1>e. UNCHANGED thread => Watched' BY <1>d DEF Watched, WatchedAt, QueuesShrink, WillLook, At
<1>1. ASSUME NEW t \in Fiber, ScanQueue(t) PROVE Watched'
  <2>0. At(t, "scan") /\ UNCHANGED queue BY <1>1 DEF ScanQueue
  <2>1. PICK i \in thread[t].left :
          /\ queue[t[1]][i] = {}
          /\ Holds(t, thread[t].msg, thread[t].left \ {i}, thread[t].quitting)
          /\ Goes(t, IF thread[t].left \ {i} # {} THEN "scan"
                     ELSE IF thread[t].quitting THEN "end" ELSE "quit") BY <1>1, LoopHands
  <2>2. ASSUME NEW q \in Queue, queue'[t[1]][q] # {}, WillLook(t, q) PROVE WillLook(t, q)'
    <3>1. q # i BY <2>0, <2>1, <2>2
    <3>2. thread[t].quitting => thread[t].left \ {i} # {} /\ q \in thread[t].left \ {i}
      BY <2>0, <2>2, <3>1 DEF WillLook, At
    <3> QED BY <2>1, <3>2 DEF WillLook, Goes, Turns, Holds, At
  <2> QED BY <1>b, <1>d, <2>1, <2>2, WatchedTurns DEF Goes
<1>2. ASSUME NEW t \in Fiber, PopQueue(t) PROVE Watched'
  <2>1. UNCHANGED thread \/ Holds(t, thread[t].msg, {}, thread[t].quitting) BY <1>2, LoopHands
  <2>2. UNCHANGED thread \/ \E v : Turns(t, "take", v, thread[t].to, thread[t].back) BY <1>2, LoopEffects
  <2>3. thread[t].quitting \in BOOLEAN BY <1>a, <1>b
  <2> QED BY <1>d, <1>e, <2>1, <2>2, <2>3, WatchedBusy
<1>3. ASSUME NEW t \in Fiber, TakeMessage(t) PROVE Watched'
  <2>1. /\ Holds(t, box[Here(t)], thread[t].left, thread[t].quitting)
        /\ Goes(t, IF thread[t].quitting THEN "found" ELSE "eval")
        /\ thread[t].quitting \in BOOLEAN BY <1>3, <1>a, <1>b, LoopHands
  <2> QED BY <1>d, <2>1, WatchedBusy DEF Goes
<1>4. ASSUME NEW t \in Fiber, NEW q \in BOOLEAN, Starts(t, "scan"), Holds(t, {}, Queue, q)
      PROVE  Watched' BY <1>4, <1>d, WatchedBusy DEF Starts
<1>5. ASSUME NEW t \in Fiber, TakeNothing(t) \/ LockDone(t) \/ Forward(t)
                              \/ SomeoneElseRunning(t) \/ Release(t)
      PROVE  Watched' BY ZenonT(60), <1>5, <1>4, <1>a, <1>b, LoopEffects, LoopHands
<1>6. ASSUME NEW t \in Fiber, BeginDone(t) PROVE Watched'
  <2>1. At(t, "quit") BY <1>6 DEF BeginDone
  <2>2. ~thread[t].quitting /\ thread[t].quitting \in BOOLEAN BY <2>1, <1>a, <1>b DEF Handed, At
  <2>3. Goes(t, "begin") /\ HoldsOn(t) BY <1>6, LoopEffects, LoopHands
  <2> QED BY <1>d, <2>2, <2>3, WatchedBusy DEF Goes, HoldsOn
<1>7. ASSUME NEW t \in Fiber, Found(t) PROVE Watched'
  <2>1. Goes(t, "eval") /\ Holds(t, thread[t].msg, thread[t].left, FALSE) BY <1>7, LoopEffects, LoopHands
  <2>2. PICK quitting \in BOOLEAN : ~quitting /\ quitting = FALSE OBVIOUS
  <2>3. Holds(t, thread[t].msg, thread[t].left, quitting) BY <2>1, <2>2
  <2> QED BY <1>d, <2>1, <2>2, <2>3, WatchedBusy DEF Goes
<1>8. ASSUME NEW t \in Fiber, FoundTooLate(t) PROVE Watched'
  <2>1. force_stop'[t[1]] BY <1>8 DEF FoundTooLate
  <2> QED BY <1>8, <1>b, <1>d, <2>1, LoopEffects, LoopHands, WatchedTurns DEF Starts
<1>9. ASSUME NEW t \in Fiber, EndDone(t) PROVE Watched'
  <2>1. At(t, "end") /\ thread[t].quitting BY <1>9, <1>a, <1>b DEF EndDone, Handed, At
  <2>2. \A q : ~WillLook(t, q) BY <2>1 DEF WillLook, At
  <2>3. (\E place : Starts(t, place)) /\ Drops(t) BY <1>9, LoopHands
  <2>4. (\E at, v, to, back : Turns(t, at, v, to, back))
        /\ (\E msg, left, quitting : Holds(t, msg, left, quitting)) BY <2>3 DEF Starts, Drops
  <2> QED BY <1>b, <1>d, <2>2, <2>4, WatchedTurns
<1>10. ASSUME NEW t \in Fiber, LeaveDone(t) PROVE Watched'
  <2>1. CASE done[t[1]]
    <3>1. done'[t[1]] BY <1>10, <2>1 DEF LeaveDone
    <3>2. Goes(t, "exit") /\ HoldsOn(t) BY <1>10, <2>1, LoopHands
    <3> QED BY <1>b, <1>d, <3>1, <3>2, WatchedTurns DEF Goes, HoldsOn
  <2>2. CASE ~done[t[1]] BY <1>10, <1>4, <2>2, LoopHands
  <2> QED BY <2>1, <2>2
<1>f. ASSUME NEW t \in Fiber, HoldsOn(t),
             thread[t].at \in {"scatter", "eval"} \cup Signalling, ~thread[t].quitting,
             \E at \in {"scatter", "unlock", "apply"} \cup Signalling :
               \E v, to, back : Turns(t, at, v, to, back)
      PROVE  Watched' BY <1>f, <1>d, WatchedBusy, <1>a, <1>b DEF HoldsOn, Signalling
<1>11. ASSUME NEW t \in Fiber, ExclusiveAccess(t) PROVE Watched'
  <2>1. At(t, "eval") BY <1>11 DEF ExclusiveAccess
  <2>2. ~thread[t].quitting BY <2>1, <1>a, <1>b DEF Handed, At
  <2> QED BY <1>11, <1>b, <1>f, <2>1, <2>2, WorkEffects, WorkHands DEF Goes, At
<1>12. ASSUME NEW t \in Fiber, Apply(t) PROVE Watched'
  <2>1. At(t, "apply") BY <1>12 DEF Apply
  <2>2. ~thread[t].quitting /\ thread[t].quitting \in BOOLEAN BY <2>1, <1>a, <1>b DEF Handed, At
  <2> QED BY <1>12, <1>b, <1>d, <2>2, WorkEffects, WorkHands, WatchedBusy DEF Goes
<1>g. ASSUME NEW t \in Fiber, thread[t].at \in {"scatter"} \cup Signalling PROVE ~thread[t].quitting
  BY <1>g, <1>a, <1>b DEF Handed, Signalling
<1>13. ASSUME NEW t \in Fiber, Reschedule(t) PROVE Watched'
  <2>1. At(t, "scatter") BY <1>13 DEF Reschedule, ScatteredEverywhere
  <2> QED BY <1>13, <1>b, <1>f, <1>g, <2>1, WorkEffects, WorkHands DEF At, Signalling
<1>14. ASSUME NEW t \in Thread, Signal(t) PROVE Watched'
  <2>1. At(t, "scatter") BY <1>14 DEF Signal
  <2>2. UNCHANGED thread \/ \E u : Turns(t, "schedule", thread[t].v, u, "scatter") BY <1>14, WorkEffects
  <2>3. UNCHANGED thread \/ HoldsOn(t) BY <1>14, WorkHands
  <2>4. CASE t \in Fiber BY <1>e, <1>f, <1>g, <2>1, <2>2, <2>3, <2>4 DEF At, Signalling
  <2>5. CASE t \in Handler BY <1>d, <1>e, <2>1, <2>2, <2>3, <2>5, WatchedTurns DEF At, HoldsOn
  <2> QED BY <2>4, <2>5, SetFacts
<1>15. ASSUME NEW t \in Thread, Schedule(t) PROVE Watched'
  <2>1. At(t, "schedule") BY <1>15 DEF Schedule
  <2>2. Goes(t, "cancel") \/ Goes(t, "push") BY <1>15, WorkEffects
  <2>3. HoldsOn(t) BY <1>15, WorkHands
  <2>4. CASE t \in Fiber BY <1>f, <1>g, <2>1, <2>2, <2>3, <2>4 DEF At, Signalling, Goes
  <2>5. CASE t \in Handler BY <1>d, <2>1, <2>2, <2>3, <2>5, WatchedTurns DEF At, HoldsOn, Goes
  <2> QED BY <2>4, <2>5, SetFacts
<1>16. ASSUME NEW t \in Fiber, CancelTest(t) \/ Wake(t) PROVE Watched'
  <2>1. thread[t].at \in Signalling BY <1>16 DEF CancelTest, Wake, At, Signalling
  <2>2. Goes(t, "wake") \/ Returns(t) BY <1>16, <1>b, WorkEffects
  <2>4. thread[t].back \in {"scatter", "unlock"} BY <1>a, <1>b, <2>1 DEF WellPlaced, TypeOK, ThreadState
  <2>3. Drops(t) \/ HoldsOn(t) BY <1>16, <1>b, WorkHands
  <2>5. \E at \in {"scatter", "unlock"} \cup Signalling : \E v, to, back : Turns(t, at, v, to, back)
    BY <2>2, <2>4 DEF Goes, Returns, Signalling
  <2>6. CASE HoldsOn(t) BY <1>f, <1>g, <2>1, <2>5, <2>6
  <2>7. CASE Drops(t) BY <1>d, <2>5, <2>7, WatchedBusy DEF Drops, Signalling
  <2> QED BY <2>3, <2>6, <2>7
<1>17. ASSUME NEW t \in Handler, CancelTest(t) \/ Wake(t) PROVE Watched'
  BY <1>17, <1>d, WatchedCancel, WatchedWake
<1>18. ASSUME NEW t \in Handler, ReceiveSignal(t) PROVE Watched'
  <2>1. At(t, "idle") /\ t \in Thread BY <1>18, SetFacts DEF ReceiveSignal
  <2>2. UNCHANGED thread \/ \E u : Turns(t, "schedule", Nobody, u, "idle") BY <1>18, <2>1, WorkEffects
  <2>3. UNCHANGED thread \/ Drops(t) BY <1>18, <2>1, WorkHands
  <2> QED BY <1>18, <1>d, <1>e, <2>1, <2>2, <2>3, WatchedTurns DEF Drops, At
<1>19. ASSUME NEW t \in Handler, PerformScatter(t) \/ Scattered(t) PROVE Watched'
  <2>1. thread[t].at \notin {"cancel", "wake"} /\ t \in Thread
    BY <1>19, SetFacts DEF PerformScatter, Scattered, At
  <2>2. \E at, v, to, back : Turns(t, at, v, to, back) BY <1>19, <2>1, WorkEffects DEF Starts
  <2>3. Drops(t) BY <1>19, <2>1, WorkHands
  <2> QED BY <1>19, <1>d, <2>1, <2>2, <2>3, WatchedTurns DEF Drops
<1>20. ASSUME NEW k \in Machine, Consensus(k) PROVE Watched'
  <2>1. \A u \in Thread : Keeps(u) /\ Stays(u) BY <1>20, ConsensusHands, ConsensusEffects
  <2>2. \A f \in Fiber, q \in Queue : WillLook(f, q) => WillLook(f, q)' BY <2>1, StaysWatching, SetFacts
  <2>3. \A h \in Handler : thread[h].at \in {"cancel", "wake"} => thread'[h].at \in {"cancel", "wake"}
    BY <2>1, SetFacts DEF Stays, At
  <2> QED BY <1>d, <2>2, <2>3 DEF Watched, WatchedAt, QueuesShrink
<1>21. ASSUME \/ \E t \in Fiber : TimeOut(t)
              \/ \E t \in Handler : ReceiveEndgame(t)
              \/ UNCHANGED vars
       PROVE  Watched' BY <1>21, <1>e DEF TimeOut, ReceiveEndgame, vars
<1> QED BY NextSteps, SetFacts, <1>1, <1>2, <1>3, <1>5, <1>6, <1>7, <1>8, <1>9, <1>10, <1>11, <1>12,
     <1>13, <1>14, <1>15, <1>16, <1>17, <1>18, <1>19, <1>20, <1>21

-----------------------------------------------------------------------------
(* The end of the run.                                                     *)

\* At first nobody has been told.
LEMMA OverInit == Init => Over
BY SetFacts, ThreadStates DEF Init, Over, At

\* When all fibers sleep and no call is on its way, no message is left.
LEMMA QuietIsEmpty ==
  ASSUME IInv, Runs, Watched, Quiet, \A k \in Machine : ~done[k]
  PROVE  Stopped \/ \A r \in Replica : box[r] = {}
<1> SUFFICES ASSUME ~Stopped, NEW r \in Replica, box[r] # {} PROVE FALSE OBVIOUS
<1>1. /\ \A h \in Handler : At(h, "idle")
      /\ \A f \in Fiber : At(f, "asleep") BY SetFacts DEF Quiet
<1>2. \A t \in Thread : thread[t].at \in {"idle", "asleep"} BY <1>1, SetFacts DEF At
<1>3. ~Told(r) BY <1>1, SetFacts DEF Told, Runs, Inside, Signalling, At
<1>4. LookedAt(r) BY <1>3 DEF IInv, Followed
<1>5. scheduled[r] BY <1>2, <1>4, SetFacts DEF LookedAt, At
<1>6. PICK q \in Queue : InQueue(r, q) BY <1>2, <1>5 DEF IInv, Queued, QueuedAt, Pushing, At
<1>7. WatchedAt(r[1], q) BY <1>6, SetFacts DEF Watched, InQueue
<1>8. \A f \in Fiber : ~WillLook(f, q) BY <1>1 DEF WillLook, At
<1> QED BY <1>1, <1>7, <1>8, SetFacts DEF WatchedAt, Stopped, At

\* Until somebody is told the engine runs, then it only ends.
LEMMA OverNext ==
  ASSUME IInv, Hands, Runs, Watched, Over, [Next]_vars
  PROVE  Over'
<1> USE DEF sched_vars, vertex_vars, mode_vars, rpc_vars, count_vars
<1>a. TypeOK /\ Placed BY DEF IInv
<1> DEFINE Running1 == (\A k \in Machine : ~done[k]) /\ (\A f \in Fiber : ~At(f, "exit"))
           Ending1 == /\ signals = {} /\ scatters = {} /\ endgames = {}
                      /\ \A h \in Handler : At(h, "idle")
                      /\ \A f \in Fiber : IF done[f[1]] THEN At(f, "woken") \/ At(f, "exit")
                                          ELSE At(f, "asleep")
                      /\ Stopped \/ \A r \in Replica : box[r] = {}
<1>b. Over <=> Running1 \/ Ending1 BY DEF Over
<1>c. Running1' => Over' BY DEF Over
<1>d. Ending1' => Over' BY DEF Over
<1>1. ASSUME NEW k \in Machine, Consensus(k) PROVE Over'
  <2>1. /\ done' = [done EXCEPT ![k] = TRUE] /\ ~done[k] /\ Quiet
        /\ UNCHANGED <<signals, scatters, endgames, box, force_stop>> BY <1>1 DEF Consensus
  <2>2. Ending1
    <3>1. CASE Running1 BY <2>1, <3>1, QuietIsEmpty, SetFacts DEF Quiet, Fiber
    <3> QED BY <1>b, <3>1
  <2>3. \A h \in Handler : At(h, "idle")' BY <1>1, <2>2, <1>a, ConsensusEffects, SetFacts DEF Stays, At
  <2>4. ASSUME NEW f \in Fiber
        PROVE  IF done'[f[1]] THEN At(f, "woken")' \/ At(f, "exit")' ELSE At(f, "asleep")'
    <3>1. thread'[f].at = IF f[1] = k /\ At(f, "asleep") THEN "woken" ELSE thread[f].at
      BY <1>1, <1>a, ConsensusHands
    <3>2. done'[f[1]] = IF f[1] = k THEN TRUE ELSE done[f[1]] BY <1>a, <2>1, SetFacts DEF TypeOK
    <3>3. IF done[f[1]] THEN At(f, "woken") \/ At(f, "exit") ELSE At(f, "asleep") BY <2>2
    <3> QED BY <2>1, <3>1, <3>2, <3>3 DEF At
  <2>5. Stopped' \/ \A r \in Replica : box'[r] = {} BY <2>1, <2>2 DEF Stopped
  <2> QED BY <2>1, <2>2, <2>3, <2>4, <2>5, <1>d
<1>2. ASSUME Ending1, ~ \E k \in Machine : Consensus(k) PROVE Over'
  <2>1. CASE UNCHANGED vars BY <1>2, <2>1, <1>d DEF vars, Stopped, At
  <2>2. ASSUME NEW t \in Fiber, LeaveDone(t) PROVE Over'
    <3>1. At(t, "woken") /\ done[t[1]] BY <1>2, <2>2 DEF LeaveDone, At
    <3>2. Goes(t, "exit") /\ t \in Thread BY <1>a, <2>2, <3>1, LoopHands, SetFacts
    <3>3. UNCHANGED <<done, signals, scatters, endgames, box, force_stop>> BY <2>2 DEF LeaveDone
    <3>4. \A h \in Handler : At(h, "idle")' BY <1>2, <3>2, SetFacts DEF Goes, Turns, Stays, At
    <3>5. ASSUME NEW f \in Fiber
          PROVE  IF done[f[1]] THEN At(f, "woken")' \/ At(f, "exit")' ELSE At(f, "asleep")'
      <4>0. IF done[f[1]] THEN At(f, "woken") \/ At(f, "exit") ELSE At(f, "asleep") BY <1>2
      <4>1. CASE f = t BY <3>1, <3>2, <4>1 DEF Goes, Turns, At
      <4>2. CASE f # t
        <5>0. Goto(t, "exit") BY <2>2, <3>1 DEF LeaveDone
        <5> DEFINE s == [thread[t] EXCEPT !.at = "exit"]
        <5>1. thread' = [thread EXCEPT ![t] = s] BY <5>0 DEF Goto, Become
        <5> HIDE DEF s
        <5>2. thread'[f] = thread[f] BY <1>a, <4>2, <5>1, SetFacts DEF TypeOK
        <5> QED BY <4>0, <5>2 DEF At
      <4> QED BY <4>1, <4>2
    <3>6. Stopped' \/ \A r \in Replica : box'[r] = {} BY <1>2, <3>3 DEF Stopped
    <3> QED BY <1>2, <3>3, <3>4, <3>5, <3>6, <1>d
  <2>3. \A t \in Thread : thread[t].at \in {"idle", "woken", "exit", "asleep"} BY <1>2, SetFacts DEF At
  <2>4. signals = {} /\ scatters = {} /\ endgames = {} BY <1>2
  <2>5. \A h \in Handler : At(h, "idle") BY <1>2
  <2>6. \/ UNCHANGED vars
        \/ \E t \in Fiber : LeaveDone(t)
    <3>1. ~ \E t \in Fiber :
              \/ ScanQueue(t) \/ PopQueue(t) \/ TakeMessage(t) \/ TakeNothing(t)
              \/ TimeOut(t) \/ BeginDone(t) \/ LockDone(t) \/ Found(t) \/ FoundTooLate(t)
              \/ EndDone(t) \/ Forward(t) \/ SomeoneElseRunning(t)
              \/ ExclusiveAccess(t) \/ Apply(t) \/ Reschedule(t) \/ Release(t) BY ZenonT(60), <2>3, SetFacts
         DEF ScanQueue, PopQueue, TakeMessage, TakeNothing, TimeOut, BeginDone, LockDone, Found,
             FoundTooLate, EndDone, Forward, SomeoneElseRunning, ExclusiveAccess, Apply,
             Reschedule, Release, ScatteredEverywhere, At
    <3>2. ~ \E t \in Thread : Signal(t) \/ Schedule(t) \/ Push(t) \/ CancelTest(t) \/ Wake(t)
      BY <2>3 DEF Signal, Schedule, Push, CancelTest, Wake, At
    <3>3. ~ \E t \in Handler :
              ReceiveSignal(t) \/ PerformScatter(t) \/ Scattered(t) \/ ReceiveEndgame(t)
      BY <2>4, <2>5 DEF ReceiveSignal, PerformScatter, Scattered, ReceiveEndgame, At
    <3> HIDE DEF Ending1, Running1
    <3> QED BY SMTT(30), <1>2, <3>1, <3>2, <3>3, NextSteps
  <2> QED BY <2>1, <2>2, <2>6
<1>3. ASSUME Running1, ~ \E k \in Machine : Consensus(k) PROVE Over'
  <2>1. UNCHANGED done BY ZenonT(60), <1>3, NextSteps
       DEF ScanQueue, PopQueue, TakeMessage, TakeNothing, TimeOut, BeginDone, LockDone, Found,
           FoundTooLate, EndDone, LeaveDone, Forward, SomeoneElseRunning, ExclusiveAccess, Apply,
           Reschedule, Release, Signal, Schedule, Push, CancelTest, Wake, ReceiveSignal,
           PerformScatter, Scattered, ReceiveEndgame, vars
  <2>a. ASSUME NEW t \in Thread, NEW at, NEW v, NEW to, NEW back, Turns(t, at, v, to, back),
               at # "exit"
        PROVE  \A f \in Fiber : ~At(f, "exit")' BY <1>3, <2>a, SetFacts DEF Turns, Stays, At
  <2>b. UNCHANGED thread => \A f \in Fiber : ~At(f, "exit")' BY <1>3 DEF At
  <2>c. \A t \in Fiber : ~done[t[1]] /\ t \in Thread BY <1>3, SetFacts
  <2>2. ASSUME NEW t \in Fiber,
               \/ ScanQueue(t) \/ TakeMessage(t) \/ TakeNothing(t)
               \/ BeginDone(t) \/ LockDone(t) \/ Found(t) \/ FoundTooLate(t)
               \/ EndDone(t) \/ LeaveDone(t) \/ Forward(t) \/ SomeoneElseRunning(t)
               \/ ExclusiveAccess(t) \/ Apply(t) \/ Reschedule(t) \/ Release(t)
        PROVE  \A f \in Fiber : ~At(f, "exit")'
    <3>1. \E at, v, to, back : at # "exit" /\ Turns(t, at, v, to, back)
      <4>1. CASE EndDone(t) \/ LeaveDone(t) BY <1>a, <2>c, <4>1, LoopHands DEF Starts, Goes
      <4>2. CASE \/ ScanQueue(t) \/ TakeMessage(t) \/ TakeNothing(t)
                 \/ BeginDone(t) \/ LockDone(t) \/ Found(t) \/ FoundTooLate(t)
                 \/ Forward(t) \/ SomeoneElseRunning(t) \/ Release(t)
        BY <1>a, <4>2, LoopEffects DEF Starts, Goes
      <4>3. CASE ExclusiveAccess(t) \/ Apply(t) \/ Reschedule(t)
        BY <1>a, <2>c, <4>3, WorkEffects DEF Starts, Goes
      <4> QED BY <2>2, <4>1, <4>2, <4>3
    <3> QED BY <2>a, <2>c, <3>1
  <2>3. ASSUME NEW t \in Fiber, PopQueue(t) PROVE \A f \in Fiber : ~At(f, "exit")'
    <3>1. UNCHANGED thread \/ \E v : Turns(t, "take", v, thread[t].to, thread[t].back)
      BY <1>a, <2>3, LoopEffects
    <3> QED BY <2>a, <2>b, <2>c, <3>1
  <2>4. ASSUME NEW t \in Thread, Signal(t) \/ Schedule(t) \/ Push(t) \/ CancelTest(t) \/ Wake(t)
                                 \/ ReceiveSignal(t) \/ PerformScatter(t) \/ Scattered(t)
        PROVE  \A f \in Fiber : ~At(f, "exit")'
    <3>1. thread[t].back # "exit" BY <1>a DEF TypeOK, ThreadState
    <3>2. UNCHANGED thread \/ \E at, v, to, back : at # "exit" /\ Turns(t, at, v, to, back)
      BY <1>a, <2>4, <3>1, WorkEffects DEF Starts, Goes, Returns
    <3> QED BY <2>a, <2>b, <3>2
  <2>5. \A f \in Fiber : ~At(f, "exit")'
    <3>1. (\E t \in Fiber : TimeOut(t)) \/ (\E t \in Handler : ReceiveEndgame(t)) \/ UNCHANGED vars
            => UNCHANGED thread BY DEF TimeOut, ReceiveEndgame, vars
    <3> HIDE DEF Running1, Ending1
    <3> QED BY <1>3, <2>b, <2>2, <2>3, <2>4, <3>1, NextSteps, SetFacts
  <2> QED BY <1>3, <2>1, <2>5, <1>c
<1> HIDE DEF Running1, Ending1
<1> QED BY <1>b, <1>1, <1>2, <1>3

\* The conjunction is an inductive invariant.
LEMMA PromiseInvariant == Spec => []PInv
<1>1. Init => PInv
  BY TypeInit, PlacedInit, ExclusiveInit, RequestedInit, QueuedInit, FollowedInit, HandsInit,
     RunsInit, OnePlaceInit, WatchedInit, OverInit DEF PInv, IInv
<1>2. PInv /\ [Next]_vars => PInv'
  <2> SUFFICES ASSUME PInv, [Next]_vars PROVE PInv' OBVIOUS
  <2>1. IInv'
    BY TypeNext, PlacedNext, ExclusiveNext, RequestedNext, QueuedNext, FollowedNext DEF IInv, PInv
  <2> QED BY <2>1, HandsNext, RunsNext, OnePlaceNext, WatchedNext, OverNext DEF PInv, IInv
<1> QED BY <1>1, <1>2, PTL DEF Spec

-----------------------------------------------------------------------------
(* What the programmer of a vertex program sees.                           *)

\* Message m waits for a run of vertex v.
Waits(m, v) ==
  \/ \E r \in Replica : r[2] = v /\ m \in box[r]
  \/ \E f \in Fiber : thread[f].v = v /\ m \in thread[f].msg
  \/ \E c \in signals : c.v = v /\ m \in c.msg

\* Fiber f has given its message to the program of its vertex.
Executing(f) ==
  thread[f].at \in {"scatter", "unlock"} \/ thread[f].back \in {"scatter", "unlock"}

\* Pending by its members.
LEMMA PendingIs ==
  /\ \A v, m : m \in Pending(v) <=> Waits(m, v)
  /\ \A v, m : m \in Pending(v)' <=> Waits(m, v)' BY DEF Pending, Waits

\* Running by its members.
LEMMA RunningIs ==
  /\ \A v : v \in Running <=> \E f \in Fiber : Executing(f) /\ thread[f].v = v
  /\ \A v : v \in Running' <=> \E f \in Fiber : Executing(f)' /\ thread'[f].v = v
BY DEF Running, Executing

\* A waiting message is in one place, of the vertex it waits for.
LEMMA WaitsSomewhere ==
  ASSUME TypeOK, NEW v, NEW m, Waits(m, v)
  PROVE  \E x \in Where : Has(x, m) /\ x # <<"run", Nobody>>
<1>1. CASE \E r \in Replica : r[2] = v /\ m \in box[r] BY <1>1, HasAt
<1>2. CASE \E f \in Fiber : thread[f].v = v /\ m \in thread[f].msg BY <1>2, HasAt
<1>3. CASE \E c \in signals : c.v = v /\ m \in c.msg BY <1>3, HasAt DEF TypeOK
<1> QED BY <1>1, <1>2, <1>3 DEF Waits

\* Messages wait for vertices, and have been signalled.
LEMMA PendingTypes ==
  ASSUME TypeOK, NEW v
  PROVE  Pending(v) \subseteq Message
<1> SUFFICES ASSUME NEW m \in Pending(v) PROVE m \in Message OBVIOUS
<1>1. Waits(m, v) BY PendingIs
<1> QED BY <1>1, SetFacts DEF Waits, TypeOK

-----------------------------------------------------------------------------
(* The steps of VertexExecution.                                           *)

\* Nothing that the programmer sees.
LEMMA MapsStutter ==
  ASSUME \A v \in Vertex : Pending(v)' = Pending(v),
         UNCHANGED <<executed, Running, force_stop, done>>
  PROVE  UNCHANGED VE!vars BY DEF VE!vars

\* A run begins with messages of its vertex.
LEMMA MapsRun ==
  ASSUME NEW v \in Vertex, v \notin Running, Running' = Running \cup {v},
         NEW S, S # {}, S \subseteq Pending(v), Pending(v)' = Pending(v) \ S,
         \A w \in Vertex : w # v => Pending(w)' = Pending(w),
         executed' = executed \cup S, UNCHANGED <<force_stop, done>>
  PROVE  VE!Next BY DEF VE!Next, VE!Run

\* A run ends.
LEMMA MapsFinish ==
  ASSUME NEW v \in Vertex, v \in Running, Running' = Running \ {v},
         \A w \in Vertex : Pending(w)' = Pending(w),
         UNCHANGED <<executed, force_stop, done>>
  PROVE  VE!Next BY DEF VE!Next, VE!Finish

\* A stopped engine loses messages of a vertex.
LEMMA MapsLose ==
  ASSUME NEW v \in Vertex, Stopped, Pending(v)' \subseteq Pending(v),
         \A w \in Vertex : w # v => Pending(w)' = Pending(w),
         UNCHANGED <<executed, Running, force_stop, done>>
  PROVE  VE!Next BY DEF VE!Next, VE!Lose, Stopped

\* A running program signals a vertex with a new message.
LEMMA MapsSignal ==
  ASSUME NEW v \in Vertex, NEW m \in Message, Running # {}, m \notin executed,
         \A w \in Vertex : m \notin Pending(w),
         Pending(v)' = Pending(v) \cup {m},
         \A w \in Vertex : w # v => Pending(w)' = Pending(w),
         UNCHANGED <<executed, Running, force_stop, done>>
  PROVE  VE!Next BY ZenonT(60) DEF VE!Next, VE!Signal, VE!Waiting

\* The engine is stopped.
LEMMA MapsStop ==
  ASSUME \A v \in Vertex : Pending(v)' = Pending(v), Stopped',
         UNCHANGED <<executed, Running, done>>
  PROVE  VE!Next BY DEF VE!Next, VE!Stop, Stopped

\* A machine is told, when nothing runs and nothing waits.
LEMMA MapsEnd ==
  ASSUME NEW k \in Machine, Running = {}, Stopped \/ \A v \in Vertex : Pending(v) = {},
         done \in [Machine -> BOOLEAN], done' = [done EXCEPT ![k] = TRUE],
         \A v \in Vertex : Pending(v)' = Pending(v),
         UNCHANGED <<executed, Running, force_stop>>
  PROVE  VE!Next BY DEF VE!Next, VE!End, VE!Waiting, Stopped

-----------------------------------------------------------------------------
(* What the steps of the engine do to waiting messages and running programs. *)

\* Fiber f keeps its message, for the same vertex.
SameHands(f) ==
  /\ thread'[f].msg = thread[f].msg
  /\ thread[f].msg = {} \/ thread'[f].v = thread[f].v

\* What moves no message moves none that waits.
LEMMA SamePending ==
  ASSUME UNCHANGED <<box, signals>>, \A f \in Fiber : SameHands(f)
  PROVE  \A v \in Vertex : Pending(v)' = Pending(v)
<1> SUFFICES ASSUME NEW v, NEW m PROVE Waits(m, v)' <=> Waits(m, v) BY PendingIs
<1> QED BY DEF Waits, SameHands

\* A step of a thread that keeps the message of its vertex, if it has one.
LEMMA HandsTurn ==
  ASSUME NEW t \in Thread, NEW msg, NEW left, NEW quitting, Holds(t, msg, left, quitting),
         NEW at, NEW v, NEW to, NEW back, Turns(t, at, v, to, back),
         t \in Fiber => msg = thread[t].msg /\ (msg = {} \/ v = thread[t].v)
  PROVE  \A f \in Fiber : SameHands(f)
<1> SUFFICES ASSUME NEW f \in Fiber PROVE SameHands(f) OBVIOUS
<1>1. CASE f = t BY <1>1 DEF Holds, Turns, SameHands
<1>2. CASE f # t BY <1>2, SetFacts DEF Holds, Keeps, Turns, Stays, SameHands
<1> QED BY <1>1, <1>2

\* Messages change hands in five actions.
LEMMA SameHandsSteps ==
  ASSUME TypeOK, Placed, Hands, [Next]_vars,
         ~ \E t \in Fiber : \/ TakeMessage(t) \/ Forward(t) \/ SomeoneElseRunning(t)
                            \/ Apply(t) \/ FoundTooLate(t)
  PROVE  \A f \in Fiber : SameHands(f)
<1>a. UNCHANGED thread => \A f \in Fiber : SameHands(f) BY DEF SameHands
<1>b. ASSUME NEW t \in Fiber, thread[t].at \notin {"found", "eval", "apply"}
      PROVE  t \in Thread /\ thread[t].msg = {} BY <1>b, SetFacts DEF Hands, Handed
<1>1. ASSUME NEW t \in Fiber, ScanQueue(t) PROVE \A f \in Fiber : SameHands(f)
  <2>1. \E left, quitting, place : Holds(t, thread[t].msg, left, quitting) /\ Goes(t, place)
    BY <1>1, LoopHands
  <2> QED BY <2>1, HandsTurn, SetFacts DEF Goes
<1>2. ASSUME NEW t \in Fiber, PopQueue(t) PROVE \A f \in Fiber : SameHands(f)
  <2>1. UNCHANGED thread \/ \E v : Turns(t, "take", v, thread[t].to, thread[t].back) BY <1>2, LoopEffects
  <2>2. UNCHANGED thread \/ Holds(t, thread[t].msg, {}, thread[t].quitting) BY <1>2, LoopHands
  <2>3. t \in Thread /\ thread[t].msg = {} BY <1>2, <1>b DEF PopQueue, At
  <2> QED BY <1>a, <2>1, <2>2, <2>3, HandsTurn
<1>3. ASSUME NEW t \in Fiber, \/ TakeNothing(t) \/ BeginDone(t) \/ LockDone(t) \/ EndDone(t)
                              \/ LeaveDone(t) \/ Release(t)
      PROVE  \A f \in Fiber : SameHands(f)
  <2>1. t \in Thread /\ thread[t].msg = {} BY <1>3, <1>b
       DEF TakeNothing, BeginDone, LockDone, EndDone, LeaveDone, Release, ScatteredEverywhere, At
  <2>2. \E at, v, to, back : Turns(t, at, v, to, back) BY <1>3, LoopEffects DEF Goes, Starts
  <2>3. \E left, quitting : Holds(t, {}, left, quitting)
    <3>1. CASE TakeNothing(t) \/ LockDone(t) \/ Release(t) BY <3>1, LoopHands
    <3>2. CASE BeginDone(t) BY <3>2, <2>1, LoopHands DEF HoldsOn, Holds
    <3>3. CASE EndDone(t) BY <3>3, LoopHands DEF Drops
    <3>4. CASE LeaveDone(t) BY <3>4, <2>1, LoopHands DEF HoldsOn, Holds
    <3> QED BY <1>3, <3>1, <3>2, <3>3, <3>4
  <2> QED BY <2>1, <2>2, <2>3, HandsTurn
<1>4. ASSUME NEW t \in Fiber, Found(t) \/ ExclusiveAccess(t) \/ Reschedule(t)
      PROVE  \A f \in Fiber : SameHands(f)
  <2>1. \E left, quitting : Holds(t, thread[t].msg, left, quitting)
    BY <1>4, LoopHands, WorkHands, SetFacts DEF HoldsOn
  <2>2. \E at, to, back : Turns(t, at, thread[t].v, to, back)
    BY <1>4, LoopEffects, WorkEffects, SetFacts DEF Goes
  <2> QED BY <2>1, <2>2, HandsTurn, SetFacts
<1>5. ASSUME NEW t \in Thread, Signal(t) \/ Schedule(t) \/ Push(t) \/ CancelTest(t) \/ Wake(t)
      PROVE  \A f \in Fiber : SameHands(f)
  <2>1. t \in Fiber => thread[t].msg = {} BY <1>5, <1>b DEF Signal, Schedule, Push, CancelTest, Wake, At
  <2>2. UNCHANGED thread \/ \E at, v, to, back : Turns(t, at, v, to, back)
    BY <1>5, WorkEffects DEF Goes, Returns, Starts
  <2>3. UNCHANGED thread \/ \E left, quitting : \/ Holds(t, {}, left, quitting)
                                                \/ Holds(t, thread[t].msg, left, quitting)
    BY <1>5, WorkHands DEF HoldsOn, Drops
  <2> QED BY <1>a, <2>1, <2>2, <2>3, HandsTurn
<1>6. ASSUME NEW t \in Handler, ReceiveSignal(t) \/ PerformScatter(t) \/ Scattered(t)
      PROVE  \A f \in Fiber : SameHands(f)
  <2>1. t \in Thread /\ t \notin Fiber BY SetFacts
  <2>2. UNCHANGED thread \/ \E at, v, to, back : Turns(t, at, v, to, back)
    BY <1>6, <2>1, WorkEffects DEF Starts
  <2>3. UNCHANGED thread \/ Drops(t) BY <1>6, <2>1, WorkHands
  <2> QED BY <1>a, <2>1, <2>2, <2>3, HandsTurn DEF Drops
<1>7. ASSUME NEW k \in Machine, Consensus(k) PROVE \A f \in Fiber : SameHands(f)
  BY <1>7, ConsensusEffects, ConsensusHands, SetFacts DEF Keeps, Stays, SameHands
<1>8. (\E t \in Fiber : TimeOut(t)) \/ (\E t \in Handler : ReceiveEndgame(t)) \/ UNCHANGED vars
        => UNCHANGED thread BY DEF TimeOut, ReceiveEndgame, vars
<1> QED BY NextSteps, <1>a, <1>1, <1>2, <1>3, <1>4, <1>5, <1>6, <1>7, <1>8

\* Fiber f runs the same program as before, or none.
SameExecuting(f) ==
  /\ Executing(f)' <=> Executing(f)
  /\ Executing(f) => thread'[f].v = thread[f].v

\* The programs that run are the same when every fiber's is.
LEMMA SameRunning ==
  ASSUME \A f \in Fiber : SameExecuting(f)
  PROVE  Running' = Running BY RunningIs DEF SameExecuting

\* A step of a thread that runs a program after it as it did before.
LEMMA ExecutingTurns ==
  ASSUME NEW t \in Thread, NEW at, NEW v, NEW to, NEW back, Turns(t, at, v, to, back),
         t \in Fiber =>
           /\ (at \in {"scatter", "unlock"} \/ back \in {"scatter", "unlock"}) <=> Executing(t)
           /\ Executing(t) => v = thread[t].v
  PROVE  \A f \in Fiber : SameExecuting(f)
<1> SUFFICES ASSUME NEW f \in Fiber PROVE SameExecuting(f) OBVIOUS
<1>1. CASE f = t BY <1>1 DEF Turns, Executing, SameExecuting
<1>2. CASE f # t BY <1>2, SetFacts DEF Turns, Stays, Executing, SameExecuting, At
<1> QED BY <1>1, <1>2

\* Programs begin with the application and end with the release.
LEMMA ExecutingSteps ==
  ASSUME TypeOK, Placed, [Next]_vars,
         ~ \E t \in Fiber : Apply(t) \/ Release(t)
  PROVE  \A f \in Fiber : SameExecuting(f)
<1>a. UNCHANGED thread => \A f \in Fiber : SameExecuting(f) BY DEF SameExecuting, Executing
<1>b. ASSUME NEW t \in Fiber, thread[t].at \in Idling \cup {"take", "found", "eval", "apply"},
             NEW at, NEW v, NEW to, Turns(t, at, v, to, "scan"), at \notin {"scatter", "unlock"}
      PROVE  \A f \in Fiber : SameExecuting(f)
  <2>1. ~Executing(t) /\ t \in Thread BY <1>b, BackScan, SetFacts DEF Executing, At, Idling
  <2> QED BY <1>b, <2>1, ExecutingTurns
<1>1. ASSUME NEW t \in Fiber,
             \/ ScanQueue(t) \/ TakeMessage(t) \/ TakeNothing(t)
             \/ BeginDone(t) \/ LockDone(t) \/ Found(t) \/ FoundTooLate(t)
             \/ EndDone(t) \/ LeaveDone(t) \/ Forward(t) \/ SomeoneElseRunning(t)
             \/ ExclusiveAccess(t)
      PROVE  \A f \in Fiber : SameExecuting(f)
  <2>1. thread[t].at \in Idling \cup {"take", "found", "eval", "apply"}
    BY <1>1 DEF ScanQueue, TakeMessage, TakeNothing, BeginDone, LockDone, Found, FoundTooLate,
                EndDone, LeaveDone, Forward, SomeoneElseRunning, ExclusiveAccess, At, Idling
  <2>2. \/ \E place \in Idling : Starts(t, place)
        \/ \E place \in Idling \cup {"found", "eval", "apply"} : Goes(t, place)
    BY <1>1, LoopEffects, WorkEffects, SetFacts DEF Idling
  <2>3. thread[t].back = "scan" BY <2>1, BackScan, SetFacts
  <2> QED BY SMTT(30), <1>b, <2>1, <2>2, <2>3 DEF Starts, Goes, Idling
<1>2. ASSUME NEW t \in Fiber, PopQueue(t) PROVE \A f \in Fiber : SameExecuting(f)
  <2>1. UNCHANGED thread \/ \E v : Turns(t, "take", v, thread[t].to, thread[t].back) BY <1>2, LoopEffects
  <2>2. thread[t].at \in Idling BY <1>2 DEF PopQueue, At, Idling
  <2>3. thread[t].back = "scan" BY <2>2, BackScan, SetFacts
  <2> QED BY <1>a, <1>b, <2>1, <2>2, <2>3
<1>3. ASSUME NEW t \in Fiber, Reschedule(t) PROVE \A f \in Fiber : SameExecuting(f)
  <2>1. Turns(t, "schedule", thread[t].v, thread[t].v, "unlock") /\ t \in Thread
    BY <1>3, WorkEffects, SetFacts
  <2>2. Executing(t) BY <1>3 DEF Reschedule, ScatteredEverywhere, Executing, At
  <2> QED BY <2>1, <2>2, ExecutingTurns
<1>4. ASSUME NEW t \in Thread, Signal(t) PROVE \A f \in Fiber : SameExecuting(f)
  <2>1. UNCHANGED thread \/ \E u : Turns(t, "schedule", thread[t].v, u, "scatter") BY <1>4, WorkEffects
  <2>2. Executing(t) BY <1>4 DEF Signal, Executing, At
  <2> QED BY <1>a, <2>1, <2>2, ExecutingTurns
<1>5. ASSUME NEW t \in Thread, Schedule(t) \/ Push(t) \/ CancelTest(t) \/ Wake(t)
      PROVE  \A f \in Fiber : SameExecuting(f)
  <2>1. (\E place \in {"push", "cancel", "wake"} : Goes(t, place)) \/ Returns(t) BY <1>5, WorkEffects
  <2>2. thread[t].at \in Signalling BY <1>5 DEF Schedule, Push, CancelTest, Wake, Signalling, At
  <2>3. Executing(t) <=> thread[t].back \in {"scatter", "unlock"} BY <2>2 DEF Executing, Signalling
  <2>4. t \in Fiber => thread[t].back # "idle" BY DEF Placed, WellPlaced
  <2> QED BY <2>1, <2>3, <2>4, ExecutingTurns DEF Goes, Returns, Starts
<1>6. ASSUME NEW t \in Handler,
             ReceiveSignal(t) \/ PerformScatter(t) \/ Scattered(t) \/ ReceiveEndgame(t)
      PROVE  \A f \in Fiber : SameExecuting(f)
  <2>1. UNCHANGED thread \/ \E at, v, to, back : Turns(t, at, v, to, back)
    BY <1>6, WorkEffects, SetFacts DEF Starts, ReceiveEndgame
  <2> QED BY <1>a, <2>1, ExecutingTurns, SetFacts
<1>7. ASSUME NEW k \in Machine, Consensus(k) PROVE \A f \in Fiber : SameExecuting(f)
  BY <1>7, ConsensusEffects, SetFacts DEF Stays, SameExecuting, Executing, At
<1>8. (\E t \in Fiber : TimeOut(t)) \/ UNCHANGED vars => UNCHANGED thread BY DEF TimeOut, vars
<1> QED BY NextSteps, <1>a, <1>1, <1>2, <1>3, <1>4, <1>5, <1>6, <1>7, <1>8

\* A fiber that runs a program is alone at its vertex.
LEMMA ExecutingInside ==
  ASSUME Placed, NEW f \in Fiber, Executing(f)
  PROVE  Inside(f) /\ thread[f].v \in Vertex
BY SetFacts DEF Placed, WellPlaced, Executing, Inside, Signalling

\* The messages of the others wait as before.
LEMMA OthersTurn ==
  ASSUME NEW t \in Thread, NEW msg, NEW left, NEW quitting, Holds(t, msg, left, quitting),
         NEW at, NEW v, NEW to, NEW back, Turns(t, at, v, to, back)
  PROVE  /\ thread'[t].msg = msg /\ thread'[t].v = v
         /\ \A f \in Fiber : f # t => SameHands(f) BY SetFacts DEF Holds, Keeps, Turns, Stays, SameHands

\* A fiber takes the message from the array, and it still waits.
LEMMA TakePending ==
  ASSUME TypeOK, Placed, Hands, NEW t \in Fiber, TakeMessage(t)
  PROVE  \A v \in Vertex : Pending(v)' = Pending(v)
<1>0. t \in Thread /\ Here(t) \in Replica /\ Here(t)[2] = thread[t].v
  BY SetFacts DEF TakeMessage, Placed, WellPlaced, At, Here
<1>1. PICK r \in Replica : r = Here(t) /\ r[2] = thread[t].v BY <1>0
<1>2. box' = [box EXCEPT ![r] = {}] /\ UNCHANGED signals /\ thread[t].msg = {}
  BY <1>0, <1>1 DEF TakeMessage, rpc_vars, Hands, Handed, At
<1>3. \E left, quitting, at, to, back :
        Holds(t, box[Here(t)], left, quitting) /\ Turns(t, at, thread[t].v, to, back)
  BY LoopHands DEF TakeMessage, Goes
<1>4. /\ thread'[t].msg = box[r] /\ thread'[t].v = thread[t].v
      /\ \A f \in Fiber : f # t => SameHands(f) BY <1>0, <1>1, <1>3, OthersTurn
<1>5. \A s \in Replica : box'[s] = IF s = r THEN {} ELSE box[s] BY <1>2 DEF TypeOK
<1> SUFFICES ASSUME NEW v, NEW m PROVE Waits(m, v)' <=> Waits(m, v) BY PendingIs
<1>6. ASSUME Waits(m, v) PROVE Waits(m, v)' BY <1>1, <1>2, <1>4, <1>5, <1>6 DEF Waits, SameHands
<1>7. ASSUME Waits(m, v)' PROVE Waits(m, v) BY <1>1, <1>2, <1>4, <1>5, <1>7 DEF Waits, SameHands
<1> QED BY <1>6, <1>7

\* A message that is sent to the master's machine still waits.
LEMMA ForwardPending ==
  ASSUME TypeOK, Placed, Hands, NEW t \in Fiber, Forward(t)
  PROVE  \A v \in Vertex : Pending(v)' = Pending(v)
<1>0. t \in Thread BY SetFacts
<1>1. PICK c : c = [v |-> thread[t].v, msg |-> thread[t].msg] OBVIOUS
<1>2. signals' = signals \cup {c} /\ UNCHANGED box BY <1>1 DEF Forward
<1>3. c.v = thread[t].v /\ c.msg = thread[t].msg BY <1>1
<1>4. thread'[t].msg = {} /\ \A f \in Fiber : f # t => SameHands(f)
  BY <1>0, LoopHands, LoopEffects, OthersTurn DEF Starts
<1> SUFFICES ASSUME NEW v, NEW m PROVE Waits(m, v)' <=> Waits(m, v) BY PendingIs
<1>6. ASSUME Waits(m, v) PROVE Waits(m, v)' BY <1>2, <1>3, <1>4, <1>6 DEF Waits, SameHands
<1>7. ASSUME Waits(m, v)' PROVE Waits(m, v) BY <1>2, <1>3, <1>4, <1>7 DEF Waits, SameHands
<1> QED BY <1>6, <1>7

\* A message that is put back still waits.
LEMMA PutBackPending ==
  ASSUME TypeOK, Placed, Hands, NEW t \in Fiber, SomeoneElseRunning(t)
  PROVE  \A v \in Vertex : Pending(v)' = Pending(v)
<1>0. t \in Thread /\ Here(t) \in Replica /\ Here(t)[2] = thread[t].v
  BY SetFacts DEF SomeoneElseRunning, Placed, WellPlaced, At, Here
<1>1. PICK r \in Replica : r = Here(t) /\ r[2] = thread[t].v BY <1>0
<1>2. box' = [box EXCEPT ![r] = @ \cup thread[t].msg] /\ UNCHANGED signals
  BY <1>1 DEF SomeoneElseRunning, rpc_vars
<1>4. thread'[t].msg = {} /\ \A f \in Fiber : f # t => SameHands(f)
  BY <1>0, LoopHands, LoopEffects, OthersTurn DEF Starts
<1>5. \A s \in Replica : box'[s] = IF s = r THEN box[r] \cup thread[t].msg ELSE box[s] BY <1>2 DEF TypeOK
<1> SUFFICES ASSUME NEW v, NEW m PROVE Waits(m, v)' <=> Waits(m, v) BY PendingIs
<1>6. ASSUME Waits(m, v) PROVE Waits(m, v)' BY <1>1, <1>2, <1>4, <1>5, <1>6 DEF Waits, SameHands
<1>7. ASSUME Waits(m, v)' PROVE Waits(m, v) BY <1>1, <1>2, <1>4, <1>5, <1>7 DEF Waits, SameHands
<1> QED BY <1>6, <1>7

\* A fiber that drops its message, or gives it to the program, is the only one to
\* have it.
LEMMA HandedOut ==
  ASSUME TypeOK, OnePlace, NEW t \in Fiber, NEW u, u = thread[t].v, NEW S, S = thread[t].msg,
         UNCHANGED <<box, signals>>, thread'[t].msg = {}, \A f \in Fiber : f # t => SameHands(f)
  PROVE  /\ Pending(u)' = Pending(u) \ S
         /\ S \subseteq Pending(u)
         /\ \A w : w # u => Pending(w)' = Pending(w)
<1>1. \A v, m : Waits(m, v)' => Waits(m, v) BY DEF Waits, SameHands
<1>2. ASSUME NEW v, NEW m, Waits(m, v), ~(v = u /\ m \in S)
      PROVE  Waits(m, v)' BY <1>2 DEF Waits, SameHands
<1>3. \A m \in S : Waits(m, u) BY DEF Waits
<1>4. ASSUME NEW v, NEW m, Waits(m, v)', m \in S PROVE FALSE
  <2>1. /\ Has(<<"hand", t>>, m) /\ <<"hand", t>> \in Where /\ m \in Message
    BY <1>4, HasAt, SetFacts DEF TypeOK
  <2>2. \A y \in Where : Has(y, m) => y = <<"hand", t>> BY <2>1 DEF OnePlace
  <2>3. CASE \E r \in Replica : m \in box[r] BY <2>2, <2>3, HasAt
  <2>4. CASE \E f \in Fiber : f # t /\ m \in thread[f].msg BY <2>2, <2>4, HasAt
  <2>5. CASE \E c \in signals : m \in c.msg
    <3>1. PICK c \in signals : m \in c.msg BY <2>5
    <3>2. c \in [v : Vertex, msg : SUBSET Message] BY DEF TypeOK
    <3> QED BY <2>2, <3>1, <3>2, HasAt
  <2> QED BY <1>4, <2>3, <2>4, <2>5 DEF Waits, SameHands
<1>5. \A v, m : Waits(m, v)' <=> Waits(m, v) /\ ~(v = u /\ m \in S) BY <1>1, <1>2, <1>4
<1>6. ASSUME NEW w PROVE \A m : m \in Pending(w)' <=> m \in Pending(w) /\ ~(w = u /\ m \in S)
  BY <1>5, PendingIs
<1>7. Pending(u)' = Pending(u) \ S BY <1>6
<1>8. ASSUME NEW w, w # u PROVE Pending(w)' = Pending(w)
  <2>1. \A m : m \in Pending(w)' <=> m \in Pending(w) BY <1>6, <1>8
  <2> QED BY <2>1
<1>9. S \subseteq Pending(u) BY <1>3, PendingIs
<1> QED BY <1>7, <1>8, <1>9

\* A call that is accepted puts its message into the array of the master.
LEMMA ReceivePending ==
  ASSUME TypeOK, NEW c \in signals, signals' = signals \ {c},
         box' = [box EXCEPT ![Master(c.v)] = @ \cup c.msg],
         \A f \in Fiber : SameHands(f)
  PROVE  \A v \in Vertex : Pending(v)' = Pending(v)
<1>1. PICK r \in Replica : r = Master(c.v) /\ r[2] = c.v BY SetFacts DEF TypeOK, Master
<1>2. \A s \in Replica : box'[s] = IF s = r THEN box[r] \cup c.msg ELSE box[s] BY <1>1 DEF TypeOK
<1> SUFFICES ASSUME NEW v, NEW m PROVE Waits(m, v)' <=> Waits(m, v) BY PendingIs
<1>6. ASSUME Waits(m, v) PROVE Waits(m, v)' BY <1>1, <1>2, <1>6 DEF Waits, SameHands
<1>7. ASSUME Waits(m, v)' PROVE Waits(m, v) BY <1>1, <1>2, <1>7 DEF Waits, SameHands
<1> QED BY <1>6, <1>7

\* A call that is ignored loses messages of its vertex.
LEMMA IgnorePending ==
  ASSUME TypeOK, NEW c \in signals, NEW u, u = c.v, signals' = signals \ {c}, UNCHANGED box,
         \A f \in Fiber : SameHands(f)
  PROVE  /\ Pending(u)' \subseteq Pending(u)
         /\ \A w : w # u => Pending(w)' = Pending(w)
<1>1. \A v, m : Waits(m, v)' => Waits(m, v) BY DEF Waits, SameHands
<1>2. ASSUME NEW v, NEW m, Waits(m, v), v # u PROVE Waits(m, v)' BY <1>2 DEF Waits, SameHands
<1>3. ASSUME NEW w, w # u PROVE Pending(w)' = Pending(w)
  <2>1. \A m : m \in Pending(w)' <=> m \in Pending(w) BY <1>1, <1>2, <1>3, PendingIs
  <2> QED BY <2>1
<1>4. Pending(u)' \subseteq Pending(u) BY <1>1, PendingIs
<1> QED BY <1>3, <1>4

\* A message that is signalled is new, and waits for the vertex that was signalled.
LEMMA SignalPending ==
  ASSUME TypeOK, OnePlace, NEW t \in Thread, Signal(t), \A f \in Fiber : SameHands(f)
  PROVE  \E u \in Vertex, n \in Message :
           /\ n \notin executed
           /\ \A w : n \notin Pending(w)
           /\ Pending(u)' = Pending(u) \cup {n}
           /\ \A w : w # u => Pending(w)' = Pending(w)
<1>1. PICK u \in Vertex : Signal(t)!(u) BY DEF Signal
<1>2. PICK n \in Message : n = created + 1
  BY <1>1, ConstantsAssumption DEF ConstantsAssumption, Message, TypeOK
<1>3. ASSUME NEW x \in Where, Has(x, n) PROVE FALSE
  BY <1>3, ConstantsAssumption, <1>2 DEF OnePlace, TypeOK, ConstantsAssumption
<1>4. n \notin executed BY <1>3, HasAt
<1>5. \A w : n \notin Pending(w) BY <1>3, WaitsSomewhere, PendingIs
<1>6. PICK r \in Replica : r = <<t[1], u>> /\ r[2] = u BY <1>1, SetFacts DEF Replica
<1>7. \/ UNCHANGED box /\ \E c : signals' = signals \cup {c} /\ c.v = u /\ c.msg = {n}
      \/ UNCHANGED signals /\ box' = [box EXCEPT ![r] = @ \cup {n}]
  <2>1. PICK c : c = [v |-> u, msg |-> {n}] OBVIOUS
  <2>2. c.v = u /\ c.msg = {n} BY <2>1
  <2>3. created' = n BY <1>1, <1>2
  <2>4. \/ UNCHANGED box /\ signals' = signals \cup {c}
        \/ UNCHANGED signals /\ box' = [box EXCEPT ![r] = @ \cup {n}] BY <1>1, <1>6, <2>1, <2>3
  <2> QED BY <2>2, <2>4
<1>9. ASSUME NEW v, NEW m PROVE Waits(m, v)' <=> Waits(m, v) \/ (v = u /\ m = n)
  <2>1. CASE UNCHANGED box /\ \E c : signals' = signals \cup {c} /\ c.v = u /\ c.msg = {n}
    BY <2>1 DEF Waits, SameHands
  <2>2. CASE UNCHANGED signals /\ box' = [box EXCEPT ![r] = @ \cup {n}]
    BY <2>2, <1>6 DEF TypeOK, Waits, SameHands
  <2> QED BY <1>7, <2>1, <2>2
<1>10. ASSUME NEW w
       PROVE  \A m : m \in Pending(w)' <=> m \in Pending(w) \/ (w = u /\ m = n) BY <1>9, PendingIs
<1>11. Pending(u)' = Pending(u) \cup {n} BY <1>10
<1>12. ASSUME NEW w, w # u PROVE Pending(w)' = Pending(w)
  <2>1. \A m : m \in Pending(w)' <=> m \in Pending(w) BY <1>10, <1>12
  <2> QED BY <2>1
<1> QED BY <1>4, <1>5, <1>11, <1>12

\* The application begins a run of the vertex, which has none, with its message.
LEMMA ApplyMaps ==
  ASSUME PInv, NEW t \in Fiber, Apply(t)
  PROVE  VE!Next
<1> USE DEF mode_vars
<1>0. TypeOK /\ Placed /\ Exclusive /\ Hands /\ OnePlace /\ t \in Thread BY SetFacts DEF PInv, IInv
<1>1. PICK v \in Vertex : v = thread[t].v BY <1>0, SetFacts DEF Apply, Placed, WellPlaced, At
<1>2. PICK S : S = thread[t].msg OBVIOUS
<1>3. /\ executed' = executed \cup S
      /\ UNCHANGED <<box, signals, force_stop, done>>
      /\ S # {} BY <1>0, <1>2 DEF Apply, Hands, Handed, At
<1>4. Goes(t, "scatter") /\ \E left, quitting : Holds(t, {}, left, quitting)
  BY <1>0, WorkEffects, WorkHands
<1>5. thread'[t].msg = {} /\ thread'[t].v = v /\ \A f \in Fiber : f # t => SameHands(f)
  BY <1>0, <1>1, <1>4, OthersTurn DEF Goes
<1>6. /\ Pending(v)' = Pending(v) \ S
      /\ S \subseteq Pending(v)
      /\ \A w : w # v => Pending(w)' = Pending(w) BY <1>0, <1>1, <1>2, <1>3, <1>5, HandedOut
<1>7. ~Executing(t) /\ Inside(t) BY <1>0, BackScan DEF Apply, Executing, Inside, At
<1>8. v \notin Running BY <1>0, <1>1, <1>7, ExecutingInside, RunningIs DEF Exclusive
<1>9. /\ Executing(t)'
      /\ \A f \in Fiber : f # t => /\ Executing(f)' <=> Executing(f)
                                   /\ thread'[f].v = thread[f].v
  BY <1>4, SetFacts DEF Goes, Turns, Stays, Executing, At
<1>10. Running' = Running \cup {v}
  <2>1. \A w : w \in Running' <=> w \in Running \/ w = v BY <1>5, <1>7, <1>9, RunningIs
  <2> QED BY <2>1
<1> QED BY <1>3, <1>6, <1>8, <1>10, MapsRun

\* The release of the vertex ends its run.
LEMMA ReleaseMaps ==
  ASSUME PInv, NEW t \in Fiber, Release(t)
  PROVE  VE!Next
<1> USE DEF mode_vars, rpc_vars, count_vars
<1>0. TypeOK /\ Placed /\ Exclusive /\ Hands /\ t \in Thread BY SetFacts DEF PInv, IInv
<1>1. Executing(t) BY DEF Release, ScatteredEverywhere, Executing, At
<1>2. PICK v \in Vertex : v = thread[t].v BY <1>0, <1>1, ExecutingInside
<1>3. UNCHANGED <<box, signals, executed, force_stop, done>> BY DEF Release
<1>4. Starts(t, "scan") /\ \E left, quitting : Holds(t, {}, left, quitting)
  BY <1>0, LoopEffects, LoopHands
<1>5. thread'[t].msg = {} /\ \A f \in Fiber : f # t => SameHands(f) BY <1>0, <1>4, OthersTurn DEF Starts
<1>6. thread[t].msg = {} BY <1>0 DEF Release, ScatteredEverywhere, Hands, Handed, At
<1>7. \A f \in Fiber : SameHands(f) BY <1>5, <1>6 DEF SameHands
<1>8. \A w \in Vertex : Pending(w)' = Pending(w) BY <1>3, <1>7, SamePending
<1>9. /\ ~Executing(t)'
      /\ \A f \in Fiber : f # t => /\ Executing(f)' <=> Executing(f)
                                   /\ thread'[f].v = thread[f].v
  BY <1>4, SetFacts DEF Starts, Turns, Stays, Executing, At
<1>10. \A f \in Fiber : Executing(f) /\ thread[f].v = v => f = t
  BY <1>0, <1>1, <1>2, ExecutingInside DEF Exclusive
<1>11. Running' = Running \ {v}
  <2>1. \A w : w \in Running' <=> w \in Running /\ w # v BY <1>1, <1>2, <1>9, <1>10, RunningIs
  <2> QED BY <2>1
<1>12. v \in Running BY <1>1, <1>2, RunningIs
<1> QED BY <1>3, <1>8, <1>11, <1>12, MapsFinish

\* A machine is told when nothing runs, and nothing waits unless the engine was stopped.
LEMMA ConsensusMaps ==
  ASSUME PInv, NEW k \in Machine, Consensus(k), UNCHANGED Running,
         \A v \in Vertex : Pending(v)' = Pending(v)
  PROVE  VE!Next
<1>0. TypeOK /\ Placed /\ Hands /\ Runs /\ Watched /\ Over /\ IInv BY DEF PInv, IInv
<1>1. Quiet /\ done' = [done EXCEPT ![k] = TRUE] /\ UNCHANGED <<executed, force_stop>>
  BY DEF Consensus, count_vars
<1>2. /\ \A f \in Fiber : At(f, "asleep") \/ At(f, "woken") \/ At(f, "exit")
      /\ Stopped \/ \A r \in Replica : box[r] = {}
  <2>1. CASE /\ \A i \in Machine : ~done[i]
             /\ \A f \in Fiber : ~At(f, "exit")
    <3>1. \A f \in Fiber : At(f, "asleep") BY <1>1, <2>1, SetFacts DEF Quiet
    <3> QED BY <1>0, <1>1, <2>1, <3>1, QuietIsEmpty
  <2>2. CASE ~ (/\ \A i \in Machine : ~done[i]
                /\ \A f \in Fiber : ~At(f, "exit")) BY <1>0, <2>2 DEF Over
  <2> QED BY <2>1, <2>2
<1>3. \A f \in Fiber : ~Executing(f) /\ thread[f].msg = {}
  <2> SUFFICES ASSUME NEW f \in Fiber PROVE ~Executing(f) /\ thread[f].msg = {} OBVIOUS
  <2>1. thread[f].at \in Idling /\ thread[f].at \in {"asleep", "woken", "exit"} /\ f \in Thread
    BY <1>2, SetFacts DEF At, Idling
  <2>2. thread[f].back = "scan" BY <1>0, <2>1, BackScan
  <2> QED BY <1>0, <2>1, <2>2, SetFacts DEF Executing, Hands, Handed
<1>4. Running = {} BY <1>3, RunningIs
<1>5. Stopped \/ \A v \in Vertex : Pending(v) = {}
  <2> SUFFICES ASSUME ~Stopped, NEW v, NEW m PROVE ~Waits(m, v) BY PendingIs
  <2> QED BY <1>1, <1>2, <1>3 DEF Waits, Quiet
<1> QED BY <1>0, <1>1, <1>4, <1>5, MapsEnd DEF TypeOK

\* Only a running program signals: a mirror's part of it is waited for.
LEMMA SignalRuns ==
  ASSUME PInv, NEW t \in Thread, Signal(t)
  PROVE  Running # {}
<1>1. Scattering(t) BY DEF Signal, Scattering
<1>2. \E f \in Fiber : Scattering(f) BY <1>1, SetFacts DEF PInv, IInv, Requested
<1>3. \E f \in Fiber : Executing(f) BY <1>2 DEF Scattering, Executing, At
<1> QED BY <1>3, RunningIs

\* Every step of the engine is a step of VertexExecution, or none that it sees.
LEMMA StepMaps ==
  ASSUME PInv, [Next]_vars
  PROVE  VE!Next \/ UNCHANGED VE!vars
<1> USE DEF sched_vars, vertex_vars, mode_vars, rpc_vars, count_vars
<1>0. TypeOK /\ Placed /\ Hands /\ OnePlace BY DEF PInv, IInv
<1>1. CASE \E t \in Fiber : Apply(t) BY <1>1, ApplyMaps
<1>2. CASE \E t \in Fiber : Release(t) BY <1>2, ReleaseMaps
<1> SUFFICES ASSUME ~ \E t \in Fiber : Apply(t) \/ Release(t)
             PROVE  VE!Next \/ UNCHANGED VE!vars BY <1>1, <1>2
<1>3. Running' = Running BY <1>0, ExecutingSteps, SameRunning
<1>4. ASSUME NEW t \in Fiber, TakeMessage(t) \/ Forward(t) \/ SomeoneElseRunning(t)
      PROVE  UNCHANGED VE!vars
  <2>1. UNCHANGED <<executed, force_stop, done>> BY <1>4 DEF TakeMessage, Forward, SomeoneElseRunning
  <2>2. \A v \in Vertex : Pending(v)' = Pending(v)
    BY <1>0, <1>4, TakePending, ForwardPending, PutBackPending
  <2> QED BY <1>3, <2>1, <2>2, MapsStutter
<1>5. ASSUME NEW t \in Fiber, FoundTooLate(t) PROVE VE!Next
  <2>0. PICK v \in Vertex : v = thread[t].v
    BY <1>0, <1>5, SetFacts DEF FoundTooLate, Placed, WellPlaced, At
  <2>1. UNCHANGED <<box, signals, executed, force_stop, done>> /\ Stopped /\ t \in Thread
    BY <1>5, SetFacts DEF FoundTooLate, Stopped
  <2>2. thread'[t].msg = {} /\ \A f \in Fiber : f # t => SameHands(f)
    BY <1>0, <1>5, <2>1, LoopHands, LoopEffects, OthersTurn DEF Starts
  <2>3. PICK S : S = thread[t].msg OBVIOUS
  <2>4. Pending(v)' = Pending(v) \ S /\ \A w : w # v => Pending(w)' = Pending(w)
    BY <1>0, <2>0, <2>1, <2>2, <2>3, HandedOut
  <2>5. Pending(v)' \subseteq Pending(v) BY <2>4
  <2> QED BY <1>3, <2>1, <2>4, <2>5, MapsLose
<1> SUFFICES ASSUME ~ \E t \in Fiber : \/ TakeMessage(t) \/ Forward(t) \/ SomeoneElseRunning(t)
                                       \/ FoundTooLate(t)
             PROVE  VE!Next \/ UNCHANGED VE!vars BY <1>4, <1>5
<1>6. \A f \in Fiber : SameHands(f) BY <1>0, SameHandsSteps
<1>7. ASSUME NEW t \in Thread, Signal(t) PROVE VE!Next
  <2>1. UNCHANGED <<executed, force_stop, done>> BY <1>7 DEF Signal
  <2>2. PICK u \in Vertex, n \in Message :
          /\ n \notin executed
          /\ \A w : n \notin Pending(w)
          /\ Pending(u)' = Pending(u) \cup {n}
          /\ \A w : w # u => Pending(w)' = Pending(w) BY <1>0, <1>6, <1>7, SignalPending
  <2>3. Running # {} BY <1>7, SignalRuns
  <2> QED BY <1>3, <2>1, <2>2, <2>3, MapsSignal
<1>8. ASSUME NEW h \in Handler, ReceiveSignal(h) PROVE VE!Next \/ UNCHANGED VE!vars
  <2>1. PICK c \in signals : ReceiveSignal(h)!(c) BY <1>8 DEF ReceiveSignal
  <2>2. UNCHANGED <<executed, force_stop, done>> /\ signals' = signals \ {c} BY <2>1
  <2>3. PICK v \in Vertex : v = c.v BY <1>0 DEF TypeOK
  <2>4. CASE force_stop[h[1]]
    <3>1. Stopped /\ UNCHANGED box BY <2>1, <2>4, SetFacts DEF Stopped
    <3>2. Pending(v)' \subseteq Pending(v) /\ \A w : w # v => Pending(w)' = Pending(w)
      BY <1>0, <1>6, <2>2, <2>3, <3>1, IgnorePending
    <3> QED BY <1>3, <2>2, <3>1, <3>2, MapsLose
  <2>5. CASE ~force_stop[h[1]]
    <3>1. box' = [box EXCEPT ![Master(c.v)] = @ \cup c.msg] BY <2>1, <2>5
    <3>2. \A w \in Vertex : Pending(w)' = Pending(w) BY <1>0, <1>6, <2>2, <3>1, ReceivePending
    <3> QED BY <1>3, <2>2, <3>2, MapsStutter
  <2> QED BY <2>4, <2>5
<1>9. ASSUME UNCHANGED <<box, signals>> PROVE \A v \in Vertex : Pending(v)' = Pending(v)
  BY <1>6, <1>9, SamePending
<1>10. ASSUME NEW t \in Fiber, TimeOut(t) PROVE VE!Next
  <2>1. UNCHANGED <<box, signals, executed, done>> BY <1>10 DEF TimeOut
  <2>2. Stopped' BY <1>0, <1>10, SetFacts DEF TimeOut, Stopped, TypeOK
  <2> QED BY <1>3, <1>9, <2>1, <2>2, MapsStop
<1>11. ASSUME NEW k \in Machine, Consensus(k) PROVE VE!Next
  <2>1. UNCHANGED <<box, signals>> BY <1>11 DEF Consensus
  <2> QED BY <1>3, <1>9, <1>11, <2>1, ConsensusMaps
<1>12. ASSUME UNCHANGED <<box, signals, executed, force_stop, done>> PROVE UNCHANGED VE!vars
  BY <1>3, <1>9, <1>12, MapsStutter
<1>13. ASSUME NEW t \in Fiber,
             \/ ScanQueue(t) \/ PopQueue(t) \/ TakeNothing(t) \/ BeginDone(t) \/ LockDone(t)
             \/ Found(t) \/ EndDone(t) \/ LeaveDone(t) \/ ExclusiveAccess(t) \/ Reschedule(t)
       PROVE  UNCHANGED VE!vars
  <2>1. UNCHANGED <<box, signals, executed, force_stop, done>>
    BY <1>13 DEF ScanQueue, PopQueue, TakeNothing, BeginDone, LockDone, Found, EndDone, LeaveDone,
                 ExclusiveAccess, Reschedule
  <2> QED BY SMTT(30), <1>12, <2>1
<1>14. ASSUME NEW t \in Thread, Schedule(t) \/ Push(t) \/ CancelTest(t) \/ Wake(t)
       PROVE  UNCHANGED VE!vars BY <1>14, <1>12 DEF Schedule, Push, CancelTest, Wake
<1>15. ASSUME NEW h \in Handler, PerformScatter(h) \/ Scattered(h) \/ ReceiveEndgame(h)
       PROVE  UNCHANGED VE!vars BY <1>15, <1>12 DEF PerformScatter, Scattered, ReceiveEndgame
<1>16. UNCHANGED vars => UNCHANGED VE!vars BY <1>12 DEF vars
<1> QED BY NextSteps, <1>7, <1>8, <1>10, <1>11, <1>13, <1>14, <1>15, <1>16

\* At first the messages of signal() before start() wait.
LEMMA InitMaps == Init => VE!Init
<1> SUFFICES ASSUME Init PROVE VE!Init OBVIOUS
<1>1. \A v \in Vertex : Pending(v) \in SUBSET Message BY TypeInit, PendingTypes
<1>2. Running = {} BY SetFacts, ThreadStates, RunningIs DEF Init, Executing
<1> QED BY <1>1, <1>2 DEF VE!Init, Init

\* The asynchronous engine implements VertexExecution: with any number of machines,
\* fibers, handlers and queues, every message signalled is given to exactly one run of
\* its vertex, a vertex has one run at a time, and a machine is told that the engine has
\* ended only when no program runs and no message is left, unless the engine was stopped.
THEOREM EveryMessageIsRun == Spec => ImplementsVertexExecution
<1>1. PInv /\ [Next]_vars => [VE!Next]_(VE!vars) BY StepMaps
<1> QED BY <1>1, InitMaps, PromiseInvariant, PTL DEF Spec, ImplementsVertexExecution, VE!Spec

=============================================================================
