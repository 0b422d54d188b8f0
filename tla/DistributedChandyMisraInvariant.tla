------------------ MODULE DistributedChandyMisraInvariant ------------------
(***************************************************************************)
(* The inductive invariant of DistributedChandyMisra (IInv), and what its  *)
(* proof needs of stacks, calls, forks and counts.                         *)
(*                                                                         *)
(* The counter of a master covers what the master has still to hear of     *)
(* (Counted), whatever the order of the calls and whoever the client is.   *)
(* A replica that a late rpc_set_eating has made eat before it was ready   *)
(* is counted too (Lost): the master never hears of it.  So when the       *)
(* counter reaches 0 all replicas have the forks of their machine          *)
(* (HasAll), and they keep them until the program of the vertex ends       *)
(* (Held).  Two neighbours cannot both own the fork between them.          *)
(*                                                                         *)
(* Held needs a client whose replicas stop when the program has ended, and *)
(* not when a call that may be late tells them: the engines' scatter, or   *)
(* any client where there are no mirrors (Reaped).                         *)
(*                                                                         *)
(* That nobody makes a replica stop at another time rests on who works for *)
(* whom: which threads are busy with a vertex, and for which program, call *)
(* or scatter request (Tasks), and on which functions a thread can be in   *)
(* (Stacks).                                                               *)
(*                                                                         *)
(* The steps are described by what they do to these parts (Quiet,          *)
(* StopsEating, Wins, StartsToEat, TakesCall, EndsTask, GetsHungry, ...),  *)
(* and each description is shown to keep them.                             *)
(***************************************************************************)
EXTENDS DistributedChandyMisra, SequenceTheorems, FiniteSetTheorems, TLAPS

-----------------------------------------------------------------------------
(* What a thread is doing, as a matter of its stack s.                     *)

Depth(s) == Len(s)

Eats(s, v) == s # << >> /\ s[1].op = "eat" /\ s[1].v = v
Stops(s, v) == s # << >> /\ s[1].op = "stop" /\ s[1].at = "lock" /\ s[1].v = v
Accepts(s, v) == s # << >> /\ s[1].op = "accept" /\ s[1].at = "lock" /\ s[1].v = v
\* The call, request or program the thread is busy with.
Ends(s, v) == s # << >> /\ s[Depth(s)].op = "release" /\ s[Depth(s)].v = v
Replies(s, v) == s # << >> /\ s[Depth(s)].op = "reply" /\ s[Depth(s)].v = v
Stray(s, v) == s # << >> /\ s[Depth(s)].op = "stop" /\ s[Depth(s)].v = v

\* Whom its n-th function, the outermost being the first, still has to signal.
HasReady(f) == f.op \in {"grab", "accept", "stop", "signal"}
Lists(s, n) ==
  IF n <= Depth(s) /\ HasReady(s[Depth(s) + 1 - n]) THEN s[Depth(s) + 1 - n].ready ELSE << >>

\* Which functions call which: at most three deep, the outermost being in Outer
\* when it has called another.
Outer == {"grab", "reply", "release"}
Shaped(s) ==
  /\ Depth(s) \in {0, 1, 2, 3}
  /\ Depth(s) # 0 /\ s[1].op = "signal" => s[1].ready # << >>
  /\ Depth(s) = 2 => /\ s[1].op \in {"accept", "stop", "cancel", "eat", "signal"}
                     /\ s[2].op \in Outer \/ (s[1].op = "eat" /\ s[2].op = "signal")
  /\ Depth(s) = 2 /\ s[1].op = "stop" => s[2].op # "grab" /\ s[2].v = s[1].v
  /\ Depth(s) = 3 => s[1].op = "eat" /\ s[2].op = "signal" /\ s[3].op \in Outer

\* A function on machine k is about a vertex, edges and vertices of that machine.
WellPlaced(k, f) ==
  /\ <<k, f.v>> \in Replica
  /\ f.op \in {"grab", "accept", "stop"} =>
       /\ f.todo \subseteq EdgesAt(<<k, f.v>>)
       /\ f.at \notin {"lock", "edge"} => f.edge \in EdgesAt(<<k, f.v>>)
  /\ HasReady(f) => \A i \in 1 .. Len(f.ready) : <<k, f.ready[i]>> \in Replica
  /\ f.op = "release" => k = Owner[f.v]
  /\ f.op = "reply" => k # Owner[f.v]

Placed(k, s) ==
  /\ Depth(s) # 0 => WellPlaced(k, s[1])
  /\ Depth(s) \in {2, 3} => WellPlaced(k, s[2])
  /\ Depth(s) = 3 => WellPlaced(k, s[3])
Stacks == \A t \in Thread : Shaped(stack[t]) /\ Placed(t[1], stack[t])

-----------------------------------------------------------------------------
(* Facts about the sets.                                                   *)

LEMMA SetFacts ==
  /\ \A r \in Replica : /\ r = <<r[1], r[2]>> /\ r[1] \in Machine /\ r[2] \in Vertex
                        /\ r[1] \in ReplicasOf(r[2])
  /\ \A v \in Vertex : Master(v) \in Replica /\ Master(v)[2] = v
  /\ \A r \in Mirror : r \in Replica /\ r # Master(r[2]) /\ r \in MirrorsOf(r[2])
  /\ \A v \in Vertex : \A r \in MirrorsOf(v) : r \in Mirror /\ r[2] = v
  /\ \A r \in Replica : r \in Mirror \/ r = Master(r[2])
  /\ \A t \in Thread : t = <<t[1], t[2]>> /\ t[1] \in Machine
  /\ Vertex \subseteq Nat BY ConstantsAssumption
   DEF ConstantsAssumption, Replica, ReplicasOf, Master, MirrorsOf, Mirror, Thread

\* The ends of an edge have replicas on the machine of the edge.
LEMMA EdgeFacts ==
  /\ \A e \in Edges : /\ e.on \in Machine /\ e.source \in Vertex /\ e.target \in Vertex
                      /\ e.source # e.target
                      /\ <<e.on, e.source>> \in Replica /\ <<e.on, e.target>> \in Replica
                      /\ e \in EdgesAt(<<e.on, e.source>>) /\ e \in EdgesAt(<<e.on, e.target>>)
  /\ \A r \in Replica : \A e \in EdgesAt(r) :
       /\ e \in Edges /\ e.on = r[1] /\ r[2] \in {e.source, e.target}
       /\ Across(r, e) \in Replica /\ e \in EdgesAt(Across(r, e))
       /\ Across(r, e) # r /\ Across(r, e)[1] = r[1] /\ Across(r, e)[2] # r[2]
       /\ Across(Across(r, e), e) = r
       /\ {e.source, e.target} = {r[2], Across(r, e)[2]}
<1>1. ASSUME NEW e \in Edges
      PROVE /\ e.on \in Machine /\ e.source \in Vertex /\ e.target \in Vertex
            /\ e.source # e.target
            /\ e \in EdgesAt(<<e.on, e.source>>) /\ e \in EdgesAt(<<e.on, e.target>>)
  BY ConstantsAssumption DEF ConstantsAssumption, EdgesAt
<1>2. ASSUME NEW e \in Edges, NEW v \in {e.source, e.target}
      PROVE  <<e.on, v>> \in Replica
  <2>1. e.on \in ReplicasOf(v) /\ v \in Vertex BY <1>1 DEF ReplicasOf
  <2>2. <<e.on, v>> \in {<<k, v>> : k \in ReplicasOf(v)} BY <2>1
  <2> QED BY <2>1, <2>2 DEF Replica
<1>3. ASSUME NEW r \in Replica, NEW e \in EdgesAt(r)
      PROVE  /\ e \in Edges /\ e.on = r[1] /\ r[2] \in {e.source, e.target}
             /\ Across(r, e) \in Replica /\ e \in EdgesAt(Across(r, e))
             /\ Across(r, e) # r /\ Across(r, e)[1] = r[1] /\ Across(r, e)[2] # r[2]
             /\ Across(Across(r, e), e) = r
             /\ {e.source, e.target} = {r[2], Across(r, e)[2]}
  BY <1>1, <1>2, SetFacts DEF EdgesAt, Across, Other
<1> QED BY <1>1, <1>2, <1>3

-----------------------------------------------------------------------------
(* Facts about stacks and queues.                                          *)

\* A frame put on top of a stack.
LEMMA OnTop ==
  ASSUME NEW s \in Seq(Frame), NEW f \in Frame
  PROVE  LET s2 == <<f>> \o s IN
         /\ s2 \in Seq(Frame) /\ s2 # << >>
         /\ Len(s2) = Len(s) + 1 /\ Len(s) \in Nat
         /\ s2[1] = f /\ Head(s2) = f
         /\ \A i \in 1 .. Len(s) : s2[i + 1] = s[i]
         /\ \A i \in 2 .. Len(s2) : s2[i] = s[i - 1]
<1> DEFINE s2 == <<f>> \o s
<1>1. <<f>> \in Seq(Frame) /\ Len(<<f>>) = 1 /\ <<f>>[1] = f OBVIOUS
<1>2. /\ s2 \in Seq(Frame) /\ Len(s2) = 1 + Len(s)
      /\ \A i \in 1 .. 1 + Len(s) : s2[i] = IF i <= 1 THEN <<f>>[i] ELSE s[i - 1]
  BY <1>1, ConcatProperties
<1>3. Len(s) \in Nat BY LenProperties
<1>4. s2[1] = f /\ s2 # << >> BY <1>1, <1>2, <1>3, EmptySeq
<1>5. Head(s2) = f BY <1>4, <1>2
<1> HIDE DEF s2
<1>6. \A i \in 1 .. Len(s) : s2[i + 1] = s[i] BY <1>2, <1>3
<1>7. \A i \in 2 .. Len(s2) : s2[i] = s[i - 1] BY <1>2, <1>3
<1> QED BY <1>2, <1>3, <1>4, <1>5, <1>6, <1>7 DEF s2

\* The rest of a stack.
LEMMA Below ==
  ASSUME NEW S, NEW s \in Seq(S), s # << >>
  PROVE  /\ Tail(s) \in Seq(S) /\ s[1] \in S /\ Head(s) = s[1]
         /\ Len(Tail(s)) = Len(s) - 1 /\ Len(s) \in Nat \ {0}
         /\ \A i \in 1 .. Len(s) - 1 : Tail(s)[i] = s[i + 1]
         /\ \A i \in 2 .. Len(s) : Tail(s)[i - 1] = s[i]
<1>1. /\ Tail(s) \in Seq(S) /\ Head(s) \in S
      /\ Len(Tail(s)) = Len(s) - 1
      /\ \A i \in 1 .. Len(Tail(s)) : Tail(s)[i] = s[i + 1] BY HeadTailProperties
<1>2. Len(s) \in Nat \ {0} BY EmptySeq
<1>3. Head(s) = s[1] OBVIOUS
<1>4. \A i \in 2 .. Len(s) : Tail(s)[i - 1] = s[i]
  <2> TAKE i \in 2 .. Len(s)
  <2>1. i - 1 \in 1 .. Len(Tail(s)) BY <1>1, <1>2
  <2>2. Tail(s)[i - 1] = s[i - 1 + 1] BY <2>1, <1>1
  <2> QED BY <2>2, <1>2
<1> QED BY <1>1, <1>2, <1>3, <1>4

\* The two ways a stack keeps its length, grows by one, and shrinks: the top
\* replaced, a call made from the top, and a return.
Replaced(s, s2, f) ==
  /\ s2 \in Seq(Frame) /\ Depth(s2) = Depth(s) /\ s2[1] = f
  /\ Depth(s) \in {2, 3} => s2[2] = s[2]
  /\ Depth(s) = 3 => s2[3] = s[3]
Called(s, s2, f, g) ==
  /\ s2 \in Seq(Frame) /\ Depth(s2) = Depth(s) + 1 /\ s2[1] = f /\ s2[2] = g
  /\ Depth(s) = 2 => s2[3] = s[2]
Returned(s, s2) ==
  /\ s2 \in Seq(Frame) /\ Depth(s2) = Depth(s) - 1
  /\ Depth(s) \in {2, 3} => s2[1] = s[2]
  /\ Depth(s) = 3 => s2[2] = s[3]

\* Depths are numbers.
LEMMA DepthFacts ==
  ASSUME NEW s \in Seq(Frame)
  PROVE  /\ Depth(s) \in Nat
         /\ s = << >> <=> Depth(s) = 0
         /\ Depth(s) # 0 => s[1] \in Frame
         /\ Depth(s) \in {2, 3} => s[2] \in Frame
         /\ Depth(s) = 3 => s[3] \in Frame
<1>1. \A i \in 1 .. Len(s) : s[i] \in Frame BY ElementOfSeq
<1> DEFINE n == Len(s)
<1>2. n \in Nat /\ (s = << >> <=> n = 0) BY EmptySeq, LenProperties
<1> HIDE DEF n
<1>3. \A i \in 1 .. n : s[i] \in Frame BY <1>1 DEF n
<1>4. /\ n # 0 => s[1] \in Frame
      /\ n \in {2, 3} => s[2] \in Frame
      /\ n = 3 => s[3] \in Frame BY <1>2, <1>3
<1> QED BY <1>2, <1>4 DEF n, Depth

LEMMA StackOps ==
  ASSUME NEW s \in Seq(Frame), s # << >>
  PROVE  /\ Depth(s) \in Nat \ {0} /\ s[1] \in Frame /\ Head(s) = s[1]
         /\ \A f \in Frame : Replaced(s, <<f>> \o Tail(s), f)
         /\ \A f, g \in Frame : Called(s, <<f>> \o (<<g>> \o Tail(s)), f, g)
         /\ \A f, g \in Frame : Called(s, <<f, g>> \o Tail(s), f, g)
         /\ Returned(s, Tail(s))
<1> DEFINE n == Len(s)
<1>1. /\ Tail(s) \in Seq(Frame) /\ s[1] \in Frame /\ Head(s) = s[1]
      /\ Len(Tail(s)) = n - 1 /\ n \in Nat \ {0}
      /\ \A i \in 2 .. n : Tail(s)[i - 1] = s[i] BY Below
<1>d. Depth(s) = n BY DEF Depth
<1> HIDE DEF n
<1>2. ASSUME NEW f \in Frame
      PROVE  LET s2 == <<f>> \o Tail(s) IN
             /\ s2 \in Seq(Frame) /\ Len(s2) = n /\ s2[1] = f
             /\ \A i \in 2 .. n : s2[i] = s[i]
  <2> DEFINE s2 == <<f>> \o Tail(s)
  <2>1. /\ s2 \in Seq(Frame) /\ Len(s2) = n /\ s2[1] = f
        /\ \A i \in 2 .. Len(s2) : s2[i] = Tail(s)[i - 1] BY <1>1, OnTop
  <2> QED BY <1>1, <2>1
<1>3. ASSUME NEW f \in Frame PROVE Replaced(s, <<f>> \o Tail(s), f)
  BY <1>1, <1>2, <1>d DEF Replaced, Depth
<1>4. ASSUME NEW f \in Frame, NEW g \in Frame
      PROVE  Called(s, <<f>> \o (<<g>> \o Tail(s)), f, g)
  <2> DEFINE s1 == <<g>> \o Tail(s)
             s2 == <<f>> \o s1
  <2>1. /\ s1 \in Seq(Frame) /\ Len(s1) = n /\ s1[1] = g
        /\ \A i \in 2 .. n : s1[i] = s[i] BY <1>2
  <2> HIDE DEF s1
  <2>2. /\ s2 \in Seq(Frame) /\ Len(s2) = n + 1 /\ s2[1] = f
        /\ \A i \in 1 .. n : s2[i + 1] = s1[i] BY <2>1, OnTop
  <2> HIDE DEF s2
  <2>3. s2[2] = g BY <1>1, <2>1, <2>2
  <2>4. n = 2 => s2[3] = s[2] BY <1>1, <2>1, <2>2
  <2>5. Called(s, s2, f, g) BY <1>d, <2>1, <2>2, <2>3, <2>4 DEF Called, Depth
  <2> QED BY <2>5 DEF s1, s2
<1>5. ASSUME NEW f \in Frame, NEW g \in Frame
      PROVE  Called(s, <<f, g>> \o Tail(s), f, g)
  <2> DEFINE c == <<f, g>>
             s2 == c \o Tail(s)
  <2>1. c \in Seq(Frame) /\ Len(c) = 2 /\ c[1] = f /\ c[2] = g OBVIOUS
  <2> HIDE DEF c
  <2>2. /\ s2 \in Seq(Frame) /\ Len(s2) = Len(c) + Len(Tail(s))
        /\ \A i \in 1 .. Len(c) + Len(Tail(s)) :
             s2[i] = IF i <= Len(c) THEN c[i] ELSE Tail(s)[i - Len(c)] BY <1>1, <2>1, ConcatProperties
  <2>6. /\ Len(s2) = n + 1
        /\ \A i \in 1 .. n + 1 : s2[i] = IF i <= 2 THEN c[i] ELSE Tail(s)[i - 2] BY <1>1, <2>1, <2>2
  <2> HIDE DEF s2
  <2>3. s2[1] = f /\ s2[2] = g BY <1>1, <2>1, <2>6
  <2>4. ASSUME n = 2 PROVE s2[3] = s[2]
    <3>1. 3 \in 1 .. n + 1 /\ 2 \in 2 .. n /\ ~(3 <= 2) /\ 3 - 2 = 1 /\ 2 - 1 = 1 BY <2>4
    <3>2. s2[3] = Tail(s)[1] BY <2>6, <3>1
    <3>3. Tail(s)[1] = s[2] BY <1>1, <3>1
    <3> QED BY <3>2, <3>3
  <2>5. Called(s, s2, f, g) BY <1>1, <1>d, <2>2, <2>6, <2>3, <2>4 DEF Called, Depth
  <2> QED BY <2>5 DEF s2, c
<1>6. Returned(s, Tail(s)) BY <1>1, <1>d DEF Returned, Depth
<1> QED BY <1>1, <1>d, <1>3, <1>4, <1>5, <1>6

\* A stack as it may be on machine k.
Fine(k, s) == s \in Seq(Frame) /\ Shaped(s) /\ Placed(k, s)

\* It does not wait to eat, to stop or to accept a cancellation.
Plain(s) == \A v \in Vertex : ~Eats(s, v) /\ ~Stops(s, v) /\ ~Accepts(s, v)

\* It is at most busy with what it was busy with.
SameBase(s, s2) ==
  \A v \in Vertex : /\ Ends(s2, v) => Ends(s, v)
                    /\ Replies(s2, v) => Replies(s, v)
                    /\ Stray(s2, v) => Stray(s, v)

\* Whom it has to signal: the same, some more, or one less.
Keeps(s, s2) == \A n \in 1 .. 3 : Lists(s2, n) = Lists(s, n)
Changes(s, s2, n, ready) ==
  /\ \A m \in (1 .. 3) \ {n} : Lists(s2, m) = Lists(s, m)
  /\ Lists(s2, n) = ready
Adds(s, s2, more) == \E n \in 1 .. 3 : Changes(s, s2, n, Lists(s, n) \o more)
Drops(s, s2, v) ==
  \E n \in 1 .. 3 : /\ Lists(s, n) # << >> /\ Head(Lists(s, n)) = v
                    /\ Changes(s, s2, n, Tail(Lists(s, n)))

ReadyIn(f) == IF HasReady(f) THEN f.ready ELSE << >>

\* Where the frames go.
LEMMA ListsOfOps ==
  ASSUME NEW s \in Seq(Frame), Depth(s) \in {1, 2, 3}, NEW s2
  PROVE  /\ Lists(s, Depth(s)) = ReadyIn(s[1])
         /\ \A f : Replaced(s, s2, f) => Changes(s, s2, Depth(s), ReadyIn(f))
         /\ \A f, g : Called(s, s2, f, g) /\ Depth(s) # 3 /\ ReadyIn(f) = << >>
                        => Changes(s, s2, Depth(s), ReadyIn(g))
         /\ Returned(s, s2) => Changes(s, s2, Depth(s), << >>)
<1>1. Lists(s, Depth(s)) = ReadyIn(s[1]) BY DEF Lists, ReadyIn
<1> DEFINE Same(m) == Lists(s2, m) = Lists(s, m)
<1>2. ASSUME NEW f, Replaced(s, s2, f)
      PROVE  Changes(s, s2, Depth(s), ReadyIn(f))
  <2>1. Lists(s2, Depth(s)) = ReadyIn(f) BY <1>2 DEF Replaced, Lists, ReadyIn
  <2>2. \A m \in 1 .. 3 : m # Depth(s) => Same(m) BY <1>2 DEF Replaced, Lists
  <2> QED BY <2>1, <2>2 DEF Changes
<1>3. ASSUME NEW f, NEW g, Called(s, s2, f, g), Depth(s) # 3, ReadyIn(f) = << >>
      PROVE  Changes(s, s2, Depth(s), ReadyIn(g))
  <2>1. Lists(s2, Depth(s)) = ReadyIn(g) BY <1>3 DEF Called, Lists, ReadyIn
  <2>2. Lists(s2, Depth(s) + 1) = << >> /\ Lists(s, Depth(s) + 1) = << >>
    <3>1. CASE Depth(s) = 1 BY <1>3, <3>1 DEF Called, Lists, ReadyIn
    <3>2. CASE Depth(s) = 2 BY <1>3, <3>2 DEF Called, Lists, ReadyIn
    <3> QED BY <1>3, <3>1, <3>2
  <2>3. \A m \in 1 .. 3 : m # Depth(s) => Same(m) BY SMTT(30), <1>3, <2>2 DEF Called, Lists
  <2> QED BY <2>1, <2>3 DEF Changes
<1>4. ASSUME Returned(s, s2)
      PROVE  Changes(s, s2, Depth(s), << >>)
  <2>1. Lists(s2, Depth(s)) = << >> BY <1>4 DEF Returned, Lists
  <2>2. \A m \in 1 .. 3 : m # Depth(s) => Same(m)
    <3>1. CASE Depth(s) = 1 BY <1>4, <3>1 DEF Returned, Lists
    <3>2. CASE Depth(s) = 2 BY <1>4, <3>2 DEF Returned, Lists
    <3>3. CASE Depth(s) = 3 BY <1>4, <3>3 DEF Returned, Lists
    <3> QED BY <3>1, <3>2, <3>3
  <2> QED BY <2>1, <2>2 DEF Changes
<1> QED BY <1>1, <1>2, <1>3, <1>4

LoopOps == {"grab", "accept", "stop"}

\* Frames by their operation.
LEMMA FrameFields ==
  ASSUME NEW f \in Frame
  PROVE  /\ f.v \in Vertex
         /\ f.op \in {"grab", "accept", "stop", "signal", "eat", "reply", "release", "cancel"}
         /\ f.op \in LoopOps =>
              /\ f \in [op : LoopOps, v : Vertex,
                        at : {"lock", "edge", "backoff", "other", "relock", "relock higher"},
                        todo : SUBSET Edges, edge : Edges \cup {NoEdge}, ready : Seq(Vertex)]
              /\ f.ready \in Seq(Vertex)
         /\ f.op = "signal" => f.ready \in Seq(Vertex)
         /\ f.op = "cancel" => f.lockid \in BOOLEAN
         /\ ReadyIn(f) \in Seq(Vertex)
<1>1. CASE f \in [op : LoopOps, v : Vertex,
                   at : {"lock", "edge", "backoff", "other", "relock", "relock higher"},
                   todo : SUBSET Edges, edge : Edges \cup {NoEdge}, ready : Seq(Vertex)]
  BY <1>1 DEF LoopOps, ReadyIn, HasReady
<1>2. CASE f \in [op : {"signal"}, v : Vertex, ready : Seq(Vertex)]
  BY <1>2 DEF LoopOps, ReadyIn, HasReady
<1>3. CASE f \in [op : {"eat", "reply", "release"}, v : Vertex]
  BY <1>3, EmptySeq DEF LoopOps, ReadyIn, HasReady
<1>4. CASE f \in [op : {"cancel"}, v : Vertex, lockid : BOOLEAN]
  BY <1>4, EmptySeq DEF LoopOps, ReadyIn, HasReady
<1> QED BY <1>1, <1>2, <1>3, <1>4 DEF Frame, LoopOps

\* A stack that is not empty.
LEMMA FineFacts ==
  ASSUME NEW k \in Machine, NEW s, Fine(k, s), s # << >>
  PROVE  /\ s \in Seq(Frame) /\ Shaped(s) /\ Placed(k, s) /\ Depth(s) \in {1, 2, 3}
         /\ s[1] \in Frame /\ WellPlaced(k, s[1]) /\ Head(s) = s[1]
         /\ s[1].op \in Outer => Depth(s) = 1
         /\ s[1].op \in {"accept", "stop", "cancel", "signal"} => Depth(s) # 3
         /\ s[1].op = "signal" => s[1].ready # << >>
<1>1. s \in Seq(Frame) /\ Shaped(s) /\ Placed(k, s) BY DEF Fine
<1>2. Depth(s) \in {1, 2, 3} /\ s[1] \in Frame /\ Head(s) = s[1] BY <1>1, DepthFacts, StackOps DEF Shaped
<1>3. WellPlaced(k, s[1]) BY <1>1, <1>2 DEF Placed
<1> QED BY <1>1, <1>2, <1>3 DEF Shaped, Outer

\* A loop goes on at another place, possibly with more replicas to be signalled.
LEMMA LoopGoesOn ==
  ASSUME NEW k \in Machine, NEW s, Fine(k, s), s # << >>, NEW s2, NEW f \in Frame,
         NEW more \in Seq(Vertex),
         s[1].op \in LoopOps, f.op = s[1].op, f.v = s[1].v, f.at # "lock",
         f.ready = s[1].ready \o more,
         s2 = <<f>> \o Tail(s), WellPlaced(k, f)
  PROVE  /\ Fine(k, s2) /\ Plain(s2) /\ SameBase(s, s2) /\ Adds(s, s2, more)
         /\ s[1].at # "lock" => Plain(s)
<1>1. /\ s \in Seq(Frame) /\ Shaped(s) /\ Placed(k, s) /\ Depth(s) \in {1, 2, 3}
      /\ s[1].op = "grab" => Depth(s) = 1
      /\ s[1].op \in {"accept", "stop"} => Depth(s) # 3 BY FineFacts DEF Outer
<1>2. Replaced(s, s2, f) BY <1>1, StackOps
<1>3. Shaped(s2) BY <1>1, <1>2 DEF Shaped, Replaced, LoopOps
<1>4. Placed(k, s2) BY <1>1, <1>2 DEF Placed, Replaced
<1>5. Plain(s2) BY <1>2 DEF Plain, Replaced, Eats, Stops, Accepts, LoopOps
<1>6. SameBase(s, s2) BY <1>1, <1>2 DEF SameBase, Replaced, Ends, Replies, Stray
<1>7. Adds(s, s2, more)
  <2>1. ReadyIn(f) = ReadyIn(s[1]) \o more BY DEF ReadyIn, HasReady, LoopOps
  <2>2. Changes(s, s2, Depth(s), ReadyIn(f)) /\ Lists(s, Depth(s)) = ReadyIn(s[1])
    BY <1>1, <1>2, ListsOfOps
  <2>3. Depth(s) \in 1 .. 3 BY <1>1
  <2> QED BY <2>1, <2>2, <2>3 DEF Adds
<1>8. s[1].at # "lock" => Plain(s) BY DEF Plain, Eats, Stops, Accepts, LoopOps
<1> QED BY <1>2, <1>3, <1>4, <1>5, <1>6, <1>7, <1>8 DEF Fine, Replaced

\* The loop of local_philosopher_grabs_forks() calls for a cancellation.
LEMMA LoopCalls ==
  ASSUME NEW k \in Machine, NEW s, Fine(k, s), s # << >>, NEW s2, NEW f \in Frame, NEW c \in Frame,
         s[1].op = "grab", f.op = s[1].op, f.v = s[1].v,
         f.ready = s[1].ready, c.op = "cancel",
         s2 = <<c, f>> \o Tail(s), WellPlaced(k, f), WellPlaced(k, c)
  PROVE  /\ Fine(k, s2) /\ Plain(s2) /\ SameBase(s, s2) /\ Keeps(s, s2) /\ Plain(s)
<1>1. s \in Seq(Frame) /\ Depth(s) = 1 BY FineFacts DEF Outer
<1>2. Called(s, s2, c, f) BY <1>1, StackOps
<1>3. Depth(s2) = 2 /\ s2[1] = c /\ s2[2] = f BY <1>1, <1>2 DEF Called
<1>4. Shaped(s2) BY <1>3 DEF Shaped, Outer
<1>5. Placed(k, s2) BY <1>3 DEF Placed
<1>6. Plain(s2) /\ Plain(s) BY <1>3 DEF Plain, Eats, Stops, Accepts
<1>7. SameBase(s, s2) BY <1>1, <1>3 DEF SameBase, Ends, Replies, Stray
<1>8. Keeps(s, s2)
  <2>1. ReadyIn(c) = << >> /\ ReadyIn(f) = ReadyIn(s[1]) BY DEF ReadyIn, HasReady
  <2>4. Depth(s) \in {1, 2, 3} /\ Depth(s) # 3 BY <1>1
  <2>2. Changes(s, s2, Depth(s), ReadyIn(f)) BY <1>1, <1>2, <2>1, <2>4, ListsOfOps
  <2>3. Lists(s, Depth(s)) = ReadyIn(s[1]) BY <1>1, ListsOfOps
  <2> QED BY <1>1, <2>1, <2>2, <2>3 DEF Keeps, Changes
<1> QED BY <1>2, <1>4, <1>5, <1>6, <1>7, <1>8 DEF Fine, Called

\* The operations, depth by depth.
LEMMA DepthByDepth ==
  ASSUME NEW s, Depth(s) \in {1, 2, 3}, NEW s2
  PROVE  /\ Returned(s, s2) =>
              \/ Depth(s) = 1 /\ Depth(s2) = 0
              \/ Depth(s) = 2 /\ Depth(s2) = 1 /\ s2[1] = s[2]
              \/ Depth(s) = 3 /\ Depth(s2) = 2 /\ s2[1] = s[2] /\ s2[2] = s[3]
         /\ \A f, g : Called(s, s2, f, g) /\ Depth(s) # 3 =>
              \/ Depth(s) = 1 /\ Depth(s2) = 2 /\ s2[1] = f /\ s2[2] = g
              \/ Depth(s) = 2 /\ Depth(s2) = 3 /\ s2[1] = f /\ s2[2] = g /\ s2[3] = s[2]
         /\ \A f : Replaced(s, s2, f) =>
              \/ Depth(s) = 1 /\ Depth(s2) = 1 /\ s2[1] = f
              \/ Depth(s) = 2 /\ Depth(s2) = 2 /\ s2[1] = f /\ s2[2] = s[2]
              \/ Depth(s) = 3 /\ Depth(s2) = 3 /\ s2[1] = f /\ s2[2] = s[2] /\ s2[3] = s[3]
<1>1. CASE Depth(s) = 1 BY <1>1 DEF Returned, Called, Replaced
<1>2. CASE Depth(s) = 2 BY <1>2 DEF Returned, Called, Replaced
<1>3. CASE Depth(s) = 3 BY <1>3 DEF Returned, Called, Replaced
<1> QED BY <1>1, <1>2, <1>3

\* A return after the top has been replaced.
LEMMA ReplaceAndReturn ==
  ASSUME NEW s, NEW s1, NEW s2, NEW f, Replaced(s, s1, f), Returned(s1, s2)
  PROVE  Returned(s, s2) BY DEF Replaced, Returned

\* Returns, with the loops over those to be signalled.
LEMMA ReturnOps ==
  ASSUME NEW s \in Seq(Frame), s # << >>
  PROVE  /\ \A f \in Frame : f.op = "signal" =>
              LET s2 == Return(<<f>> \o Tail(s)) IN
              \/ f.ready # << >> /\ Replaced(s, s2, f)
              \/ f.ready = << >> /\ Returned(s, s2)
         /\ \E s1 : /\ Returned(s, s1)
                    /\ LET done == Depth(s1) # 0 /\ s1[1].op = "signal" /\ s1[1].ready = << >>
                       IN  \/ done /\ Returned(s1, Return(Tail(s)))
                           \/ ~done /\ Return(Tail(s)) = s1
<1>1. ASSUME NEW f \in Frame, f.op = "signal"
      PROVE  LET s2 == Return(<<f>> \o Tail(s)) IN
             \/ f.ready # << >> /\ Replaced(s, s2, f)
             \/ f.ready = << >> /\ Returned(s, s2)
  <2> DEFINE s1 == <<f>> \o Tail(s)
             s2 == Return(s1)
  <2>1. Replaced(s, s1, f) BY StackOps
  <2>2. s1 # << >> /\ Head(s1) = f /\ s1 \in Seq(Frame) BY OnTop, Below
  <2> HIDE DEF s1
  <2>3. CASE f.ready # << >>
    <3>1. s2 = s1 BY <1>1, <2>2, <2>3 DEF Return
    <3> QED BY <2>1, <2>3, <3>1 DEF s1
  <2>4. CASE f.ready = << >>
    <3>1. s2 = Tail(s1) BY <1>1, <2>2, <2>4 DEF Return
    <3>2. Returned(s1, s2) BY <2>2, <3>1, StackOps
    <3>3. Returned(s, s2) BY <2>1, <3>2, ReplaceAndReturn
    <3> QED BY <2>4, <3>3 DEF s1
  <2> QED BY <2>3, <2>4
<1>2. \E s1 : /\ Returned(s, s1)
             /\ LET done == Depth(s1) # 0 /\ s1[1].op = "signal" /\ s1[1].ready = << >>
                IN  \/ done /\ Returned(s1, Return(Tail(s)))
                    \/ ~done /\ Return(Tail(s)) = s1
  <2> DEFINE s1 == Tail(s)
  <2>1. Returned(s, s1) /\ s1 \in Seq(Frame) BY StackOps, Below
  <2> HIDE DEF s1
  <2>2. (s1 = << >> <=> Depth(s1) = 0) BY <2>1, DepthFacts
  <2>3. s1 # << >> => Head(s1) = s1[1] /\ Returned(s1, Tail(s1)) BY <2>1, StackOps
  <2> DEFINE done == Depth(s1) # 0 /\ s1[1].op = "signal" /\ s1[1].ready = << >>
  <2>4. Return(s1) = IF done THEN Tail(s1) ELSE s1 BY <2>2, <2>3 DEF Return
  <2>5. \/ done /\ Returned(s1, Return(s1))
        \/ ~done /\ Return(s1) = s1 BY <2>2, <2>3, <2>4
  <2> QED BY <2>1, <2>5 DEF s1
<1> QED BY <1>1, <1>2

\* A list of replicas to be signalled gets on, or takes the place of a loop.
LEMMA SignalsNext ==
  ASSUME NEW k \in Machine, NEW s, Fine(k, s), s # << >>, NEW s2, NEW f \in Frame,
         s[1].op \in LoopOps \cup {"signal"}, f.op = "signal", f.v = s[1].v,
         WellPlaced(k, f),
         \/ f.ready # << >> /\ Replaced(s, s2, f)
         \/ f.ready = << >> /\ Returned(s, s2)
  PROVE  /\ Fine(k, s2) /\ Plain(s2) /\ SameBase(s, s2)
         /\ Depth(s) \in {1, 2} /\ Lists(s, Depth(s)) = s[1].ready
         /\ Changes(s, s2, Depth(s), f.ready)
<1>1. /\ s \in Seq(Frame) /\ Shaped(s) /\ Placed(k, s) /\ Depth(s) \in {1, 2, 3}
      /\ s[1] \in Frame BY FineFacts
<1>2. Depth(s) \in {1, 2} /\ (Depth(s) = 2 => s[2].op \in Outer) BY <1>1 DEF Shaped, LoopOps
<1>4. Lists(s, Depth(s)) = s[1].ready BY <1>1, ListsOfOps DEF ReadyIn, HasReady, LoopOps
<1>5. ReadyIn(f) = f.ready BY DEF ReadyIn, HasReady
<1>6. CASE f.ready # << >>
  <2>1. Replaced(s, s2, f) BY <1>6
  <2>2. Shaped(s2)
    <3>1. \/ Depth(s2) = 1 /\ s2[1] = f
          \/ Depth(s2) = 2 /\ s2[1] = f /\ s2[2].op \in Outer BY <1>1, <1>2, <2>1, DepthByDepth
    <3> QED BY <1>6, <3>1 DEF Shaped
  <2>3. Placed(k, s2) BY <1>1, <1>2, <2>1 DEF Placed, Replaced
  <2>4. Plain(s2) BY <2>1 DEF Plain, Replaced, Eats, Stops, Accepts
  <2>5. SameBase(s, s2) BY <1>2, <2>1 DEF SameBase, Replaced, Ends, Replies, Stray, LoopOps
  <2>6. Changes(s, s2, Depth(s), f.ready) BY <1>1, <1>5, <2>1, ListsOfOps
  <2> QED BY <1>2, <1>4, <2>1, <2>2, <2>3, <2>4, <2>5, <2>6 DEF Fine, Replaced
<1>7. CASE f.ready = << >>
  <2>2. Returned(s, s2) BY <1>7
  <2>3. Shaped(s2) BY <1>2, <2>2 DEF Shaped, Returned, Outer
  <2>4. Placed(k, s2) BY <1>1, <1>2, <2>2 DEF Placed, Returned
  <2>5. s2 \in Seq(Frame) /\ (s2 = << >> <=> Depth(s2) = 0) BY <2>2, DepthFacts DEF Returned
  <2>6. Plain(s2) BY <1>2, <2>2, <2>5 DEF Plain, Returned, Eats, Stops, Accepts, Outer
  <2>7. SameBase(s, s2) BY <1>2, <2>2, <2>5 DEF SameBase, Returned, Ends, Replies, Stray
  <2>8. Changes(s, s2, Depth(s), f.ready) BY <1>1, <1>7, <2>2, ListsOfOps
  <2> QED BY <1>2, <1>4, <2>3, <2>4, <2>5, <2>6, <2>7, <2>8 DEF Fine
<1> QED BY <1>6, <1>7

\* The one that is told has to set the whole vertex eating.
LEMMA SignalsEat ==
  ASSUME NEW k \in Machine, NEW s, Fine(k, s), s # << >>, NEW s2, NEW f \in Frame, NEW c \in Frame,
         s[1].op = "signal", f.op = "signal", f.v = s[1].v, c.op = "eat",
         WellPlaced(k, f), WellPlaced(k, c), Called(s, s2, c, f)
  PROVE  /\ Fine(k, s2) /\ SameBase(s, s2)
         /\ \A v \in Vertex : /\ Eats(s2, v) <=> v = c.v
                              /\ ~Stops(s2, v) /\ ~Accepts(s2, v)
         /\ Depth(s) \in {1, 2} /\ Lists(s, Depth(s)) = s[1].ready
         /\ Changes(s, s2, Depth(s), f.ready)
<1>1. /\ s \in Seq(Frame) /\ Shaped(s) /\ Placed(k, s) /\ Depth(s) \in {1, 2, 3}
      /\ s[1] \in Frame BY FineFacts
<1>2. Depth(s) \in {1, 2} /\ (Depth(s) = 2 => s[2].op \in Outer) /\ Depth(s) # 3 BY <1>1 DEF Shaped
<1>3. Called(s, s2, c, f) OBVIOUS
<1>4. Lists(s, Depth(s)) = s[1].ready BY <1>1, ListsOfOps DEF ReadyIn, HasReady
<1>5. ReadyIn(f) = f.ready /\ ReadyIn(c) = << >> BY DEF ReadyIn, HasReady
<1>p. \/ Depth(s) = 1 /\ Depth(s2) = 2
      \/ Depth(s) = 2 /\ Depth(s2) = 3 /\ s2[3] = s[2] BY <1>1, <1>2, <1>3, DepthByDepth
<1>q. s2 \in Seq(Frame) /\ s2[1] = c /\ s2[2] = f BY <1>3 DEF Called
<1>6. Shaped(s2) BY <1>2, <1>p, <1>q DEF Shaped
<1>7. Placed(k, s2) BY <1>1, <1>2, <1>p, <1>q DEF Placed
<1>8. s2 \in Seq(Frame) /\ s2 # << >> BY <1>2, <1>3, DepthFacts DEF Called
<1>9. \A v \in Vertex : (Eats(s2, v) <=> v = c.v) /\ ~Stops(s2, v) /\ ~Accepts(s2, v)
  BY <1>3, <1>8 DEF Called, Eats, Stops, Accepts
<1>10. SameBase(s, s2) BY <1>2, <1>p, <1>q DEF SameBase, Ends, Replies, Stray
<1>11. Changes(s, s2, Depth(s), f.ready) BY <1>1, <1>2, <1>3, <1>5, ListsOfOps
<1> QED BY <1>2, <1>4, <1>6, <1>7, <1>8, <1>9, <1>10, <1>11 DEF Fine

\* set_eating() returns, and so does the loop that called it when nobody is left.
LEMMA EatReturns ==
  ASSUME NEW k \in Machine, NEW s, Fine(k, s), s # << >>, NEW s1, NEW s2,
         s[1].op = "eat", Returned(s, s1),
         LET done == Depth(s1) # 0 /\ s1[1].op = "signal" /\ s1[1].ready = << >>
         IN  (done /\ Returned(s1, s2)) \/ (~done /\ s2 = s1)
  PROVE  /\ Fine(k, s2) /\ Plain(s2) /\ SameBase(s, s2) /\ Keeps(s, s2)
<1>1. /\ s \in Seq(Frame) /\ Shaped(s) /\ Placed(k, s) /\ Depth(s) \in {1, 2, 3} BY FineFacts
<1>2. Returned(s, s1) OBVIOUS
<1>3. /\ s1 \in Seq(Frame) /\ Depth(s1) \in {0, 1, 2} /\ Placed(k, s1)
      /\ s1 = << >> <=> Depth(s1) = 0
      /\ Depth(s1) = 1 => s1[1].op \in Outer \cup {"signal"}
      /\ Depth(s1) = 2 => s1[1].op = "signal" /\ s1[2].op \in Outer
  <2>1. s1 \in Seq(Frame) /\ (s1 = << >> <=> Depth(s1) = 0) BY <1>2, DepthFacts DEF Returned
  <2>2. \/ Depth(s) = 1 /\ Depth(s1) = 0
        \/ Depth(s) = 2 /\ Depth(s1) = 1 /\ s1[1] = s[2]
        \/ Depth(s) = 3 /\ Depth(s1) = 2 /\ s1[1] = s[2] /\ s1[2] = s[3] BY <1>1, <1>2, DepthByDepth
  <2>3. Placed(k, s1) BY <1>1, <2>2 DEF Placed
  <2>4. /\ Depth(s1) = 1 => s1[1].op \in Outer \cup {"signal"}
        /\ Depth(s1) = 2 => s1[1].op = "signal" /\ s1[2].op \in Outer BY <1>1, <2>2 DEF Shaped
  <2> QED BY <2>1, <2>2, <2>3, <2>4
<1>4. Keeps(s, s1) BY <1>1, ListsOfOps, <1>2 DEF ReadyIn, HasReady, Keeps, Changes
<1>5. SameBase(s, s1)
  <2>1. \/ Depth(s) = 1 /\ s1 = << >>
        \/ Depth(s) = 2 /\ Depth(s1) = 1 /\ s1[1] = s[2]
        \/ Depth(s) = 3 /\ Depth(s1) = 2 /\ s1[2] = s[3] BY <1>1, <1>2, <1>3, DepthByDepth
  <2> QED BY <2>1 DEF SameBase, Ends, Replies, Stray
<1>7. CASE Depth(s1) # 0 /\ s1[1].op = "signal" /\ s1[1].ready = << >>
  <2>2. Returned(s1, s2) /\ Depth(s1) \in {1, 2} BY <1>3, <1>7
  <2>3. /\ s2 \in Seq(Frame) /\ Depth(s2) \in {0, 1} /\ Placed(k, s2)
        /\ s2 = << >> <=> Depth(s2) = 0
        /\ Depth(s2) = 1 => s2[1].op \in Outer
    <3>1. s2 \in Seq(Frame) /\ (s2 = << >> <=> Depth(s2) = 0) BY <2>2, DepthFacts DEF Returned
    <3>2. \/ Depth(s1) = 1 /\ Depth(s2) = 0
          \/ Depth(s1) = 2 /\ Depth(s2) = 1 /\ s2[1] = s1[2] BY <2>2, DepthByDepth
    <3>3. Placed(k, s2) BY <1>3, <3>2 DEF Placed
    <3> QED BY <1>3, <3>1, <3>2, <3>3
  <2>4. Shaped(s2) BY <2>3 DEF Shaped, Outer
  <2>5. Plain(s2) BY <2>3 DEF Plain, Eats, Stops, Accepts, Outer
  <2>6. SameBase(s1, s2)
    <3>1. Depth(s2) # 0 => Depth(s1) = 2 /\ Depth(s2) = 1 /\ s2[1] = s1[2] BY <2>2, <2>3, DepthByDepth
    <3> QED BY <1>3, <2>3, <3>1 DEF SameBase, Ends, Replies, Stray
  <2>7. Keeps(s1, s2)
    <3>1. ReadyIn(s1[1]) = << >> BY <1>7 DEF ReadyIn, HasReady
    <3>2. Lists(s1, Depth(s1)) = << >> BY <1>3, <2>2, <3>1, ListsOfOps
    <3>3. Changes(s1, s2, Depth(s1), << >>) BY <1>3, <2>2, ListsOfOps
    <3> QED BY <3>2, <3>3 DEF Keeps, Changes
  <2> QED BY <1>4, <1>5, <2>3, <2>4, <2>5, <2>6, <2>7 DEF Fine, SameBase, Keeps
<1>8. CASE ~(Depth(s1) # 0 /\ s1[1].op = "signal" /\ s1[1].ready = << >>)
  <2>1. s2 = s1 BY <1>8
  <2>2. Shaped(s1) BY <1>3, <1>8 DEF Shaped
  <2>3. Plain(s1) BY <1>3 DEF Plain, Eats, Stops, Accepts, Outer
  <2> QED BY <1>3, <1>4, <1>5, <2>1, <2>2, <2>3 DEF Fine
<1> QED BY <1>7, <1>8

\* A cancellation that is refused, or sent to another machine.
LEMMA CancelReturns ==
  ASSUME NEW k \in Machine, NEW s, Fine(k, s), s # << >>, NEW s2,
         s[1].op = "cancel", Returned(s, s2)
  PROVE  /\ Fine(k, s2) /\ Plain(s) /\ Plain(s2) /\ SameBase(s, s2) /\ Keeps(s, s2)
<1>1. /\ s \in Seq(Frame) /\ Shaped(s) /\ Placed(k, s) /\ Depth(s) \in {1, 2, 3} /\ Depth(s) # 3
  BY FineFacts
<1>2. /\ s2 \in Seq(Frame) /\ (s2 = << >> <=> Depth(s2) = 0)
      /\ \/ Depth(s) = 1 /\ Depth(s2) = 0
         \/ Depth(s) = 2 /\ Depth(s2) = 1 /\ s2[1] = s[2] BY <1>1, DepthByDepth, DepthFacts DEF Returned
<1>3. Depth(s) = 2 => s[2].op \in Outer BY <1>1 DEF Shaped
<1>4. Shaped(s2) /\ Placed(k, s2) BY <1>1, <1>2, <1>3 DEF Shaped, Placed, Outer
<1>5. Plain(s) /\ Plain(s2) BY <1>2, <1>3 DEF Plain, Eats, Stops, Accepts, Outer
<1>6. SameBase(s, s2) BY <1>2 DEF SameBase, Ends, Replies, Stray
<1>7. ReadyIn(s[1]) = << >> BY DEF ReadyIn, HasReady
<1>8. Lists(s, Depth(s)) = << >> BY <1>1, <1>7, ListsOfOps
<1>9. Changes(s, s2, Depth(s), << >>) BY <1>1, ListsOfOps
<1> QED BY <1>2, <1>4, <1>5, <1>6, <1>8, <1>9 DEF Fine, Keeps, Changes

\* One that is granted on the spot.
LEMMA CancelAccepted ==
  ASSUME NEW k \in Machine, NEW s, Fine(k, s), s # << >>, NEW s2, NEW f \in Frame,
         s[1].op = "cancel", f.op = "accept", f.at = "lock", f.v = s[1].v,
         f.ready = << >>, WellPlaced(k, f), Replaced(s, s2, f)
  PROVE  /\ Fine(k, s2) /\ Plain(s) /\ SameBase(s, s2) /\ Keeps(s, s2)
         /\ \A v \in Vertex : /\ Accepts(s2, v) <=> v = f.v
                              /\ ~Stops(s2, v) /\ ~Eats(s2, v)
<1>1. /\ s \in Seq(Frame) /\ Shaped(s) /\ Placed(k, s) /\ Depth(s) \in {1, 2, 3} /\ Depth(s) # 3
  BY FineFacts
<1>2. /\ s2 \in Seq(Frame) /\ s2 # << >>
      /\ \/ Depth(s) = 1 /\ Depth(s2) = 1 /\ s2[1] = f
         \/ Depth(s) = 2 /\ Depth(s2) = 2 /\ s2[1] = f /\ s2[2] = s[2]
  BY <1>1, DepthByDepth, DepthFacts DEF Replaced
<1>3. Depth(s) = 2 => s[2].op \in Outer BY <1>1 DEF Shaped
<1>4. Shaped(s2) /\ Placed(k, s2) BY <1>1, <1>2, <1>3 DEF Shaped, Placed
<1>5. Plain(s) BY DEF Plain, Eats, Stops, Accepts
<1>6. \A v \in Vertex : (Accepts(s2, v) <=> v = f.v) /\ ~Stops(s2, v) /\ ~Eats(s2, v)
  BY <1>2 DEF Eats, Stops, Accepts
<1>7. SameBase(s, s2) BY <1>2 DEF SameBase, Ends, Replies, Stray
<1>8. ReadyIn(s[1]) = << >> /\ ReadyIn(f) = << >> BY DEF ReadyIn, HasReady
<1>9. Lists(s, Depth(s)) = << >> BY <1>1, <1>8, ListsOfOps
<1>10. Changes(s, s2, Depth(s), << >>) BY <1>1, <1>8, ListsOfOps
<1> QED BY <1>2, <1>4, <1>5, <1>6, <1>7, <1>9, <1>10 DEF Fine, Keeps, Changes

\* Somebody idle starts with something.
LEMMA StartsWithOne ==
  ASSUME NEW k \in Machine, NEW f \in Frame, WellPlaced(k, f), ReadyIn(f) = << >>,
         f.op \in {"grab", "accept", "stop", "eat"}
  PROVE  LET s2 == <<f>> IN
         /\ Fine(k, s2) /\ Keeps(<< >>, s2)
         /\ s2 # << >> /\ s2[1] = f /\ Depth(s2) = 1
<1>1. <<f>> \in Seq(Frame) /\ <<f>> # << >> /\ <<f>>[1] = f OBVIOUS
<1>2. Depth(<<f>>) = 1 /\ Depth(<< >>) = 0 BY DEF Depth
<1> DEFINE s2 == <<f>>
           none == << >>
<1>3. s2 \in Seq(Frame) /\ s2[1] = f /\ Depth(s2) = 1 /\ Depth(none) = 0 BY <1>1, <1>2
<1> HIDE DEF s2, none
<1>4. Shaped(s2) /\ Placed(k, s2) BY <1>3 DEF Shaped, Placed
<1>5. \A m \in 1 .. 3 : Lists(s2, m) = << >> BY <1>3 DEF Lists, ReadyIn
<1>6. \A m \in 1 .. 3 : Lists(none, m) = << >> BY <1>3 DEF Lists
<1> QED BY <1>1, <1>3, <1>4, <1>5, <1>6 DEF Fine, Keeps, s2, none

\* Somebody idle starts to stop, on behalf of a program or a scatter request.
LEMMA StartsWithTwo ==
  ASSUME NEW k \in Machine, NEW f \in Frame, NEW g \in Frame, WellPlaced(k, f), WellPlaced(k, g),
         f.op = "stop", f.ready = << >>, g.op \in {"reply", "release"}, g.v = f.v
  PROVE  LET s2 == <<f, g>> IN
         /\ Fine(k, s2) /\ Keeps(<< >>, s2)
         /\ s2 # << >> /\ s2[1] = f /\ s2[2] = g /\ Depth(s2) = 2
<1>1. <<f, g>> \in Seq(Frame) /\ <<f, g>> # << >> /\ <<f, g>>[1] = f /\ <<f, g>>[2] = g OBVIOUS
<1>2. Depth(<<f, g>>) = 2 /\ Depth(<< >>) = 0 BY DEF Depth
<1> DEFINE s2 == <<f, g>>
           none == << >>
<1>3. s2 \in Seq(Frame) /\ s2[1] = f /\ s2[2] = g /\ Depth(s2) = 2 /\ Depth(none) = 0 BY <1>1, <1>2
<1>4. ReadyIn(f) = << >> /\ ReadyIn(g) = << >> BY DEF ReadyIn, HasReady
<1> HIDE DEF s2, none
<1>5. Shaped(s2) /\ Placed(k, s2) BY <1>3 DEF Shaped, Placed, Outer
<1>6. \A m \in 1 .. 3 : Lists(s2, m) = << >> BY <1>3, <1>4 DEF Lists, ReadyIn
<1>7. \A m \in 1 .. 3 : Lists(none, m) = << >> BY <1>3 DEF Lists
<1> QED BY <1>1, <1>3, <1>5, <1>6, <1>7 DEF Fine, Keeps, s2, none

\* Somebody is done.
LEMMA Done ==
  ASSUME NEW k \in Machine, NEW s, Fine(k, s), s # << >>, s[1].op \in {"reply", "release"}
  PROVE  /\ Plain(s) /\ Tail(s) = << >> /\ Depth(s) = 1
         /\ LET s2 == << >> IN Fine(k, s2) /\ Plain(s2) /\ SameBase(s, s2) /\ Keeps(s, s2)
<1>1. /\ s \in Seq(Frame) /\ Depth(s) = 1 BY FineFacts DEF Outer
<1>2. Tail(s) = << >>
  <2>1. Returned(s, Tail(s)) BY <1>1, StackOps
  <2>2. Depth(Tail(s)) = 0 /\ Tail(s) \in Seq(Frame) BY <1>1, <2>1, DepthByDepth DEF Returned
  <2> QED BY <2>2, DepthFacts
<1>3. Plain(s) BY DEF Plain, Eats, Stops, Accepts
<1> DEFINE none == << >>
<1>4. none \in Seq(Frame) /\ Depth(none) = 0 BY EmptySeq DEF Depth
<1>5. none = << >> OBVIOUS
<1> HIDE DEF none
<1>6. Plain(none) /\ SameBase(s, none)
  BY <1>5 DEF Plain, SameBase, Eats, Stops, Accepts, Ends, Replies, Stray
<1>7. Shaped(none) /\ Placed(k, none) BY <1>4 DEF Shaped, Placed
<1>8. Keeps(s, none) BY <1>1, <1>4 DEF ReadyIn, HasReady, Lists, Keeps
<1> QED BY <1>1, <1>2, <1>3, <1>4, <1>5, <1>6, <1>7, <1>8 DEF Fine, none

-----------------------------------------------------------------------------
(* Counting.                                                               *)

Hits(s, P) == {i \in 1 .. Len(s) : s[i] \in P}

LEMMA HitsFinite ==
  ASSUME NEW S, NEW s \in Seq(S), NEW P
  PROVE  IsFiniteSet(Hits(s, P)) /\ Cardinality(Hits(s, P)) \in Nat
<1>1. Len(s) \in Nat BY LenProperties
<1>2. IsFiniteSet(1 .. Len(s)) BY <1>1, FS_Interval
<1>3. Hits(s, P) \in SUBSET (1 .. Len(s)) BY DEF Hits
<1> QED BY <1>2, <1>3, FS_Subset, FS_CardinalityType

One(b) == IF b THEN 1 ELSE 0

LEMMA HitsAppend ==
  ASSUME NEW S, NEW s \in Seq(S), NEW x \in S, NEW P
  PROVE  Cardinality(Hits(Append(s, x), P)) = Cardinality(Hits(s, P)) + One(x \in P)
<1> DEFINE n == Len(s)
           s2 == Append(s, x)
<1>1. /\ n \in Nat /\ Len(s2) = n + 1 /\ s2[n + 1] = x
      /\ \A i \in 1 .. n : s2[i] = s[i] BY AppendProperties, LenProperties
<1>2. IsFiniteSet(Hits(s, P)) /\ Cardinality(Hits(s, P)) \in Nat BY HitsFinite
<1>3. Hits(s, P) = {i \in 1 .. n : s[i] \in P} BY DEF Hits
<1>4. Hits(s2, P) = {i \in 1 .. n + 1 : s2[i] \in P} BY <1>1 DEF Hits
<1> HIDE DEF s2, n
<1>5. CASE x \in P
  <2>1. Hits(s2, P) = Hits(s, P) \cup {n + 1} /\ n + 1 \notin Hits(s, P) BY <1>1, <1>3, <1>4, <1>5
  <2>2. Cardinality(Hits(s, P) \cup {n + 1}) = Cardinality(Hits(s, P)) + 1 BY <1>2, <2>1, FS_AddElement
  <2> QED BY <1>5, <2>1, <2>2 DEF One, s2
<1>6. CASE x \notin P
  <2>1. Hits(s2, P) = Hits(s, P) BY <1>1, <1>3, <1>4, <1>6
  <2> QED BY <1>2, <1>6, <2>1 DEF One, s2
<1> QED BY <1>5, <1>6

LEMMA HitsTail ==
  ASSUME NEW S, NEW s \in Seq(S), s # << >>, NEW P
  PROVE  Cardinality(Hits(Tail(s), P)) = Cardinality(Hits(s, P)) - One(s[1] \in P)
<1> DEFINE n == Len(s)
           s2 == Tail(s)
           A == Hits(s, P) \ {1}
           B == Hits(s2, P)
           f == [i \in A |-> i - 1]
<1>1. /\ n \in Nat \ {0} /\ Len(s2) = n - 1
      /\ \A i \in 1 .. n - 1 : s2[i] = s[i + 1]
      /\ \A i \in 2 .. n : s2[i - 1] = s[i] BY Below
<1>2. IsFiniteSet(Hits(s, P)) /\ Cardinality(Hits(s, P)) \in Nat BY HitsFinite
<1>3. Hits(s, P) = {i \in 1 .. n : s[i] \in P} BY DEF Hits
<1>4. B = {i \in 1 .. n - 1 : s2[i] \in P} BY <1>1 DEF Hits
<1> HIDE DEF s2, n, B
<1>5. IsFiniteSet(A) /\ Cardinality(A) = Cardinality(Hits(s, P)) - One(s[1] \in P)
  <2>1. 1 \in Hits(s, P) <=> s[1] \in P BY <1>1, <1>3
  <2> QED BY <1>2, <2>1, FS_RemoveElement DEF One
<1>6. A = {i \in 2 .. n : s[i] \in P} BY <1>1, <1>3
<1> HIDE DEF A
<1>7. f \in Bijection(A, B)
  <2>1. f \in [A -> B] BY <1>1, <1>4, <1>6
  <2>2. \A b \in B : \E a \in A : f[a] = b
    <3> TAKE b \in B
    <3>1. b + 1 \in A /\ f[b + 1] = b BY <1>1, <1>4, <1>6
    <3> QED BY <3>1
  <2>3. \A a, b \in A : f[a] = f[b] => a = b BY <1>6, <1>1
  <2> QED BY <2>1, <2>2, <2>3 DEF Bijection, Injection, Surjection, IsInjective
<1>8. Cardinality(B) = Cardinality(A) BY <1>5, <1>7, FS_Bijection DEF ExistsBijection
<1> QED BY <1>5, <1>8 DEF B, s2

\* Where they are.
LEMMA PlacesFacts ==
  ASSUME NEW D, IsFiniteSet(D), NEW S, NEW q \in [D -> Seq(S)], NEW P
  PROVE  /\ Places(q, P) = UNION {{j} \X Hits(q[j], P) : j \in D}
         /\ IsFiniteSet(Places(q, P)) /\ Cardinality(Places(q, P)) \in Nat
<1>1. \A j \in D : DOMAIN q[j] = 1 .. Len(q[j]) BY LenProperties
<1>2. Places(q, P) = UNION {{j} \X Hits(q[j], P) : j \in D} BY <1>1 DEF Places, Hits
<1>3. IsFiniteSet(Places(q, P))
  <2> DEFINE W == [j \in D |-> {j} \X Hits(q[j], P)]
             R == {W[j] : j \in D}
  <2>1. \A j \in D : IsFiniteSet(W[j])
    <3> TAKE j \in D
    <3>1. IsFiniteSet(Hits(q[j], P)) /\ IsFiniteSet({j}) BY HitsFinite, FS_Singleton
    <3> QED BY <3>1, FS_Product
  <2>2. W \in Surjection(D, R) BY DEF Surjection
  <2>3. IsFiniteSet(R) BY <2>2, FS_Surjection
  <2>4. \A T \in R : IsFiniteSet(T) BY <2>1
  <2>5. IsFiniteSet(UNION R) BY <2>3, <2>4, FS_UNION
  <2> QED BY <1>2, <2>5
<1> QED BY <1>2, <1>3, FS_CardinalityType

\* Sequences of members of S, one for each member of D.
Sequences(q, D, S) == q \in [D -> Seq(S)]

\* Only one of the sequences changes.
LEMMA PlacesAt ==
  ASSUME NEW D, IsFiniteSet(D), NEW S, NEW q, Sequences(q, D, S), NEW q2, Sequences(q2, D, S),
         NEW j \in D, \A i \in D : i # j => q2[i] = q[i], NEW P
  PROVE  Cardinality(Places(q2, P))
           = Cardinality(Places(q, P)) - Cardinality(Hits(q[j], P)) + Cardinality(Hits(q2[j], P))
<1> DEFINE Rest == {p \in Places(q, P) : p[1] # j}
           At1 == {j} \X Hits(q[j], P)
           At2 == {j} \X Hits(q2[j], P)
<1>0. q \in [D -> Seq(S)] /\ q2 \in [D -> Seq(S)] BY DEF Sequences
<1>1. /\ Places(q, P) = UNION {{i} \X Hits(q[i], P) : i \in D}
      /\ IsFiniteSet(Places(q, P)) /\ Cardinality(Places(q, P)) \in Nat
      /\ Places(q2, P) = UNION {{i} \X Hits(q2[i], P) : i \in D}
      /\ IsFiniteSet(Places(q2, P)) /\ Cardinality(Places(q2, P)) \in Nat BY <1>0, PlacesFacts, SMTT(30)
<1>2. Places(q, P) = Rest \cup At1 /\ Rest \cap At1 = {} BY <1>1
<1>3. Places(q2, P) = Rest \cup At2 /\ Rest \cap At2 = {} BY <1>1
<1>4. /\ IsFiniteSet(Hits(q[j], P)) /\ IsFiniteSet(Hits(q2[j], P))
      /\ Cardinality(Hits(q[j], P)) \in Nat /\ Cardinality(Hits(q2[j], P)) \in Nat
      /\ IsFiniteSet({j}) /\ Cardinality({j}) = 1 BY <1>0, HitsFinite, FS_Singleton
<1>5. /\ IsFiniteSet(At1) /\ Cardinality(At1) = Cardinality(Hits(q[j], P))
      /\ IsFiniteSet(At2) /\ Cardinality(At2) = Cardinality(Hits(q2[j], P))
  <2>1. /\ IsFiniteSet(At1) /\ Cardinality(At1) = 1 * Cardinality(Hits(q[j], P)) BY <1>4, FS_Product
  <2>2. /\ IsFiniteSet(At2) /\ Cardinality(At2) = 1 * Cardinality(Hits(q2[j], P)) BY <1>4, FS_Product
  <2> QED BY <1>4, <2>1, <2>2
<1>6. IsFiniteSet(Rest) /\ Cardinality(Rest) \in Nat BY <1>1, FS_Subset, FS_CardinalityType
<1> HIDE DEF Rest, At1, At2
<1>7. Cardinality(Places(q, P)) = Cardinality(Rest) + Cardinality(At1)
  <2>1. Cardinality(Rest \cup At1) = Cardinality(Rest) + Cardinality(At1) - Cardinality({})
    BY <1>2, <1>5, <1>6, FS_Union
  <2> QED BY <1>2, <1>4, <1>5, <1>6, <2>1, FS_EmptySet
<1>8. Cardinality(Places(q2, P)) = Cardinality(Rest) + Cardinality(At2)
  <2>1. Cardinality(Rest \cup At2) = Cardinality(Rest) + Cardinality(At2) - Cardinality({})
    BY <1>3, <1>5, <1>6, FS_Union
  <2> QED BY <1>3, <1>4, <1>5, <1>6, <2>1, FS_EmptySet
<1> QED BY <1>1, <1>4, <1>5, <1>6, <1>7, <1>8

\* A set that changes at x only.
LEMMA SetAt ==
  ASSUME NEW A, IsFiniteSet(A), NEW B, NEW x, A \ {x} = B \ {x}
  PROVE  /\ IsFiniteSet(B)
         /\ Cardinality(A) \in Nat /\ Cardinality(B) \in Nat
         /\ Cardinality(B) = Cardinality(A) - One(x \in A) + One(x \in B)
<1> DEFINE R == A \ {x}
<1>1. /\ IsFiniteSet(R) /\ Cardinality(A) \in Nat
      /\ Cardinality(R) = Cardinality(A) - One(x \in A) BY FS_RemoveElement, FS_CardinalityType DEF One
<1>2. Cardinality(R) \in Nat BY <1>1, FS_CardinalityType
<1>3. B = R \cup {x} \/ B = R OBVIOUS
<1>4. x \notin R OBVIOUS
<1> HIDE DEF R
<1>5. IsFiniteSet(B) /\ Cardinality(B) = Cardinality(R) + One(x \in B)
  BY <1>1, <1>2, <1>3, <1>4, FS_AddElement DEF One
<1>6. Cardinality(B) \in Nat BY <1>5, FS_CardinalityType
<1> QED BY <1>1, <1>2, <1>5, <1>6 DEF One

LEMMA FiniteFacts ==
  /\ IsFiniteSet(Thread)
  /\ IsFiniteSet(Thread \X (1 .. 3))
  /\ \A v \in Vertex : /\ IsFiniteSet({r \in Replica : r[2] = v})
                       /\ IsFiniteSet(MirrorsOf(v)) /\ Cardinality(MirrorsOf(v)) \in 0 .. 254
  /\ \A r \in Replica : IsFiniteSet(EdgesAt(r)) /\ Cardinality(EdgesAt(r)) \in Nat
<1>1. IsFiniteSet(Machine) /\ IsFiniteSet(Edges) /\ IsFiniteSet(Workers \cup Handlers)
  BY ConstantsAssumption DEF ConstantsAssumption
<1>2. IsFiniteSet(Thread) BY <1>1, FS_Product DEF Thread
<1>3. IsFiniteSet(Thread \X (1 .. 3))
  <2>1. \A n \in Nat : IsFiniteSet(1 .. n) BY FS_Interval
  <2>2. IsFiniteSet(1 .. 3) BY <2>1, Zenon
  <2> QED BY <1>2, <2>2, FS_Product
<1>4. ASSUME NEW v \in Vertex
      PROVE  /\ IsFiniteSet({r \in Replica : r[2] = v})
             /\ IsFiniteSet(MirrorsOf(v)) /\ Cardinality(MirrorsOf(v)) \in 0 .. 254
  <2>1. IsFiniteSet(Machine \X {v}) BY <1>1, FS_Product, FS_Singleton
  <2>2. {r \in Replica : r[2] = v} \in SUBSET (Machine \X {v}) BY SetFacts
  <2>3. MirrorsOf(v) \in SUBSET {r \in Replica : r[2] = v} BY DEF MirrorsOf, Mirror
  <2>4. IsFiniteSet({r \in Replica : r[2] = v}) BY <2>1, <2>2, FS_Subset
  <2>5. IsFiniteSet(MirrorsOf(v)) BY <2>3, <2>4, FS_Subset
  <2>6. Cardinality(MirrorsOf(v)) \in Nat /\ Cardinality(MirrorsOf(v)) < 255
    BY <2>5, FS_CardinalityType, MirrorsAssumption DEF MirrorsAssumption
  <2> QED BY <2>4, <2>5, <2>6
<1>5. ASSUME NEW r \in Replica
      PROVE  IsFiniteSet(EdgesAt(r)) /\ Cardinality(EdgesAt(r)) \in Nat
  BY <1>1, FS_Subset, FS_CardinalityType DEF EdgesAt
<1> QED BY <1>2, <1>3, <1>4, <1>5

\* The parts of Owed.
NHungry(v) == Cardinality(HungryReplicas(v))
NCalls(v) == Cardinality(CallsTo(v))
NReady(v) == Cardinality(ReadyCalls(v))
NAccepting(v) == Cardinality(Accepting(v))
NListed(v) == Cardinality(Places(Listed, {v}))

LEMMA OwedParts ==
  ASSUME NEW v \in Vertex
  PROVE  Owed(v) = NHungry(v) + NCalls(v) + NReady(v) + NAccepting(v) + NListed(v)
BY DEF Owed, NHungry, NCalls, NReady, NAccepting, NListed

St(r) == phil[r].state

LEMMA AcceptingIs ==
  ASSUME NEW v \in Vertex
  PROVE  Accepting(v) = {t \in Thread : Accepts(stack[t], v)}
BY DEF Accepting, Doing, At, Idle, Top, Accepts

LEMMA AcceptingAt ==
  ASSUME NEW t \in Thread, \A u \in Thread \ {t} : stack'[u] = stack[u], NEW v \in Vertex
  PROVE  /\ NAccepting(v) \in Nat /\ NAccepting(v)' \in Nat
         /\ NAccepting(v)' = NAccepting(v) - One(Accepts(stack[t], v)) + One(Accepts(stack'[t], v))
<1> DEFINE A == {u \in Thread : Accepts(stack[u], v)}
           B == {u \in Thread : Accepts(stack'[u], v)}
<1>1. A = Accepting(v) BY AcceptingIs
<1>2. B = Accepting(v)' BY DEF Accepting, Doing, At, Idle, Top, Accepts
<1>3. IsFiniteSet(A) BY FiniteFacts, FS_Subset
<1>4. A \ {t} = B \ {t} OBVIOUS
<1>5. (t \in A <=> Accepts(stack[t], v)) /\ (t \in B <=> Accepts(stack'[t], v)) OBVIOUS
<1> HIDE DEF A, B
<1>6. /\ Cardinality(A) \in Nat /\ Cardinality(B) \in Nat
      /\ Cardinality(B) = Cardinality(A) - One(t \in A) + One(t \in B) BY <1>3, <1>4, SetAt
<1>7. NAccepting(v) = Cardinality(A) /\ NAccepting(v)' = Cardinality(B) BY <1>1, <1>2 DEF NAccepting
<1> QED BY <1>5, <1>6, <1>7 DEF One

\* The lists of a stack are sequences of vertices.
LEMMA ListsTyped ==
  ASSUME NEW s \in Seq(Frame), Depth(s) \in {0, 1, 2, 3}, NEW n \in 1 .. 3
  PROVE  Lists(s, n) \in Seq(Vertex)
<1>1. << >> \in Seq(Vertex) BY EmptySeq
<1>2. CASE Depth(s) < n BY <1>1, <1>2 DEF Lists
<1>3. CASE n = Depth(s)
  <2>1. Lists(s, n) = ReadyIn(s[1]) /\ s[1] \in Frame BY <1>3, DepthFacts DEF Lists, ReadyIn
  <2> QED BY <2>1, FrameFields
<1>4. CASE Depth(s) \in {2, 3} /\ n = Depth(s) - 1
  <2>1. Lists(s, n) = ReadyIn(s[2]) /\ s[2] \in Frame BY <1>4, DepthFacts DEF Lists, ReadyIn
  <2> QED BY <2>1, FrameFields
<1>5. CASE Depth(s) = 3 /\ n = 1
  <2>1. Lists(s, n) = ReadyIn(s[3]) /\ s[3] \in Frame BY <1>5, DepthFacts DEF Lists, ReadyIn
  <2> QED BY <2>1, FrameFields
<1> QED BY <1>2, <1>3, <1>4, <1>5

FineStacks == stack \in [Thread -> Seq(Frame)] /\ \A t \in Thread : Fine(t[1], stack[t])

NHits(s, v) == Cardinality(Hits(s, {v}))

LEMMA NHitsFacts ==
  ASSUME NEW s \in Seq(Vertex), NEW v \in Vertex
  PROVE  /\ NHits(s, v) \in Nat
         /\ \A x \in Vertex : NHits(Append(s, x), v) = NHits(s, v) + One(x = v)
         /\ s # << >> => NHits(Tail(s), v) = NHits(s, v) - One(s[1] = v)
<1> DEFINE P == {v}
<1>1. \A x : x \in P <=> x = v OBVIOUS
<1>2. \A r : NHits(r, v) = Cardinality(Hits(r, P)) BY DEF NHits
<1> HIDE DEF P
<1>3. Cardinality(Hits(s, P)) \in Nat BY HitsFinite
<1>4. \A x \in Vertex : Cardinality(Hits(Append(s, x), P)) = Cardinality(Hits(s, P)) + One(x \in P)
  BY HitsAppend
<1>5. s # << >> => Cardinality(Hits(Tail(s), P)) = Cardinality(Hits(s, P)) - One(s[1] \in P) BY HitsTail
<1> QED BY <1>1, <1>2, <1>3, <1>4, <1>5 DEF One

LEMMA ListedIs ==
  Listed = [p \in Thread \X (1 .. 3) |-> Lists(stack[p[1]], p[2])]
BY DEF Listed, Lists, FrameAt, Depth, HasReady

LEMMA ListedPrime ==
  Listed' = [p \in Thread \X (1 .. 3) |-> Lists(stack'[p[1]], p[2])]
BY DEF Listed, Lists, FrameAt, Depth, HasReady

\* Whom thread t has to signal changes in one of its functions at most.
LEMMA ListedAt ==
  ASSUME FineStacks, FineStacks', NEW t \in Thread, \A u \in Thread \ {t} : stack'[u] = stack[u],
         NEW n \in 1 .. 3, NEW ready, Changes(stack[t], stack'[t], n, ready), NEW v \in Vertex
  PROVE  /\ NListed(v) \in Nat /\ NListed(v)' \in Nat
         /\ ready \in Seq(Vertex) /\ Lists(stack[t], n) \in Seq(Vertex)
         /\ NListed(v)' = NListed(v) - NHits(Lists(stack[t], n), v)
                                     + NHits(ready, v)
<1> DEFINE D == Thread \X (1 .. 3)
           q == [p \in D |-> Lists(stack[p[1]], p[2])]
           q2 == [p \in D |-> Lists(stack'[p[1]], p[2])]
<1>1. IsFiniteSet(D) BY FiniteFacts
<1>2. q \in [D -> Seq(Vertex)] BY ListsTyped DEF FineStacks, Fine, Shaped
<1>3. q2 \in [D -> Seq(Vertex)] BY ListsTyped DEF FineStacks, Fine, Shaped, Depth
<1>4. Listed = q /\ Listed' = q2 BY ListedIs, ListedPrime
<1> DEFINE j == <<t, n>>
<1>5. j \in D /\ q[j] = Lists(stack[t], n) /\ q2[j] = ready BY DEF Changes
<1>6. \A p \in D : p # j => q2[p] = q[p]
  <2> SUFFICES ASSUME NEW p \in D, p # j PROVE q2[p] = q[p] OBVIOUS
  <2>1. CASE p[1] = t BY <2>1 DEF Changes
  <2>2. CASE p[1] # t BY <2>2
  <2> QED BY <2>1, <2>2
<1> HIDE DEF q, q2, D, j
<1> DEFINE P == {v}
<1>9. NListed(v) = Cardinality(Places(q, P)) /\ NListed(v)' = Cardinality(Places(q2, P))
  BY <1>4 DEF NListed
<1>10. \A r : NHits(r, v) = Cardinality(Hits(r, P)) BY DEF NHits
<1> HIDE DEF P
<1>7. Cardinality(Places(q2, P)) = Cardinality(Places(q, P))
          - Cardinality(Hits(q[j], P)) + Cardinality(Hits(q2[j], P))
  <2>1. Sequences(q, D, Vertex) /\ Sequences(q2, D, Vertex) BY <1>2, <1>3 DEF Sequences
  <2> QED BY <1>1, <1>5, <1>6, <2>1, PlacesAt
<1>8. Cardinality(Places(q, P)) \in Nat /\ Cardinality(Places(q2, P)) \in Nat
  BY <1>1, <1>2, <1>3, PlacesFacts
<1> QED BY <1>2, <1>3, <1>5, <1>7, <1>8, <1>9, <1>10

LEMMA ListedKept ==
  ASSUME FineStacks, FineStacks', NEW t \in Thread, \A u \in Thread \ {t} : stack'[u] = stack[u],
         Keeps(stack[t], stack'[t]), NEW v \in Vertex
  PROVE  NListed(v) \in Nat /\ NListed(v)' = NListed(v)
<1>1. Changes(stack[t], stack'[t], 1, Lists(stack[t], 1)) BY DEF Keeps, Changes
<1>2. /\ NListed(v) \in Nat /\ Lists(stack[t], 1) \in Seq(Vertex)
      /\ NListed(v)' = NListed(v) - NHits(Lists(stack[t], 1), v)
                                  + NHits(Lists(stack[t], 1), v) BY <1>1, ListedAt
<1>3. NHits(Lists(stack[t], 1), v) \in Nat BY <1>2, NHitsFacts
<1> QED BY <1>2, <1>3

LEMMA ListedMore ==
  ASSUME FineStacks, FineStacks', NEW t \in Thread, \A u \in Thread \ {t} : stack'[u] = stack[u],
         NEW b \in BOOLEAN, NEW x \in Vertex,
         Adds(stack[t], stack'[t], IF b THEN <<x>> ELSE << >>), NEW v \in Vertex
  PROVE  NListed(v) \in Nat /\ NListed(v)' = NListed(v) + One(b /\ v = x)
<1> DEFINE more == IF b THEN <<x>> ELSE << >>
<1>1. PICK n \in 1 .. 3 : Changes(stack[t], stack'[t], n, Lists(stack[t], n) \o more) BY DEF Adds
<1> DEFINE s == Lists(stack[t], n)
<1>d. Changes(stack[t], stack'[t], n, s \o more) BY <1>1
<1> HIDE DEF more
<1>2. /\ NListed(v) \in Nat /\ s \in Seq(Vertex)
      /\ NListed(v)' = NListed(v) - NHits(s, v) + NHits(s \o more, v) BY <1>d, ListedAt
<1> HIDE DEF s
<1>3. NHits(s, v) \in Nat BY <1>2, NHitsFacts
<1>4. NHits(s \o more, v) = NHits(s, v) + One(b /\ v = x)
  <2>1. CASE b
    <3>1. s \o more = Append(s, x) BY <1>2, <2>1, AppendIsConcat DEF more
    <3>2. NHits(Append(s, x), v) = NHits(s, v) + One(x = v) BY <1>2, NHitsFacts
    <3> QED BY <2>1, <3>1, <3>2 DEF One
  <2>2. CASE ~b
    <3>1. s \o more = s BY <1>2, <2>2, ConcatEmptySeq DEF more
    <3> QED BY <1>3, <2>2, <3>1 DEF One
  <2> QED BY <2>1, <2>2
<1> QED BY <1>2, <1>3, <1>4 DEF One

LEMMA ListedLess ==
  ASSUME FineStacks, FineStacks', NEW t \in Thread, \A u \in Thread \ {t} : stack'[u] = stack[u],
         NEW n \in 1 .. 3, Lists(stack[t], n) # << >>,
         Changes(stack[t], stack'[t], n, Tail(Lists(stack[t], n))), NEW v \in Vertex
  PROVE  /\ NListed(v) \in Nat /\ NListed(v)' \in Nat
         /\ NListed(v)' = NListed(v) - One(v = Head(Lists(stack[t], n)))
<1> DEFINE s == Lists(stack[t], n)
           rest == Tail(s)
<1>d. Changes(stack[t], stack'[t], n, rest) OBVIOUS
<1>e. rest = Tail(s) OBVIOUS
<1> HIDE DEF rest
<1>1. /\ NListed(v) \in Nat /\ NListed(v)' \in Nat /\ s \in Seq(Vertex)
      /\ NListed(v)' = NListed(v) - NHits(s, v) + NHits(rest, v) BY <1>d, ListedAt
<1>2. s # << >> OBVIOUS
<1> HIDE DEF s
<1>3. NHits(s, v) \in Nat BY <1>1, NHitsFacts
<1>4. NHits(rest, v) = NHits(s, v) - One(s[1] = v) BY <1>e, <1>1, <1>2, NHitsFacts
<1>5. Head(s) = s[1] BY <1>1, <1>2, Below
<1>6. One(s[1] = v) = One(v = Head(s)) BY <1>5 DEF One
<1>7. One(v = Head(s)) \in {0, 1} BY DEF One
<1>8. NListed(v)' = NListed(v) - One(v = Head(s)) BY <1>1, <1>3, <1>4, <1>6, <1>7
<1> QED BY <1>1, <1>8 DEF s

\* How many members of P are on their way to, or from, the mirrors of v.
Mail(b, v, P) == Cardinality(Places([r \in MirrorsOf(v) |-> b[r]], P))
Mailboxes(b) == b \in [Mirror -> Seq(Message)]

LEMMA MailTyped ==
  ASSUME NEW b, Mailboxes(b), NEW v \in Vertex, NEW P
  PROVE  Mail(b, v, P) \in Nat
<1> DEFINE D == MirrorsOf(v)
           q == [r \in D |-> b[r]]
<1>1. IsFiniteSet(D) BY FiniteFacts
<1>2. q \in [D -> Seq(Message)] BY SetFacts DEF Mailboxes
<1> HIDE DEF D, q
<1>3. Cardinality(Places(q, P)) \in Nat BY <1>1, <1>2, PlacesFacts
<1> QED BY <1>3 DEF Mail, q, D

NIn(s, P) == Cardinality(Hits(s, P))

LEMMA MailAt ==
  ASSUME NEW b, Mailboxes(b), NEW b2, Mailboxes(b2), NEW r \in Mirror,
         \A i \in Mirror : i # r => b2[i] = b[i], NEW v \in Vertex, NEW P
  PROVE  Mail(b2, v, P) = IF r[2] = v
                          THEN Mail(b, v, P) - NIn(b[r], P) + NIn(b2[r], P)
                          ELSE Mail(b, v, P)
<1> DEFINE D == MirrorsOf(v)
           q == [i \in D |-> b[i]]
           q2 == [i \in D |-> b2[i]]
<1>1. IsFiniteSet(D) BY FiniteFacts
<1>2. Sequences(q, D, Message) /\ Sequences(q2, D, Message) BY SetFacts DEF Mailboxes, Sequences
<1>3. CASE r[2] = v
  <2>1. r \in D /\ q[r] = b[r] /\ q2[r] = b2[r] BY <1>3 DEF MirrorsOf
  <2>2. \A i \in D : i # r => q2[i] = q[i] BY SetFacts
  <2>3. Mail(b, v, P) = Cardinality(Places(q, P)) /\ Mail(b2, v, P) = Cardinality(Places(q2, P))
    BY DEF Mail
  <2> HIDE DEF D, q, q2
  <2>4. Cardinality(Places(q2, P))
          = Cardinality(Places(q, P)) - Cardinality(Hits(q[r], P)) + Cardinality(Hits(q2[r], P))
    BY <1>1, <1>2, <2>1, <2>2, PlacesAt
  <2> QED BY <1>3, <2>1, <2>3, <2>4 DEF NIn
<1>4. CASE r[2] # v BY <1>4, SetFacts DEF MirrorsOf, Mail
<1> QED BY <1>3, <1>4

\* A call to r, and the i-th call of r taken.
Sent1(b, b2, r, m) == b2 = [b EXCEPT ![r] = Append(@, m)]
Taken1(b, b2, r, i) == b2 = [b EXCEPT ![r] = Without(@, i)]

LEMMA MailSent ==
  ASSUME NEW b, Mailboxes(b), NEW b2, NEW r \in Mirror, NEW m \in Message,
         Sent1(b, b2, r, m), NEW v \in Vertex, NEW P
  PROVE  Mailboxes(b2) /\ Mail(b2, v, P) = Mail(b, v, P) + One(r[2] = v /\ m \in P)
<1>1. b[r] \in Seq(Message) /\ b2[r] = Append(b[r], m) /\ \A i \in Mirror : i # r => b2[i] = b[i]
  BY DEF Mailboxes, Sent1
<1>2. Append(b[r], m) \in Seq(Message) BY <1>1, AppendProperties
<1>3. Mailboxes(b2) BY <1>2 DEF Mailboxes, Sent1
<1>4. NIn(b2[r], P) = NIn(b[r], P) + One(m \in P) BY <1>1, HitsAppend DEF NIn
<1>5. NIn(b[r], P) \in Nat BY <1>1, HitsFinite DEF NIn
<1>6. Mail(b2, v, P) = IF r[2] = v THEN Mail(b, v, P) - NIn(b[r], P) + NIn(b2[r], P) ELSE Mail(b, v, P)
  <2>1. Mailboxes(b) /\ Mailboxes(b2) /\ (\A i \in Mirror : i # r => b2[i] = b[i]) BY <1>1, <1>3
  <2> QED BY <2>1, MailAt
<1>7. Mail(b, v, P) \in Nat BY MailTyped
<1> QED BY <1>3, <1>4, <1>5, <1>6, <1>7 DEF One

\* The i-th call of a queue is taken.
LEMMA WithoutFacts ==
  ASSUME NEW S, NEW s \in Seq(S), NEW i \in DOMAIN s
  PROVE  LET s2 == Without(s, i) IN
         /\ i \in 1 .. Len(s) /\ Len(s) \in Nat \ {0} /\ s[i] \in S
         /\ s2 \in Seq(S) /\ Len(s2) = Len(s) - 1
         /\ \A j \in 1 .. Len(s) - 1 : s2[j] = IF j < i THEN s[j] ELSE s[j + 1]
<1> DEFINE n == Len(s)
           a == SubSeq(s, 1, i - 1)
           b == SubSeq(s, i + 1, n)
<1>1. n \in Nat /\ i \in 1 .. n /\ s[i] \in S BY LenProperties, ElementOfSeq
<1>2. /\ a \in Seq(S) /\ Len(a) = i - 1
      /\ \A j \in 1 .. i - 1 : a[j] = s[j]
  <2>1. 1 \in 1 .. n + 1 /\ i - 1 \in 0 .. n BY <1>1
  <2>2. /\ SubSeq(s, 1, i - 1) \in Seq(S)
        /\ Len(SubSeq(s, 1, i - 1)) = IF 1 <= i - 1 THEN i - 1 - 1 + 1 ELSE 0
        /\ \A j \in 1 .. i - 1 - 1 + 1 : SubSeq(s, 1, i - 1)[j] = s[1 + j - 1]
    BY <2>1, SubSeqProperties
  <2> QED BY <1>1, <2>2
<1>3. /\ b \in Seq(S) /\ Len(b) = n - i
      /\ \A j \in 1 .. n - i : b[j] = s[i + j]
  <2>1. i + 1 \in 1 .. n + 1 /\ n \in i .. n BY <1>1
  <2>2. /\ SubSeq(s, i + 1, n) \in Seq(S)
        /\ Len(SubSeq(s, i + 1, n)) = IF i + 1 <= n THEN n - (i + 1) + 1 ELSE 0
        /\ \A j \in 1 .. n - (i + 1) + 1 : SubSeq(s, i + 1, n)[j] = s[i + 1 + j - 1]
    BY <1>1, <2>1, SubSeqProperties
  <2> QED BY <1>1, <2>2
<1>4. Without(s, i) = a \o b BY DEF Without
<1> HIDE DEF a, b, n
<1>5. /\ a \o b \in Seq(S) /\ Len(a \o b) = Len(a) + Len(b)
      /\ \A j \in 1 .. Len(a) + Len(b) : (a \o b)[j] = IF j <= Len(a) THEN a[j] ELSE b[j - Len(a)]
  BY <1>2, <1>3, ConcatProperties
<1>6. ASSUME NEW j \in 1 .. n - 1
      PROVE  (a \o b)[j] = IF j < i THEN s[j] ELSE s[j + 1]
  <2>0. Len(a) = i - 1 /\ j \in 1 .. Len(a) + Len(b) BY <1>1, <1>2, <1>3
  <2>1. (a \o b)[j] = IF j <= i - 1 THEN a[j] ELSE b[j - (i - 1)]
    <3> HIDE <1>5
    <3>1. (a \o b)[j] = IF j <= Len(a) THEN a[j] ELSE b[j - Len(a)] BY <1>5, <2>0
    <3> QED BY <2>0, <3>1
  <2>2. CASE j < i BY <1>1, <1>2, <2>1, <2>2
  <2>3. CASE ~(j < i)
    <3>1. j - (i - 1) \in 1 .. n - i /\ i + (j - (i - 1)) = j + 1 BY <1>1, <2>3
    <3> QED BY <1>1, <1>3, <2>1, <2>3, <3>1
  <2> QED BY <2>2, <2>3
<1> QED BY <1>1, <1>2, <1>3, <1>4, <1>5, <1>6 DEF n

LEMMA HitsWithout ==
  ASSUME NEW S, NEW s \in Seq(S), NEW i \in DOMAIN s, NEW P
  PROVE  Cardinality(Hits(Without(s, i), P)) = Cardinality(Hits(s, P)) - One(s[i] \in P)
<1> DEFINE n == Len(s)
           s2 == Without(s, i)
           A == Hits(s, P) \ {i}
           B == Hits(s2, P)
           f == [j \in A |-> IF j < i THEN j ELSE j - 1]
<1>1. /\ n \in Nat \ {0} /\ i \in 1 .. n /\ Len(s2) = n - 1
      /\ \A j \in 1 .. n - 1 : s2[j] = IF j < i THEN s[j] ELSE s[j + 1] BY WithoutFacts
<1>2. IsFiniteSet(Hits(s, P)) /\ Cardinality(Hits(s, P)) \in Nat BY HitsFinite
<1>3. Hits(s, P) = {j \in 1 .. n : s[j] \in P} BY DEF Hits
<1>4. B = {j \in 1 .. n - 1 : s2[j] \in P} BY <1>1 DEF Hits
<1> HIDE DEF s2, n, B
<1>5. IsFiniteSet(A) /\ Cardinality(A) = Cardinality(Hits(s, P)) - One(s[i] \in P)
  <2>1. i \in Hits(s, P) <=> s[i] \in P BY <1>1, <1>3
  <2> QED BY <1>2, <2>1, FS_RemoveElement DEF One
<1>6. A = {j \in 1 .. n : j # i /\ s[j] \in P} BY <1>1, <1>3
<1> HIDE DEF A
<1>7. f \in Bijection(A, B)
  <2>1. f \in [A -> B]
    <3>1. ASSUME NEW j \in A PROVE (IF j < i THEN j ELSE j - 1) \in B
      <4>1. j \in 1 .. n /\ j # i /\ s[j] \in P BY <1>6
      <4>2. CASE j < i
        <5>1. j \in 1 .. n - 1 /\ s2[j] = s[j] BY <1>1, <4>1, <4>2
        <5> QED BY <1>4, <4>1, <4>2, <5>1
      <4>3. CASE ~(j < i)
        <5>1. j - 1 \in 1 .. n - 1 /\ ~(j - 1 < i) /\ j - 1 + 1 = j BY <1>1, <4>1, <4>3
        <5>2. s2[j - 1] = s[j] BY <1>1, <5>1
        <5> QED BY <1>4, <4>1, <4>3, <5>1, <5>2
      <4> QED BY <4>2, <4>3
    <3> QED BY <3>1
  <2>2. \A b \in B : \E a \in A : f[a] = b
    <3> TAKE b \in B
    <3>1. b \in 1 .. n - 1 /\ s2[b] \in P BY <1>4
    <3>2. CASE b < i
      <4>1. b \in A BY <1>1, <1>6, <3>1, <3>2
      <4> QED BY <3>2, <4>1
    <3>3. CASE ~(b < i)
      <4>1. b + 1 \in A /\ ~(b + 1 < i) /\ b + 1 - 1 = b BY <1>1, <1>6, <3>1, <3>3
      <4>2. \A j \in A : ~(j < i) => f[j] = j - 1 OBVIOUS
      <4> HIDE DEF f
      <4>3. b \in Int /\ b + 1 \in Int BY <1>1, <3>1
      <4>4. f[b + 1] = b + 1 - 1 BY <4>1, <4>2, <4>3
      <4> QED BY <4>1, <4>4
    <3> QED BY <3>2, <3>3
  <2>3. \A a, b \in A : f[a] = f[b] => a = b
    <3> SUFFICES ASSUME NEW a \in A, NEW b \in A, f[a] = f[b] PROVE a = b OBVIOUS
    <3>1. a \in 1 .. n /\ b \in 1 .. n /\ a # i /\ b # i BY <1>6
    <3>2. (IF a < i THEN a ELSE a - 1) = (IF b < i THEN b ELSE b - 1) OBVIOUS
    <3> QED BY <1>1, <3>1, <3>2
  <2> QED BY <2>1, <2>2, <2>3 DEF Bijection, Injection, Surjection, IsInjective
<1>8. Cardinality(B) = Cardinality(A) BY <1>5, <1>7, FS_Bijection DEF ExistsBijection
<1> QED BY <1>5, <1>8 DEF B, s2

LEMMA MailTaken ==
  ASSUME NEW b, Mailboxes(b), NEW b2, NEW r \in Mirror, NEW i \in DOMAIN b[r],
         Taken1(b, b2, r, i), NEW v \in Vertex, NEW P
  PROVE  Mailboxes(b2) /\ Mail(b2, v, P) = Mail(b, v, P) - One(r[2] = v /\ b[r][i] \in P)
<1>1. b[r] \in Seq(Message) /\ b2[r] = Without(b[r], i) /\ \A j \in Mirror : j # r => b2[j] = b[j]
  BY DEF Mailboxes, Taken1
<1>2. Without(b[r], i) \in Seq(Message) BY <1>1, WithoutFacts
<1>3. Mailboxes(b2) BY <1>2 DEF Mailboxes, Taken1
<1>4. NIn(b2[r], P) = NIn(b[r], P) - One(b[r][i] \in P) BY <1>1, HitsWithout DEF NIn
<1>5. NIn(b[r], P) \in Nat BY <1>1, HitsFinite DEF NIn
<1>6. Mail(b2, v, P) = IF r[2] = v THEN Mail(b, v, P) - NIn(b[r], P) + NIn(b2[r], P) ELSE Mail(b, v, P)
  BY <1>1, <1>3, MailAt
<1>7. Mail(b, v, P) \in Nat BY MailTyped
<1> QED BY <1>3, <1>4, <1>5, <1>6, <1>7 DEF One

\* A call to every mirror of v.
SentToAll(b, b2, v, m) ==
  b2 = [r \in Mirror |-> IF r[2] = v THEN Append(b[r], m) ELSE b[r]]

LEMMA MailBroadcast ==
  ASSUME NEW b, Mailboxes(b), NEW b2, NEW v \in Vertex, NEW m \in Message,
         SentToAll(b, b2, v, m), NEW P
  PROVE  /\ Mailboxes(b2)
         /\ \A w \in Vertex : w # v \/ m \notin P => Mail(b2, w, P) = Mail(b, w, P)
         /\ Mail(b, v, P) = 0 /\ m \in P => Mail(b2, v, P) = Cardinality(MirrorsOf(v))
<1>1. \A r \in Mirror : b[r] \in Seq(Message) /\ Append(b[r], m) \in Seq(Message)
  BY AppendProperties DEF Mailboxes
<1>2. Mailboxes(b2) BY <1>1 DEF Mailboxes, SentToAll
<1>3. \A r \in Mirror : b2[r] = IF r[2] = v THEN Append(b[r], m) ELSE b[r] BY DEF SentToAll
<1>4. ASSUME NEW w \in Vertex, w # v
      PROVE  Mail(b2, w, P) = Mail(b, w, P) BY <1>3, <1>4, SetFacts DEF Mail
<1> DEFINE D == MirrorsOf(v)
           q == [r \in D |-> b[r]]
           q2 == [r \in D |-> b2[r]]
<1>5. /\ IsFiniteSet(D) /\ q \in [D -> Seq(Message)] /\ q2 \in [D -> Seq(Message)]
      /\ \A r \in D : q2[r] = Append(q[r], m) BY <1>1, <1>2, <1>3, SetFacts, FiniteFacts DEF Mailboxes
<1>6. Mail(b, v, P) = Cardinality(Places(q, P)) /\ Mail(b2, v, P) = Cardinality(Places(q2, P))
  BY DEF Mail
<1>d. D = MirrorsOf(v) OBVIOUS
<1> HIDE DEF D, q, q2
<1>7. /\ Places(q, P) = UNION {{j} \X Hits(q[j], P) : j \in D}
      /\ IsFiniteSet(Places(q, P)) BY <1>5, PlacesFacts, SMTT(30)
<1>11. Places(q2, P) = UNION {{j} \X Hits(q2[j], P) : j \in D}
  <2>1. IsFiniteSet(D) /\ q2 \in [D -> Seq(Message)] BY <1>5
  <2> QED BY <2>1, PlacesFacts
<1> DEFINE end(j) == Len(q[j]) + 1
<1>8. ASSUME NEW j \in D
      PROVE  Hits(q2[j], P) = Hits(q[j], P) \cup (IF m \in P THEN {end(j)} ELSE {})
  <2> DEFINE n == Len(q[j])
             s == q[j]
             s2 == q2[j]
  <2>0. s \in Seq(Message) /\ s2 = Append(s, m) BY <1>5
  <2>5. n = Len(s) OBVIOUS
  <2> HIDE DEF s, s2, n
  <2>1. /\ n \in Nat /\ Len(s2) = n + 1 /\ s2[n + 1] = m
        /\ \A i \in 1 .. n : s2[i] = s[i] BY <2>0, <2>5, AppendProperties, LenProperties
  <2>2. Hits(s, P) = {i \in 1 .. n : s[i] \in P} BY <2>5 DEF Hits
  <2>3. Hits(s2, P) = {i \in 1 .. n + 1 : s2[i] \in P} BY <2>1 DEF Hits
  <2>4. Hits(s2, P) = Hits(s, P) \cup (IF m \in P THEN {n + 1} ELSE {}) BY <2>1, <2>2, <2>3
  <2> QED BY <2>4 DEF s2, n, s
<1>9. m \notin P => Mail(b2, v, P) = Mail(b, v, P)
  <2> SUFFICES ASSUME m \notin P PROVE Mail(b2, v, P) = Mail(b, v, P) OBVIOUS
  <2>1. \A j \in D : Hits(q2[j], P) = Hits(q[j], P) BY <1>8
  <2>2. Places(q2, P) = Places(q, P) BY <1>7, <1>11, <2>1
  <2> QED BY <1>6, <2>2
<1>10. Mail(b, v, P) = 0 /\ m \in P => Mail(b2, v, P) = Cardinality(MirrorsOf(v))
  <2> SUFFICES ASSUME Mail(b, v, P) = 0, m \in P PROVE Mail(b2, v, P) = Cardinality(D) BY <1>d
  <2>1. Places(q, P) = {} BY <1>6, <1>7, FS_EmptySet
  <2>2. \A j \in D : Hits(q[j], P) = {}
    <3>1. ASSUME NEW j \in D, NEW i \in Hits(q[j], P) PROVE FALSE
      <4>1. <<j, i>> \in Places(q, P) BY <1>7
      <4> QED BY <2>1, <4>1
    <3> QED BY <3>1
  <2>3. \A j \in D : Hits(q2[j], P) = {end(j)} BY <1>8, <2>2
  <2> DEFINE f == [j \in D |-> <<j, end(j)>>]
  <2>4. f \in Bijection(D, Places(q2, P))
    <3>1. \A j \in D : f[j] \in Places(q2, P) BY <1>11, <2>3
    <3>2. ASSUME NEW p \in Places(q2, P) PROVE \E j \in D : f[j] = p
      <4>1. PICK j \in D : p \in {j} \X Hits(q2[j], P) BY <1>11
      <4>2. p = <<j, end(j)>> BY <2>3, <4>1
      <4> QED BY <4>2
    <3>3. \A i, j \in D : f[i] = f[j] => i = j OBVIOUS
    <3> HIDE DEF f
    <3>4. f \in [D -> Places(q2, P)] BY <3>1 DEF f
    <3> QED BY <3>2, <3>3, <3>4 DEF Bijection, Injection, Surjection, IsInjective
  <2>5. Cardinality(Places(q2, P)) = Cardinality(D) BY <1>5, <2>4, FS_Bijection DEF ExistsBijection
  <2> QED BY <1>6, <2>5
<1> QED BY <1>2, <1>4, <1>9, <1>10

-----------------------------------------------------------------------------
(* What a thread is doing, on its machine.                                 *)

EatsAt(t, r) == t[1] = r[1] /\ Eats(stack[t], r[2])
StopsAt(t, r) == t[1] = r[1] /\ Stops(stack[t], r[2])
AcceptsAt(t, r) == t[1] = r[1] /\ Accepts(stack[t], r[2])
EndsAt(t, v) == Ends(stack[t], v)
RepliesAt(t, v) == Replies(stack[t], v)
StrayAt(t, v) == Stray(stack[t], v)

\* Only thread t takes a step.
OnlyThread(t) == \A u \in Thread : u # t => stack'[u] = stack[u]

\* Threads of which none is doing anything but t and its base is what it was.
SameRoles(u) ==
  /\ \A r \in Replica : /\ EatsAt(u, r)' <=> EatsAt(u, r)
                        /\ StopsAt(u, r)' <=> StopsAt(u, r)
                        /\ AcceptsAt(u, r)' <=> AcceptsAt(u, r)
  /\ \A v \in Vertex : /\ EndsAt(u, v)' <=> EndsAt(u, v)
                       /\ RepliesAt(u, v)' <=> RepliesAt(u, v)
                       /\ StrayAt(u, v)' <=> StrayAt(u, v)
LessBase(u) ==
  \A v \in Vertex : /\ EndsAt(u, v)' => EndsAt(u, v)
                    /\ RepliesAt(u, v)' => RepliesAt(u, v)
                    /\ StrayAt(u, v)' => StrayAt(u, v)
PlainAt(u) == \A r \in Replica : ~EatsAt(u, r) /\ ~StopsAt(u, r) /\ ~AcceptsAt(u, r)

LEMMA OthersSame ==
  ASSUME NEW t \in Thread, OnlyThread(t)
  PROVE  \A u \in Thread : u # t => SameRoles(u)
<1> SUFFICES ASSUME NEW u \in Thread, u # t PROVE SameRoles(u) OBVIOUS
<1>1. stack'[u] = stack[u] BY DEF OnlyThread
<1> QED BY <1>1 DEF SameRoles, EatsAt, StopsAt, AcceptsAt, EndsAt, RepliesAt, StrayAt

LEMMA PlainRoles ==
  ASSUME NEW t \in Thread
  PROVE  /\ Plain(stack[t]) => PlainAt(t)
         /\ Plain(stack'[t]) => PlainAt(t)'
         /\ SameBase(stack[t], stack'[t]) => LessBase(t)
<1>1. Plain(stack[t]) => PlainAt(t) BY SetFacts DEF Plain, PlainAt, EatsAt, StopsAt, AcceptsAt
<1>2. Plain(stack'[t]) => PlainAt(t)' BY SetFacts DEF Plain, PlainAt, EatsAt, StopsAt, AcceptsAt
<1>3. SameBase(stack[t], stack'[t]) => LessBase(t) BY DEF SameBase, LessBase, EndsAt, RepliesAt, StrayAt
<1> QED BY <1>1, <1>2, <1>3

-----------------------------------------------------------------------------
(* The calls to a mirror.                                                  *)

HasOp(s, op) == \E i \in 1 .. Len(s) : s[i].op = op
Sent(r, op) == r \in Mirror /\ HasOp(down[r], op)

LEMMA OpsAppend ==
  ASSUME NEW s \in Seq(Message), NEW m \in Message
  PROVE  \A op : HasOp(Append(s, m), op) <=> HasOp(s, op) \/ op = m.op
<1> DEFINE n == Len(s)
           s2 == Append(s, m)
<1>1. /\ n \in Nat /\ Len(s2) = n + 1 /\ s2[n + 1] = m
      /\ \A i \in 1 .. n : s2[i] = s[i] BY AppendProperties, LenProperties
<1>2. /\ \A op : HasOp(s, op) <=> \E i \in 1 .. n : s[i].op = op
      /\ \A op : HasOp(s2, op) <=> \E i \in 1 .. n + 1 : s2[i].op = op BY <1>1 DEF HasOp
<1> HIDE DEF n, s2, HasOp
<1>3. \A i \in 1 .. n + 1 : i \in 1 .. n \/ i = n + 1 BY <1>1
<1>4. (\A i \in 1 .. n : i \in 1 .. n + 1) /\ n + 1 \in 1 .. n + 1 BY <1>1
<1>5. \A op : HasOp(s2, op) <=> HasOp(s, op) \/ op = m.op BY <1>1, <1>2, <1>3, <1>4
<1> QED BY <1>5 DEF s2

LEMMA OpsWithout ==
  ASSUME NEW s \in Seq(Message), NEW i \in DOMAIN s
  PROVE  /\ s[i] \in Message /\ HasOp(s, s[i].op)
         /\ \A op : HasOp(Without(s, i), op) => HasOp(s, op)
         /\ \A op : HasOp(s, op) => HasOp(Without(s, i), op) \/ op = s[i].op
<1> DEFINE n == Len(s)
           s2 == Without(s, i)
<1>1. /\ i \in 1 .. n /\ n \in Nat \ {0} /\ s[i] \in Message /\ Len(s2) = n - 1
      /\ \A j \in 1 .. n - 1 : s2[j] = IF j < i THEN s[j] ELSE s[j + 1] BY WithoutFacts
<1>2. /\ \A op : HasOp(s, op) <=> \E j \in 1 .. n : s[j].op = op
      /\ \A op : HasOp(s2, op) <=> \E j \in 1 .. n - 1 : s2[j].op = op BY <1>1 DEF HasOp
<1> HIDE DEF n, s2, HasOp
<1>3. ASSUME NEW op, HasOp(s2, op) PROVE HasOp(s, op)
  <2>1. PICK j \in 1 .. n - 1 : s2[j].op = op BY <1>2, <1>3
  <2>2. j \in 1 .. n /\ j + 1 \in 1 .. n /\ (s2[j] = s[j] \/ s2[j] = s[j + 1]) BY <1>1
  <2> QED BY <1>2, <2>1, <2>2
<1>4. ASSUME NEW op, HasOp(s, op), op # s[i].op PROVE HasOp(s2, op)
  <2>1. PICK j \in 1 .. n : s[j].op = op BY <1>2, <1>4
  <2>2. j # i BY <1>4, <2>1
  <2>3. CASE j < i
    <3>1. j \in 1 .. n - 1 /\ s2[j] = s[j] BY <1>1, <2>3
    <3> QED BY <1>2, <2>1, <3>1
  <2>4. CASE ~(j < i)
    <3>1. j - 1 \in 1 .. n - 1 /\ ~(j - 1 < i) /\ j - 1 + 1 = j BY <1>1, <2>2, <2>4
    <3>2. s2[j - 1] = s[j] BY <1>1, <3>1
    <3> QED BY <1>2, <2>1, <3>1, <3>2
  <2> QED BY <2>3, <2>4
<1>5. HasOp(s, s[i].op) BY <1>1, <1>2
<1> QED BY <1>1, <1>3, <1>4, <1>5 DEF s2

-----------------------------------------------------------------------------
(* What there is is counted.                                               *)

LEMMA SomeCounted ==
  ASSUME NEW A, IsFiniteSet(A), NEW x \in A
  PROVE  Cardinality(A) \in Nat \ {0} BY FS_EmptySet, FS_CardinalityType

LEMMA MessageKinds ==
  ASSUME NEW m \in Message
  PROVE  /\ m \in Calling <=> m.op \in {"hungry", "accept"}
         /\ m \in [op : {"ready"}] <=> m.op = "ready"
         /\ m.op \in {"hungry", "cancel"} => m.lockid \in BOOLEAN
         /\ m.op \in {"hungry", "cancel", "eat", "accept", "stop", "ready"}
<1>1. CASE m \in [op : {"hungry", "cancel"}, lockid : BOOLEAN] BY <1>1 DEF Calling
<1>2. CASE m \in [op : {"eat", "accept", "stop", "ready"}]
  <2>1. m.op \in {"eat", "accept", "stop", "ready"} BY <1>2
  <2>2. m.op = "accept" => m \in [op : {"accept"}] BY <1>2
  <2>3. m.op = "ready" => m \in [op : {"ready"}] BY <1>2
  <2>4. m \in [op : {"hungry"}, lockid : BOOLEAN] => m.op = "hungry" OBVIOUS
  <2>5. (m \in [op : {"accept"}] => m.op = "accept") /\ (m \in [op : {"ready"}] => m.op = "ready")
    OBVIOUS
  <2> QED BY <2>1, <2>2, <2>3, <2>4, <2>5 DEF Calling
<1> QED BY <1>1, <1>2 DEF Message

\* A call in a queue is in the mail.
LEMMA InTheMail ==
  ASSUME NEW b, Mailboxes(b), NEW r \in Mirror, NEW i \in 1 .. Len(b[r]), NEW P, b[r][i] \in P
  PROVE  Mail(b, r[2], P) \in Nat \ {0}
<1> DEFINE D == MirrorsOf(r[2])
           q == [x \in D |-> b[x]]
<1>1. IsFiniteSet(D) /\ q \in [D -> Seq(Message)] /\ r \in D /\ q[r] = b[r]
  BY SetFacts, FiniteFacts DEF Mailboxes
<1>m. Mail(b, r[2], P) = Cardinality(Places(q, P)) BY DEF Mail
<1> HIDE DEF D, q
<1>2. /\ Places(q, P) = UNION {{j} \X Hits(q[j], P) : j \in D}
      /\ IsFiniteSet(Places(q, P)) BY <1>1, PlacesFacts
<1>3. i \in Hits(q[r], P) BY <1>1 DEF Hits
<1>4. <<r, i>> \in Places(q, P) BY <1>1, <1>2, <1>3
<1> QED BY <1>2, <1>4, <1>m, SomeCounted

Counter(v) == phil[Master(v)].counter
Owned(r) == {e \in EdgesAt(r) : fork[e].owner = r[2]}
Owns(r) == \A e \in EdgesAt(r) : fork[e].owner = r[2]

\* Replicas stop because the program of their vertex has ended.
Reaped == Client = "replica" \/ Mirror = {}

\* A replica with all the forks of its machine, that nobody takes from it ...
HasAll(r) == St(r) \in {"hors_doeuvre", "eating"} /\ Owns(r)
\* ... and one that will be made hungry.
Expecting(r) == Sent(r, "hungry") \/ Sent(r, "accept") \/ \E t \in Thread : AcceptsAt(t, r)

\* Replicas that have not all their forks, of vertices that should get them: those
\* that are hungry, and those that a late call has made eat.
Wanting(r) == Reaped /\ client[r[2]] \in {"hungry", "eating"}
Lost(r) == Wanting(r) /\ ~Expecting(r) /\ ~HasAll(r)
Waiting(r) == St(r) = "hungry" \/ Lost(r)
WaitingReplicas(v) == {r \in Replica : r[2] = v /\ Waiting(r)}
NWaiting(v) == Cardinality(WaitingReplicas(v))

\* The counter covers more than Owed.
Covered(v) == NWaiting(v) + NCalls(v) + NReady(v) + NAccepting(v) + NListed(v)
Counted == \A v \in Vertex : Covered(v) <= Counter(v)

\* A vertex that eats, or that is about to; a replica that is about to stop.
Winning(v) == \E t \in Thread : EatsAt(t, Master(v))
HasWon(v) == client[v] = "eating" \/ Winning(v)
Bound(r) == r \in scatter \/ \E t \in Thread : StopsAt(t, r)

\* The programs, and who works for them.
Programs == \A v \in Vertex : client[v] # "hungry" => Counter(v) = 0
Winners == \A v \in Vertex : Winning(v) => client[v] = "hungry" /\ Counter(v) = 0
Enders == \A t \in Thread, v \in Vertex : EndsAt(t, v) => client[v] = "stopping"
OneEach ==
  \A t, u \in Thread : t # u =>
    /\ \A v \in Vertex : ~(EndsAt(t, v) /\ EndsAt(u, v))
    /\ \A v \in Vertex : ~(EatsAt(t, Master(v)) /\ EatsAt(u, Master(v)))
    /\ t[1] = u[1] => \A v \in Vertex : ~(RepliesAt(t, v) /\ RepliesAt(u, v))
Scatters ==
  /\ \A t \in Thread, v \in Vertex : RepliesAt(t, v) => <<t[1], v>> \in awaited \ scatter
  /\ scatter \subseteq awaited
  /\ \A r \in awaited : client[r[2]] = "stopping"
  /\ Client # "replica" => awaited = {}
Grounds ==
  \A t \in Thread, r \in Replica :
    StopsAt(t, r) => IF r \in Mirror THEN RepliesAt(t, r[2]) \/ StrayAt(t, r[2])
                                     ELSE EndsAt(t, r[2])
Strays ==
  /\ \A t \in Thread, v \in Vertex : StrayAt(t, v) => <<t[1], v>> \in Mirror /\ Client # "replica"
  /\ Client = "replica" => \A r \in Mirror : ~Sent(r, "stop")
Tasks == Programs /\ Winners /\ Enders /\ OneEach /\ Scatters /\ Grounds /\ Strays

\* Forks, and the requests for them.
ForksFine ==
  \A e \in Edges :
    /\ fork[e].owner \in {e.source, e.target}
    /\ \A y \in fork[e].requests : /\ y \in {e.source, e.target} /\ y # fork[e].owner
                                   /\ Reaped => client[y] = "hungry"
AcquiredCounts == \A r \in Replica : phil[r].forks_acquired = Cardinality(Owned(r))

\* Who is ready, or has been granted all its forks and not stopped, has them.
Held ==
  Reaped =>
    /\ \A r \in Replica : St(r) = "hors_doeuvre" => Owns(r)
    /\ \A v \in Vertex : client[v] = "eating" => St(Master(v)) = "eating"
    /\ \A r \in Replica : Bound(r) => HasAll(r) /\ (r = Master(r[2]) => St(r) = "eating")

IInv == TypeOK /\ Stacks /\ Tasks /\ ForksFine /\ AcquiredCounts /\ Counted /\ Held

\* The unsigned char never overflows.
NoWrap == \A v \in Vertex : Counter(v) = 255 => Counter(v)' # 0

Counts(v) ==
  /\ NWaiting(v) \in Nat /\ NCalls(v) \in Nat /\ NReady(v) \in Nat
  /\ NAccepting(v) \in Nat /\ NListed(v) \in Nat

LEMMA WaitingFacts ==
  ASSUME NEW v \in Vertex
  PROVE  /\ IsFiniteSet(WaitingReplicas(v)) /\ IsFiniteSet(WaitingReplicas(v)')
         /\ NWaiting(v) \in Nat /\ NWaiting(v)' \in Nat
         /\ \A r \in Replica : r[2] = v /\ Waiting(r) => NWaiting(v) # 0
         /\ NHungry(v) \in Nat /\ NHungry(v) <= NWaiting(v)
<1>1. IsFiniteSet({r \in Replica : r[2] = v}) BY FiniteFacts
<1>2. WaitingReplicas(v) \in SUBSET {r \in Replica : r[2] = v} BY DEF WaitingReplicas
<1>3. WaitingReplicas(v)' \in SUBSET {r \in Replica : r[2] = v} BY DEF WaitingReplicas
<1>4. IsFiniteSet(WaitingReplicas(v)) /\ IsFiniteSet(WaitingReplicas(v)')
  BY <1>1, <1>2, <1>3, FS_Subset
<1>5. NWaiting(v) \in Nat /\ NWaiting(v)' \in Nat BY <1>4, FS_CardinalityType DEF NWaiting
<1>6. \A r \in Replica : r[2] = v /\ Waiting(r) => r \in WaitingReplicas(v) BY DEF WaitingReplicas
<1>7. \A r \in Replica : r[2] = v /\ Waiting(r) => NWaiting(v) # 0
  BY <1>4, <1>6, SomeCounted DEF NWaiting
<1>8. HungryReplicas(v) \subseteq WaitingReplicas(v)
  BY DEF HungryReplicas, WaitingReplicas, Waiting, St
<1>9. NHungry(v) \in Nat /\ NHungry(v) <= NWaiting(v)
  BY <1>4, <1>8, FS_Subset, FS_CardinalityType DEF NHungry, NWaiting
<1> QED BY <1>4, <1>5, <1>7, <1>9

\* Only replica r may begin to wait.
LEMMA WaitingAt ==
  ASSUME NEW r \in Replica, \A q \in Replica : q # r /\ Waiting(q)' => Waiting(q), NEW v \in Vertex
  PROVE  /\ NWaiting(v) \in Nat /\ NWaiting(v)' \in Nat
         /\ NWaiting(v)' <= NWaiting(v) - One(r[2] = v /\ Waiting(r)) + One(r[2] = v /\ Waiting(r)')
<1> DEFINE A == WaitingReplicas(v)
           B == WaitingReplicas(v)'
           C == (A \ {r}) \cup {q \in B : q = r}
<1>1. IsFiniteSet(A) /\ NWaiting(v) \in Nat /\ NWaiting(v)' \in Nat BY WaitingFacts
<1>2. (r \in A <=> r[2] = v /\ Waiting(r)) /\ (r \in B <=> r[2] = v /\ Waiting(r)')
  BY DEF WaitingReplicas
<1>3. B \subseteq C BY DEF WaitingReplicas
<1>4. A \ {r} = C \ {r} /\ (r \in C <=> r \in B) OBVIOUS
<1>5. NWaiting(v) = Cardinality(A) /\ NWaiting(v)' = Cardinality(B) BY DEF NWaiting
<1> HIDE DEF A, B, C
<1>6. /\ IsFiniteSet(C) /\ Cardinality(C) \in Nat
      /\ Cardinality(C) = Cardinality(A) - One(r \in A) + One(r \in C) BY <1>1, <1>4, SetAt
<1>7. Cardinality(B) <= Cardinality(C) BY <1>3, <1>6, FS_Subset
<1>8. One(r \in C) = One(r[2] = v /\ Waiting(r)') /\ One(r \in A) = One(r[2] = v /\ Waiting(r))
  BY <1>2, <1>4 DEF One
<1> QED BY <1>1, <1>5, <1>6, <1>7, <1>8

LEMMA WaitingLess ==
  ASSUME \A q \in Replica : Waiting(q)' => Waiting(q), NEW v \in Vertex
  PROVE  NWaiting(v)' <= NWaiting(v) /\ NWaiting(v) \in Nat /\ NWaiting(v)' \in Nat
<1>1. WaitingReplicas(v)' \subseteq WaitingReplicas(v) BY DEF WaitingReplicas
<1> QED BY <1>1, WaitingFacts, FS_Subset DEF NWaiting

LEMMA NAcceptingFacts ==
  ASSUME NEW v \in Vertex
  PROVE  /\ NAccepting(v) \in Nat
         /\ \A t \in Thread, r \in Replica : r[2] = v /\ AcceptsAt(t, r) => NAccepting(v) # 0
<1>1. Accepting(v) \in SUBSET Thread BY DEF Accepting
<1>2. IsFiniteSet(Accepting(v)) BY <1>1, FiniteFacts, FS_Subset
<1>3. \A t \in Thread, r \in Replica : r[2] = v /\ AcceptsAt(t, r) => t \in Accepting(v)
  BY AcceptingIs DEF AcceptsAt
<1> QED BY <1>2, <1>3, SomeCounted, FS_CardinalityType DEF NAccepting

LEMMA NListedFacts ==
  ASSUME FineStacks, NEW v \in Vertex
  PROVE  /\ NListed(v) \in Nat
         /\ \A t \in Thread, n \in 1 .. 3 :
              Lists(stack[t], n) # << >> /\ Head(Lists(stack[t], n)) = v => NListed(v) # 0
<1> DEFINE D == Thread \X (1 .. 3)
           P == {v}
<1>1. IsFiniteSet(D) BY FiniteFacts
<1>2. Listed \in [D -> Seq(Vertex)] /\ \A t \in Thread, n \in 1 .. 3 : Listed[<<t, n>>] = Lists(stack[t], n)
  <2>1. ASSUME NEW p \in D PROVE Lists(stack[p[1]], p[2]) \in Seq(Vertex)
    BY ListsTyped DEF FineStacks, Fine, Shaped
  <2> QED BY <2>1, ListedIs
<1>d. \A p : p \in D <=> p \in Thread \X (1 .. 3) OBVIOUS
<1>3. v \in P OBVIOUS
<1>m. NListed(v) = Cardinality(Places(Listed, P)) BY DEF NListed
<1> HIDE DEF D, P
<1>4. /\ Places(Listed, P) = UNION {{j} \X Hits(Listed[j], P) : j \in D}
      /\ IsFiniteSet(Places(Listed, P)) /\ Cardinality(Places(Listed, P)) \in Nat
  BY <1>1, <1>2, PlacesFacts
<1>5. ASSUME NEW t \in Thread, NEW n \in 1 .. 3,
             Lists(stack[t], n) # << >>, Head(Lists(stack[t], n)) = v
      PROVE  NListed(v) # 0
  <2> DEFINE s == Lists(stack[t], n)
             j == <<t, n>>
  <2>1. j \in D /\ Listed[j] = s BY <1>2, <1>d
  <2>2. s \in Seq(Vertex) BY <1>2, <2>1
  <2>3. s[1] = v /\ Len(s) \in Nat \ {0} BY <1>5, <2>2, Below
  <2> HIDE DEF s, j
  <2>4. 1 \in Hits(s, P) BY <1>3, <2>3 DEF Hits
  <2>5. <<j, 1>> \in Places(Listed, P) BY <1>4, <2>1, <2>4
  <2> QED BY <1>4, <1>m, <2>5, SomeCounted
<1> QED BY <1>4, <1>5, <1>m

LEMMA NMailIs ==
  ASSUME NEW v \in Vertex
  PROVE  /\ NCalls(v) = Mail(down, v, Calling) /\ NReady(v) = Mail(up, v, [op : {"ready"}])
         /\ NCalls(v)' = Mail(down', v, Calling) /\ NReady(v)' = Mail(up', v, [op : {"ready"}])
BY DEF NCalls, CallsTo, NReady, ReadyCalls, Mail

LEMMA NMailFacts ==
  ASSUME Mailboxes(down), Mailboxes(up), NEW r \in Mirror
  PROVE  /\ NCalls(r[2]) \in Nat /\ NReady(r[2]) \in Nat
         /\ Sent(r, "hungry") \/ Sent(r, "accept") => NCalls(r[2]) # 0
         /\ \A i \in DOMAIN up[r] : up[r][i].op = "ready" => NReady(r[2]) # 0
<1>0. r[2] \in Vertex BY SetFacts
<1>1. NCalls(r[2]) \in Nat /\ NReady(r[2]) \in Nat BY <1>0, NMailIs, MailTyped
<1>2. ASSUME Sent(r, "hungry") \/ Sent(r, "accept")
      PROVE  NCalls(r[2]) # 0
  <2>1. PICK i \in 1 .. Len(down[r]) : down[r][i].op \in {"hungry", "accept"} BY <1>2 DEF Sent, HasOp
  <2>2. down[r][i] \in Message BY ElementOfSeq DEF Mailboxes
  <2>3. down[r][i] \in Calling BY <2>1, <2>2, MessageKinds
  <2>4. Mail(down, r[2], Calling) \in Nat \ {0} BY <2>3, InTheMail
  <2> QED BY <1>0, <2>4, NMailIs
<1>3. ASSUME NEW i \in DOMAIN up[r], up[r][i].op = "ready"
      PROVE  NReady(r[2]) # 0
  <2>1. up[r] \in Seq(Message) BY DEF Mailboxes
  <2>2. up[r][i] \in Message /\ i \in 1 .. Len(up[r]) BY <1>3, <2>1, WithoutFacts
  <2>3. up[r][i] \in [op : {"ready"}] BY <1>3, <2>2, MessageKinds
  <2> DEFINE P == [op : {"ready"}]
  <2> HIDE DEF P
  <2>4. up[r][i] \in P BY <2>3 DEF P
  <2>5. Mail(up, r[2], P) \in Nat \ {0} BY <2>2, <2>4, InTheMail
  <2> QED BY <1>0, <2>5, NMailIs DEF P
<1> QED BY <1>1, <1>2, <1>3

\* While the master has to hear of somebody its counter is not 0; and the last
\* it hears of is the only one.
LEMMA Heard ==
  ASSUME TypeOK, FineStacks, Counted, NEW v \in Vertex
  PROVE  /\ Counter(v) \in 0 .. 255
         /\ Covered(v) = NWaiting(v) + NCalls(v) + NReady(v) + NAccepting(v) + NListed(v)
         /\ Covered(v) <= Counter(v)
         /\ NWaiting(v) \in Nat /\ NCalls(v) \in Nat /\ NReady(v) \in Nat
         /\ NAccepting(v) \in Nat /\ NListed(v) \in Nat
         /\ \A r \in Replica : r[2] = v /\ Waiting(r) => NWaiting(v) # 0
         /\ \A r \in Mirror : r[2] = v =>
              /\ Sent(r, "hungry") \/ Sent(r, "accept") => NCalls(v) # 0
              /\ \A i \in DOMAIN up[r] : up[r][i].op = "ready" => NReady(v) # 0
         /\ \A t \in Thread, r \in Replica : r[2] = v /\ AcceptsAt(t, r) => NAccepting(v) # 0
         /\ \A t \in Thread, n \in 1 .. 3 :
              Lists(stack[t], n) # << >> /\ Head(Lists(stack[t], n)) = v => NListed(v) # 0
<1>1. Counter(v) \in 0 .. 255 /\ Mailboxes(down) /\ Mailboxes(up)
  BY SetFacts DEF TypeOK, Counter, Mailboxes
<1>2. /\ Covered(v) = NWaiting(v) + NCalls(v) + NReady(v) + NAccepting(v) + NListed(v)
      /\ Covered(v) <= Counter(v) BY DEF Counted, Covered
<1>3. NCalls(v) \in Nat /\ NReady(v) \in Nat BY <1>1, NMailIs, MailTyped
<1>4. \A r \in Mirror : r[2] = v =>
        /\ Sent(r, "hungry") \/ Sent(r, "accept") => NCalls(v) # 0
        /\ \A i \in DOMAIN up[r] : up[r][i].op = "ready" => NReady(v) # 0
  BY <1>1, NMailFacts
<1> QED BY <1>1, <1>2, <1>3, <1>4, WaitingFacts, NAcceptingFacts, NListedFacts

\* CounterCovers is a part of it.
LEMMA CoveredIsOwed ==
  ASSUME TypeOK, FineStacks, Counted
  PROVE  CounterCovers
<1> SUFFICES ASSUME NEW v \in Vertex PROVE Owed(v) <= Counter(v) BY DEF CounterCovers, Counter
<1>1. /\ Counter(v) \in 0 .. 255
      /\ Covered(v) = NWaiting(v) + NCalls(v) + NReady(v) + NAccepting(v) + NListed(v)
      /\ Covered(v) <= Counter(v)
      /\ NWaiting(v) \in Nat /\ NCalls(v) \in Nat /\ NReady(v) \in Nat
      /\ NAccepting(v) \in Nat /\ NListed(v) \in Nat BY Heard
<1>2. NHungry(v) \in Nat /\ NHungry(v) <= NWaiting(v) BY WaitingFacts
<1>3. Owed(v) = NHungry(v) + NCalls(v) + NReady(v) + NAccepting(v) + NListed(v) BY OwedParts
<1> QED BY <1>1, <1>2, <1>3

-----------------------------------------------------------------------------
(* What becomes of the calls.                                              *)

LEMMA DownTaken ==
  ASSUME Mailboxes(down), NEW r \in Mirror, NEW i \in DOMAIN down[r], Taken1(down, down', r, i)
  PROVE  LET m == down[r][i] IN
         /\ Mailboxes(down') /\ m \in Message /\ Sent(r, m.op)
         /\ \A q \in Mirror : \A op : q # r => (Sent(q, op)' <=> Sent(q, op))
         /\ \A q \in Replica : \A op : Sent(q, op)' => Sent(q, op)
         /\ \A op : Sent(r, op) => Sent(r, op)' \/ op = m.op
         /\ \A v \in Vertex : NCalls(v)' = NCalls(v) - One(r[2] = v /\ m.op \in {"hungry", "accept"})
<1> DEFINE m == down[r][i]
<1>1. /\ down[r] \in Seq(Message) /\ down'[r] = Without(down[r], i)
      /\ \A q \in Mirror : q # r => down'[q] = down[q] BY DEF Mailboxes, Taken1
<1>3. /\ m \in Message /\ HasOp(down[r], m.op)
      /\ \A op : HasOp(down'[r], op) => HasOp(down[r], op)
      /\ \A op : HasOp(down[r], op) => HasOp(down'[r], op) \/ op = m.op BY <1>1, OpsWithout
<1>4. Mailboxes(down')
  <2>1. r[2] \in Vertex BY SetFacts
  <2> QED BY <2>1, MailTaken
<1>5. ASSUME NEW v \in Vertex
      PROVE  NCalls(v)' = NCalls(v) - One(r[2] = v /\ m.op \in {"hungry", "accept"})
  <2>1. Mail(down', v, Calling) = Mail(down, v, Calling) - One(r[2] = v /\ m \in Calling) BY MailTaken
  <2> QED BY <1>3, <2>1, NMailIs, MessageKinds
<1>7. \A q \in Mirror : \A op : q # r => (Sent(q, op)' <=> Sent(q, op)) BY <1>1 DEF Sent
<1>8. /\ \A op : Sent(r, op) <=> HasOp(down[r], op)
      /\ \A op : Sent(r, op)' <=> HasOp(down'[r], op) BY DEF Sent
<1> HIDE DEF m
<1>9. /\ Sent(r, m.op)
      /\ \A op : Sent(r, op)' => Sent(r, op)
      /\ \A op : Sent(r, op) => Sent(r, op)' \/ op = m.op BY <1>3, <1>8
<1>10. \A q \in Replica : \A op : Sent(q, op)' => Sent(q, op)
  <2>1. \A q : q \notin Mirror => \A op : ~Sent(q, op)' BY DEF Sent
  <2> QED BY <1>7, <1>9, <2>1
<1> QED BY <1>3, <1>4, <1>5, <1>7, <1>9, <1>10 DEF m

LEMMA DownSent ==
  ASSUME Mailboxes(down), NEW r \in Mirror, NEW m \in Message, Sent1(down, down', r, m),
         m.op = "accept"
  PROVE  /\ Mailboxes(down') /\ Sent(r, "accept")'
         /\ \A q \in Mirror : \A op : Sent(q, op) => Sent(q, op)'
         /\ \A q \in Mirror : \A op : q # r \/ op # "accept" => (Sent(q, op)' <=> Sent(q, op))
         /\ \A v \in Vertex : NCalls(v)' = NCalls(v) + One(r[2] = v)
<1>1. /\ down[r] \in Seq(Message) /\ down'[r] = Append(down[r], m)
      /\ \A q \in Mirror : q # r => down'[q] = down[q] BY DEF Mailboxes, Sent1
<1>4. \A op : HasOp(down'[r], op) <=> HasOp(down[r], op) \/ op = m.op BY <1>1, OpsAppend
<1>5. Mailboxes(down') BY SetFacts, MailSent
<1>6. ASSUME NEW v \in Vertex
      PROVE  NCalls(v)' = NCalls(v) + One(r[2] = v) BY MailSent, MessageKinds, NMailIs
<1>7. \A op : Sent(r, op)' <=> Sent(r, op) \/ op = "accept" BY <1>4 DEF Sent
<1>8. \A q \in Mirror : q # r => \A op : Sent(q, op)' <=> Sent(q, op) BY <1>1 DEF Sent
<1> QED BY <1>5, <1>6, <1>7, <1>8

LEMMA DownToAll ==
  ASSUME Mailboxes(down), NEW v \in Vertex, NEW m \in Message, SentToAll(down, down', v, m)
  PROVE  /\ Mailboxes(down')
         /\ \A r \in Mirror : \A op : Sent(r, op)' <=> Sent(r, op) \/ (r[2] = v /\ op = m.op)
         /\ \A w \in Vertex : w # v \/ m.op \notin {"hungry", "accept"} => NCalls(w)' = NCalls(w)
         /\ NCalls(v) = 0 /\ m.op = "hungry" => NCalls(v)' = Cardinality(MirrorsOf(v))
<1>1. \A r \in Mirror : /\ down[r] \in Seq(Message)
                        /\ down'[r] = IF r[2] = v THEN Append(down[r], m) ELSE down[r]
  BY DEF Mailboxes, SentToAll
<1>2. ASSUME NEW r \in Mirror
      PROVE  \A op : HasOp(down'[r], op) <=> HasOp(down[r], op) \/ (r[2] = v /\ op = m.op)
  <2>1. CASE r[2] = v BY <1>1, <2>1, OpsAppend
  <2>2. CASE r[2] # v BY <1>1, <2>2
  <2> QED BY <2>1, <2>2
<1>3. /\ Mailboxes(down')
      /\ \A w \in Vertex : w # v \/ m \notin Calling => Mail(down', w, Calling) = Mail(down, w, Calling)
      /\ Mail(down, v, Calling) = 0 /\ m \in Calling => Mail(down', v, Calling) = Cardinality(MirrorsOf(v))
  BY MailBroadcast
<1>4. m \in Calling <=> m.op \in {"hungry", "accept"} BY MessageKinds
<1>6. \A r \in Mirror : \A op : Sent(r, op)' <=> Sent(r, op) \/ (r[2] = v /\ op = m.op) BY <1>2 DEF Sent
<1> QED BY <1>3, <1>4, <1>6, NMailIs

PhilSet == [Replica -> [state : State, forks_acquired : Nat, counter : 0 .. 255,
                        cancellation_sent : BOOLEAN, lockid : BOOLEAN]]
ForkSet == [Edges -> [owner : Vertex, dirty : BOOLEAN, requests : SUBSET Vertex]]

-----------------------------------------------------------------------------
(* Philosophers and their forks.                                           *)

\* One field of one philosopher.
SetState(p, r, s) == [p EXCEPT ![r].state = s]
SetForks(p, r, n) == [p EXCEPT ![r].forks_acquired = n]
SetCounter(p, r, n) == [p EXCEPT ![r].counter = n]
SetSent(p, r, b) == [p EXCEPT ![r].cancellation_sent = b]
SetLockid(p, r, b) == [p EXCEPT ![r].lockid = b]
OnlyAt(p, p2, r) == p2 \in PhilSet /\ \A z \in Replica : z # r => p2[z] = p[z]

Fields(f, s, n, c, b, i) ==
  /\ f.state = s /\ f.forks_acquired = n /\ f.counter = c
  /\ f.cancellation_sent = b /\ f.lockid = i

LEMMA PhilFields ==
  ASSUME NEW p \in PhilSet, NEW r \in Replica
  PROVE  /\ \A s \in State : LET p2 == SetState(p, r, s) IN
              OnlyAt(p, p2, r) /\ Fields(p2[r], s, p[r].forks_acquired, p[r].counter, p[r].cancellation_sent, p[r].lockid)
         /\ \A n \in Nat : LET p2 == SetForks(p, r, n) IN
              OnlyAt(p, p2, r) /\ Fields(p2[r], p[r].state, n, p[r].counter, p[r].cancellation_sent, p[r].lockid)
         /\ \A n \in 0 .. 255 : LET p2 == SetCounter(p, r, n) IN
              OnlyAt(p, p2, r) /\ Fields(p2[r], p[r].state, p[r].forks_acquired, n, p[r].cancellation_sent, p[r].lockid)
         /\ \A b \in BOOLEAN : LET p2 == SetSent(p, r, b) IN
              OnlyAt(p, p2, r) /\ Fields(p2[r], p[r].state, p[r].forks_acquired, p[r].counter, b, p[r].lockid)
         /\ \A b \in BOOLEAN : LET p2 == SetLockid(p, r, b) IN
              OnlyAt(p, p2, r) /\ Fields(p2[r], p[r].state, p[r].forks_acquired, p[r].counter, p[r].cancellation_sent, b)
<1> DEFINE R == [state : State, forks_acquired : Nat, counter : 0 .. 255,
                 cancellation_sent : BOOLEAN, lockid : BOOLEAN]
<1>1. p \in [Replica -> R] /\ p[r] \in R BY DEF PhilSet
<1>2. ASSUME NEW f \in R
      PROVE  LET p2 == [p EXCEPT ![r] = f] IN
             OnlyAt(p, p2, r) /\ p2[r] = f BY <1>1 DEF PhilSet, OnlyAt
<1>3. ASSUME NEW s \in State
      PROVE  LET p2 == SetState(p, r, s) IN
             OnlyAt(p, p2, r) /\ Fields(p2[r], s, p[r].forks_acquired, p[r].counter, p[r].cancellation_sent, p[r].lockid)
  <2> DEFINE f == [p[r] EXCEPT !.state = s]
  <2>1. f \in R /\ Fields(f, s, p[r].forks_acquired, p[r].counter, p[r].cancellation_sent, p[r].lockid)
    BY <1>1 DEF Fields
  <2> HIDE DEF f
  <2>2. [p EXCEPT ![r] = f] = SetState(p, r, s) BY DEF SetState, f
  <2> QED BY <1>2, <2>1, <2>2
<1>4. ASSUME NEW n \in Nat
      PROVE  LET p2 == SetForks(p, r, n) IN
             OnlyAt(p, p2, r) /\ Fields(p2[r], p[r].state, n, p[r].counter, p[r].cancellation_sent, p[r].lockid)
  <2> DEFINE f == [p[r] EXCEPT !.forks_acquired = n]
  <2>1. f \in R /\ Fields(f, p[r].state, n, p[r].counter, p[r].cancellation_sent, p[r].lockid)
    BY <1>1 DEF Fields
  <2> HIDE DEF f
  <2>2. [p EXCEPT ![r] = f] = SetForks(p, r, n) BY DEF SetForks, f
  <2> QED BY <1>2, <2>1, <2>2
<1>5. ASSUME NEW n \in 0 .. 255
      PROVE  LET p2 == SetCounter(p, r, n) IN
             OnlyAt(p, p2, r) /\ Fields(p2[r], p[r].state, p[r].forks_acquired, n, p[r].cancellation_sent, p[r].lockid)
  <2> DEFINE f == [p[r] EXCEPT !.counter = n]
  <2>1. f \in R /\ Fields(f, p[r].state, p[r].forks_acquired, n, p[r].cancellation_sent, p[r].lockid)
    BY <1>1 DEF Fields
  <2> HIDE DEF f
  <2>2. [p EXCEPT ![r] = f] = SetCounter(p, r, n) BY DEF SetCounter, f
  <2> QED BY <1>2, <2>1, <2>2
<1>6. ASSUME NEW b \in BOOLEAN
      PROVE  LET p2 == SetSent(p, r, b) IN
             OnlyAt(p, p2, r) /\ Fields(p2[r], p[r].state, p[r].forks_acquired, p[r].counter, b, p[r].lockid)
  <2> DEFINE f == [p[r] EXCEPT !.cancellation_sent = b]
  <2>1. f \in R /\ Fields(f, p[r].state, p[r].forks_acquired, p[r].counter, b, p[r].lockid)
    BY <1>1 DEF Fields
  <2> HIDE DEF f
  <2>2. [p EXCEPT ![r] = f] = SetSent(p, r, b) BY DEF SetSent, f
  <2> QED BY <1>2, <2>1, <2>2
<1>7. ASSUME NEW b \in BOOLEAN
      PROVE  LET p2 == SetLockid(p, r, b) IN
             OnlyAt(p, p2, r) /\ Fields(p2[r], p[r].state, p[r].forks_acquired, p[r].counter, p[r].cancellation_sent, b)
  <2> DEFINE f == [p[r] EXCEPT !.lockid = b]
  <2>1. f \in R /\ Fields(f, p[r].state, p[r].forks_acquired, p[r].counter, p[r].cancellation_sent, b)
    BY <1>1 DEF Fields
  <2> HIDE DEF f
  <2>2. [p EXCEPT ![r] = f] = SetLockid(p, r, b) BY DEF SetLockid, f
  <2> QED BY <1>2, <2>1, <2>2
<1> QED BY <1>3, <1>4, <1>5, <1>6, <1>7

LEMMA MovedFacts ==
  ASSUME phil \in PhilSet, NEW r \in Replica, NEW q \in Replica, r # q, phil[r].forks_acquired # 0,
         NEW p, p = Moved(r, q)
  PROVE  /\ p \in PhilSet
         /\ \A z \in Replica : /\ p[z].state = phil[z].state /\ p[z].counter = phil[z].counter
                               /\ z # r /\ z # q => p[z].forks_acquired = phil[z].forks_acquired
         /\ p[r].forks_acquired = phil[r].forks_acquired - 1
         /\ p[q].forks_acquired = phil[q].forks_acquired + 1
<1> DEFINE n == phil[r].forks_acquired - 1
           m == phil[q].forks_acquired + 1
           p1 == SetForks(phil, r, n)
           p2 == SetForks(p1, q, m)
<1>0. phil[r] \in [state : State, forks_acquired : Nat, counter : 0 .. 255,
                   cancellation_sent : BOOLEAN, lockid : BOOLEAN]
      /\ phil[q] \in [state : State, forks_acquired : Nat, counter : 0 .. 255,
                      cancellation_sent : BOOLEAN, lockid : BOOLEAN] BY DEF PhilSet
<1>1. n \in Nat /\ m \in Nat BY <1>0
<1>q. p1[q].forks_acquired = phil[q].forks_acquired BY DEF PhilSet, SetForks
<1>3. p = p2 BY <1>q DEF Moved, SetForks
<1> HIDE DEF n, m
<1>4. /\ p1 \in PhilSet /\ \A z \in Replica : z # r => p1[z] = phil[z]
      /\ p1[r].forks_acquired = n /\ p1[r].state = phil[r].state /\ p1[r].counter = phil[r].counter
  <2>1. OnlyAt(phil, p1, r) /\ Fields(p1[r], phil[r].state, n, phil[r].counter,
                                     phil[r].cancellation_sent, phil[r].lockid) BY <1>1, PhilFields
  <2> QED BY <2>1 DEF OnlyAt, Fields
<1> HIDE DEF p1
<1>5. /\ p2 \in PhilSet /\ \A z \in Replica : z # q => p2[z] = p1[z]
      /\ p2[q].forks_acquired = m /\ p2[q].state = p1[q].state /\ p2[q].counter = p1[q].counter
  <2>1. OnlyAt(p1, p2, q) /\ Fields(p2[q], p1[q].state, m, p1[q].counter,
                                   p1[q].cancellation_sent, p1[q].lockid) BY <1>1, <1>4, PhilFields
  <2> QED BY <2>1 DEF OnlyAt, Fields
<1> HIDE DEF p2
<1>6. p1[r].forks_acquired = n /\ p1[r].state = phil[r].state /\ p1[r].counter = phil[r].counter
  BY <1>0, <1>4
<1>7. p2[q].forks_acquired = m /\ p2[q].state = phil[q].state /\ p2[q].counter = phil[q].counter
  BY <1>0, <1>4, <1>5
<1> QED BY <1>3, <1>4, <1>5, <1>6, <1>7 DEF n, m

LEMMA MakeReadyFacts ==
  ASSUME NEW p \in PhilSet, NEW x \in Replica, NEW p2, p2 = MakeReady(p, x)
  PROVE  /\ p2 \in PhilSet
         /\ \A z \in Replica : /\ p2[z].forks_acquired = p[z].forks_acquired
                               /\ p2[z].counter = p[z].counter
                               /\ z # x => p2[z].state = p[z].state
         /\ NowReady(p, x) => p[x].state = "hungry" /\ p2[x].state = "hors_doeuvre" /\ Full(p2, x)
         /\ ~NowReady(p, x) => p2 = p
<1>1. CASE NowReady(p, x)
  <2> DEFINE s == "hors_doeuvre"
             p1 == SetState(p, x, s)
             q1 == SetSent(p1, x, FALSE)
  <2>0. s \in State /\ FALSE \in BOOLEAN BY DEF State
  <2>3. p2 = q1 BY <1>1 DEF MakeReady, EnterHors, SetState, SetSent
  <2>s. s = "hors_doeuvre" OBVIOUS
  <2> HIDE DEF s
  <2>1. /\ p1 \in PhilSet /\ \A z \in Replica : z # x => p1[z] = p[z]
        /\ p1[x].forks_acquired = p[x].forks_acquired /\ p1[x].state = s /\ p1[x].counter = p[x].counter
    <3>1. OnlyAt(p, p1, x) /\ Fields(p1[x], s, p[x].forks_acquired, p[x].counter,
                                    p[x].cancellation_sent, p[x].lockid) BY <2>0, PhilFields
    <3> QED BY <3>1 DEF OnlyAt, Fields
  <2> HIDE DEF p1
  <2>2. /\ q1 \in PhilSet /\ \A z \in Replica : z # x => q1[z] = p1[z]
        /\ q1[x].forks_acquired = p1[x].forks_acquired /\ q1[x].state = p1[x].state /\ q1[x].counter = p1[x].counter
    <3>1. OnlyAt(p1, q1, x) /\ Fields(q1[x], p1[x].state, p1[x].forks_acquired, p1[x].counter,
                                     FALSE, p1[x].lockid) BY <2>0, <2>1, PhilFields
    <3> QED BY <3>1 DEF OnlyAt, Fields
  <2> HIDE DEF q1
  <2>4. p[x] \in [state : State, forks_acquired : Nat, counter : 0 .. 255,
                  cancellation_sent : BOOLEAN, lockid : BOOLEAN] BY DEF PhilSet
  <2>5. q1[x].state = s /\ q1[x].forks_acquired = p[x].forks_acquired /\ q1[x].counter = p[x].counter
    BY <2>1, <2>2, <2>4
  <2>6. p[x].state = "hungry" /\ Full(q1, x) BY <1>1, <2>5 DEF NowReady, Full
  <2> QED BY <1>1, <2>1, <2>2, <2>3, <2>5, <2>6, <2>s
<1>2. CASE ~NowReady(p, x) BY <1>2 DEF MakeReady
<1> QED BY <1>1, <1>2

Acq(r) == phil[r].forks_acquired

LEMMA OwnedFacts ==
  ASSUME NEW r \in Replica
  PROVE  /\ IsFiniteSet(Owned(r)) /\ Cardinality(Owned(r)) \in Nat
         /\ Owned(r) = EdgesAt(r) <=> Owns(r)
         /\ Cardinality(Owned(r)) = Cardinality(EdgesAt(r)) <=> Owns(r)
<1>1. Owned(r) \in SUBSET EdgesAt(r) /\ IsFiniteSet(EdgesAt(r)) BY FiniteFacts DEF Owned
<1>2. Owned(r) = EdgesAt(r) <=> Owns(r) BY DEF Owned, Owns
<1> QED BY <1>1, <1>2, FS_Subset, FS_CardinalityType

\* A philosopher with as many forks as edges owns them all.
LEMMA FullOwns ==
  ASSUME AcquiredCounts, NEW r \in Replica
  PROVE  Full(phil, r) <=> Owns(r) BY OwnedFacts DEF AcquiredCounts, Full

LEMMA FullOwnsNext ==
  ASSUME AcquiredCounts', NEW r \in Replica
  PROVE  Full(phil', r) <=> Owns(r)'
<1> DEFINE A == {e \in EdgesAt(r) : fork'[e].owner = r[2]}
<1>1. A \in SUBSET EdgesAt(r) /\ IsFiniteSet(EdgesAt(r)) BY FiniteFacts
<1>2. A = EdgesAt(r) <=> Owns(r)' BY DEF Owns
<1>3. phil'[r].forks_acquired = Cardinality(A) BY DEF AcquiredCounts, Owned
<1> HIDE DEF A
<1> QED BY <1>1, <1>2, <1>3, FS_Subset DEF Full

LEMMA AcquiredKept ==
  ASSUME AcquiredCounts, \A e \in Edges : fork'[e].owner = fork[e].owner,
         \A r \in Replica : Acq(r)' = Acq(r)
  PROVE  AcquiredCounts' /\ \A r \in Replica : Owns(r)' <=> Owns(r)
<1>1. \A r \in Replica : Owned(r)' = Owned(r) BY EdgeFacts DEF Owned
<1>2. \A r \in Replica : Owns(r)' <=> Owns(r) BY EdgeFacts DEF Owns
<1> QED BY <1>1, <1>2 DEF AcquiredCounts, Acq

LEMMA AcquiredMoves ==
  ASSUME AcquiredCounts, fork \in ForkSet, NEW r \in Replica, NEW e \in EdgesAt(r), NEW q, q = Across(r, e),
         fork[e].owner = r[2], fork'[e].owner = q[2],
         \A d \in Edges : d # e => fork'[d] = fork[d],
         Acq(r)' = Acq(r) - 1, Acq(q)' = Acq(q) + 1,
         \A z \in Replica : z # r /\ z # q => Acq(z)' = Acq(z)
  PROVE  /\ Acq(r) # 0 /\ AcquiredCounts'
         /\ \A z \in Replica : z # r /\ Owns(z) => Owns(z)'
<1>1. /\ e \in Edges /\ q \in Replica /\ q # r /\ e \in EdgesAt(q) /\ q[2] # r[2]
      /\ \A z \in Replica : e \in EdgesAt(z) => z = r \/ z = q
  <2>1. /\ e \in Edges /\ q \in Replica /\ q # r /\ e \in EdgesAt(q) /\ q[2] # r[2]
        /\ q[1] = r[1] /\ {e.source, e.target} = {r[2], q[2]} /\ e.on = r[1] BY EdgeFacts
  <2>2. ASSUME NEW z \in Replica, e \in EdgesAt(z) PROVE z = r \/ z = q
    <3>1. z[1] = e.on /\ z[2] \in {e.source, e.target} BY <2>2, EdgeFacts
    <3> QED BY <2>1, <3>1, SetFacts
  <2> QED BY <2>1, <2>2
<1>2. e \in Owned(r) /\ Owned(r)' = Owned(r) \ {e} BY <1>1, EdgeFacts DEF Owned
<1>3. e \notin Owned(q) /\ Owned(q)' = Owned(q) \cup {e} BY <1>1, EdgeFacts DEF Owned
<1>4. \A z \in Replica : z # r /\ z # q => Owned(z)' = Owned(z) BY <1>1, EdgeFacts DEF Owned
<1>5. Cardinality(Owned(r)') = Cardinality(Owned(r)) - 1 /\ Cardinality(Owned(r)) # 0
  <2>1. IsFiniteSet(Owned(r)) /\ e \in Owned(r) BY <1>2, OwnedFacts
  <2>2. Cardinality(Owned(r) \ {e}) = Cardinality(Owned(r)) - 1 BY <2>1, FS_RemoveElement
  <2>3. Cardinality(Owned(r)) # 0 BY <2>1, SomeCounted
  <2> QED BY <1>2, <2>2, <2>3
<1>6. Cardinality(Owned(q)') = Cardinality(Owned(q)) + 1
  <2>1. IsFiniteSet(Owned(q)) /\ e \notin Owned(q) BY <1>1, <1>3, OwnedFacts
  <2>2. Cardinality(Owned(q) \cup {e}) = Cardinality(Owned(q)) + 1 BY <2>1, FS_AddElement
  <2> QED BY <1>3, <2>2
<1>7. \A z \in Replica : Acq(z) = Cardinality(Owned(z)) BY DEF AcquiredCounts, Acq
<1>8. \A z \in Replica : Acq(z)' = Cardinality(Owned(z)') BY <1>1, <1>4, <1>5, <1>6, <1>7
<1>9. AcquiredCounts' BY <1>8 DEF AcquiredCounts, Acq
<1>10. \A z \in Replica : z # r /\ Owns(z) => Owns(z)' BY EdgeFacts, <1>1 DEF Owns
<1> QED BY <1>5, <1>7, <1>9, <1>10

\* Requests are made by the hungry, for forks they lack.
LEMMA ForksFineNext ==
  ASSUME ForksFine, \A e \in Edges : fork'[e].owner \in {e.source, e.target},
         \A e \in Edges : \A y \in fork'[e].requests :
           \/ y \in fork[e].requests /\ fork'[e].owner = fork[e].owner
           \/ y \in {e.source, e.target} /\ y # fork'[e].owner /\ (Reaped => client'[y] = "hungry"),
         \A r \in Replica : Reaped /\ client[r[2]] = "hungry" => client'[r[2]] = "hungry" \/ Owns(r)'
  PROVE  ForksFine'
<1> SUFFICES ASSUME NEW e \in Edges, NEW y \in fork'[e].requests
             PROVE  /\ y \in {e.source, e.target} /\ y # fork'[e].owner
                    /\ Reaped => client'[y] = "hungry"
  BY DEF ForksFine, Reaped
<1>1. CASE y \in fork[e].requests /\ fork'[e].owner = fork[e].owner
  <2>1. y \in {e.source, e.target} /\ y # fork[e].owner /\ (Reaped => client[y] = "hungry")
    BY <1>1 DEF ForksFine
  <2>2. <<e.on, y>> \in Replica /\ e \in EdgesAt(<<e.on, y>>) BY <2>1, EdgeFacts
  <2>3. ~Owns(<<e.on, y>>)' BY <1>1, <2>1, <2>2 DEF Owns
  <2> QED BY <1>1, <2>1, <2>2, <2>3
<1>2. CASE y \in {e.source, e.target} /\ y # fork'[e].owner /\ (Reaped => client'[y] = "hungry")
  BY <1>2
<1> QED BY <1>1, <1>2

-----------------------------------------------------------------------------
(* Who is waited for, who is to stop, and who has all its forks.           *)

NothingOwed == \A r \in Replica : Counter(r[2]) = 0 => ~Waiting(r) /\ ~Expecting(r)

LEMMA CountedMeans ==
  ASSUME TypeOK, FineStacks, Counted
  PROVE  NothingOwed
<1> SUFFICES ASSUME NEW r \in Replica, Counter(r[2]) = 0
             PROVE  ~Waiting(r) /\ ~Expecting(r) BY DEF NothingOwed
<1> DEFINE v == r[2]
<1>1. v \in Vertex BY SetFacts
<1>2. NWaiting(v) = 0 /\ NCalls(v) = 0 /\ NAccepting(v) = 0 BY <1>1, Heard
<1>3. \A q \in Mirror : q[2] = v => ~Sent(q, "hungry") /\ ~Sent(q, "accept") BY <1>1, <1>2, Heard
<1>4. ~Waiting(r) /\ \A t \in Thread : ~AcceptsAt(t, r) BY <1>1, <1>2, Heard
<1> QED BY <1>3, <1>4 DEF Sent, Expecting

\* When the master waits for nobody, all replicas have their forks.
LEMMA AllThere ==
  ASSUME NothingOwed, Reaped, NEW r \in Replica, Counter(r[2]) = 0,
         client[r[2]] \in {"hungry", "eating"}
  PROVE  HasAll(r)
BY DEF NothingOwed, Waiting, Lost, Wanting

LEMMA BoundStops ==
  ASSUME Tasks, Reaped, NEW r \in Replica, Bound(r)
  PROVE  client[r[2]] = "stopping" /\ Counter(r[2]) = 0
<1>0. r[2] \in Vertex /\ r = <<r[1], r[2]>> BY SetFacts
<1>1. CASE r \in scatter BY <1>0, <1>1 DEF Tasks, Scatters, Programs
<1>2. CASE \E t \in Thread : StopsAt(t, r)
  <2>1. PICK t \in Thread : StopsAt(t, r) BY <1>2
  <2>2. t[1] = r[1] BY <2>1 DEF StopsAt
  <2>3. CASE r \in Mirror
    <3>1. ~StrayAt(t, r[2]) BY <1>0 DEF Tasks, Strays, Reaped
    <3>2. RepliesAt(t, r[2]) BY <2>1, <2>3, <3>1 DEF Tasks, Grounds
    <3>3. r \in awaited BY <1>0, <2>2, <3>2 DEF Tasks, Scatters
    <3> QED BY <1>0, <3>3 DEF Tasks, Scatters, Programs
  <2>4. CASE r \notin Mirror BY <1>0, <2>1, <2>4 DEF Tasks, Grounds, Enders, Programs
  <2> QED BY <2>3, <2>4
<1> QED BY <1>1, <1>2 DEF Bound

LEMMA OnlyOneStops ==
  ASSUME Tasks, Reaped, awaited \subseteq Mirror, NEW t \in Thread, NEW r \in Replica, StopsAt(t, r)
  PROVE  r \notin scatter /\ \A u \in Thread : StopsAt(u, r) => u = t
<1>0. r[2] \in Vertex /\ r = <<r[1], r[2]>> BY SetFacts
<1>1. \A u \in Thread : StopsAt(u, r) => u[1] = r[1] BY DEF StopsAt
<1>2. CASE r \in Mirror
  <2>1. \A u \in Thread : ~StrayAt(u, r[2]) BY <1>0 DEF Tasks, Strays, Reaped
  <2>2. \A u \in Thread : StopsAt(u, r) => RepliesAt(u, r[2]) BY <1>2, <2>1 DEF Tasks, Grounds
  <2>3. r \notin scatter BY <1>0, <1>1, <2>2 DEF Tasks, Scatters
  <2> QED BY <1>0, <1>1, <2>2, <2>3 DEF Tasks, OneEach
<1>3. CASE r \notin Mirror
  <2>1. r \notin scatter BY <1>3 DEF Tasks, Scatters
  <2>2. \A u \in Thread : StopsAt(u, r) => EndsAt(u, r[2]) BY <1>3 DEF Tasks, Grounds
  <2> QED BY <1>0, <2>1, <2>2 DEF Tasks, OneEach
<1> QED BY <1>2, <1>3

-----------------------------------------------------------------------------
(* Steps that neither make a vertex hungry, nor let it eat or stop.        *)

\* A replica gets ready, or becomes hungry again in the round.
StaysOrMoves(r) ==
  \/ St(r)' = St(r)
  \/ St(r) = "hungry" /\ St(r)' = "hors_doeuvre" /\ Owns(r)'
  \/ Counter(r[2]) # 0 /\ St(r)' = "hungry"

Quiet(t) ==
  /\ \A u \in Thread : u # t => SameRoles(u)
  /\ LessBase(t)
  /\ \A r \in Replica : /\ ~EatsAt(t, r) /\ ~StopsAt(t, r) /\ ~EatsAt(t, r)' /\ ~StopsAt(t, r)'
                        /\ AcceptsAt(t, r) => AcceptsAt(t, r)' \/ St(r)' = "hungry"
                        /\ StaysOrMoves(r)
                        /\ Reaped /\ HasAll(r) => Owns(r)'
  /\ \A v \in Vertex : Counter(v)' = 0 <=> Counter(v) = 0
  /\ \A r \in Mirror : \A op : /\ Sent(r, op) => Sent(r, op)'
                               /\ op # "accept" => (Sent(r, op)' => Sent(r, op))
  /\ UNCHANGED <<scatter, awaited, client>>

LEMMA QuietKeepsTasks ==
  ASSUME NEW t \in Thread, Quiet(t), Tasks
  PROVE  Tasks'
<1>1. /\ \A u \in Thread : u # t => SameRoles(u)
      /\ LessBase(t)
      /\ \A r \in Replica : ~EatsAt(t, r) /\ ~StopsAt(t, r) /\ ~EatsAt(t, r)' /\ ~StopsAt(t, r)'
      /\ \A v \in Vertex : Counter(v)' = 0 <=> Counter(v) = 0
      /\ \A r \in Mirror : Sent(r, "stop")' => Sent(r, "stop")
      /\ scatter' = scatter /\ awaited' = awaited /\ client' = client BY DEF Quiet
<1>2. /\ \A u \in Thread, r \in Replica : /\ EatsAt(u, r)' => EatsAt(u, r)
                                          /\ StopsAt(u, r)' => StopsAt(u, r) /\ u # t
      /\ \A u \in Thread, v \in Vertex : /\ EndsAt(u, v)' => EndsAt(u, v)
                                         /\ RepliesAt(u, v)' => RepliesAt(u, v)
                                         /\ StrayAt(u, v)' => StrayAt(u, v)
  BY <1>1 DEF SameRoles, LessBase
<1>3. \A v \in Vertex : Winning(v)' => Winning(v) BY <1>2, SetFacts DEF Winning
<1>4. Programs' /\ Winners' BY <1>1, <1>3 DEF Tasks, Programs, Winners
<1>5. Enders' /\ Scatters' BY <1>1, <1>2 DEF Tasks, Enders, Scatters
<1>6. OneEach' BY <1>2, SetFacts DEF Tasks, OneEach
<1>7. Grounds'
  <2>1. ASSUME NEW u \in Thread, NEW r \in Replica, StopsAt(u, r)'
        PROVE  IF r \in Mirror THEN RepliesAt(u, r[2])' \/ StrayAt(u, r[2])' ELSE EndsAt(u, r[2])'
    <3>1. StopsAt(u, r) /\ SameRoles(u) /\ r[2] \in Vertex BY <1>1, <1>2, <2>1, SetFacts
    <3>2. IF r \in Mirror THEN RepliesAt(u, r[2]) \/ StrayAt(u, r[2]) ELSE EndsAt(u, r[2])
      BY <3>1 DEF Tasks, Grounds
    <3> QED BY <3>1, <3>2 DEF SameRoles
  <2> QED BY <2>1 DEF Grounds
<1>8. Strays' BY <1>1, <1>2 DEF Tasks, Strays
<1> QED BY <1>4, <1>5, <1>6, <1>7, <1>8 DEF Tasks

LEMMA QuietKeepsHeld ==
  ASSUME NEW t \in Thread, Quiet(t), Tasks, Held
  PROVE  /\ Held'
         /\ \A r \in Replica : Waiting(r)' => Waiting(r) \/ (St(r)' = "hungry" /\ St(r) # "hungry")
<1>1. /\ \A u \in Thread : u # t => SameRoles(u)
      /\ \A r \in Replica : /\ ~StopsAt(t, r)'
                            /\ AcceptsAt(t, r) => AcceptsAt(t, r)' \/ St(r)' = "hungry"
                            /\ StaysOrMoves(r)
                            /\ Reaped /\ HasAll(r) => Owns(r)'
      /\ \A r \in Mirror : \A op : Sent(r, op) => Sent(r, op)'
      /\ scatter' = scatter /\ client' = client BY DEF Quiet
<1>2. \A r \in Replica : Bound(r)' => Bound(r) BY <1>1 DEF Bound, SameRoles
<1>3. \A r \in Replica : Expecting(r) => Expecting(r)' \/ St(r)' = "hungry"
  BY <1>1 DEF Expecting, SameRoles, Sent
<1>4. \A r \in Replica : Wanting(r)' => Wanting(r) BY <1>1 DEF Wanting, Reaped
<1>5. \A r \in Replica : Reaped /\ HasAll(r) => HasAll(r)' \/ St(r)' = "hungry"
  BY <1>1 DEF HasAll, StaysOrMoves
<1>6. ASSUME NEW r \in Replica, Waiting(r)'
      PROVE  Waiting(r) \/ (St(r)' = "hungry" /\ St(r) # "hungry")
  BY <1>3, <1>4, <1>5, <1>6 DEF Waiting, Lost, Wanting
<1>7. Held'
  <2> SUFFICES ASSUME Reaped PROVE Held' BY DEF Held, Reaped
  <2>1. ASSUME NEW r \in Replica, St(r)' = "hors_doeuvre" PROVE Owns(r)'
    BY <1>1, <2>1 DEF Held, HasAll, StaysOrMoves
  <2>2. ASSUME NEW v \in Vertex, client'[v] = "eating" PROVE St(Master(v))' = "eating"
    <3>1. client[v] = "eating" /\ Counter(v) = 0 BY <1>1, <2>2 DEF Tasks, Programs
    <3>2. Master(v) \in Replica /\ Master(v)[2] = v BY SetFacts
    <3>3. St(Master(v)) = "eating" /\ StaysOrMoves(Master(v)) BY <1>1, <3>1, <3>2 DEF Held
    <3> QED BY <3>1, <3>2, <3>3 DEF StaysOrMoves
  <2>3. ASSUME NEW r \in Replica, Bound(r)'
        PROVE  HasAll(r)' /\ (r = Master(r[2]) => St(r)' = "eating")
    <3>1. Bound(r) /\ Counter(r[2]) = 0 BY <1>2, <2>3, BoundStops
    <3>2. HasAll(r) /\ (r = Master(r[2]) => St(r) = "eating") BY <3>1 DEF Held
    <3>3. St(r)' = St(r) /\ Owns(r)' BY <1>1, <3>1, <3>2 DEF StaysOrMoves, HasAll
    <3> QED BY <3>2, <3>3 DEF HasAll
  <2> QED BY <2>1, <2>2, <2>3 DEF Held
<1> QED BY <1>6, <1>7

-----------------------------------------------------------------------------
(* A replica stops.                                                        *)

StopsEating(t, r) ==
  /\ \A u \in Thread : u # t => SameRoles(u)
  /\ LessBase(t) /\ PlainAt(t)'
  /\ StopsAt(t, r)
  /\ \A q \in Replica : ~EatsAt(t, q) /\ ~AcceptsAt(t, q) /\ (StopsAt(t, q) => q = r)
  /\ St(r)' = "thinking" /\ \A q \in Replica : q # r => St(q)' = St(q)
  /\ \A q \in Replica : Owns(q)' <=> Owns(q)
  /\ \A v \in Vertex : Counter(v)' = Counter(v)
  /\ \A q \in Replica : \A op : Sent(q, op)' <=> Sent(q, op)
  /\ UNCHANGED <<scatter, awaited, client>>

LEMMA StopKeepsTasks ==
  ASSUME NEW t \in Thread, NEW r \in Replica, StopsEating(t, r), Tasks
  PROVE  Tasks'
<1>1. /\ \A u \in Thread : u # t => SameRoles(u)
      /\ LessBase(t) /\ PlainAt(t)'
      /\ \A v \in Vertex : Counter(v)' = Counter(v)
      /\ \A q \in Replica : \A op : Sent(q, op)' <=> Sent(q, op)
      /\ scatter' = scatter /\ awaited' = awaited /\ client' = client BY DEF StopsEating
<1>2. /\ \A u \in Thread, q \in Replica : /\ EatsAt(u, q)' => EatsAt(u, q) /\ u # t
                                          /\ StopsAt(u, q)' => StopsAt(u, q) /\ u # t
      /\ \A u \in Thread, v \in Vertex : /\ EndsAt(u, v)' => EndsAt(u, v)
                                         /\ RepliesAt(u, v)' => RepliesAt(u, v)
                                         /\ StrayAt(u, v)' => StrayAt(u, v)
  BY <1>1 DEF SameRoles, LessBase, PlainAt
<1>3. \A v \in Vertex : Winning(v)' => Winning(v) BY <1>2, SetFacts DEF Winning
<1>4. Programs' /\ Winners' BY <1>1, <1>3 DEF Tasks, Programs, Winners
<1>5. Enders' /\ Scatters' BY <1>1, <1>2 DEF Tasks, Enders, Scatters
<1>6. OneEach' BY <1>2, SetFacts DEF Tasks, OneEach
<1>7. Grounds'
  <2>1. ASSUME NEW u \in Thread, NEW q \in Replica, StopsAt(u, q)'
        PROVE  IF q \in Mirror THEN RepliesAt(u, q[2])' \/ StrayAt(u, q[2])' ELSE EndsAt(u, q[2])'
    <3>1. StopsAt(u, q) /\ SameRoles(u) /\ q[2] \in Vertex BY <1>1, <1>2, <2>1, SetFacts
    <3>2. IF q \in Mirror THEN RepliesAt(u, q[2]) \/ StrayAt(u, q[2]) ELSE EndsAt(u, q[2])
      BY <3>1 DEF Tasks, Grounds
    <3> QED BY <3>1, <3>2 DEF SameRoles
  <2> QED BY <2>1 DEF Grounds
<1>8. Strays' BY <1>1, <1>2, SetFacts DEF Tasks, Strays
<1> QED BY <1>4, <1>5, <1>6, <1>7, <1>8 DEF Tasks

LEMMA StopKeepsHeld ==
  ASSUME NEW t \in Thread, NEW r \in Replica, StopsEating(t, r), Tasks, Held, awaited \subseteq Mirror
  PROVE  Held' /\ \A q \in Replica : Waiting(q)' => Waiting(q)
<1>1. /\ \A u \in Thread : u # t => SameRoles(u)
      /\ PlainAt(t)' /\ StopsAt(t, r)
      /\ \A q \in Replica : ~AcceptsAt(t, q)
      /\ St(r)' = "thinking" /\ \A q \in Replica : q # r => St(q)' = St(q)
      /\ \A q \in Replica : Owns(q)' <=> Owns(q)
      /\ \A q \in Replica : \A op : Sent(q, op)' <=> Sent(q, op)
      /\ scatter' = scatter /\ client' = client BY DEF StopsEating
<1>2. \A u \in Thread, q \in Replica : /\ StopsAt(u, q)' => StopsAt(u, q) /\ u # t
                                       /\ AcceptsAt(u, q)' <=> AcceptsAt(u, q)
  BY <1>1 DEF SameRoles, PlainAt
<1>3. \A q \in Replica : (Expecting(q)' <=> Expecting(q)) /\ (Wanting(q)' <=> Wanting(q))
  BY <1>1, <1>2 DEF Expecting, Wanting, Reaped
<1>4. Reaped => client[r[2]] = "stopping" BY <1>1, BoundStops DEF Bound
<1>5. Reaped => ~Bound(r)' BY <1>1, <1>2, OnlyOneStops DEF Bound
<1>6. ASSUME NEW q \in Replica, Waiting(q)' PROVE Waiting(q)
  <2>1. CASE q = r BY <1>1, <1>3, <1>4, <1>6, <2>1 DEF Waiting, Lost, Wanting
  <2>2. CASE q # r BY <1>1, <1>3, <1>6, <2>2 DEF Waiting, Lost, HasAll
  <2> QED BY <2>1, <2>2
<1>7. Held'
  <2> SUFFICES ASSUME Reaped PROVE Held' BY DEF Held, Reaped
  <2>1. ASSUME NEW q \in Replica, St(q)' = "hors_doeuvre" PROVE Owns(q)' BY <1>1, <2>1 DEF Held
  <2>2. ASSUME NEW v \in Vertex, client'[v] = "eating" PROVE St(Master(v))' = "eating"
    <3>1. St(Master(v)) = "eating" /\ Master(v) \in Replica /\ Master(v)[2] = v
      BY <1>1, <2>2, SetFacts DEF Held
    <3> QED BY <1>1, <1>4, <2>2, <3>1
  <2>3. ASSUME NEW q \in Replica, Bound(q)'
        PROVE  HasAll(q)' /\ (q = Master(q[2]) => St(q)' = "eating")
    <3>1. q # r /\ Bound(q) BY <1>1, <1>2, <1>5, <2>3 DEF Bound
    <3> QED BY <1>1, <3>1 DEF Held, HasAll
  <2> QED BY <2>1, <2>2, <2>3 DEF Held
<1> QED BY <1>6, <1>7

-----------------------------------------------------------------------------
(* The master has heard of all replicas and makes the vertex eat.          *)

Wins(t, v) ==
  /\ \A u \in Thread : u # t => SameRoles(u)
  /\ LessBase(t) /\ PlainAt(t)
  /\ \A r \in Replica : (EatsAt(t, r)' <=> r = Master(v)) /\ ~StopsAt(t, r)' /\ ~AcceptsAt(t, r)'
  /\ Counter(v) # 0 /\ Counter(v)' = 0
  /\ \A w \in Vertex : w # v => Counter(w)' = Counter(w)
  /\ \A r \in Replica : St(r)' = St(r) /\ (Owns(r)' <=> Owns(r))
  /\ \A r \in Mirror : \A op : Sent(r, op)' <=> Sent(r, op) \/ (r[2] = v /\ op = "eat")
  /\ UNCHANGED <<scatter, awaited, client>>

LEMMA WinKeepsTasks ==
  ASSUME NEW t \in Thread, NEW v \in Vertex, Wins(t, v), Tasks
  PROVE  Tasks'
<1>1. /\ \A u \in Thread : u # t => SameRoles(u)
      /\ LessBase(t)
      /\ \A r \in Replica : (EatsAt(t, r)' <=> r = Master(v)) /\ ~StopsAt(t, r)'
      /\ Counter(v) # 0 /\ Counter(v)' = 0
      /\ \A w \in Vertex : w # v => Counter(w)' = Counter(w)
      /\ \A r \in Mirror : Sent(r, "stop")' => Sent(r, "stop")
      /\ scatter' = scatter /\ awaited' = awaited /\ client' = client BY DEF Wins
<1>p. \A u \in Thread, q \in Replica : EatsAt(u, q)' => (EatsAt(u, q) /\ u # t) \/ (q = Master(v) /\ u = t)
  BY <1>1 DEF SameRoles
<1>q. \A u \in Thread, q \in Replica : StopsAt(u, q)' => StopsAt(u, q) /\ u # t
  BY <1>1 DEF SameRoles
<1>r. \A u \in Thread, w \in Vertex : /\ EndsAt(u, w)' => EndsAt(u, w)
                                      /\ RepliesAt(u, w)' => RepliesAt(u, w)
                                      /\ StrayAt(u, w)' => StrayAt(u, w)
  BY <1>1 DEF SameRoles, LessBase
<1>3. client[v] = "hungry" /\ ~Winning(v) BY <1>1 DEF Tasks, Programs, Winners
<1>4. \A w \in Vertex : Winning(w)' => w = v \/ Winning(w) BY <1>p, SetFacts DEF Winning
<1>5. Programs' /\ Winners' BY <1>1, <1>3, <1>4 DEF Tasks, Programs, Winners
<1>6. Enders' /\ Scatters' BY <1>1, <1>r DEF Tasks, Enders, Scatters
<1>7. OneEach'
  <2>1. \A a, b \in Thread : a # b =>
           /\ \A w \in Vertex : ~(EndsAt(a, w)' /\ EndsAt(b, w)')
           /\ a[1] = b[1] => \A w \in Vertex : ~(RepliesAt(a, w)' /\ RepliesAt(b, w)')
    BY <1>r DEF Tasks, OneEach
  <2>2. \A a, b \in Thread : a # b => \A w \in Vertex : ~(EatsAt(a, Master(w))' /\ EatsAt(b, Master(w))')
    <3> SUFFICES ASSUME NEW a \in Thread, NEW b \in Thread, a # b, NEW w \in Vertex,
                        EatsAt(a, Master(w))', EatsAt(b, Master(w))'
                 PROVE  FALSE OBVIOUS
    <3>1. Master(w) \in Replica /\ Master(w)[2] = w /\ Master(v)[2] = v BY SetFacts
    <3>2. \A u \in Thread : EatsAt(u, Master(w))' => (EatsAt(u, Master(w)) /\ u # t) \/ (w = v /\ u = t)
      BY <1>p, <3>1
    <3>3. w # v BY <1>3, <3>2 DEF Winning
    <3> QED BY <3>2, <3>3 DEF Tasks, OneEach
  <2> QED BY <2>1, <2>2 DEF OneEach
<1>8. Grounds'
  <2>1. ASSUME NEW u \in Thread, NEW q \in Replica, StopsAt(u, q)'
        PROVE  IF q \in Mirror THEN RepliesAt(u, q[2])' \/ StrayAt(u, q[2])' ELSE EndsAt(u, q[2])'
    <3>1. StopsAt(u, q) /\ SameRoles(u) /\ q[2] \in Vertex BY <1>1, <1>q, <2>1, SetFacts
    <3>2. IF q \in Mirror THEN RepliesAt(u, q[2]) \/ StrayAt(u, q[2]) ELSE EndsAt(u, q[2])
      BY <3>1 DEF Tasks, Grounds
    <3> QED BY <3>1, <3>2 DEF SameRoles
  <2> QED BY <2>1 DEF Grounds
<1>9. Strays' BY <1>1, <1>r DEF Tasks, Strays
<1> QED BY <1>5, <1>6, <1>7, <1>8, <1>9 DEF Tasks

LEMMA WinKeepsHeld ==
  ASSUME NEW t \in Thread, NEW v \in Vertex, Wins(t, v), Held
  PROVE  Held' /\ \A q \in Replica : Waiting(q)' => Waiting(q)
<1>1. /\ \A u \in Thread : u # t => SameRoles(u)
      /\ PlainAt(t)
      /\ \A r \in Replica : ~StopsAt(t, r)' /\ ~AcceptsAt(t, r)'
      /\ \A r \in Replica : St(r)' = St(r) /\ (Owns(r)' <=> Owns(r))
      /\ \A r \in Mirror : \A op : Sent(r, op) => Sent(r, op)'
      /\ scatter' = scatter /\ client' = client BY DEF Wins
<1>2. \A u \in Thread, q \in Replica : /\ StopsAt(u, q)' => StopsAt(u, q)
                                       /\ AcceptsAt(u, q)' <=> AcceptsAt(u, q)
  BY <1>1 DEF SameRoles, PlainAt
<1>3. \A q \in Replica : (Expecting(q) => Expecting(q)') /\ (Wanting(q)' <=> Wanting(q))
  BY <1>1, <1>2 DEF Expecting, Wanting, Reaped, Sent
<1>4. \A q \in Replica : Bound(q)' => Bound(q) BY <1>1, <1>2 DEF Bound
<1>5. \A q \in Replica : HasAll(q)' <=> HasAll(q) BY <1>1 DEF HasAll
<1>6. \A q \in Replica : Waiting(q)' => Waiting(q) BY <1>1, <1>3, <1>5 DEF Waiting, Lost
<1>7. Held'
  <2> SUFFICES ASSUME Reaped PROVE Held' BY DEF Held, Reaped
  <2> QED BY <1>1, <1>4, <1>5, SetFacts DEF Held
<1> QED BY <1>6, <1>7

-----------------------------------------------------------------------------
(* A replica begins to eat.                                                *)

StartsToEat(t, r) ==
  /\ \A u \in Thread : u # t => SameRoles(u)
  /\ LessBase(t) /\ PlainAt(t)'
  /\ EatsAt(t, r) /\ \A q \in Replica : ~StopsAt(t, q) /\ ~AcceptsAt(t, q) /\ (EatsAt(t, q) => q = r)
  /\ St(r)' = "eating" /\ \A q \in Replica : q # r => St(q)' = St(q)
  /\ \A q \in Replica : Owns(q)' <=> Owns(q)
  /\ \A v \in Vertex : Counter(v)' = Counter(v)
  /\ \A q \in Replica : \A op : Sent(q, op)' <=> Sent(q, op)
  /\ \A v \in Vertex : client'[v] = IF r = Master(v) THEN "eating" ELSE client[v]
  /\ UNCHANGED <<scatter, awaited>>

LEMMA EatKeepsTasks ==
  ASSUME NEW t \in Thread, NEW r \in Replica, StartsToEat(t, r), Tasks, awaited \subseteq Mirror
  PROVE  Tasks'
<1>1. /\ \A u \in Thread : u # t => SameRoles(u)
      /\ LessBase(t) /\ PlainAt(t)' /\ EatsAt(t, r)
      /\ \A v \in Vertex : Counter(v)' = Counter(v)
      /\ \A q \in Replica : \A op : Sent(q, op)' <=> Sent(q, op)
      /\ \A v \in Vertex : client'[v] = IF r = Master(v) THEN "eating" ELSE client[v]
      /\ scatter' = scatter /\ awaited' = awaited BY DEF StartsToEat
<1>2. /\ \A u \in Thread, q \in Replica : /\ EatsAt(u, q)' => EatsAt(u, q) /\ u # t
                                          /\ StopsAt(u, q)' => StopsAt(u, q) /\ u # t
      /\ \A u \in Thread, v \in Vertex : /\ EndsAt(u, v)' => EndsAt(u, v)
                                         /\ RepliesAt(u, v)' => RepliesAt(u, v)
                                         /\ StrayAt(u, v)' => StrayAt(u, v)
  BY <1>1 DEF SameRoles, LessBase, PlainAt
<1>3. \A v \in Vertex : r = Master(v) => client[v] = "hungry" /\ Counter(v) = 0
  BY <1>1 DEF Tasks, Winners, Winning
<1>4. \A v \in Vertex : Winning(v)' => Winning(v) /\ r # Master(v)
  BY <1>2, SetFacts, <1>1 DEF Winning, Tasks, OneEach
<1>5. Programs' /\ Winners' BY <1>1, <1>3, <1>4 DEF Tasks, Programs, Winners
<1>6. Enders' BY <1>1, <1>2, <1>3 DEF Tasks, Enders
<1>7. Scatters'
  <2>0. scatter \subseteq awaited BY DEF Tasks, Scatters
  <2>1. \A q \in awaited' : client'[q[2]] = "stopping"
    <3> SUFFICES ASSUME NEW q \in awaited PROVE client'[q[2]] = "stopping" BY <1>1
    <3>1. client[q[2]] = "stopping" BY DEF Tasks, Scatters
    <3>2. \A v \in Vertex : client'[v] = client[v] \/ client[v] = "hungry" BY <1>1, <1>3
    <3>3. q[2] \in Vertex BY SetFacts
    <3> QED BY <3>1, <3>2, <3>3
  <2> QED BY <1>1, <1>2, <2>0, <2>1 DEF Tasks, Scatters
<1>8. OneEach' BY <1>2, SetFacts DEF Tasks, OneEach
<1>9. Grounds'
  <2>1. ASSUME NEW u \in Thread, NEW q \in Replica, StopsAt(u, q)'
        PROVE  IF q \in Mirror THEN RepliesAt(u, q[2])' \/ StrayAt(u, q[2])' ELSE EndsAt(u, q[2])'
    <3>1. StopsAt(u, q) /\ SameRoles(u) /\ q[2] \in Vertex BY <1>1, <1>2, <2>1, SetFacts
    <3>2. IF q \in Mirror THEN RepliesAt(u, q[2]) \/ StrayAt(u, q[2]) ELSE EndsAt(u, q[2])
      BY <3>1 DEF Tasks, Grounds
    <3> QED BY <3>1, <3>2 DEF SameRoles
  <2> QED BY <2>1 DEF Grounds
<1>10. Strays' BY <1>1, <1>2, SetFacts DEF Tasks, Strays
<1> QED BY <1>5, <1>6, <1>7, <1>8, <1>9, <1>10 DEF Tasks

LEMMA EatKeepsHeld ==
  ASSUME NEW t \in Thread, NEW r \in Replica, StartsToEat(t, r), Tasks, Held
  PROVE  Held' /\ \A q \in Replica : Waiting(q)' => Waiting(q)
<1>1. /\ \A u \in Thread : u # t => SameRoles(u)
      /\ PlainAt(t)' /\ EatsAt(t, r)
      /\ \A q \in Replica : ~StopsAt(t, q) /\ ~AcceptsAt(t, q)
      /\ St(r)' = "eating" /\ \A q \in Replica : q # r => St(q)' = St(q)
      /\ \A q \in Replica : Owns(q)' <=> Owns(q)
      /\ \A q \in Replica : \A op : Sent(q, op)' <=> Sent(q, op)
      /\ \A v \in Vertex : client'[v] = IF r = Master(v) THEN "eating" ELSE client[v]
      /\ scatter' = scatter BY DEF StartsToEat
<1>2. \A u \in Thread, q \in Replica : /\ StopsAt(u, q)' => StopsAt(u, q)
                                       /\ AcceptsAt(u, q)' <=> AcceptsAt(u, q)
  BY <1>1 DEF SameRoles, PlainAt
<1>3. \A v \in Vertex : r = Master(v) => client[v] = "hungry" BY <1>1 DEF Tasks, Winners, Winning
<1>4. \A q \in Replica : (Expecting(q)' <=> Expecting(q)) /\ (Wanting(q)' => Wanting(q))
  BY <1>1, <1>2, <1>3, SetFacts DEF Expecting, Wanting, Reaped
<1>5. \A q \in Replica : Bound(q)' => Bound(q) BY <1>1, <1>2 DEF Bound
<1>6. \A q \in Replica : HasAll(q) => HasAll(q)' BY <1>1 DEF HasAll
<1>7. ASSUME NEW q \in Replica, Waiting(q)' PROVE Waiting(q)
  BY <1>1, <1>4, <1>6, <1>7 DEF Waiting, Lost
<1>8. Held'
  <2> SUFFICES ASSUME Reaped PROVE Held' BY DEF Held, Reaped
  <2>1. ASSUME NEW q \in Replica, St(q)' = "hors_doeuvre" PROVE Owns(q)' BY <1>1, <2>1 DEF Held
  <2>2. ASSUME NEW v \in Vertex, client'[v] = "eating" PROVE St(Master(v))' = "eating"
    BY <1>1, <2>2, SetFacts DEF Held
  <2>3. ASSUME NEW q \in Replica, Bound(q)'
        PROVE  HasAll(q)' /\ (q = Master(q[2]) => St(q)' = "eating") BY <1>1, <1>5, <1>6, <2>3 DEF Held
  <2> QED BY <2>1, <2>2, <2>3 DEF Held
<1> QED BY <1>7, <1>8

-----------------------------------------------------------------------------
(* A handler takes a call of the master.                                   *)

HasNoTask(t) ==
  PlainAt(t) /\ \A v \in Vertex : ~EndsAt(t, v) /\ ~RepliesAt(t, v) /\ ~StrayAt(t, v)

TakesCall(t, r, op) ==
  /\ \A u \in Thread : u # t => SameRoles(u)
  /\ HasNoTask(t) /\ t[1] = r[1]
  /\ \A q \in Replica : /\ EatsAt(t, q)' <=> q = r /\ op = "eat"
                        /\ StopsAt(t, q)' <=> q = r /\ op = "stop"
                        /\ AcceptsAt(t, q)' <=> q = r /\ op = "accept"
  /\ \A v \in Vertex : ~EndsAt(t, v)' /\ ~RepliesAt(t, v)' /\ (StrayAt(t, v)' <=> v = r[2] /\ op = "stop")
  /\ St(r)' = IF op = "hungry" THEN "hungry" ELSE St(r)
  /\ \A q \in Replica : /\ q # r => St(q)' = St(q)
                        /\ Owns(q)' <=> Owns(q)
  /\ \A v \in Vertex : Counter(v)' = Counter(v)
  /\ Sent(r, op)
  /\ \A q \in Mirror : q # r => \A o : Sent(q, o)' <=> Sent(q, o)
  /\ \A o : /\ Sent(r, o)' => Sent(r, o)
            /\ Sent(r, o) => Sent(r, o)' \/ o = op
  /\ UNCHANGED <<scatter, awaited, client>>

LEMMA CallKeepsTasks ==
  ASSUME NEW t \in Thread, NEW r \in Mirror, NEW op, TakesCall(t, r, op), Tasks
  PROVE  Tasks'
<1>0. /\ r \in Replica /\ r[2] \in Vertex /\ r = <<r[1], r[2]>>
      /\ \A v \in Vertex : Master(v) # r BY SetFacts
<1>1. /\ \A u \in Thread : u # t => SameRoles(u)
      /\ HasNoTask(t) /\ t[1] = r[1]
      /\ \A q \in Replica : /\ EatsAt(t, q)' <=> q = r /\ op = "eat"
                            /\ StopsAt(t, q)' <=> q = r /\ op = "stop"
      /\ \A v \in Vertex : ~EndsAt(t, v)' /\ ~RepliesAt(t, v)' /\ (StrayAt(t, v)' <=> v = r[2] /\ op = "stop")
      /\ \A v \in Vertex : Counter(v)' = Counter(v)
      /\ Sent(r, op)
      /\ \A q \in Mirror : \A o : Sent(q, o)' => Sent(q, o)
      /\ scatter' = scatter /\ awaited' = awaited /\ client' = client BY DEF TakesCall
<1>2. \A u \in Thread, q \in Replica : q # r => /\ EatsAt(u, q)' => EatsAt(u, q)
                                                /\ StopsAt(u, q)' => StopsAt(u, q) /\ u # t
  BY <1>1 DEF SameRoles
<1>3. \A u \in Thread, v \in Vertex : /\ EndsAt(u, v)' => EndsAt(u, v)
                                      /\ RepliesAt(u, v)' => RepliesAt(u, v) BY <1>1 DEF SameRoles
<1>4. \A v \in Vertex : Winning(v)' => Winning(v) BY <1>0, <1>2, SetFacts DEF Winning
<1>5. Programs' /\ Winners' BY <1>1, <1>4 DEF Tasks, Programs, Winners
<1>6. Enders' /\ Scatters' BY <1>1, <1>3 DEF Tasks, Enders, Scatters
<1>7. OneEach'
  <2>1. \A a \in Thread, v \in Vertex : EatsAt(a, Master(v))' => EatsAt(a, Master(v))
    BY <1>0, <1>2, SetFacts
  <2> QED BY <1>3, <2>1 DEF Tasks, OneEach
<1>8. Grounds'
  <2>1. ASSUME NEW u \in Thread, u # t, NEW q \in Replica, StopsAt(u, q)'
        PROVE  IF q \in Mirror THEN RepliesAt(u, q[2])' \/ StrayAt(u, q[2])' ELSE EndsAt(u, q[2])'
    BY <1>1, <2>1, SetFacts DEF Tasks, Grounds, SameRoles
  <2>2. ASSUME NEW q \in Replica, StopsAt(t, q)'
        PROVE  q \in Mirror /\ StrayAt(t, q[2])' BY <1>0, <1>1, <2>2
  <2> QED BY <2>1, <2>2 DEF Grounds
<1>9. Strays'
  <2>1. op = "stop" => Client # "replica" BY <1>1 DEF Tasks, Strays
  <2>2. ASSUME NEW u \in Thread, NEW v \in Vertex, StrayAt(u, v)'
        PROVE  <<u[1], v>> \in Mirror /\ Client # "replica"
    <3>1. CASE u = t BY <1>0, <1>1, <2>1, <2>2, <3>1
    <3>2. CASE u # t BY <1>1, <2>2, <3>2 DEF SameRoles, Tasks, Strays
    <3> QED BY <3>1, <3>2
  <2> QED BY <1>1, <2>2 DEF Tasks, Strays
<1> QED BY <1>5, <1>6, <1>7, <1>8, <1>9 DEF Tasks

LEMMA CallKeepsHeld ==
  ASSUME NEW t \in Thread, NEW r \in Mirror, NEW op, TakesCall(t, r, op), Tasks, NothingOwed, Held
  PROVE  Held' /\ \A q \in Replica : Waiting(q)' => Waiting(q) \/ (q = r /\ op = "hungry")
<1>0. r \in Replica /\ r[2] \in Vertex /\ \A v \in Vertex : Master(v) # r /\ Master(v) \in Replica
  BY SetFacts
<1>1. /\ \A u \in Thread : u # t => SameRoles(u)
      /\ \A q \in Replica : ~EatsAt(t, q) /\ ~StopsAt(t, q) /\ ~AcceptsAt(t, q)
      /\ \A q \in Replica : /\ StopsAt(t, q)' <=> q = r /\ op = "stop"
                            /\ AcceptsAt(t, q)' <=> q = r /\ op = "accept"
      /\ St(r)' = IF op = "hungry" THEN "hungry" ELSE St(r)
      /\ \A q \in Replica : /\ q # r => St(q)' = St(q)
                            /\ Owns(q)' <=> Owns(q)
      /\ Sent(r, op)
      /\ \A q \in Mirror : q # r => \A o : Sent(q, o)' <=> Sent(q, o)
      /\ \A o : Sent(r, o) => Sent(r, o)' \/ o = op
      /\ scatter' = scatter /\ client' = client BY DEF TakesCall, HasNoTask, PlainAt
<1>2. \A u \in Thread, q \in Replica : /\ StopsAt(u, q)' => StopsAt(u, q) \/ (q = r /\ op = "stop")
                                       /\ AcceptsAt(u, q) => AcceptsAt(u, q)'
                                       /\ q # r => (AcceptsAt(u, q)' => AcceptsAt(u, q))
  BY <1>1 DEF SameRoles
<1>3. \A q \in Replica : Wanting(q)' <=> Wanting(q) BY <1>1 DEF Wanting, Reaped
<1>4. \A q \in Replica : q # r => (Expecting(q) => Expecting(q)')
  BY <1>1, <1>2 DEF Expecting, Sent
<1>5. op # "hungry" => (Expecting(r) => Expecting(r)') BY <1>0, <1>1, <1>2 DEF Expecting
<1>6. ASSUME NEW q \in Replica, Waiting(q)', ~(q = r /\ op = "hungry")
      PROVE  Waiting(q)
  <2>1. St(q)' = St(q) /\ (HasAll(q)' <=> HasAll(q)) BY <1>1, <1>6 DEF HasAll
  <2>2. Expecting(q) => Expecting(q)' BY <1>4, <1>5, <1>6
  <2> QED BY <1>3, <1>6, <2>1, <2>2 DEF Waiting, Lost
<1>7. Held'
  <2> SUFFICES ASSUME Reaped PROVE Held' BY DEF Held, Reaped
  <2>1. ASSUME NEW q \in Replica, St(q)' = "hors_doeuvre" PROVE Owns(q)'
    <3>1. St(q)' = St(q) BY <1>1, <2>1
    <3> QED BY <1>1, <2>1, <3>1 DEF Held
  <2>2. \A v \in Vertex : client'[v] = "eating" => St(Master(v))' = "eating" BY <1>0, <1>1 DEF Held
  <2>3. op # "stop" BY <1>1, <1>0 DEF Tasks, Strays, Reaped
  <2>4. ASSUME NEW q \in Replica, Bound(q)'
        PROVE  HasAll(q)' /\ (q = Master(q[2]) => St(q)' = "eating")
    <3>1. Bound(q) BY <1>1, <1>2, <2>3, <2>4 DEF Bound
    <3>2. Counter(q[2]) = 0 BY <3>1, BoundStops
    <3>3. ~(q = r /\ op = "hungry") BY <1>1, <3>2 DEF NothingOwed, Expecting
    <3>4. St(q)' = St(q) BY <1>1, <3>3
    <3> QED BY <1>1, <3>1, <3>4 DEF Held, HasAll
  <2> QED BY <2>1, <2>2, <2>4 DEF Held
<1> QED BY <1>6, <1>7

-----------------------------------------------------------------------------
(* The tasks of the programs and of the scatter requests.                  *)

\* Locks, forks and calls are as before.
Undisturbed ==
  /\ \A q \in Replica : /\ St(q)' = St(q) /\ (Owns(q)' <=> Owns(q))
                        /\ \A op : Sent(q, op)' <=> Sent(q, op)
  /\ \A v \in Vertex : Counter(v)' = Counter(v)

\* A task ends.
EndsTask(t) ==
  /\ \A u \in Thread : u # t => SameRoles(u)
  /\ PlainAt(t) /\ HasNoTask(t)'
  /\ Undisturbed

LEMMA EndOfTask ==
  ASSUME NEW t \in Thread, EndsTask(t)
  PROVE  /\ \A u \in Thread, r \in Replica : /\ EatsAt(u, r)' <=> EatsAt(u, r)
                                             /\ StopsAt(u, r)' <=> StopsAt(u, r)
                                             /\ AcceptsAt(u, r)' <=> AcceptsAt(u, r)
         /\ \A u \in Thread, v \in Vertex : /\ EndsAt(u, v)' => u # t /\ EndsAt(u, v)
                                            /\ RepliesAt(u, v)' => u # t /\ RepliesAt(u, v)
                                            /\ StrayAt(u, v)' => u # t /\ StrayAt(u, v)
         /\ \A u \in Thread, v \in Vertex : u # t =>
                                            /\ EndsAt(u, v)' <=> EndsAt(u, v)
                                            /\ RepliesAt(u, v)' <=> RepliesAt(u, v)
                                            /\ StrayAt(u, v)' <=> StrayAt(u, v)
         /\ \A v \in Vertex : Winning(v)' <=> Winning(v)
<1>1. /\ \A u \in Thread : u # t => SameRoles(u)
      /\ \A r \in Replica : ~EatsAt(t, r) /\ ~StopsAt(t, r) /\ ~AcceptsAt(t, r)
      /\ \A r \in Replica : ~EatsAt(t, r)' /\ ~StopsAt(t, r)' /\ ~AcceptsAt(t, r)'
      /\ \A v \in Vertex : ~EndsAt(t, v)' /\ ~RepliesAt(t, v)' /\ ~StrayAt(t, v)'
  BY DEF EndsTask, HasNoTask, PlainAt
<1>2. \A u \in Thread, r \in Replica : /\ EatsAt(u, r)' <=> EatsAt(u, r)
                                       /\ StopsAt(u, r)' <=> StopsAt(u, r)
                                       /\ AcceptsAt(u, r)' <=> AcceptsAt(u, r) BY <1>1 DEF SameRoles
<1>3. \A u \in Thread, v \in Vertex : u # t =>
                                      /\ EndsAt(u, v)' <=> EndsAt(u, v)
                                      /\ RepliesAt(u, v)' <=> RepliesAt(u, v)
                                      /\ StrayAt(u, v)' <=> StrayAt(u, v) BY <1>1 DEF SameRoles
<1>4. \A v \in Vertex : Winning(v)' <=> Winning(v) BY <1>2, SetFacts DEF Winning
<1> QED BY <1>1, <1>2, <1>3, <1>4

\* A program other than one that eats ends: nothing changes for the replicas.
LEMMA EndKeepsHeld ==
  ASSUME NEW t \in Thread, EndsTask(t), Held, scatter' = scatter,
         \A v \in Vertex : client'[v] \in {"hungry", "eating"} => client'[v] = client[v]
  PROVE  Held' /\ \A q \in Replica : Waiting(q)' => Waiting(q)
<1>1. \A u \in Thread, r \in Replica : /\ StopsAt(u, r)' <=> StopsAt(u, r)
                                       /\ AcceptsAt(u, r)' <=> AcceptsAt(u, r) BY EndOfTask
<1>2. \A q \in Replica : /\ St(q)' = St(q) /\ (Owns(q)' <=> Owns(q))
                         /\ \A op : Sent(q, op)' <=> Sent(q, op) BY DEF EndsTask, Undisturbed
<1>3. \A q \in Replica : /\ Bound(q)' <=> Bound(q)
                         /\ HasAll(q)' <=> HasAll(q)
                         /\ Expecting(q)' <=> Expecting(q)
                         /\ Wanting(q)' => Wanting(q)
  BY <1>1, <1>2, SetFacts DEF Bound, HasAll, Expecting, Wanting, Reaped
<1>4. \A q \in Replica : Waiting(q)' => Waiting(q) BY <1>2, <1>3 DEF Waiting, Lost
<1>5. Held'
  <2> SUFFICES ASSUME Reaped PROVE Held' BY DEF Held, Reaped
  <2> QED BY <1>2, <1>3, SetFacts DEF Held
<1> QED BY <1>4, <1>5

\* A mirror tells the engine that it has scattered.
LEMMA ReplyKeepsTasks ==
  ASSUME NEW t \in Thread, NEW v \in Vertex, EndsTask(t), RepliesAt(t, v), Tasks,
         awaited' = awaited \ {<<t[1], v>>}, scatter' = scatter, client' = client,
         awaited \subseteq Mirror
  PROVE  Tasks'
<1>1. /\ \A u \in Thread, r \in Replica : /\ EatsAt(u, r)' <=> EatsAt(u, r)
                                          /\ StopsAt(u, r)' <=> StopsAt(u, r)
      /\ \A u \in Thread, w \in Vertex : /\ EndsAt(u, w)' => u # t /\ EndsAt(u, w)
                                         /\ RepliesAt(u, w)' => u # t /\ RepliesAt(u, w)
                                         /\ StrayAt(u, w)' => u # t /\ StrayAt(u, w)
      /\ \A u \in Thread, w \in Vertex : u # t =>
                                         /\ EndsAt(u, w)' <=> EndsAt(u, w)
                                         /\ RepliesAt(u, w)' <=> RepliesAt(u, w)
                                         /\ StrayAt(u, w)' <=> StrayAt(u, w)
      /\ \A w \in Vertex : Winning(w)' <=> Winning(w) BY EndOfTask
<1>2. /\ \A q \in Replica : \A op : Sent(q, op)' <=> Sent(q, op)
      /\ \A w \in Vertex : Counter(w)' = Counter(w)
      /\ \A r \in Replica : ~EatsAt(t, r) /\ ~StopsAt(t, r)
  BY DEF EndsTask, Undisturbed, PlainAt
<1>3. Programs' /\ Winners' /\ Enders' BY <1>1, <1>2 DEF Tasks, Programs, Winners, Enders
<1>4. OneEach' BY <1>1, SetFacts DEF Tasks, OneEach
<1>5. Scatters'
  <2>1. ASSUME NEW u \in Thread, NEW w \in Vertex, RepliesAt(u, w)'
        PROVE  <<u[1], w>> \in awaited' \ scatter' BY <1>1, <2>1 DEF Tasks, Scatters, OneEach
  <2>2. <<t[1], v>> \notin scatter BY DEF Tasks, Scatters
  <2> QED BY <2>1, <2>2 DEF Tasks, Scatters
<1>6. Grounds' BY <1>1, <1>2, SetFacts DEF Tasks, Grounds
<1>7. Strays' BY <1>1, <1>2, SetFacts DEF Tasks, Strays
<1> QED BY <1>3, <1>4, <1>5, <1>6, <1>7 DEF Tasks

\* The engine releases a vertex.
LEMMA ReleaseKeepsTasks ==
  ASSUME NEW t \in Thread, NEW v \in Vertex, EndsTask(t), EndsAt(t, v), Tasks,
         \A r \in awaited : r[2] # v,
         \A w \in Vertex : client'[w] = IF w = v THEN "thinking" ELSE client[w],
         awaited' = awaited, scatter' = scatter, awaited \subseteq Mirror
  PROVE  Tasks' /\ client[v] = "stopping"
<1>1. /\ \A u \in Thread, r \in Replica : /\ EatsAt(u, r)' <=> EatsAt(u, r)
                                          /\ StopsAt(u, r)' <=> StopsAt(u, r)
      /\ \A u \in Thread, w \in Vertex : /\ EndsAt(u, w)' => u # t /\ EndsAt(u, w)
                                         /\ RepliesAt(u, w)' => u # t /\ RepliesAt(u, w)
                                         /\ StrayAt(u, w)' => u # t /\ StrayAt(u, w)
      /\ \A u \in Thread, w \in Vertex : u # t =>
                                         /\ EndsAt(u, w)' <=> EndsAt(u, w)
                                         /\ RepliesAt(u, w)' <=> RepliesAt(u, w)
                                         /\ StrayAt(u, w)' <=> StrayAt(u, w)
      /\ \A w \in Vertex : Winning(w)' <=> Winning(w) BY EndOfTask
<1>2. /\ \A q \in Replica : \A op : Sent(q, op)' <=> Sent(q, op)
      /\ \A w \in Vertex : Counter(w)' = Counter(w)
      /\ \A r \in Replica : ~EatsAt(t, r) /\ ~StopsAt(t, r)
  BY DEF EndsTask, Undisturbed, PlainAt
<1>0. client[v] = "stopping" BY DEF Tasks, Enders
<1>3. Programs' /\ Winners' BY <1>0, <1>1, <1>2 DEF Tasks, Programs, Winners
<1>4. Enders' BY <1>1 DEF Tasks, OneEach, Enders
<1>5. OneEach' BY <1>1, SetFacts DEF Tasks, OneEach
<1>6. Scatters' BY <1>1, SetFacts DEF Tasks, Scatters
<1>7. Grounds' BY <1>1, <1>2, SetFacts DEF Tasks, Grounds
<1>8. Strays' BY <1>1, <1>2, SetFacts DEF Tasks, Strays
<1> QED BY <1>0, <1>3, <1>4, <1>5, <1>6, <1>7, <1>8 DEF Tasks

-----------------------------------------------------------------------------
\* A handler takes a scatter request.
TakesScatter(t, r) ==
  /\ \A u \in Thread : u # t => SameRoles(u)
  /\ HasNoTask(t) /\ t[1] = r[1] /\ r \in scatter
  /\ \A q \in Replica : ~EatsAt(t, q)' /\ ~AcceptsAt(t, q)' /\ (StopsAt(t, q)' <=> q = r)
  /\ \A v \in Vertex : ~EndsAt(t, v)' /\ ~StrayAt(t, v)' /\ (RepliesAt(t, v)' <=> v = r[2])
  /\ Undisturbed
  /\ scatter' = scatter \ {r} /\ awaited' = awaited /\ client' = client

LEMMA ScatterKeeps ==
  ASSUME NEW t \in Thread, NEW r \in Mirror, TakesScatter(t, r), Tasks, awaited \subseteq Mirror, Held
  PROVE  Tasks' /\ Held' /\ \A q \in Replica : Waiting(q)' => Waiting(q)
<1>0. r \in Replica /\ r[2] \in Vertex /\ r = <<r[1], r[2]>> /\ \A v \in Vertex : Master(v) # r
  BY SetFacts
<1>1. /\ \A u \in Thread : u # t => SameRoles(u)
      /\ HasNoTask(t) /\ t[1] = r[1] /\ r \in scatter
      /\ \A q \in Replica : ~EatsAt(t, q)' /\ ~AcceptsAt(t, q)' /\ (StopsAt(t, q)' <=> q = r)
      /\ \A v \in Vertex : ~EndsAt(t, v)' /\ ~StrayAt(t, v)' /\ (RepliesAt(t, v)' <=> v = r[2])
      /\ scatter' = scatter \ {r} /\ awaited' = awaited /\ client' = client BY DEF TakesScatter
<1>2. /\ \A q \in Replica : /\ St(q)' = St(q) /\ (Owns(q)' <=> Owns(q))
                            /\ \A op : Sent(q, op)' <=> Sent(q, op)
      /\ \A v \in Vertex : Counter(v)' = Counter(v) BY DEF TakesScatter, Undisturbed
<1>3. /\ \A q \in Replica : ~EatsAt(t, q) /\ ~StopsAt(t, q) /\ ~AcceptsAt(t, q)
      /\ \A v \in Vertex : ~EndsAt(t, v) /\ ~RepliesAt(t, v) /\ ~StrayAt(t, v)
  BY <1>1 DEF HasNoTask, PlainAt
<1>4. /\ \A u \in Thread, q \in Replica : /\ EatsAt(u, q)' <=> EatsAt(u, q)
                                          /\ StopsAt(u, q)' <=> StopsAt(u, q) \/ (u = t /\ q = r)
                                          /\ AcceptsAt(u, q)' <=> AcceptsAt(u, q)
      /\ \A u \in Thread, v \in Vertex : /\ EndsAt(u, v)' <=> EndsAt(u, v)
                                         /\ RepliesAt(u, v)' <=> RepliesAt(u, v) \/ (u = t /\ v = r[2])
                                         /\ StrayAt(u, v)' <=> StrayAt(u, v) BY <1>1, <1>3 DEF SameRoles
<1>5. \A v \in Vertex : Winning(v)' <=> Winning(v) BY <1>4, SetFacts DEF Winning
<1>6. r \in awaited BY <1>1 DEF Tasks, Scatters
<1>7. Programs' /\ Winners' /\ Enders' BY <1>1, <1>2, <1>4, <1>5 DEF Tasks, Programs, Winners, Enders
<1>8. OneEach'
  <2>1. \A u \in Thread : u[1] = t[1] => ~RepliesAt(u, r[2]) BY <1>0, <1>1 DEF Tasks, Scatters
  <2>2. OneEach BY DEF Tasks
  <2> QED BY <1>4, <2>1, <2>2, SetFacts DEF OneEach
<1>9. Scatters'
  <2>1. ASSUME NEW u \in Thread, NEW v \in Vertex, RepliesAt(u, v)'
        PROVE  <<u[1], v>> \in awaited' \ scatter'
    <3>1. CASE RepliesAt(u, v) BY <1>1, <3>1 DEF Tasks, Scatters
    <3>2. CASE u = t /\ v = r[2] BY <1>0, <1>1, <1>6, <3>2
    <3> QED BY <1>4, <2>1, <3>1, <3>2
  <2> QED BY <1>1, <2>1 DEF Tasks, Scatters
<1>10. Grounds' BY <1>0, <1>4, SetFacts DEF Tasks, Grounds
<1>11. Strays' BY <1>2, <1>4, SetFacts DEF Tasks, Strays
<1>12. Tasks' BY <1>7, <1>8, <1>9, <1>10, <1>11 DEF Tasks
<1>13. \A q \in Replica : /\ Bound(q)' <=> Bound(q)
                          /\ HasAll(q)' <=> HasAll(q)
                          /\ Expecting(q)' <=> Expecting(q)
                          /\ Wanting(q)' <=> Wanting(q)
  BY <1>1, <1>2, <1>4 DEF Bound, HasAll, Expecting, Wanting, Reaped
<1>14. \A q \in Replica : Waiting(q)' => Waiting(q) BY <1>2, <1>13 DEF Waiting, Lost
<1>15. Held'
  <2> SUFFICES ASSUME Reaped PROVE Held' BY DEF Held, Reaped
  <2> QED BY <1>1, <1>2, <1>13, SetFacts DEF Held
<1> QED BY <1>12, <1>14, <1>15

-----------------------------------------------------------------------------
(* The client makes a vertex hungry, and later lets it stop.               *)

GetsHungry(t, v) ==
  /\ \A u \in Thread : u # t => SameRoles(u)
  /\ HasNoTask(t) /\ HasNoTask(t)'
  /\ client[v] = "thinking"
  /\ \A w \in Vertex : client'[w] = IF w = v THEN "hungry" ELSE client[w]
  /\ Counter(v)' # 0 /\ \A w \in Vertex : w # v => Counter(w)' = Counter(w)
  /\ \A r \in Replica : /\ St(r)' = IF r = Master(v) THEN "hungry" ELSE St(r)
                        /\ Owns(r)' <=> Owns(r)
  /\ \A r \in Mirror : \A op : Sent(r, op)' <=> Sent(r, op) \/ (r[2] = v /\ op = "hungry")
  /\ scatter' = scatter /\ awaited' = awaited

LEMMA HungryKeeps ==
  ASSUME NEW t \in Thread, NEW v \in Vertex, GetsHungry(t, v), Tasks, awaited \subseteq Mirror, Held
  PROVE  Tasks' /\ Held' /\ \A q \in Replica : Waiting(q)' => Waiting(q) \/ q = Master(v)
<1>1. /\ \A u \in Thread : u # t => SameRoles(u)
      /\ HasNoTask(t) /\ HasNoTask(t)'
      /\ client[v] = "thinking"
      /\ \A w \in Vertex : client'[w] = IF w = v THEN "hungry" ELSE client[w]
      /\ Counter(v)' # 0 /\ \A w \in Vertex : w # v => Counter(w)' = Counter(w)
      /\ \A r \in Replica : /\ St(r)' = IF r = Master(v) THEN "hungry" ELSE St(r)
                            /\ Owns(r)' <=> Owns(r)
      /\ \A r \in Mirror : \A op : Sent(r, op)' <=> Sent(r, op) \/ (r[2] = v /\ op = "hungry")
      /\ scatter' = scatter /\ awaited' = awaited BY DEF GetsHungry
<1>2. /\ \A u \in Thread, r \in Replica : /\ EatsAt(u, r)' <=> EatsAt(u, r)
                                          /\ StopsAt(u, r)' <=> StopsAt(u, r)
                                          /\ AcceptsAt(u, r)' <=> AcceptsAt(u, r)
      /\ \A u \in Thread, w \in Vertex : /\ EndsAt(u, w)' <=> EndsAt(u, w)
                                         /\ RepliesAt(u, w)' <=> RepliesAt(u, w)
                                         /\ StrayAt(u, w)' <=> StrayAt(u, w)
  BY <1>1 DEF SameRoles, HasNoTask, PlainAt
<1>3. \A w \in Vertex : Winning(w)' <=> Winning(w) BY <1>2, SetFacts DEF Winning
<1>4. ~Winning(v) BY <1>1 DEF Tasks, Winners
<1>6. \A r \in Replica : \A op : op # "hungry" \/ r[2] # v => (Sent(r, op)' <=> Sent(r, op))
  BY <1>1 DEF Sent
<1>8. Programs' /\ Winners' /\ Enders' BY <1>1, <1>2, <1>3, <1>4 DEF Tasks, Programs, Winners, Enders
<1>9. OneEach' /\ Grounds' BY <1>2, SetFacts DEF Tasks, OneEach, Grounds
<1>10. Scatters' BY <1>1, <1>2, SetFacts DEF Tasks, Scatters
<1>11. Strays' BY <1>1, <1>2 DEF Tasks, Strays
<1>12. Tasks' BY <1>8, <1>9, <1>10, <1>11 DEF Tasks
<1>13. ASSUME NEW q \in Replica, Waiting(q)', q # Master(v)
       PROVE  Waiting(q)
  <2>1. St(q)' = St(q) /\ (HasAll(q)' <=> HasAll(q)) BY <1>1, <1>13 DEF HasAll
  <2>2. CASE q[2] # v
    <3>1. (Wanting(q)' <=> Wanting(q)) /\ (Expecting(q)' <=> Expecting(q))
      BY <1>1, <1>2, <1>6, <2>2, SetFacts DEF Wanting, Reaped, Expecting
    <3> QED BY <1>13, <2>1, <3>1 DEF Waiting, Lost
  <2>3. CASE q[2] = v
    <3>1. q \in Mirror BY <1>13, <2>3, SetFacts
    <3>2. Expecting(q)' BY <1>1, <2>3, <3>1 DEF Expecting
    <3> QED BY <1>13, <2>1, <3>2 DEF Waiting, Lost
  <2> QED BY <2>2, <2>3
<1>14. Held'
  <2> SUFFICES ASSUME Reaped PROVE Held' BY DEF Held, Reaped
  <2>1. \A r \in Replica : St(r)' = "hors_doeuvre" => Owns(r)' BY <1>1 DEF Held
  <2>2. \A w \in Vertex : client'[w] = "eating" => St(Master(w))' = "eating" BY <1>1, SetFacts DEF Held
  <2>3. ASSUME NEW q \in Replica, Bound(q)'
        PROVE  HasAll(q)' /\ (q = Master(q[2]) => St(q)' = "eating")
    <3>1. Bound(q) BY <1>1, <1>2, <2>3 DEF Bound
    <3>2. q # Master(v) BY <1>1, <3>1, BoundStops, SetFacts
    <3> QED BY <1>1, <3>1, <3>2 DEF Held, HasAll
  <2> QED BY <2>1, <2>2, <2>3 DEF Held
<1> QED BY <1>12, <1>13, <1>14

ProgramStops(t, v) ==
  /\ \A u \in Thread : u # t => SameRoles(u)
  /\ HasNoTask(t)
  /\ \A q \in Replica : ~EatsAt(t, q)' /\ ~AcceptsAt(t, q)' /\ (StopsAt(t, q)' <=> q = Master(v))
  /\ \A w \in Vertex : ~RepliesAt(t, w)' /\ ~StrayAt(t, w)' /\ (EndsAt(t, w)' <=> w = v)
  /\ client[v] = "eating"
  /\ \A w \in Vertex : client'[w] = IF w = v THEN "stopping" ELSE client[w]
  /\ \A w \in Vertex : Counter(w)' = Counter(w)
  /\ \A q \in Replica : St(q)' = St(q) /\ (Owns(q)' <=> Owns(q))
  /\ \/ /\ Client = "replica"
        /\ scatter' = scatter \cup MirrorsOf(v) /\ awaited' = awaited \cup MirrorsOf(v)
        /\ \A r \in Mirror : \A op : Sent(r, op)' <=> Sent(r, op)
     \/ /\ Client # "replica"
        /\ scatter' = scatter /\ awaited' = awaited
        /\ \A r \in Mirror : \A op : Sent(r, op)' <=> Sent(r, op) \/ (r[2] = v /\ op = "stop")

LEMMA ProgramStopKeeps ==
  ASSUME NEW t \in Thread, NEW v \in Vertex, ProgramStops(t, v), Tasks, awaited \subseteq Mirror,
         NothingOwed, Held
  PROVE  Tasks' /\ Held' /\ \A q \in Replica : Waiting(q)' => Waiting(q)
<1>1. /\ \A u \in Thread : u # t => SameRoles(u)
      /\ HasNoTask(t)
      /\ \A q \in Replica : ~EatsAt(t, q)' /\ ~AcceptsAt(t, q)' /\ (StopsAt(t, q)' <=> q = Master(v))
      /\ \A w \in Vertex : ~RepliesAt(t, w)' /\ ~StrayAt(t, w)' /\ (EndsAt(t, w)' <=> w = v)
      /\ client[v] = "eating"
      /\ \A w \in Vertex : client'[w] = IF w = v THEN "stopping" ELSE client[w]
      /\ \A w \in Vertex : Counter(w)' = Counter(w)
      /\ \A q \in Replica : St(q)' = St(q) /\ (Owns(q)' <=> Owns(q)) BY DEF ProgramStops
<1>2. /\ Client = "replica" =>
           /\ scatter' = scatter \cup MirrorsOf(v) /\ awaited' = awaited \cup MirrorsOf(v)
           /\ \A r \in Mirror : Sent(r, "stop")' => Sent(r, "stop")
      /\ Client # "replica" => scatter' = scatter /\ awaited' = awaited
      /\ \A r \in Mirror : \A op : op # "stop" => (Sent(r, op)' <=> Sent(r, op))
  BY DEF ProgramStops
<1>4. /\ \A q \in Replica : ~EatsAt(t, q) /\ ~StopsAt(t, q) /\ ~AcceptsAt(t, q)
      /\ \A w \in Vertex : ~EndsAt(t, w) /\ ~RepliesAt(t, w) /\ ~StrayAt(t, w)
  BY <1>1 DEF HasNoTask, PlainAt
<1>5. /\ \A u \in Thread, q \in Replica : /\ EatsAt(u, q)' <=> EatsAt(u, q)
                                          /\ StopsAt(u, q)' <=> StopsAt(u, q) \/ (u = t /\ q = Master(v))
                                          /\ AcceptsAt(u, q)' <=> AcceptsAt(u, q)
      /\ \A u \in Thread, w \in Vertex : /\ EndsAt(u, w)' <=> EndsAt(u, w) \/ (u = t /\ w = v)
                                         /\ RepliesAt(u, w)' <=> RepliesAt(u, w)
                                         /\ StrayAt(u, w)' <=> StrayAt(u, w) BY <1>1, <1>4 DEF SameRoles
<1>6. \A w \in Vertex : Winning(w)' <=> Winning(w) BY <1>5, SetFacts DEF Winning
<1>7. Counter(v) = 0 /\ ~Winning(v) /\ \A u \in Thread : ~EndsAt(u, v)
  BY <1>1 DEF Tasks, Programs, Winners, Enders
<1>9. Programs' /\ Winners' /\ Enders' BY <1>1, <1>5, <1>6, <1>7 DEF Tasks, Programs, Winners, Enders
<1>10. OneEach' BY <1>5, <1>7, SetFacts DEF Tasks, OneEach
<1>11. Scatters'
  <2>1. \A r \in MirrorsOf(v) : r[2] = v BY SetFacts
  <2>2. \A r \in awaited : client[r[2]] = "stopping" /\ r[2] # v /\ r[2] \in Vertex
    BY <1>1, SetFacts DEF Tasks, Scatters
  <2>3. ASSUME NEW u \in Thread, NEW w \in Vertex, RepliesAt(u, w)'
        PROVE  <<u[1], w>> \in awaited' \ scatter'
    <3>1. <<u[1], w>> \in awaited \ scatter BY <1>5, <2>3 DEF Tasks, Scatters
    <3>2. <<u[1], w>>[2] # v BY <2>2, <3>1
    <3> QED BY <1>2, <2>1, <3>1, <3>2
  <2>4. scatter' \subseteq awaited' /\ (Client # "replica" => awaited' = {}) BY <1>2 DEF Tasks, Scatters
  <2>5. \A r \in awaited' : client'[r[2]] = "stopping" BY <1>1, <1>2, <2>1, <2>2
  <2> QED BY <2>3, <2>4, <2>5 DEF Scatters
<1>12. Grounds' BY SetFacts, <1>5 DEF Tasks, Grounds
<1>13. Strays' BY <1>2, <1>5 DEF Tasks, Strays
<1>14. Tasks' BY <1>9, <1>10, <1>11, <1>12, <1>13 DEF Tasks
<1>15. \A q \in Replica : /\ HasAll(q)' <=> HasAll(q)
                          /\ Expecting(q)' <=> Expecting(q)
                          /\ Wanting(q)' => Wanting(q)
  BY <1>1, <1>2, <1>5, SetFacts DEF HasAll, Expecting, Sent, Wanting, Reaped
<1>16. \A q \in Replica : Waiting(q)' => Waiting(q) BY <1>1, <1>15 DEF Waiting, Lost
<1>17. Held'
  <2> SUFFICES ASSUME Reaped PROVE Held' BY DEF Held, Reaped
  <2>1. \A r \in Replica : St(r)' = "hors_doeuvre" => Owns(r)' BY <1>1 DEF Held
  <2>2. \A w \in Vertex : client'[w] = "eating" => St(Master(w))' = "eating" BY <1>1, SetFacts DEF Held
  <2>3. ASSUME NEW q \in Replica, Bound(q)'
        PROVE  HasAll(q)' /\ (q = Master(q[2]) => St(q)' = "eating")
    <3>1. Bound(q) \/ q[2] = v BY <1>2, <1>5, <2>3, SetFacts DEF Bound
    <3>2. CASE Bound(q) BY <1>1, <1>15, <3>2 DEF Held
    <3>3. CASE q[2] = v
      <4>1. HasAll(q) BY <1>1, <1>7, <3>3, AllThere
      <4>2. q = Master(q[2]) => St(q) = "eating" BY <1>1, <3>3 DEF Held
      <4> QED BY <1>1, <1>15, <4>1, <4>2
    <3> QED BY <3>1, <3>2, <3>3
  <2> QED BY <2>1, <2>2, <2>3 DEF Held
<1> QED BY <1>14, <1>16, <1>17

=============================================================================
