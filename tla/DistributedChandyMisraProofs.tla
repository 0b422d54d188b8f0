------------------- MODULE DistributedChandyMisraProofs -------------------
(***************************************************************************)
(* What holds of the forks for every graph, placement of the masters and   *)
(* number of machines and threads, whatever the order the calls are taken  *)
(* in and however many run at a time.                                      *)
(*                                                                         *)
(* For every client the forks are counted, and the counter of a master     *)
(* covers the replicas the master has still to hear of.  For the clients   *)
(* whose replicas stop only when the program of the vertex has ended       *)
(* (Reaped: the engines' scatter, or any client on one machine) neighbours *)
(* never execute together: the forks, the ready signals and the            *)
(* cancellations implement NeighbourExclusion.                             *)
(*                                                                         *)
(* The behaviours are those in which the counter, an unsigned char, does   *)
(* not overflow (NoWrap): a lock id is a single bit, so that a             *)
(* cancellation that is two rounds late can be granted, and nothing in the *)
(* code bounds how many are.                                               *)
(*                                                                         *)
(* Every action is shown to keep IInv; the theorems follow.                *)
(***************************************************************************)
EXTENDS DistributedChandyMisraInvariant

-----------------------------------------------------------------------------
(* What the thread that takes a step was doing, and what it goes on to do. *)

LEMMA StacksFine ==
  ASSUME TypeOK, Stacks
  PROVE  FineStacks BY DEF TypeOK, Stacks, FineStacks, Fine

LEMMA FineStacksNext ==
  ASSUME FineStacks'
  PROVE  Stacks' /\ stack' \in [Thread -> Seq(Frame)] BY DEF Stacks, FineStacks, Fine

LEMMA Becomes ==
  ASSUME FineStacks, NEW t \in Thread, NEW s2, Fine(t[1], s2), Become(t, s2)
  PROVE  /\ FineStacks' /\ stack'[t] = s2
         /\ \A u \in Thread \ {t} : stack'[u] = stack[u]
         /\ \A u \in Thread : u # t => SameRoles(u)
<1>1. stack' = [stack EXCEPT ![t] = s2] /\ stack \in [Thread -> Seq(Frame)] /\ s2 \in Seq(Frame)
  BY DEF Become, FineStacks, Fine
<1>2. /\ stack' \in [Thread -> Seq(Frame)] /\ stack'[t] = s2
      /\ \A u \in Thread \ {t} : stack'[u] = stack[u] BY <1>1
<1>3. FineStacks' BY <1>2 DEF FineStacks
<1>4. OnlyThread(t) BY <1>2 DEF OnlyThread
<1> QED BY <1>2, <1>3, <1>4, OthersSame

LEMMA TopFacts ==
  ASSUME FineStacks, NEW t \in Thread, ~Idle(t)
  PROVE  /\ stack[t] # << >> /\ stack[t] \in Seq(Frame) /\ Fine(t[1], stack[t])
         /\ Top(t) = stack[t][1] /\ Top(t) \in Frame /\ WellPlaced(t[1], Top(t))
         /\ Here(t) \in Replica /\ Here(t)[1] = t[1] /\ Here(t)[2] = Top(t).v
         /\ t[1] \in Machine
<1>1. stack[t] # << >> /\ Fine(t[1], stack[t]) /\ t[1] \in Machine BY SetFacts DEF FineStacks, Idle
<1>2. /\ stack[t] \in Seq(Frame) /\ stack[t][1] \in Frame
      /\ WellPlaced(t[1], stack[t][1]) /\ Head(stack[t]) = stack[t][1] BY <1>1, FineFacts
<1> QED BY <1>1, <1>2 DEF Top, Here, WellPlaced

LoopFrame(k, f) == f \in Frame /\ f.op \in LoopOps /\ WellPlaced(k, f)

LEMMA AtFacts ==
  ASSUME FineStacks, NEW t \in Thread, NEW place, At(t, place)
  PROVE  /\ ~Idle(t) /\ LoopFrame(t[1], Top(t)) /\ Top(t).at = place
         /\ Top(t).todo \subseteq EdgesAt(Here(t))
         /\ place \notin {"lock", "edge"} => Top(t).edge \in EdgesAt(Here(t))
<1>1. ~Idle(t) /\ Top(t).op \in LoopOps /\ Top(t).at = place BY DEF At, LoopOps
<1> QED BY <1>1, TopFacts DEF LoopFrame, LoopOps, WellPlaced, Here

\* A loop goes to another place; or on, with fewer edges and more to be signalled.
LoopPlaces == {"edge", "backoff", "other", "relock", "relock higher"}
AtPlace(f, a) == [f EXCEPT !.at = a]
AtEdge(f, a, e) == [f EXCEPT !.at = a, !.edge = e]
GoesOn(f, T, more) ==
  [f EXCEPT !.at = "edge", !.edge = NoEdge, !.todo = T, !.ready = @ \o more]

LEMMA FrameMoves ==
  ASSUME NEW k \in Machine, NEW f, LoopFrame(k, f),
         NEW a \in LoopPlaces, a = "edge" \/ f.at \notin {"lock", "edge"}
  PROVE  LET g == AtPlace(f, a) IN
         LoopFrame(k, g) /\ g.op = f.op /\ g.v = f.v /\ g.at = a /\ g.ready = f.ready
<1> DEFINE g == AtPlace(f, a)
<1>1. /\ f \in [op : LoopOps, v : Vertex,
                at : {"lock", "edge", "backoff", "other", "relock", "relock higher"},
                todo : SUBSET Edges, edge : Edges \cup {NoEdge}, ready : Seq(Vertex)]
      /\ f.op \in LoopOps /\ f.ready \in Seq(Vertex) BY FrameFields DEF LoopFrame
<1>2. /\ g \in [op : LoopOps, v : Vertex,
                at : {"lock", "edge", "backoff", "other", "relock", "relock higher"},
                todo : SUBSET Edges, edge : Edges \cup {NoEdge}, ready : Seq(Vertex)]
      /\ g.op = f.op /\ g.v = f.v /\ g.at = a /\ g.ready = f.ready
      /\ g.todo = f.todo /\ g.edge = f.edge BY <1>1 DEF AtPlace, LoopPlaces
<1> HIDE DEF g
<1>3. g \in Frame BY <1>2 DEF Frame, LoopOps
<1>4. WellPlaced(k, g) BY <1>1, <1>2 DEF LoopFrame, WellPlaced, LoopOps, HasReady
<1> QED BY <1>1, <1>2, <1>3, <1>4 DEF LoopFrame, g

LEMMA FrameMovesAt ==
  ASSUME NEW k \in Machine, NEW f, LoopFrame(k, f),
         NEW a \in LoopPlaces,
         NEW e \in EdgesAt(<<k, f.v>>)
  PROVE  LET g == AtEdge(f, a, e) IN
         LoopFrame(k, g) /\ g.op = f.op /\ g.v = f.v /\ g.at = a /\ g.ready = f.ready
<1> DEFINE g == AtEdge(f, a, e)
<1>0. e \in Edges BY DEF EdgesAt
<1>1. /\ f \in [op : LoopOps, v : Vertex,
                at : {"lock", "edge", "backoff", "other", "relock", "relock higher"},
                todo : SUBSET Edges, edge : Edges \cup {NoEdge}, ready : Seq(Vertex)]
      /\ f.op \in LoopOps /\ f.ready \in Seq(Vertex) BY FrameFields DEF LoopFrame
<1>2. /\ g \in [op : LoopOps, v : Vertex,
                at : {"lock", "edge", "backoff", "other", "relock", "relock higher"},
                todo : SUBSET Edges, edge : Edges \cup {NoEdge}, ready : Seq(Vertex)]
      /\ g.op = f.op /\ g.v = f.v /\ g.at = a /\ g.ready = f.ready
      /\ g.todo = f.todo /\ g.edge = e BY <1>0, <1>1 DEF AtEdge, LoopPlaces
<1> HIDE DEF g
<1>3. g \in Frame BY <1>2 DEF Frame, LoopOps
<1>4. WellPlaced(k, g) BY <1>1, <1>2 DEF LoopFrame, WellPlaced, LoopOps, HasReady
<1> QED BY <1>1, <1>2, <1>3, <1>4 DEF LoopFrame, g

\* A loop goes on with fewer edges, and possibly with more replicas to be signalled.
LEMMA FrameGoesOn ==
  ASSUME NEW k \in Machine, NEW f, LoopFrame(k, f), NEW T, T \subseteq f.todo,
         NEW more \in Seq(Vertex), \A i \in 1 .. Len(more) : <<k, more[i]>> \in Replica
  PROVE  LET g == GoesOn(f, T, more) IN
         /\ LoopFrame(k, g) /\ g.op = f.op /\ g.v = f.v /\ g.at = "edge"
         /\ g.ready = f.ready \o more
<1>1. /\ f \in [op : LoopOps, v : Vertex,
                at : {"lock", "edge", "backoff", "other", "relock", "relock higher"},
                todo : SUBSET Edges, edge : Edges \cup {NoEdge}, ready : Seq(Vertex)]
      /\ f.op \in LoopOps /\ f.ready \in Seq(Vertex) /\ f.todo \subseteq Edges
  BY FrameFields DEF LoopFrame
<1>2. /\ f.ready \o more \in Seq(Vertex)
      /\ \A i \in 1 .. Len(f.ready) : <<k, f.ready[i]>> \in Replica
      /\ \A i \in 1 .. Len(f.ready \o more) : <<k, (f.ready \o more)[i]>> \in Replica
  <2>1. \A i \in 1 .. Len(f.ready) : <<k, f.ready[i]>> \in Replica
    BY <1>1 DEF LoopFrame, WellPlaced, HasReady, LoopOps
  <2>2. /\ f.ready \o more \in Seq(Vertex) /\ Len(f.ready) \in Nat /\ Len(more) \in Nat
        /\ Len(f.ready \o more) = Len(f.ready) + Len(more)
        /\ \A i \in 1 .. Len(f.ready) : (f.ready \o more)[i] = f.ready[i]
        /\ \A i \in 1 .. Len(f.ready) + Len(more) :
             i > Len(f.ready) => (f.ready \o more)[i] = more[i - Len(f.ready)]
    <3> DEFINE a == f.ready
    <3>1. a \in Seq(Vertex) BY <1>1
    <3> HIDE DEF a
    <3>2. /\ a \o more \in Seq(Vertex) /\ Len(a) \in Nat /\ Len(more) \in Nat
          /\ Len(a \o more) = Len(a) + Len(more)
          /\ \A i \in 1 .. Len(a) + Len(more) :
               (a \o more)[i] = IF i <= Len(a) THEN a[i] ELSE more[i - Len(a)] BY <3>1, ConcatProperties
    <3> QED BY <3>2 DEF a
  <2> QED BY <2>1, <2>2
<1> DEFINE all == f.ready \o more
           g == [f EXCEPT !.at = "edge", !.edge = NoEdge, !.todo = T, !.ready = all]
<1>3. all \in Seq(Vertex) /\ \A i \in 1 .. Len(all) : <<k, all[i]>> \in Replica BY <1>2
<1>4. g = GoesOn(f, T, more) BY DEF GoesOn
<1> HIDE DEF all
<1>5. /\ g \in [op : LoopOps, v : Vertex,
                at : {"lock", "edge", "backoff", "other", "relock", "relock higher"},
                todo : SUBSET Edges, edge : Edges \cup {NoEdge}, ready : Seq(Vertex)]
      /\ g.op = f.op /\ g.v = f.v /\ g.at = "edge" /\ g.ready = all
      /\ g.todo = T /\ g.edge = NoEdge BY <1>1, <1>3
<1> HIDE DEF g
<1>6. g \in Frame BY <1>5 DEF Frame, LoopOps
<1>7. WellPlaced(k, g) BY <1>1, <1>3, <1>5 DEF LoopFrame, WellPlaced, LoopOps, HasReady
<1>8. LoopFrame(k, g) /\ g.op = f.op /\ g.v = f.v /\ g.at = "edge" /\ g.ready = f.ready \o more
  BY <1>1, <1>5, <1>6, <1>7 DEF LoopFrame, all
<1> QED BY <1>4, <1>8

\* The thread goes on without a task of its own, and has somebody to signal: x if b.
TellsMore(t, b, x) ==
  /\ FineStacks'
  /\ \A u \in Thread \ {t} : stack'[u] = stack[u]
  /\ Plain(stack[t]) /\ Plain(stack'[t]) /\ SameBase(stack[t], stack'[t])
  /\ Adds(stack[t], stack'[t], IF b THEN <<x>> ELSE << >>)

LEMMA Nothing ==
  ASSUME NEW s \in Seq(Vertex)
  PROVE  s \o << >> = s OBVIOUS

LEMMA LoopTells ==
  ASSUME FineStacks, NEW t \in Thread, ~Idle(t), LoopFrame(t[1], Top(t)),
         Top(t).at # "lock" \/ Top(t).op = "grab",
         NEW b \in BOOLEAN, NEW x \in Vertex, NEW f, LoopFrame(t[1], f),
         f.op = Top(t).op, f.v = Top(t).v, f.at # "lock",
         f.ready = Top(t).ready \o (IF b THEN <<x>> ELSE << >>),
         Become(t, <<f>> \o Callers(t))
  PROVE  TellsMore(t, b, x)
<1> DEFINE s == stack[t]
           more == IF b THEN <<x>> ELSE << >>
           s2 == <<f>> \o Tail(s)
<1>1. /\ s # << >> /\ Fine(t[1], s) /\ t[1] \in Machine /\ Top(t) = s[1]
      /\ Callers(t) = Tail(s) BY TopFacts DEF Callers
<1>2. s[1].op \in LoopOps /\ f \in Frame /\ WellPlaced(t[1], f) /\ more \in Seq(Vertex)
  BY <1>1 DEF LoopFrame
<1>2a. f.op = s[1].op /\ f.v = s[1].v /\ f.ready = s[1].ready \o more BY <1>1
<1> HIDE DEF more, s
<1>3. /\ Fine(t[1], s2) /\ Plain(s2) /\ SameBase(s, s2) /\ Adds(s, s2, more)
      /\ s[1].at # "lock" => Plain(s)
  <2> HIDE DEF s2
  <2>1. s2 = <<f>> \o Tail(s) BY DEF s2
  <2> QED BY <1>1, <1>2, <1>2a, <2>1, LoopGoesOn
<1>4. Plain(s) BY <1>1, <1>3 DEF Plain, Eats, Stops, Accepts
<1>5. Become(t, s2) BY <1>1
<1>6. /\ FineStacks' /\ stack'[t] = s2
      /\ \A u \in Thread \ {t} : stack'[u] = stack[u]
  <2> HIDE DEF s2
  <2> QED BY <1>3, <1>5, Becomes
<1> QED BY <1>3, <1>4, <1>6 DEF TellsMore, s, more

-----------------------------------------------------------------------------
(* The invariant after a step, part by part.                               *)

LockSet == [Replica -> Thread \cup {NoOne}]
ClientSet == [Vertex -> {"thinking", "hungry", "eating", "stopping"}]

LEMMA TypeNext ==
  ASSUME phil' \in PhilSet, fork' \in ForkSet, lock' \in LockSet, FineStacks',
         Mailboxes(down'), Mailboxes(up'), scatter' \subseteq Mirror, awaited' \subseteq Mirror,
         client' \in ClientSet, meals' \in [Vertex -> Nat], \A v \in Vertex : meals'[v] <= MaxMeals[v]
  PROVE  TypeOK' /\ Stacks'
<1>1. stack' \in [Thread -> Seq(Frame)] /\ Stacks' BY FineStacksNext
<1> QED BY <1>1 DEF TypeOK, PhilSet, ForkSet, LockSet, ClientSet, Mailboxes

LEMMA TypeNow ==
  ASSUME TypeOK
  PROVE  /\ phil \in PhilSet /\ fork \in ForkSet /\ lock \in LockSet
         /\ Mailboxes(down) /\ Mailboxes(up) /\ scatter \subseteq Mirror /\ awaited \subseteq Mirror
         /\ client \in ClientSet /\ meals \in [Vertex -> Nat] /\ \A v \in Vertex : meals[v] <= MaxMeals[v]
BY DEF TypeOK, PhilSet, ForkSet, LockSet, ClientSet, Mailboxes

LEMMA CoveredNext ==
  ASSUME NEW v \in Vertex
  PROVE  Covered(v)' = NWaiting(v)' + NCalls(v)' + NReady(v)' + NAccepting(v)' + NListed(v)'
BY DEF Covered, NWaiting, NCalls, NReady, NAccepting, NListed

LEMMA CountedNext ==
  ASSUME \A v \in Vertex :
           NWaiting(v)' + NCalls(v)' + NReady(v)' + NAccepting(v)' + NListed(v)' <= Counter(v)'
  PROVE  Counted' BY CoveredNext DEF Counted

LEMMA MailSame ==
  ASSUME NEW v \in Vertex
  PROVE  /\ down' = down => NCalls(v)' = NCalls(v)
         /\ up' = up => NReady(v)' = NReady(v) BY DEF NCalls, NReady, CallsTo, ReadyCalls

LEMMA SentSame ==
  ASSUME down' = down
  PROVE  \A r \in Replica : \A op : Sent(r, op)' <=> Sent(r, op) BY DEF Sent

\* What the invariant says, with what the counts are.
LEMMA Invariant ==
  ASSUME IInv
  PROVE  /\ TypeOK /\ Stacks /\ Tasks /\ ForksFine /\ AcquiredCounts /\ Counted /\ Held
         /\ FineStacks /\ NothingOwed
         /\ phil \in PhilSet /\ fork \in ForkSet /\ lock \in LockSet
         /\ Mailboxes(down) /\ Mailboxes(up) /\ scatter \subseteq Mirror /\ awaited \subseteq Mirror
         /\ client \in ClientSet /\ meals \in [Vertex -> Nat] /\ \A v \in Vertex : meals[v] <= MaxMeals[v]
<1>1. TypeOK /\ Stacks /\ Tasks /\ ForksFine /\ AcquiredCounts /\ Counted /\ Held BY DEF IInv
<1>2. FineStacks BY <1>1, StacksFine
<1>3. NothingOwed BY <1>1, <1>2, CountedMeans
<1> QED BY <1>1, <1>2, <1>3, TypeNow

\* A hungry replica is of a vertex whose program waits.
LEMMA HungryWaits ==
  ASSUME IInv, NEW r \in Replica, St(r) = "hungry"
  PROVE  Counter(r[2]) # 0 /\ client[r[2]] = "hungry"
<1>1. Counter(r[2]) # 0 BY Invariant DEF NothingOwed, Waiting
<1> QED BY <1>1, Invariant, SetFacts DEF Tasks, Programs

-----------------------------------------------------------------------------
(* The steps of the loops.                                                 *)

\* What they do to forks and philosophers: x gets ready if b.
ForkStep(k, b, x) ==
  /\ phil' \in PhilSet /\ fork' \in ForkSet
  /\ \A r \in Replica : /\ phil'[r].counter = phil[r].counter
                        /\ St(r)' = IF b /\ r = <<k, x>> THEN "hors_doeuvre" ELSE St(r)
                        /\ Reaped /\ HasAll(r) => Owns(r)'
                        /\ b /\ r = <<k, x>> => St(r) = "hungry" /\ Owns(r)'
  /\ b => <<k, x>> \in Replica
  /\ ForksFine' /\ AcquiredCounts'

LEMMA LoopQuiet ==
  ASSUME NEW t \in Thread, NEW b \in BOOLEAN, NEW x \in Vertex,
         TellsMore(t, b, x), ForkStep(t[1], b, x), UNCHANGED <<calls, client>>
  PROVE  Quiet(t)
<1>1. /\ \A u \in Thread : u # t => SameRoles(u)
      /\ LessBase(t) /\ PlainAt(t) /\ PlainAt(t)' BY OthersSame, PlainRoles DEF TellsMore, OnlyThread
<1>2. /\ \A r \in Replica : ~EatsAt(t, r) /\ ~StopsAt(t, r) /\ ~EatsAt(t, r)' /\ ~StopsAt(t, r)'
      /\ \A r \in Replica : ~AcceptsAt(t, r) BY <1>1 DEF PlainAt
<1>3. \A r \in Replica : StaysOrMoves(r) /\ (Reaped /\ HasAll(r) => Owns(r)')
  BY DEF ForkStep, StaysOrMoves
<1>4. \A v \in Vertex : Counter(v)' = Counter(v) BY SetFacts DEF ForkStep, Counter
<1>5. down' = down /\ scatter' = scatter /\ awaited' = awaited /\ client' = client BY DEF calls
<1>6. \A r \in Mirror : \A op : Sent(r, op)' <=> Sent(r, op) BY <1>5, SentSame, SetFacts
<1> QED BY <1>1, <1>2, <1>3, <1>4, <1>5, <1>6 DEF Quiet

LEMMA LoopCounts ==
  ASSUME IInv, NEW t \in Thread, NEW b \in BOOLEAN, NEW x \in Vertex,
         TellsMore(t, b, x), ForkStep(t[1], b, x), UNCHANGED <<calls, client>>
  PROVE  Counted'
<1>0. FineStacks /\ FineStacks' /\ TypeOK /\ Counted /\ down' = down /\ up' = up
  BY Invariant DEF TellsMore, calls
<1> SUFFICES ASSUME NEW v \in Vertex
             PROVE  NWaiting(v)' + NCalls(v)' + NReady(v)' + NAccepting(v)' + NListed(v)' <= Counter(v)'
  BY CountedNext
<1>1. NCalls(v)' = NCalls(v) /\ NReady(v)' = NReady(v) BY <1>0, MailSame
<1>2. NAccepting(v)' = NAccepting(v) BY AcceptingAt DEF TellsMore, Plain, One
<1>3. NListed(v) \in Nat /\ NListed(v)' = NListed(v) + One(b /\ v = x) BY <1>0, ListedMore DEF TellsMore
<1>4. /\ NWaiting(v) \in Nat /\ NWaiting(v)' \in Nat
      /\ NWaiting(v)' <= NWaiting(v) - One(b /\ v = x)
  <2>0. \A q \in Replica : Waiting(q)' => Waiting(q)
    <3>1. Quiet(t) BY LoopQuiet
    <3>2. \A q \in Replica : Waiting(q)' => Waiting(q) \/ (St(q)' = "hungry" /\ St(q) # "hungry")
      BY <3>1, Invariant, QuietKeepsHeld
    <3>3. \A q \in Replica : St(q)' = "hungry" => St(q) = "hungry" BY DEF ForkStep
    <3> QED BY <3>2, <3>3
  <2>1. CASE ~b BY <2>0, <2>1, WaitingLess DEF One
  <2>2. CASE b
    <3> DEFINE r == <<t[1], x>>
    <3>1. r \in Replica /\ r[2] = x /\ St(r) = "hungry" /\ St(r)' = "hors_doeuvre" /\ Owns(r)'
      BY <2>2 DEF ForkStep
    <3> HIDE DEF r
    <3>2. Waiting(r) /\ ~Waiting(r)' BY <3>1 DEF Waiting, Lost, HasAll
    <3>3. /\ NWaiting(v) \in Nat /\ NWaiting(v)' \in Nat
          /\ NWaiting(v)' <= NWaiting(v) - One(r[2] = v /\ Waiting(r)) + One(r[2] = v /\ Waiting(r)')
      BY <2>0, <3>1, WaitingAt
    <3> QED BY <2>2, <3>1, <3>2, <3>3 DEF One
  <2> QED BY <2>1, <2>2
<1>5. Counter(v)' = Counter(v) BY SetFacts DEF ForkStep, Counter
<1>6. /\ NWaiting(v) + NCalls(v) + NReady(v) + NAccepting(v) + NListed(v) <= Counter(v)
      /\ NCalls(v) \in Nat /\ NReady(v) \in Nat
      /\ NAccepting(v) \in Nat /\ NListed(v) \in Nat
      /\ Counter(v) \in 0 .. 255 BY <1>0, Heard
<1> QED BY <1>1, <1>2, <1>3, <1>4, <1>5, <1>6 DEF One

LEMMA LoopKeeps ==
  ASSUME IInv, NEW t \in Thread, NEW b \in BOOLEAN, NEW x \in Vertex,
         TellsMore(t, b, x), ForkStep(t[1], b, x), lock' \in LockSet, UNCHANGED <<calls, client, meals>>
  PROVE  IInv'
<1>0. down' = down /\ up' = up /\ scatter' = scatter /\ awaited' = awaited
      /\ client' = client /\ meals' = meals /\ UNCHANGED <<calls, client>> BY DEF calls
<1>1. Quiet(t) BY <1>0, LoopQuiet
<1>2. Tasks' BY <1>1, Invariant, QuietKeepsTasks
<1>3. Held' BY <1>1, Invariant, QuietKeepsHeld
<1>5. Counted' BY <1>0, LoopCounts
<1>7. phil' \in PhilSet /\ fork' \in ForkSet /\ FineStacks' /\ ForksFine' /\ AcquiredCounts'
  BY DEF ForkStep, TellsMore
<1>8. TypeOK' /\ Stacks'
  <2>1. Mailboxes(down') /\ Mailboxes(up') /\ scatter' \subseteq Mirror /\ awaited' \subseteq Mirror
        /\ client' \in ClientSet /\ meals' \in [Vertex -> Nat] /\ \A v \in Vertex : meals'[v] <= MaxMeals[v]
    BY <1>0, Invariant
  <2> QED BY <1>7, <2>1, TypeNext
<1> QED BY <1>2, <1>3, <1>5, <1>7, <1>8 DEF IInv

-----------------------------------------------------------------------------
(* What the steps of the loops do to the forks.                            *)

LEMMA HasBothFacts ==
  ASSUME FineStacks, NEW t \in Thread, NEW e, HasBoth(t, e)
  PROVE  /\ ~Idle(t) /\ LoopFrame(t[1], Top(t)) /\ Top(t).at # "lock"
         /\ Here(t) \in Replica /\ Here(t)[1] = t[1] /\ e \in EdgesAt(Here(t)) /\ e \in Edges
<1>1. CASE At(t, "edge") /\ e \in NextEdges(t)
  <2>1. ~Idle(t) /\ LoopFrame(t[1], Top(t)) /\ Top(t).at = "edge" /\ Top(t).todo \subseteq EdgesAt(Here(t))
    BY <1>1, AtFacts
  <2>2. e \in EdgesAt(Here(t)) BY <1>1, <2>1 DEF NextEdges
  <2> QED BY <2>1, <2>2, TopFacts, EdgeFacts
<1>2. CASE At(t, "other") /\ e = Top(t).edge
  <2>1. ~Idle(t) /\ LoopFrame(t[1], Top(t)) /\ Top(t).at = "other" /\ e \in EdgesAt(Here(t))
    BY <1>2, AtFacts
  <2> QED BY <2>1, TopFacts, EdgeFacts
<1> QED BY <1>1, <1>2 DEF HasBoth

\* A request for fork e, and fork e changing hands.
Asked(f, e, y) == [f EXCEPT ![e].requests = @ \cup {y}]
HandedTo(f, e, o, R) == [f EXCEPT ![e] = Clean(o, R)]

LEMMA ForkFields ==
  ASSUME NEW f \in ForkSet, NEW e \in Edges
  PROVE  /\ \A y \in Vertex : LET f2 == Asked(f, e, y) IN
              /\ f2 \in ForkSet /\ \A d \in Edges : d # e => f2[d] = f[d]
              /\ f2[e].owner = f[e].owner /\ f2[e].requests = f[e].requests \cup {y}
         /\ \A o \in Vertex : \A R \in SUBSET Vertex : LET f2 == HandedTo(f, e, o, R) IN
              /\ f2 \in ForkSet /\ \A d \in Edges : d # e => f2[d] = f[d]
              /\ f2[e].owner = o /\ f2[e].requests = R
<1>1. \A y \in Vertex : LET f2 == Asked(f, e, y) IN
              /\ f2 \in ForkSet /\ \A d \in Edges : d # e => f2[d] = f[d]
              /\ f2[e].owner = f[e].owner /\ f2[e].requests = f[e].requests \cup {y}
  BY DEF ForkSet, Asked
<1>2. \A o \in Vertex : \A R \in SUBSET Vertex : LET f2 == HandedTo(f, e, o, R) IN
              /\ f2 \in ForkSet /\ \A d \in Edges : d # e => f2[d] = f[d]
              /\ f2[e].owner = o /\ f2[e].requests = R BY DEF ForkSet, Clean, HandedTo
<1> QED BY <1>1, <1>2

LEMMA NoForkStep ==
  ASSUME IInv, NEW k, NEW x, phil' = phil, fork' = fork, client' = client
  PROVE  ForkStep(k, FALSE, x)
<1>1. /\ phil \in PhilSet /\ fork \in ForkSet /\ AcquiredCounts /\ ForksFine BY Invariant
<1>2. AcquiredCounts' /\ \A r \in Replica : Owns(r)' <=> Owns(r) BY <1>1, AcquiredKept DEF Acq
<1>3. ForksFine' BY <1>1 DEF ForksFine, Reaped
<1> QED BY <1>1, <1>2, <1>3 DEF ForkStep, St, HasAll

LEMMA RequestStep ==
  ASSUME IInv, NEW k, NEW x, NEW r \in Replica, NEW e \in EdgesAt(r),
         St(r) = "hungry", fork[e].owner # r[2], client' = client,
         fork' = Asked(fork, e, r[2]),
         phil' \in PhilSet,
         \A z \in Replica : /\ phil'[z].state = phil[z].state /\ phil'[z].counter = phil[z].counter
                            /\ phil'[z].forks_acquired = phil[z].forks_acquired
  PROVE  ForkStep(k, FALSE, x)
<1>1. /\ fork \in ForkSet /\ AcquiredCounts /\ ForksFine
      /\ e \in Edges /\ r[2] \in {e.source, e.target} /\ r = <<e.on, r[2]>> /\ r[2] \in Vertex
  BY Invariant, EdgeFacts, SetFacts
<1>2. /\ fork' \in ForkSet /\ \A d \in Edges : d # e => fork'[d] = fork[d]
      /\ fork'[e].owner = fork[e].owner /\ fork'[e].requests = fork[e].requests \cup {r[2]}
  BY <1>1, ForkFields
<1>3. \A d \in Edges : fork'[d].owner = fork[d].owner BY <1>2
<1>4. \A z \in Replica : Acq(z)' = Acq(z) /\ St(z)' = St(z) BY DEF Acq, St
<1>5. AcquiredCounts' /\ \A z \in Replica : Owns(z)' <=> Owns(z) BY <1>1, <1>3, <1>4, AcquiredKept
<1>6. ForksFine'
  <2>0. client[r[2]] = "hungry" BY HungryWaits
  <2>1. \A d \in Edges : fork'[d].owner \in {d.source, d.target} BY <1>1, <1>3 DEF ForksFine
  <2>2. \A d \in Edges : \A y \in fork'[d].requests :
           \/ y \in fork[d].requests /\ fork'[d].owner = fork[d].owner
           \/ y \in {d.source, d.target} /\ y # fork'[d].owner /\ (Reaped => client'[y] = "hungry")
    BY <1>1, <1>2, <2>0
  <2>3. \A z \in Replica : Reaped /\ client[z[2]] = "hungry" => client'[z[2]] = "hungry" \/ Owns(z)' OBVIOUS
  <2> QED BY <1>1, <2>1, <2>2, <2>3, ForksFineNext
<1> QED BY <1>2, <1>4, <1>5, <1>6 DEF ForkStep, HasAll

\* Who owns a fork has acquired one.
LEMMA OwnerAcquired ==
  ASSUME AcquiredCounts, NEW r \in Replica, NEW e \in EdgesAt(r), fork[e].owner = r[2]
  PROVE  Acq(r) # 0
<1>1. e \in Owned(r) /\ IsFiniteSet(Owned(r)) BY OwnedFacts DEF Owned
<1>2. Cardinality(Owned(r)) # 0 BY <1>1, SomeCounted
<1> QED BY <1>2 DEF AcquiredCounts, Acq

\* A fork changes hands, and its new owner or its old one may get ready.
LEMMA GiveStep ==
  ASSUME IInv, NEW r \in Replica, NEW e \in EdgesAt(r), NEW x, x = Across(r, e),
         fork[e].owner = r[2], Reaped => ~HasAll(r),
         NEW R, R = {} \/ (R = {r[2]} /\ St(r) = "hungry"),
         fork' = HandedTo(fork, e, x[2], R), client' = client,
         NEW n \in Replica, NEW p, p = Moved(r, x), phil' = MakeReady(p, n)
  PROVE  ForkStep(n[1], NowReady(p, n), n[2])
<1>1. /\ fork \in ForkSet /\ phil \in PhilSet /\ AcquiredCounts /\ ForksFine
      /\ e \in Edges /\ x \in Replica /\ e \in EdgesAt(x) /\ x # r
      /\ r[2] \in {e.source, e.target} /\ x[2] \in {e.source, e.target} /\ r[2] # x[2]
      /\ r[2] \in Vertex /\ x[2] \in Vertex /\ n = <<n[1], n[2]>> BY Invariant, EdgeFacts, SetFacts
<1>2. R \in SUBSET Vertex /\ \A z \in R : z = r[2] /\ client[r[2]] = "hungry" BY <1>1, HungryWaits
<1>3. /\ fork' \in ForkSet /\ \A d \in Edges : d # e => fork'[d] = fork[d]
      /\ fork'[e].owner = x[2] /\ fork'[e].requests = R
  <2>1. fork \in ForkSet /\ e \in Edges /\ x[2] \in Vertex /\ R \in SUBSET Vertex BY <1>1, <1>2
  <2> QED BY <2>1, ForkFields
<1>4. phil[r].forks_acquired # 0 BY <1>1, OwnerAcquired DEF Acq
<1>5. /\ p \in PhilSet
      /\ \A z \in Replica : /\ p[z].state = phil[z].state /\ p[z].counter = phil[z].counter
                            /\ z # r /\ z # x => p[z].forks_acquired = phil[z].forks_acquired
      /\ p[r].forks_acquired = phil[r].forks_acquired - 1
      /\ p[x].forks_acquired = phil[x].forks_acquired + 1 BY <1>1, <1>4, MovedFacts
<1>6. /\ phil' \in PhilSet
      /\ \A z \in Replica : /\ phil'[z].forks_acquired = p[z].forks_acquired
                            /\ phil'[z].counter = p[z].counter
                            /\ z # n => phil'[z].state = p[z].state
      /\ NowReady(p, n) => p[n].state = "hungry" /\ phil'[n].state = "hors_doeuvre" /\ Full(phil', n)
      /\ ~NowReady(p, n) => phil' = p
  <2>1. p \in PhilSet /\ n \in Replica BY <1>5
  <2> HIDE DEF NowReady, Full
  <2> QED BY SMTT(30), <2>1, MakeReadyFacts
<1>7. /\ Acq(r)' = Acq(r) - 1 /\ Acq(x)' = Acq(x) + 1
      /\ \A z \in Replica : z # r /\ z # x => Acq(z)' = Acq(z)
      /\ \A z \in Replica : St(z)' = IF NowReady(p, n) /\ z = n THEN "hors_doeuvre" ELSE St(z)
      /\ NowReady(p, n) => St(n) = "hungry" BY <1>1, <1>5, <1>6 DEF Acq, St
<1>8. /\ AcquiredCounts'
      /\ \A z \in Replica : z # r /\ Owns(z) => Owns(z)' BY <1>1, <1>3, <1>7, AcquiredMoves
<1>9. NowReady(p, n) => Owns(n)' BY <1>1, <1>6, <1>8, FullOwnsNext
<1>10. ForksFine'
  <2>1. \A d \in Edges : fork'[d].owner \in {d.source, d.target} BY <1>1, <1>3 DEF ForksFine
  <2>2. \A d \in Edges : \A z \in fork'[d].requests :
           \/ z \in fork[d].requests /\ fork'[d].owner = fork[d].owner
           \/ z \in {d.source, d.target} /\ z # fork'[d].owner /\ (Reaped => client'[z] = "hungry")
    BY <1>1, <1>2, <1>3
  <2>3. \A z \in Replica : Reaped /\ client[z[2]] = "hungry" => client'[z[2]] = "hungry" \/ Owns(z)' OBVIOUS
  <2> QED BY <1>1, <2>1, <2>2, <2>3, ForksFineNext
<1>12. \A z \in Replica : phil'[z].counter = phil[z].counter BY <1>5, <1>6
<1>13. \A z \in Replica : Reaped /\ HasAll(z) => Owns(z)' BY <1>8 DEF HasAll
<1>14. /\ NowReady(p, n) => <<n[1], n[2]>> \in Replica
       /\ \A z \in Replica : NowReady(p, n) /\ z = <<n[1], n[2]>> => St(z) = "hungry" /\ Owns(z)'
  BY <1>1, <1>7, <1>9
<1> HIDE DEF NowReady
<1>15. \A z \in Replica : St(z)' = IF NowReady(p, n) /\ z = <<n[1], n[2]>> THEN "hors_doeuvre" ELSE St(z)
  BY <1>1, <1>7
<1> QED BY <1>3, <1>6, <1>8, <1>10, <1>12, <1>13, <1>14, <1>15 DEF ForkStep

LEMMA TakeStep ==
  ASSUME IInv, NEW k, NEW y, NEW r \in Replica, NEW e \in EdgesAt(r), NEW x, x = Across(r, e),
         fork[e].owner = x[2], St(x) \in {"thinking", "hungry"},
         NEW R, R = {} \/ (R = {x[2]} /\ St(x) = "hungry"),
         fork' = HandedTo(fork, e, r[2], R), client' = client,
         phil' = Moved(x, r)
  PROVE  ForkStep(k, FALSE, y)
<1>1. /\ fork \in ForkSet /\ phil \in PhilSet /\ AcquiredCounts /\ ForksFine
      /\ e \in Edges /\ x \in Replica /\ e \in EdgesAt(x) /\ x # r /\ r = Across(x, e)
      /\ r[2] \in {e.source, e.target} /\ x[2] \in {e.source, e.target} /\ r[2] # x[2]
      /\ r[2] \in Vertex /\ x[2] \in Vertex
  BY Invariant, EdgeFacts, SetFacts
<1>2. R \in SUBSET Vertex /\ \A z \in R : z = x[2] /\ client[x[2]] = "hungry" BY <1>1, HungryWaits
<1>3. /\ fork' \in ForkSet /\ \A d \in Edges : d # e => fork'[d] = fork[d]
      /\ fork'[e].owner = r[2] /\ fork'[e].requests = R BY <1>1, <1>2, ForkFields
<1>4. phil[x].forks_acquired # 0 BY <1>1, OwnerAcquired DEF Acq
<1>5. /\ phil' \in PhilSet
      /\ \A z \in Replica : /\ phil'[z].state = phil[z].state /\ phil'[z].counter = phil[z].counter
                            /\ z # x /\ z # r => phil'[z].forks_acquired = phil[z].forks_acquired
      /\ phil'[x].forks_acquired = phil[x].forks_acquired - 1
      /\ phil'[r].forks_acquired = phil[r].forks_acquired + 1 BY <1>1, <1>4, MovedFacts
<1>6. /\ Acq(x)' = Acq(x) - 1 /\ Acq(r)' = Acq(r) + 1
      /\ \A z \in Replica : z # x /\ z # r => Acq(z)' = Acq(z)
      /\ \A z \in Replica : St(z)' = St(z) BY <1>5 DEF Acq, St
<1>7. /\ AcquiredCounts'
      /\ \A z \in Replica : z # x /\ Owns(z) => Owns(z)' BY <1>1, <1>3, <1>6, AcquiredMoves
<1>8. ForksFine'
  <2>1. \A d \in Edges : fork'[d].owner \in {d.source, d.target} BY <1>1, <1>3 DEF ForksFine
  <2>2. \A d \in Edges : \A z \in fork'[d].requests :
           \/ z \in fork[d].requests /\ fork'[d].owner = fork[d].owner
           \/ z \in {d.source, d.target} /\ z # fork'[d].owner /\ (Reaped => client'[z] = "hungry")
    BY <1>1, <1>2, <1>3
  <2>3. \A z \in Replica : Reaped /\ client[z[2]] = "hungry" => client'[z[2]] = "hungry" \/ Owns(z)' OBVIOUS
  <2> QED BY <1>1, <2>1, <2>2, <2>3, ForksFineNext
<1>9. \A z \in Replica : Reaped /\ HasAll(z) => Owns(z)' BY <1>7 DEF HasAll
<1> QED BY <1>3, <1>5, <1>6, <1>7, <1>8, <1>9 DEF ForkStep

\* A replica that has all its forks gets ready.
LEMMA ReadyStep ==
  ASSUME IInv, NEW x \in Replica, fork' = fork, client' = client, phil' = MakeReady(phil, x)
  PROVE  ForkStep(x[1], NowReady(phil, x), x[2])
<1>1. /\ fork \in ForkSet /\ phil \in PhilSet /\ AcquiredCounts /\ ForksFine
      /\ x = <<x[1], x[2]>> BY Invariant, SetFacts
<1>2. /\ phil' \in PhilSet
      /\ \A z \in Replica : /\ phil'[z].forks_acquired = phil[z].forks_acquired
                            /\ phil'[z].counter = phil[z].counter
                            /\ z # x => phil'[z].state = phil[z].state
      /\ NowReady(phil, x) => phil[x].state = "hungry" /\ phil'[x].state = "hors_doeuvre" /\ Full(phil', x)
      /\ ~NowReady(phil, x) => phil' = phil BY <1>1, MakeReadyFacts
<1>3. /\ \A z \in Replica : Acq(z)' = Acq(z)
      /\ \A z \in Replica : St(z)' = IF NowReady(phil, x) /\ z = x THEN "hors_doeuvre" ELSE St(z)
      /\ NowReady(phil, x) => St(x) = "hungry" BY <1>2 DEF Acq, St
<1>4. AcquiredCounts' /\ \A z \in Replica : Owns(z)' <=> Owns(z) BY <1>1, <1>3, AcquiredKept
<1>5. NowReady(phil, x) => Owns(x)' BY <1>2, <1>4, FullOwnsNext
<1>6. ForksFine' BY <1>1 DEF ForksFine, Reaped
<1>7. \A z \in Replica : Reaped /\ HasAll(z) => Owns(z)' BY <1>4 DEF HasAll
<1> QED BY <1>1, <1>2, <1>3, <1>4, <1>5, <1>6, <1>7 DEF ForkStep

-----------------------------------------------------------------------------
(* The steps of the loops keep the invariant.                              *)

LEMMA LocksTyped ==
  ASSUME lock \in LockSet, NEW t \in Thread, NEW r \in Replica, NEW x \in Replica
  PROVE  /\ lock' = [lock EXCEPT ![r] = t] => lock' \in LockSet
         /\ lock' = [lock EXCEPT ![r] = NoOne] => lock' \in LockSet
         /\ lock' = [lock EXCEPT ![r] = NoOne, ![x] = NoOne] => lock' \in LockSet
         /\ lock' = [lock EXCEPT ![r] = t, ![x] = NoOne] => lock' \in LockSet BY DEF LockSet

\* The loop goes to another place, or on to another edge.
LEMMA OnwardTells ==
  ASSUME FineStacks, NEW t \in Thread, ~Idle(t), LoopFrame(t[1], Top(t)), Top(t).at # "lock", NEW e,
         NEW b \in BOOLEAN, NEW x \in Vertex, b => <<t[1], x>> \in Replica,
         Become(t, Onward(t, e, IF b THEN <<x>> ELSE << >>))
  PROVE  TellsMore(t, b, x)
<1> DEFINE more == IF b THEN <<x>> ELSE << >>
           T == Top(t).todo \ {e}
           f == GoesOn(Top(t), T, more)
<1>1. more \in Seq(Vertex) /\ \A i \in 1 .. Len(more) : <<t[1], more[i]>> \in Replica OBVIOUS
<1>2. Become(t, <<f>> \o Callers(t)) BY DEF Onward, GoesOn
<1>3. T \subseteq Top(t).todo OBVIOUS
<1>4. t[1] \in Machine BY SetFacts
<1> HIDE DEF more, T
<1>5. /\ LoopFrame(t[1], f) /\ f.op = Top(t).op /\ f.v = Top(t).v /\ f.at = "edge"
      /\ f.ready = Top(t).ready \o more BY ZenonT(60), <1>1, <1>3, <1>4, FrameGoesOn
<1> HIDE DEF f
<1>6. f.ready = Top(t).ready \o (IF b THEN <<x>> ELSE << >>) /\ f.at # "lock" BY <1>5 DEF more
<1> QED BY <1>2, <1>5, <1>6, LoopTells

LEMMA PlaceTells ==
  ASSUME FineStacks, NEW t \in Thread, ~Idle(t), LoopFrame(t[1], Top(t)),
         Top(t).at # "lock" \/ Top(t).op = "grab", NEW f, LoopFrame(t[1], f),
         f.op = Top(t).op, f.v = Top(t).v, f.at # "lock", f.ready = Top(t).ready,
         Become(t, <<f>> \o Callers(t)), NEW x \in Vertex
  PROVE  TellsMore(t, FALSE, x)
<1>1. Top(t).ready \in Seq(Vertex) BY FrameFields DEF LoopFrame
<1>2. f.ready = Top(t).ready \o << >> BY <1>1, Nothing
<1>3. FALSE \in BOOLEAN /\ f.ready = Top(t).ready \o (IF FALSE THEN <<x>> ELSE << >>) BY <1>2
<1> QED BY <1>3, LoopTells

\* A step that leaves the philosophers and the forks alone.
LEMMA PlaceKeeps ==
  ASSUME IInv, NEW t \in Thread, NEW x \in Vertex, TellsMore(t, FALSE, x), lock' \in LockSet,
         UNCHANGED <<phil, fork, calls, client, meals>>
  PROVE  IInv'
<1>1. ForkStep(t[1], FALSE, x) BY NoForkStep
<1>2. FALSE \in BOOLEAN OBVIOUS
<1> QED BY <1>1, <1>2, LoopKeeps

LEMMA StartGrabKeeps ==
  ASSUME IInv, NEW t \in Thread, StartGrab(t)
  PROVE  IInv'
<1>1. FineStacks /\ lock \in LockSet BY Invariant
<1>2. ~Idle(t) /\ LoopFrame(t[1], Top(t)) /\ Top(t).op = "grab" /\ t[1] \in Machine /\ Here(t) \in Replica
  BY <1>1, AtFacts, TopFacts DEF StartGrab, Doing, Top
<1> DEFINE f == AtPlace(Top(t), "edge")
<1>3. LoopFrame(t[1], f) /\ f.op = Top(t).op /\ f.v = Top(t).v /\ f.at = "edge" /\ f.ready = Top(t).ready
  <2>1. "edge" \in LoopPlaces BY DEF LoopPlaces
  <2> QED BY <1>2, <2>1, FrameMoves
<1>4. Become(t, <<f>> \o Callers(t)) /\ UNCHANGED <<phil, fork, calls, client, meals>>
  BY DEF StartGrab, AtPlace
<1>5. lock' \in LockSet BY <1>1, <1>2, LocksTyped DEF StartGrab
<1> HIDE DEF f
<1>6. Top(t).v \in Vertex BY <1>2, FrameFields DEF LoopFrame
<1>7. TellsMore(t, FALSE, Top(t).v) BY <1>1, <1>2, <1>3, <1>4, <1>6, PlaceTells
<1> QED BY <1>4, <1>5, <1>6, <1>7, PlaceKeeps

LEMMA BackoffKeeps ==
  ASSUME IInv, NEW t \in Thread, Backoff(t)
  PROVE  IInv'
<1>1. FineStacks /\ lock \in LockSet BY Invariant
<1>2. /\ ~Idle(t) /\ LoopFrame(t[1], Top(t)) /\ Top(t).at = "edge" /\ t[1] \in Machine
      /\ Here(t) \in Replica /\ Top(t).todo \subseteq EdgesAt(Here(t)) /\ Here(t) = <<t[1], Top(t).v>>
  BY <1>1, AtFacts, TopFacts DEF Backoff, Here
<1>3. PICK e \in NextEdges(t) : Become(t, <<[Top(t) EXCEPT !.at = "backoff", !.edge = e]>> \o Callers(t))
  BY DEF Backoff
<1>4. e \in EdgesAt(<<t[1], Top(t).v>>) BY <1>2, <1>3 DEF NextEdges
<1> DEFINE f == AtEdge(Top(t), "backoff", e)
<1>5. LoopFrame(t[1], f) /\ f.op = Top(t).op /\ f.v = Top(t).v /\ f.at = "backoff" /\ f.ready = Top(t).ready
  <2>1. "backoff" \in LoopPlaces BY DEF LoopPlaces
  <2> QED BY <1>2, <1>4, <2>1, FrameMovesAt
<1>6. Become(t, <<f>> \o Callers(t)) /\ UNCHANGED <<phil, fork, calls, client, meals>>
  BY <1>3 DEF Backoff, AtEdge
<1>7. lock' \in LockSet BY <1>1, <1>2, LocksTyped DEF Backoff
<1> HIDE DEF f
<1>8. Top(t).v \in Vertex BY <1>2, FrameFields DEF LoopFrame
<1>9. TellsMore(t, FALSE, Top(t).v) BY <1>1, <1>2, <1>5, <1>6, <1>8, PlaceTells
<1> QED BY <1>6, <1>7, <1>8, <1>9, PlaceKeeps

\* A lock is taken, and the loop goes to another place.
LEMMA LockOtherKeeps ==
  ASSUME IInv, NEW t \in Thread, LockOther(t) \/ RelockLower(t)
  PROVE  IInv'
<1> DEFINE place == IF LockOther(t) THEN "backoff" ELSE "relock"
           a == IF LockOther(t) THEN "other" ELSE "relock higher"
           f == AtPlace(Top(t), a)
<1>1. FineStacks /\ lock \in LockSet BY Invariant
<1>2. At(t, place) /\ place \in {"backoff", "relock"} /\ a \in {"other", "relock higher"}
  BY DEF LockOther, RelockLower
<1>3. Become(t, <<f>> \o Callers(t)) /\ UNCHANGED <<phil, fork, calls, client, meals>>
  BY DEF LockOther, RelockLower, AtPlace
<1>4. /\ ~Idle(t) /\ LoopFrame(t[1], Top(t)) /\ Top(t).at \in {"backoff", "relock"} /\ t[1] \in Machine
      /\ Here(t) \in Replica /\ Top(t).edge \in EdgesAt(Here(t))
  <2> HIDE DEF place
  <2> QED BY <1>1, <1>2, AtFacts, TopFacts
<1>5. Across(Here(t), Top(t).edge) \in Replica BY <1>4, EdgeFacts
<1>6. lock' \in LockSet BY <1>1, <1>4, <1>5, LocksTyped DEF LockOther, RelockLower, Lower
<1>7. LoopFrame(t[1], f) /\ f.op = Top(t).op /\ f.v = Top(t).v /\ f.at = a /\ f.ready = Top(t).ready
  <2>1. a \in LoopPlaces BY DEF LoopPlaces
  <2> HIDE DEF a
  <2> QED BY <1>4, <2>1, FrameMoves
<1> HIDE DEF f
<1>8. Top(t).v \in Vertex BY <1>4, FrameFields DEF LoopFrame
<1>9. TellsMore(t, FALSE, Top(t).v)
  <2>1. f.at # "lock" /\ Top(t).at # "lock" BY <1>2, <1>4, <1>7
  <2> QED BY <1>1, <1>3, <1>4, <1>7, <1>8, <2>1, PlaceTells
<1> QED BY <1>3, <1>6, <1>8, <1>9, PlaceKeeps

LEMMA RelockHigherKeeps ==
  ASSUME IInv, NEW t \in Thread, RelockHigher(t)
  PROVE  IInv'
<1>1. FineStacks /\ lock \in LockSet BY Invariant
<1>2. /\ ~Idle(t) /\ LoopFrame(t[1], Top(t)) /\ Top(t).at = "relock higher" /\ t[1] \in Machine
      /\ Here(t) \in Replica /\ Top(t).edge \in EdgesAt(Here(t))
  <2>1. At(t, "relock higher") BY DEF RelockHigher
  <2>2. /\ ~Idle(t) /\ LoopFrame(t[1], Top(t)) /\ Top(t).at = "relock higher"
        /\ Top(t).edge \in EdgesAt(Here(t))
    <3> PICK place : place = "relock higher" OBVIOUS
    <3>1. At(t, place) /\ place \notin {"lock", "edge"} BY <2>1
    <3>2. /\ ~Idle(t) /\ LoopFrame(t[1], Top(t)) /\ Top(t).at = place
          /\ place \notin {"lock", "edge"} => Top(t).edge \in EdgesAt(Here(t)) BY <1>1, <3>1, AtFacts
    <3> QED BY <3>1, <3>2
  <2>3. Here(t) \in Replica /\ t[1] \in Machine BY <1>1, <2>2, TopFacts
  <2> QED BY <2>2, <2>3
<1>3. /\ Become(t, Onward(t, Top(t).edge, << >>)) /\ UNCHANGED <<phil, fork, calls, client, meals>>
      /\ lock' = [lock EXCEPT ![Here(t)] = t, ![Across(Here(t), Top(t).edge)] = NoOne]
  BY DEF RelockHigher, KeepOwnLock
<1>4. lock' \in LockSet BY <1>1, <1>2, <1>3, EdgeFacts, LocksTyped
<1>5. Top(t).v \in Vertex BY <1>2, FrameFields DEF LoopFrame
<1>6. Become(t, Onward(t, Top(t).edge, IF FALSE THEN <<Top(t).v>> ELSE << >>)) /\ FALSE \in BOOLEAN
  BY <1>3
<1>7. TellsMore(t, FALSE, Top(t).v) BY <1>1, <1>2, <1>5, <1>6, OnwardTells
<1> QED BY <1>3, <1>4, <1>5, <1>7, PlaceKeeps

\* Both locks are held, and the neighbour's is released.
LEMMA BothLocks ==
  ASSUME IInv, NEW t \in Thread, NEW e, HasBoth(t, e)
  PROVE  /\ FineStacks /\ ~Idle(t) /\ LoopFrame(t[1], Top(t)) /\ Top(t).at # "lock" /\ t[1] \in Machine
         /\ Top(t).v \in Vertex /\ Here(t) \in Replica /\ Here(t)[1] = t[1]
         /\ e \in EdgesAt(Here(t)) /\ e \in Edges
         /\ Across(Here(t), e) \in Replica /\ Across(Here(t), e) # Here(t)
         /\ Across(Here(t), e) = <<t[1], Across(Here(t), e)[2]>>
         /\ Across(Here(t), e)[2] \in Vertex /\ Across(Here(t), e)[2] # Here(t)[2]
         /\ {e.source, e.target} = {Here(t)[2], Across(Here(t), e)[2]}
         /\ KeepOwnLock(t, e) => lock' \in LockSet
         /\ lock' = [lock EXCEPT ![Here(t)] = NoOne, ![Across(Here(t), e)] = NoOne] => lock' \in LockSet
<1>1. FineStacks /\ lock \in LockSet BY Invariant
<1>2. /\ ~Idle(t) /\ LoopFrame(t[1], Top(t)) /\ Top(t).at # "lock"
      /\ Here(t) \in Replica /\ Here(t)[1] = t[1] /\ e \in EdgesAt(Here(t)) /\ e \in Edges
  BY <1>1, HasBothFacts
<1>3. Top(t).v \in Vertex BY <1>2, FrameFields DEF LoopFrame
<1>4. /\ Across(Here(t), e) \in Replica /\ Across(Here(t), e) # Here(t)
      /\ Across(Here(t), e)[1] = Here(t)[1] /\ Across(Here(t), e)[2] # Here(t)[2]
      /\ {e.source, e.target} = {Here(t)[2], Across(Here(t), e)[2]} BY <1>2, EdgeFacts
<1>5. Across(Here(t), e) = <<t[1], Across(Here(t), e)[2]>> /\ Across(Here(t), e)[2] \in Vertex
  BY <1>2, <1>4, SetFacts
<1>6. KeepOwnLock(t, e) => lock' \in LockSet BY <1>1, <1>2, <1>4, LocksTyped DEF KeepOwnLock
<1>7. lock' = [lock EXCEPT ![Here(t)] = NoOne, ![Across(Here(t), e)] = NoOne] => lock' \in LockSet
  BY <1>1, <1>2, <1>4, LocksTyped
<1> QED BY <1>1, <1>2, <1>3, <1>4, <1>5, <1>6, <1>7, SetFacts

LEMMA LeaveLoopKeeps ==
  ASSUME IInv, NEW t \in Thread, LeaveLoop(t)
  PROVE  IInv'
<1>1. PICK e \in Edges : /\ HasBoth(t, e) /\ Become(t, Break(t, e)) /\ KeepOwnLock(t, e)
                         /\ UNCHANGED <<phil, fork, calls, client, meals>> BY DEF LeaveLoop
<1>2. /\ FineStacks /\ ~Idle(t) /\ LoopFrame(t[1], Top(t)) /\ Top(t).at # "lock" /\ t[1] \in Machine
      /\ Top(t).v \in Vertex /\ lock' \in LockSet BY <1>1, BothLocks
<1> DEFINE T == IF e \in InEdgesAt(Here(t)) THEN Top(t).todo \ InEdgesAt(Here(t)) ELSE {}
           f == GoesOn(Top(t), T, << >>)
<1>3. T \subseteq Top(t).todo OBVIOUS
<1>4. Top(t).ready \in Seq(Vertex) /\ Top(t).ready \o << >> = Top(t).ready
  BY <1>2, FrameFields, Nothing DEF LoopFrame
<1>5. [Top(t) EXCEPT !.at = "edge", !.edge = NoEdge,
                     !.todo = IF e \in InEdgesAt(Here(t)) THEN @ \ InEdgesAt(Here(t)) ELSE {}]
        = [Top(t) EXCEPT !.at = "edge", !.edge = NoEdge, !.todo = T] OBVIOUS
<1>6. /\ Top(t) \in [op : LoopOps, v : Vertex,
                     at : {"lock", "edge", "backoff", "other", "relock", "relock higher"},
                     todo : SUBSET Edges, edge : Edges \cup {NoEdge}, ready : Seq(Vertex)]
  BY <1>2, FrameFields DEF LoopFrame
<1> HIDE DEF T
<1>7. f = [Top(t) EXCEPT !.at = "edge", !.edge = NoEdge, !.todo = T] BY <1>4, <1>6 DEF GoesOn
<1>8. Become(t, <<f>> \o Callers(t)) BY <1>1, <1>5, <1>7 DEF Break
<1>9. LoopFrame(t[1], f) /\ f.op = Top(t).op /\ f.v = Top(t).v /\ f.at = "edge" /\ f.ready = Top(t).ready
  <2>1. << >> \in Seq(Vertex) /\ \A i \in 1 .. Len(<< >>) : <<t[1], << >>[i]>> \in Replica OBVIOUS
  <2>2. /\ LoopFrame(t[1], f) /\ f.op = Top(t).op /\ f.v = Top(t).v /\ f.at = "edge"
        /\ f.ready = Top(t).ready \o << >> BY ZenonT(60), <1>2, <1>3, <2>1, FrameGoesOn
  <2> HIDE DEF f
  <2> QED BY <1>4, <2>2
<1> HIDE DEF f
<1>10. TellsMore(t, FALSE, Top(t).v) BY <1>2, <1>8, <1>9, PlaceTells
<1> QED BY <1>1, <1>2, <1>10, PlaceKeeps

LEMMA TakeForkKeeps ==
  ASSUME IInv, NEW t \in Thread, TakeFork(t)
  PROVE  IInv'
<1> DEFINE r == Here(t)
<1>1. PICK e \in Edges :
        /\ HasBoth(t, e)
        /\ fork[e].owner = Across(r, e)[2] /\ phil[Across(r, e)].state \in {"thinking", "hungry"}
        /\ fork' = [fork EXCEPT ![e] = Clean(r[2], IF phil[Across(r, e)].state = "hungry"
                                                   THEN {Across(r, e)[2]} ELSE {})]
        /\ phil' = Moved(Across(r, e), r)
        /\ Become(t, Onward(t, e, << >>)) /\ KeepOwnLock(t, e)
        /\ UNCHANGED <<calls, client, meals>> BY DEF TakeFork
<1> DEFINE x == Across(r, e)
           R == IF phil[x].state = "hungry" THEN {x[2]} ELSE {}
<1>2. /\ FineStacks /\ ~Idle(t) /\ LoopFrame(t[1], Top(t)) /\ Top(t).at # "lock" /\ t[1] \in Machine
      /\ Top(t).v \in Vertex /\ r \in Replica /\ e \in EdgesAt(r) /\ lock' \in LockSet BY <1>1, BothLocks
<1>3. fork' = HandedTo(fork, e, r[2], R) /\ phil' = Moved(x, r) /\ fork[e].owner = x[2] /\ client' = client
  BY <1>1 DEF HandedTo
<1>4. (R = {} \/ (R = {x[2]} /\ St(x) = "hungry")) /\ St(x) \in {"thinking", "hungry"} BY <1>1 DEF St
<1> HIDE DEF R
<1>5. ForkStep(t[1], FALSE, Top(t).v)
  <2>1. x = Across(r, e) OBVIOUS
  <2> HIDE DEF x, r
  <2> QED BY <1>2, <1>3, <1>4, <2>1, TakeStep
<1>6. TellsMore(t, FALSE, Top(t).v) BY <1>1, <1>2, OnwardTells
<1> QED BY <1>1, <1>2, <1>5, <1>6, LoopKeeps

LEMMA RequestForkKeeps ==
  ASSUME IInv, NEW t \in Thread, RequestFork(t)
  PROVE  IInv'
<1> DEFINE r == Here(t)
<1>1. PICK e \in Edges :
        /\ HasBoth(t, e) /\ phil[r].state = "hungry"
        /\ \/ fork' = fork
           \/ fork[e].owner = Across(r, e)[2] /\ fork' = [fork EXCEPT ![e].requests = @ \cup {r[2]}]
        /\ Become(t, Onward(t, e, << >>)) /\ KeepOwnLock(t, e)
        /\ UNCHANGED <<phil, calls, client, meals>> BY DEF RequestFork
<1>2. /\ FineStacks /\ ~Idle(t) /\ LoopFrame(t[1], Top(t)) /\ Top(t).at # "lock" /\ t[1] \in Machine
      /\ Top(t).v \in Vertex /\ r \in Replica /\ e \in EdgesAt(r) /\ lock' \in LockSet
      /\ Across(r, e)[2] # r[2] BY <1>1, BothLocks
<1>3. ForkStep(t[1], FALSE, Top(t).v)
  <2>1. CASE fork' = fork BY <1>1, <2>1, NoForkStep
  <2>2. CASE fork[e].owner = Across(r, e)[2] /\ fork' = [fork EXCEPT ![e].requests = @ \cup {r[2]}]
    <3>1. fork' = Asked(fork, e, r[2]) /\ fork[e].owner # r[2] /\ St(r) = "hungry"
      BY <1>1, <1>2, <2>2 DEF Asked, St
    <3>2. phil' \in PhilSet /\ phil' = phil /\ client' = client BY <1>1, Invariant
    <3> HIDE DEF r
    <3> QED BY <1>2, <3>1, <3>2, RequestStep
  <2> QED BY <1>1, <2>1, <2>2
<1>4. TellsMore(t, FALSE, Top(t).v) BY <1>1, <1>2, OnwardTells
<1> QED BY <1>1, <1>2, <1>3, <1>4, LoopKeeps

LEMMA AskTells ==
  ASSUME FineStacks, NEW t \in Thread, ~Idle(t), LoopFrame(t[1], Top(t)), Top(t).at # "lock",
         Top(t).op = "grab", NEW y \in Vertex, <<t[1], y>> \in Replica, NEW b \in BOOLEAN,
         NEW f, LoopFrame(t[1], f), f.op = Top(t).op, f.v = Top(t).v, f.ready = Top(t).ready,
         Become(t, <<Cancellation(y, b), f>> \o Callers(t)), NEW x \in Vertex
  PROVE  TellsMore(t, FALSE, x)
<1> DEFINE s == stack[t]
           c == Cancellation(y, b)
           s2 == <<c, f>> \o Tail(s)
<1>1. /\ s # << >> /\ Fine(t[1], s) /\ t[1] \in Machine /\ Top(t) = s[1]
      /\ Callers(t) = Tail(s) /\ s \in Seq(Frame) BY TopFacts DEF Callers
<1>2. c \in Frame /\ c.op = "cancel" /\ c.v = y BY DEF Cancellation, Frame
<1> HIDE DEF c
<1>3. WellPlaced(t[1], c) BY <1>2 DEF WellPlaced, HasReady
<1>4. /\ s[1].op = "grab" /\ f \in Frame /\ f.op = s[1].op /\ f.v = s[1].v /\ f.ready = s[1].ready
      /\ WellPlaced(t[1], f) BY <1>1 DEF LoopFrame
<1>5. Become(t, s2) BY <1>1 DEF c
<1> HIDE DEF s
<1>6. Fine(t[1], s2) /\ Plain(s2) /\ SameBase(s, s2) /\ Keeps(s, s2) /\ Plain(s)
  <2>1. s2 = <<c, f>> \o Tail(s) OBVIOUS
  <2> HIDE DEF s2
  <2> QED BY <1>1, <1>2, <1>3, <1>4, <2>1, LoopCalls
<1> HIDE DEF s2
<1>7. Adds(s, s2, << >>)
  <2>1. Depth(s) \in {0, 1, 2, 3} /\ 1 \in 1 .. 3 BY <1>1 DEF Fine, Shaped
  <2>2. Lists(s, 1) \in Seq(Vertex) BY <1>1, <2>1, ListsTyped
  <2>3. Lists(s, 1) \o << >> = Lists(s, 1) BY <2>2, Nothing
  <2>4. Changes(s, s2, 1, Lists(s, 1)) BY <1>6 DEF Keeps, Changes
  <2>5. Changes(s, s2, 1, Lists(s, 1) \o << >>) BY <2>3, <2>4
  <2> QED BY <2>1, <2>5 DEF Adds
<1>8. /\ FineStacks' /\ stack'[t] = s2
      /\ \A u \in Thread \ {t} : stack'[u] = stack[u] BY <1>5, <1>6, Becomes
<1> QED BY <1>6, <1>7, <1>8 DEF TellsMore, s

LEMMA AskBackKeeps ==
  ASSUME IInv, NEW t \in Thread, AskBack(t)
  PROVE  IInv'
<1> DEFINE r == Here(t)
<1>1. PICK e \in Edges :
        /\ HasBoth(t, e) /\ phil[r].state = "hungry" /\ Doing(t, "grab")
        /\ fork[e].owner = Across(r, e)[2]
        /\ fork' = [fork EXCEPT ![e].requests = @ \cup {r[2]}]
        /\ phil' = [phil EXCEPT ![Across(r, e)].cancellation_sent = TRUE]
        /\ lock' = [lock EXCEPT ![r] = NoOne, ![Across(r, e)] = NoOne]
        /\ Become(t, <<Cancellation(Across(r, e)[2], phil[Across(r, e)].lockid),
                       [Top(t) EXCEPT !.at = "relock", !.edge = e]>> \o Callers(t))
        /\ UNCHANGED <<calls, client, meals>> BY DEF AskBack
<1> DEFINE x == Across(r, e)
           f == AtEdge(Top(t), "relock", e)
<1>2. /\ FineStacks /\ ~Idle(t) /\ LoopFrame(t[1], Top(t)) /\ Top(t).at # "lock" /\ t[1] \in Machine
      /\ Top(t).v \in Vertex /\ r \in Replica /\ e \in EdgesAt(r) /\ lock' \in LockSet
      /\ x \in Replica /\ x[2] # r[2] /\ x = <<t[1], x[2]>> /\ x[2] \in Vertex BY <1>1, BothLocks
<1>3. phil \in PhilSet /\ phil' = SetSent(phil, x, TRUE) BY <1>1, Invariant DEF SetSent
<1>4. fork' = Asked(fork, e, r[2]) /\ fork[e].owner # r[2] /\ St(r) = "hungry" /\ client' = client
  BY <1>1, <1>2 DEF Asked, St
<1>5. Top(t).op = "grab" /\ Become(t, <<Cancellation(x[2], phil[x].lockid), f>> \o Callers(t))
  BY <1>1 DEF Doing, Top, AtEdge
<1>6. e \in EdgesAt(<<t[1], Top(t).v>>) BY <1>2 DEF Here
<1>7. LoopFrame(t[1], f) /\ f.op = Top(t).op /\ f.v = Top(t).v /\ f.at = "relock" /\ f.ready = Top(t).ready
  <2>1. "relock" \in LoopPlaces BY SMTT(30) DEF LoopPlaces
  <2> QED BY <1>2, <1>6, <2>1, FrameMovesAt
<1> HIDE DEF f, x
<1>8. OnlyAt(phil, phil', x) /\ Fields(phil'[x], phil[x].state, phil[x].forks_acquired, phil[x].counter,
                                       TRUE, phil[x].lockid) BY <1>2, <1>3, PhilFields
<1>9. /\ phil' \in PhilSet
      /\ \A z \in Replica : /\ phil'[z].state = phil[z].state /\ phil'[z].counter = phil[z].counter
                            /\ phil'[z].forks_acquired = phil[z].forks_acquired
  BY <1>8 DEF OnlyAt, Fields
<1>10. ForkStep(t[1], FALSE, Top(t).v)
  <2> HIDE DEF r
  <2> QED BY <1>2, <1>4, <1>9, RequestStep
<1>11. TellsMore(t, FALSE, Top(t).v)
  <2>1. phil[x].lockid \in BOOLEAN BY <1>2, <1>3 DEF PhilSet
  <2> QED BY <1>2, <1>5, <1>7, <2>1, AskTells
<1> QED BY <1>1, <1>2, <1>10, <1>11, LoopKeeps

LEMMA AcceptEdgeKeeps ==
  ASSUME IInv, NEW t \in Thread, AcceptEdge(t)
  PROVE  IInv'
<1> DEFINE r == Here(t)
<1>1. PICK e \in Edges :
        LET x == Across(r, e)
            wanted == fork[e].owner = r[2] /\ fork[e].dirty /\ x[2] \in fork[e].requests
            moved == Moved(r, x)
        IN
        /\ HasBoth(t, e) /\ phil[r].state = "hungry"
        /\ IF wanted
           THEN /\ fork' = [fork EXCEPT ![e] = Clean(x[2], {r[2]})]
                /\ phil' = MakeReady(moved, x)
                /\ Become(t, Onward(t, e, ToTell(moved, x)))
           ELSE Become(t, Onward(t, e, << >>)) /\ UNCHANGED <<phil, fork>>
        /\ KeepOwnLock(t, e)
        /\ UNCHANGED <<calls, client, meals>> BY DEF AcceptEdge
<1> DEFINE x == Across(r, e)
           wanted == fork[e].owner = r[2] /\ fork[e].dirty /\ x[2] \in fork[e].requests
           p == Moved(r, x)
<1>2. /\ FineStacks /\ ~Idle(t) /\ LoopFrame(t[1], Top(t)) /\ Top(t).at # "lock" /\ t[1] \in Machine
      /\ Top(t).v \in Vertex /\ r \in Replica /\ r[1] = t[1] /\ e \in EdgesAt(r) /\ lock' \in LockSet
      /\ x \in Replica /\ x = <<t[1], x[2]>> /\ x[2] \in Vertex BY <1>1, BothLocks
<1>3. UNCHANGED <<calls, client, meals>> /\ St(r) = "hungry" BY <1>1 DEF St
<1>4. CASE wanted
  <2>1. /\ fork' = HandedTo(fork, e, x[2], {r[2]}) /\ phil' = MakeReady(p, x)
        /\ Become(t, Onward(t, e, ToTell(p, x)))
        /\ fork[e].owner = r[2] /\ x[2] \in fork[e].requests BY <1>1, <1>4 DEF HandedTo
  <2>2. NowReady(p, x) \in BOOLEAN BY DEF NowReady
  <2>3. ToTell(p, x) = IF NowReady(p, x) THEN <<x[2]>> ELSE << >> BY DEF ToTell
  <2>4. ForkStep(t[1], NowReady(p, x), x[2])
    <3>1. x = Across(r, e) /\ p = Moved(r, x) OBVIOUS
    <3> HIDE DEF x, r, p
    <3>2. (Reaped => ~HasAll(r)) /\ client' = client BY <1>3 DEF HasAll
    <3> DEFINE R == {r[2]}
    <3>3. fork' = HandedTo(fork, e, x[2], R) /\ (R = {} \/ (R = {r[2]} /\ St(r) = "hungry")) BY <1>3, <2>1
    <3> HIDE DEF R
    <3>4. ForkStep(x[1], NowReady(p, x), x[2]) BY <1>2, <2>1, <3>1, <3>2, <3>3, GiveStep
    <3>5. x[1] = t[1] BY <1>2
    <3> QED BY <3>4, <3>5
  <2>5. TellsMore(t, NowReady(p, x), x[2])
    <3> HIDE DEF x, r, p
    <3>1. NowReady(p, x) => <<t[1], x[2]>> \in Replica BY <1>2
    <3>2. Become(t, Onward(t, e, IF NowReady(p, x) THEN <<x[2]>> ELSE << >>)) BY <2>1, <2>3
    <3> QED BY <1>2, <2>2, <3>1, <3>2, OnwardTells
  <2> HIDE DEF x, r, p
  <2> QED BY <1>2, <1>3, <2>2, <2>4, <2>5, LoopKeeps
<1>5. CASE ~wanted
  <2>1. Become(t, Onward(t, e, IF FALSE THEN <<Top(t).v>> ELSE << >>)) /\ FALSE \in BOOLEAN BY <1>1, <1>5
  <2>2. TellsMore(t, FALSE, Top(t).v) BY <1>2, <2>1, OnwardTells
  <2>3. UNCHANGED <<phil, fork, calls, client, meals>> BY <1>1, <1>3, <1>5
  <2> QED BY <1>2, <2>2, <2>3, PlaceKeeps
<1> QED BY <1>4, <1>5

\* Who stops does so because the program of the vertex has ended.
LEMMA StopperStops ==
  ASSUME IInv, Reaped, NEW t \in Thread, ~Idle(t), Top(t).op = "stop"
  PROVE  client[Top(t).v] = "stopping"
<1> DEFINE s == stack[t]
           v == Top(t).v
<1>1. /\ FineStacks /\ s # << >> /\ Fine(t[1], s) /\ Top(t) = s[1] /\ Top(t) \in Frame /\ t[1] \in Machine
  BY Invariant, TopFacts
<1>2. Tasks BY Invariant
<1> HIDE DEF s
<1>3. v \in Vertex BY <1>1, FrameFields
<1>4. s[1].op = "stop" /\ Depth(s) \in {1, 2} /\ Shaped(s) BY <1>1, FineFacts
<1>5. CASE Depth(s) = 1
  <2>1. StrayAt(t, v) BY <1>1, <1>4, <1>5 DEF StrayAt, Stray, s
  <2>2. <<t[1], v>> \in Mirror /\ Client # "replica" BY <1>2, <1>3, <2>1 DEF Tasks, Strays
  <2> QED BY <2>2 DEF Reaped
<1>6. CASE Depth(s) = 2
  <2>1. s[2].op \in {"reply", "release"} /\ s[2].v = v BY <1>1, <1>4, <1>6 DEF Shaped, Outer
  <2>2. EndsAt(t, v) \/ RepliesAt(t, v) BY <1>1, <1>6, <2>1 DEF EndsAt, RepliesAt, Ends, Replies, s
  <2>3. CASE EndsAt(t, v) BY <1>2, <1>3, <2>3 DEF Tasks, Enders
  <2>4. CASE RepliesAt(t, v)
    <3>1. <<t[1], v>> \in awaited BY <1>2, <1>3, <2>4 DEF Tasks, Scatters
    <3>2. client[<<t[1], v>>[2]] = "stopping" BY <1>2, <3>1 DEF Tasks, Scatters
    <3> QED BY <3>2
  <2> QED BY <2>2, <2>3, <2>4
<1> QED BY <1>4, <1>5, <1>6

LEMMA StopEdgeKeeps ==
  ASSUME IInv, NEW t \in Thread, StopEdge(t)
  PROVE  IInv'
<1> DEFINE r == Here(t)
<1>1. PICK e \in Edges :
        LET x == Across(r, e)
            owner == <<r[1], fork[e].owner>>
            taker == Across(owner, e)
            wanted == fork[e].dirty /\ taker[2] \in fork[e].requests
            moved == IF wanted THEN Moved(owner, taker) ELSE phil
        IN
        /\ Doing(t, "stop") /\ HasBoth(t, e) /\ phil[r].state = "thinking"
        /\ fork' = IF wanted THEN [fork EXCEPT ![e] = Clean(taker[2], {})] ELSE fork
        /\ phil' = MakeReady(moved, x)
        /\ Become(t, Onward(t, e, ToTell(moved, x)))
        /\ KeepOwnLock(t, e)
        /\ UNCHANGED <<calls, client, meals>> BY DEF StopEdge
<1> DEFINE x == Across(r, e)
           owner == <<r[1], fork[e].owner>>
           taker == Across(owner, e)
           wanted == fork[e].dirty /\ taker[2] \in fork[e].requests
           p == IF wanted THEN Moved(owner, taker) ELSE phil
<1>2. /\ FineStacks /\ ~Idle(t) /\ LoopFrame(t[1], Top(t)) /\ Top(t).at # "lock" /\ t[1] \in Machine
      /\ Top(t).v \in Vertex /\ r \in Replica /\ r[1] = t[1] /\ e \in EdgesAt(r) /\ lock' \in LockSet
      /\ x \in Replica /\ x = <<t[1], x[2]>> /\ x[2] \in Vertex /\ x[2] # r[2]
      /\ {e.source, e.target} = {r[2], x[2]} /\ e \in Edges BY <1>1, BothLocks
<1>3. UNCHANGED <<calls, client, meals>> /\ St(r) = "thinking" BY <1>1 DEF St
<1>4. /\ r = <<r[1], r[2]>> /\ r = Across(x, e) /\ e.on = r[1] /\ e \in EdgesAt(x)
      /\ r[2] = Top(t).v BY <1>2, EdgeFacts, SetFacts, TopFacts
<1>5. ForksFine BY Invariant
<1>6. (owner = r /\ taker = x) \/ (owner = x /\ taker = r)
  <2>1. fork[e].owner \in {r[2], x[2]} BY <1>2, <1>5 DEF ForksFine
  <2>2. fork[e].owner = r[2] => owner = r /\ taker = x BY <1>4
  <2>3. fork[e].owner = x[2] => owner = x /\ taker = r BY <1>2, <1>4
  <2> QED BY <2>1, <2>2, <2>3
<1>7. Reaped /\ wanted => ~HasAll(owner)
  <2> SUFFICES ASSUME Reaped, wanted PROVE ~HasAll(owner) OBVIOUS
  <2>1. CASE owner = r
    <3>1. ~HasAll(r) BY <1>3 DEF HasAll
    <3> QED BY <2>1, <3>1
  <2>2. CASE taker = r
    <3>1. r[2] \in fork[e].requests BY <2>2
    <3>2. client[r[2]] = "hungry" BY <1>2, <1>5, <3>1 DEF ForksFine
    <3>3. Top(t).op = "stop" BY <1>1 DEF Doing, Top
    <3>4. client[r[2]] = "stopping" BY <1>2, <1>4, <3>3, StopperStops
    <3> QED BY <3>2, <3>4
  <2> QED BY <1>6, <2>1, <2>2
<1>7a. /\ fork' = IF wanted THEN [fork EXCEPT ![e] = Clean(taker[2], {})] ELSE fork
       /\ phil' = MakeReady(p, x)
       /\ Become(t, Onward(t, e, ToTell(p, x))) BY <1>1
<1>8. NowReady(p, x) \in BOOLEAN BY DEF NowReady
<1>9. ForkStep(t[1], NowReady(p, x), x[2])
  <2>0. x[1] = t[1] /\ client' = client BY <1>2, <1>3
  <2>1. CASE wanted
    <3>1. p = Moved(owner, taker) /\ phil' = MakeReady(p, x) BY <1>7a, <2>1
    <3>2. /\ owner \in Replica /\ e \in EdgesAt(owner) /\ fork[e].owner = owner[2]
          /\ taker = Across(owner, e) BY <1>2, <1>4, <1>6
    <3>4. Reaped => ~HasAll(owner) BY <1>7, <2>1
    <3> DEFINE R == {}
    <3>5. fork' = HandedTo(fork, e, taker[2], R) /\ (R = {} \/ (R = {owner[2]} /\ St(owner) = "hungry"))
      BY <1>7a, <2>1 DEF HandedTo
    <3> HIDE DEF x, r, p, R, owner, taker, wanted
    <3>6. ForkStep(x[1], NowReady(p, x), x[2]) BY <1>2, <2>0, <3>1, <3>2, <3>4, <3>5, GiveStep
    <3> QED BY <2>0, <3>6
  <2>2. CASE ~wanted
    <3>1. fork' = fork /\ p = phil /\ phil' = MakeReady(phil, x) BY <1>7a, <2>2
    <3> HIDE DEF x, r, p, wanted
    <3>3. ForkStep(x[1], NowReady(phil, x), x[2]) BY <1>2, <2>0, <3>1, ReadyStep
    <3> QED BY <2>0, <3>1, <3>3
  <2> QED BY <2>1, <2>2
<1>10. TellsMore(t, NowReady(p, x), x[2])
  <2>1. NowReady(p, x) => <<t[1], x[2]>> \in Replica BY <1>2
  <2>2. Become(t, Onward(t, e, IF NowReady(p, x) THEN <<x[2]>> ELSE << >>))
    <3> HIDE DEF x, r, p
    <3> QED BY <1>7a DEF ToTell
  <2> HIDE DEF x, r, p
  <2> QED BY <1>2, <1>8, <2>1, <2>2, OnwardTells
<1> HIDE DEF x, r, p
<1> QED BY <1>2, <1>3, <1>8, <1>9, <1>10, LoopKeeps

\* The loop is left, and its replicas are to be signalled.
LEMMA FinishTells ==
  ASSUME FineStacks, NEW t \in Thread, ~Idle(t), LoopFrame(t[1], Top(t)), Top(t).at # "lock",
         NEW b \in BOOLEAN, <<t[1], Top(t).v>> \in Replica,
         Become(t, Return(<<Signals(Top(t).v, Top(t).ready \o (IF b THEN <<Top(t).v>> ELSE << >>))>>
                          \o Callers(t)))
  PROVE  TellsMore(t, b, Top(t).v)
<1> DEFINE x == Top(t).v
           more == IF b THEN <<x>> ELSE << >>
           s == stack[t]
           g == GoesOn(Top(t), {}, more)
           f == Signals(x, Top(t).ready \o more)
           s2 == Return(<<f>> \o Tail(s))
<1>1. /\ s # << >> /\ Fine(t[1], s) /\ t[1] \in Machine /\ Top(t) = s[1]
      /\ Callers(t) = Tail(s) /\ s \in Seq(Frame) BY TopFacts DEF Callers
<1>2. x \in Vertex BY FrameFields DEF LoopFrame
<1>3. more \in Seq(Vertex) /\ \A i \in 1 .. Len(more) : <<t[1], more[i]>> \in Replica BY <1>2
<1>4. LoopFrame(t[1], g) /\ g.ready = Top(t).ready \o more
  <2> HIDE DEF more
  <2> QED BY <1>1, <1>3, FrameGoesOn, ZenonT(120)
<1> HIDE DEF g
<1>5. g.ready \in Seq(Vertex) /\ \A i \in 1 .. Len(g.ready) : <<t[1], g.ready[i]>> \in Replica
  BY <1>4, FrameFields DEF LoopFrame, WellPlaced, HasReady, LoopOps
<1>6. f.op = "signal" /\ f.v = x /\ f.ready = g.ready /\ f \in Frame
  BY <1>2, <1>4, <1>5 DEF Signals, Frame
<1>7. WellPlaced(t[1], f)
  <2> HIDE DEF f, x
  <2> QED BY <1>5, <1>6 DEF WellPlaced, HasReady, x
<1>8. Become(t, s2) BY <1>1
<1>9. \/ f.ready # << >> /\ Replaced(s, s2, f)
      \/ f.ready = << >> /\ Returned(s, s2)
  <2> HIDE DEF f, s
  <2> QED BY <1>1, <1>6, ReturnOps
<1>10. s[1].op \in LoopOps \cup {"signal"} /\ f.v = s[1].v /\ s[1].op \in LoopOps /\ s[1].at # "lock"
  BY <1>1, <1>6 DEF LoopFrame
<1>11. f.ready = s[1].ready \o more BY <1>1, <1>4, <1>6
<1> HIDE DEF f, s2, s, more
<1>12. /\ Fine(t[1], s2) /\ Plain(s2) /\ SameBase(s, s2)
       /\ Depth(s) \in {1, 2} /\ Lists(s, Depth(s)) = s[1].ready
       /\ Changes(s, s2, Depth(s), f.ready) BY <1>1, <1>6, <1>7, <1>9, <1>10, SignalsNext
<1>13. Adds(s, s2, more) BY <1>11, <1>12 DEF Adds
<1>14. Plain(s) BY <1>10 DEF Plain, Eats, Stops, Accepts, LoopOps
<1>15. /\ FineStacks' /\ stack'[t] = s2
       /\ \A u \in Thread \ {t} : stack'[u] = stack[u] BY <1>8, <1>12, Becomes
<1> QED BY <1>12, <1>13, <1>14, <1>15 DEF TellsMore, s, more

LEMMA FinishLoopKeeps ==
  ASSUME IInv, NEW t \in Thread, FinishLoop(t)
  PROVE  IInv'
<1> DEFINE r == Here(t)
           b == ~Doing(t, "stop") /\ NowReady(phil, r)
<1>1. FineStacks /\ lock \in LockSet BY Invariant
<1>2. /\ ~Idle(t) /\ LoopFrame(t[1], Top(t)) /\ Top(t).at = "edge" /\ t[1] \in Machine
      /\ r \in Replica /\ r[1] = t[1] /\ r[2] = Top(t).v BY <1>1, AtFacts, TopFacts DEF FinishLoop
<1>3. r = <<t[1], Top(t).v>> /\ Top(t).v \in Vertex /\ b \in BOOLEAN
  BY <1>2, FrameFields DEF LoopFrame, Here, NowReady
<1>4. /\ phil' = IF Doing(t, "stop") THEN phil ELSE MakeReady(phil, r)
      /\ lock' = [lock EXCEPT ![r] = NoOne]
      /\ Become(t, Return(<<Signals(r[2], Top(t).ready \o (IF Doing(t, "stop") THEN << >> ELSE ToTell(phil, r)))>>
                          \o Callers(t)))
      /\ UNCHANGED <<fork, calls, client, meals>> BY DEF FinishLoop
<1>5. lock' \in LockSet BY <1>1, <1>2, <1>4, LocksTyped
<1>6. (IF Doing(t, "stop") THEN << >> ELSE ToTell(phil, r)) = (IF b THEN <<Top(t).v>> ELSE << >>)
  BY <1>2 DEF ToTell
<1>7. TellsMore(t, b, Top(t).v)
  <2>1. Become(t, Return(<<Signals(Top(t).v, Top(t).ready \o (IF b THEN <<Top(t).v>> ELSE << >>))>>
                         \o Callers(t))) BY <1>2, <1>4, <1>6
  <2>2. <<t[1], Top(t).v>> \in Replica BY <1>2, <1>3
  <2> HIDE DEF b
  <2> QED BY <1>1, <1>2, <1>3, <2>1, <2>2, FinishTells
<1>8. ForkStep(t[1], b, Top(t).v)
  <2>1. CASE Doing(t, "stop")
    <3>1. b = FALSE /\ phil' = phil /\ fork' = fork /\ client' = client BY <1>4, <2>1
    <3>2. ForkStep(t[1], FALSE, Top(t).v) BY <3>1, NoForkStep
    <3> HIDE DEF b
    <3> QED BY <3>1, <3>2
  <2>2. CASE ~Doing(t, "stop")
    <3>1. /\ b = NowReady(phil, r) /\ fork' = fork /\ phil' = MakeReady(phil, r)
          /\ client' = client BY <1>4, <2>2 DEF NowReady
    <3> HIDE DEF r, b
    <3>2. ForkStep(r[1], NowReady(phil, r), r[2]) BY <1>2, <3>1, ReadyStep
    <3> QED BY <1>2, <3>1, <3>2
  <2> QED BY <2>1, <2>2
<1> HIDE DEF b
<1> QED BY <1>3, <1>4, <1>5, <1>7, <1>8, LoopKeeps

-----------------------------------------------------------------------------
(* A thread begins a loop of its own, or ends what it was doing.           *)

LEMMA StacksCount ==
  ASSUME IInv, NEW t \in Thread, FineStacks', \A u \in Thread \ {t} : stack'[u] = stack[u],
         Keeps(stack[t], stack'[t]), NEW v \in Vertex
  PROVE  /\ NListed(v)' = NListed(v)
         /\ NAccepting(v)' = NAccepting(v) - One(Accepts(stack[t], v)) + One(Accepts(stack'[t], v))
<1>1. FineStacks BY Invariant
<1>2. NListed(v)' = NListed(v) BY <1>1, ListedKept
<1>3. NAccepting(v)' = NAccepting(v) - One(Accepts(stack[t], v)) + One(Accepts(stack'[t], v))
  BY AcceptingAt
<1> QED BY <1>2, <1>3

LEMMA CountsNow ==
  ASSUME IInv, NEW v \in Vertex
  PROVE  /\ NWaiting(v) + NCalls(v) + NReady(v) + NAccepting(v) + NListed(v) <= Counter(v)
         /\ NWaiting(v) \in Nat /\ NCalls(v) \in Nat /\ NReady(v) \in Nat
         /\ NAccepting(v) \in Nat /\ NListed(v) \in Nat /\ Counter(v) \in 0 .. 255
<1>1. TypeOK /\ FineStacks /\ Counted BY Invariant
<1> QED BY <1>1, Heard

\* A loop that has to begin, begins.
LEMMA Begins ==
  ASSUME FineStacks, NEW t \in Thread, At(t, "lock"),
         Become(t, <<[Top(t) EXCEPT !.at = "edge"]>> \o Callers(t))
  PROVE  /\ FineStacks' /\ \A u \in Thread \ {t} : stack'[u] = stack[u]
         /\ Plain(stack'[t]) /\ SameBase(stack[t], stack'[t]) /\ Keeps(stack[t], stack'[t])
<1> DEFINE s == stack[t]
           f == AtPlace(Top(t), "edge")
           s2 == <<f>> \o Tail(s)
           more == << >>
<1>1. /\ ~Idle(t) /\ LoopFrame(t[1], Top(t)) /\ t[1] \in Machine
      /\ s # << >> /\ s \in Seq(Frame) /\ Fine(t[1], s) /\ Top(t) = s[1] /\ Callers(t) = Tail(s)
  BY AtFacts, TopFacts DEF Callers
<1>2. LoopFrame(t[1], f) /\ f.op = Top(t).op /\ f.v = Top(t).v /\ f.at = "edge" /\ f.ready = Top(t).ready
  <2>1. "edge" \in LoopPlaces BY DEF LoopPlaces
  <2> QED BY <1>1, <2>1, FrameMoves
<1>3. Become(t, s2) BY <1>1 DEF AtPlace
<1>4. f.ready = s[1].ready \o more /\ more \in Seq(Vertex) /\ f.at # "lock"
  <2>1. Top(t).ready \in Seq(Vertex) BY <1>1, FrameFields DEF LoopFrame
  <2> QED BY <1>1, <1>2, <2>1, Nothing
<1>5. s[1].op \in LoopOps /\ f.op = s[1].op /\ f.v = s[1].v /\ f \in Frame /\ WellPlaced(t[1], f)
  BY <1>1, <1>2 DEF LoopFrame
<1> HIDE DEF f, s
<1>6. Fine(t[1], s2) /\ Plain(s2) /\ SameBase(s, s2) /\ Adds(s, s2, more)
  <2>1. s2 = <<f>> \o Tail(s) OBVIOUS
  <2> HIDE DEF s2, more
  <2> QED BY <1>1, <1>4, <1>5, <2>1, LoopGoesOn
<1> HIDE DEF s2
<1>7. Keeps(s, s2)
  <2>1. PICK n \in 1 .. 3 : Changes(s, s2, n, Lists(s, n) \o more) BY <1>6 DEF Adds
  <2>2. Depth(s) \in {0, 1, 2, 3} BY <1>1 DEF Fine, Shaped
  <2>3. Lists(s, n) \in Seq(Vertex) BY <1>1, <2>2, ListsTyped
  <2>4. Lists(s, n) \o more = Lists(s, n) BY <2>3, Nothing
  <2> QED BY <2>1, <2>4 DEF Changes, Keeps
<1>8. /\ FineStacks' /\ stack'[t] = s2
      /\ \A u \in Thread \ {t} : stack'[u] = stack[u] BY <1>3, <1>6, Becomes
<1> QED BY <1>6, <1>7, <1>8 DEF s

LEMMA StartAcceptKeeps ==
  ASSUME IInv, NEW t \in Thread, StartAccept(t)
  PROVE  IInv'
<1>0. PICK r : r = Here(t) OBVIOUS
<1>1. /\ FineStacks /\ phil \in PhilSet /\ fork \in ForkSet /\ lock \in LockSet
      /\ NothingOwed /\ Tasks /\ Held /\ AcquiredCounts /\ ForksFine BY Invariant
<1>2. /\ At(t, "lock") /\ Top(t).op = "accept"
      /\ lock' = [lock EXCEPT ![r] = t]
      /\ phil' = SetSent(SetState(phil, r, "hungry"), r, FALSE)
      /\ Become(t, <<[Top(t) EXCEPT !.at = "edge"]>> \o Callers(t))
      /\ fork' = fork /\ down' = down /\ up' = up /\ scatter' = scatter /\ awaited' = awaited
      /\ client' = client /\ meals' = meals BY <1>0 DEF StartAccept, Doing, Top, SetSent, SetState, calls
<1>3. /\ ~Idle(t) /\ Top(t).at = "lock" /\ stack[t] # << >> /\ Top(t) = stack[t][1]
      /\ r \in Replica /\ r[1] = t[1] /\ r[2] = Top(t).v /\ r[2] \in Vertex
  BY <1>0, <1>1, <1>2, AtFacts, TopFacts, SetFacts
<1>4. /\ FineStacks' /\ \A u \in Thread \ {t} : stack'[u] = stack[u]
      /\ Plain(stack'[t]) /\ SameBase(stack[t], stack'[t]) /\ Keeps(stack[t], stack'[t])
  BY <1>1, <1>2, Begins
<1>5. \A v \in Vertex : /\ Accepts(stack[t], v) <=> v = r[2]
                        /\ ~Eats(stack[t], v) /\ ~Stops(stack[t], v)
  BY <1>2, <1>3 DEF Accepts, Eats, Stops
<1>6. AcceptsAt(t, r) /\ \A q \in Replica : ~EatsAt(t, q) /\ ~StopsAt(t, q)
  BY <1>3, <1>5, SetFacts DEF AcceptsAt, EatsAt, StopsAt
<1>7. Counter(r[2]) # 0 BY <1>1, <1>3, <1>6 DEF NothingOwed, Expecting
<1>8. /\ phil' \in PhilSet /\ St(r)' = "hungry"
      /\ \A z \in Replica : /\ z # r => St(z)' = St(z)
                            /\ phil'[z].counter = phil[z].counter
                            /\ phil'[z].forks_acquired = phil[z].forks_acquired
  <2> DEFINE p == SetState(phil, r, "hungry")
  <2>1. "hungry" \in State /\ FALSE \in BOOLEAN BY SMTT(30) DEF State
  <2> HIDE DEF p
  <2>2. OnlyAt(phil, p, r) /\ Fields(p[r], "hungry", phil[r].forks_acquired, phil[r].counter,
                                     phil[r].cancellation_sent, phil[r].lockid)
    BY <1>1, <1>3, <2>1, PhilFields DEF p
  <2>3. p \in PhilSet BY <2>2 DEF OnlyAt
  <2>4. OnlyAt(p, phil', r) /\ Fields(phil'[r], p[r].state, p[r].forks_acquired, p[r].counter, FALSE, p[r].lockid)
    BY <1>2, <1>3, <2>1, <2>3, PhilFields DEF p
  <2> QED BY <2>2, <2>4 DEF OnlyAt, Fields, St
<1>9. AcquiredCounts' /\ \A z \in Replica : Owns(z)' <=> Owns(z)
  <2>1. \A z \in Replica : Acq(z)' = Acq(z) BY <1>8 DEF Acq
  <2> QED BY <1>1, <1>2, <2>1, AcquiredKept
<1>10. ForksFine' BY <1>1, <1>2 DEF ForksFine, Reaped
<1>11. \A v \in Vertex : Counter(v)' = Counter(v) BY <1>8, SetFacts DEF Counter
<1>12. Quiet(t)
  <2>1. OnlyThread(t) BY <1>4 DEF OnlyThread
  <2>2. /\ \A u \in Thread : u # t => SameRoles(u)
        /\ LessBase(t) /\ PlainAt(t)' BY <1>4, <2>1, OthersSame, PlainRoles
  <2>3. \A q \in Replica : ~EatsAt(t, q)' /\ ~StopsAt(t, q)' /\ ~AcceptsAt(t, q)' BY <2>2 DEF PlainAt
  <2>4. \A q \in Replica : StaysOrMoves(q) /\ (Reaped /\ HasAll(q) => Owns(q)')
    BY <1>3, <1>7, <1>8, <1>9 DEF StaysOrMoves, HasAll
  <2>4a. \A q \in Replica : AcceptsAt(t, q) => St(q)' = "hungry"
    BY <1>3, <1>5, <1>8, SetFacts DEF AcceptsAt
  <2>5. \A q \in Mirror : \A op : Sent(q, op)' <=> Sent(q, op) BY <1>2, SentSame, SetFacts
  <2> QED BY <1>2, <1>6, <1>11, <2>2, <2>3, <2>4, <2>4a, <2>5 DEF Quiet
<1>13. /\ Tasks' /\ Held'
       /\ \A q \in Replica : q # r /\ Waiting(q)' => Waiting(q)
  BY <1>1, <1>8, <1>12, QuietKeepsTasks, QuietKeepsHeld
<1>15. Counted'
  <2> SUFFICES ASSUME NEW v \in Vertex
               PROVE  NWaiting(v)' + NCalls(v)' + NReady(v)' + NAccepting(v)' + NListed(v)' <= Counter(v)'
    BY CountedNext
  <2>1. NCalls(v)' = NCalls(v) /\ NReady(v)' = NReady(v) BY <1>2, MailSame
  <2>2. /\ NListed(v)' = NListed(v)
        /\ NAccepting(v)' = NAccepting(v) - One(Accepts(stack[t], v)) + One(Accepts(stack'[t], v))
    BY <1>4, StacksCount
  <2>3. /\ NWaiting(v) \in Nat /\ NWaiting(v)' \in Nat
        /\ NWaiting(v)' <= NWaiting(v) - One(r[2] = v /\ Waiting(r)) + One(r[2] = v /\ Waiting(r)')
    BY <1>3, <1>13, WaitingAt
  <2>4. (Accepts(stack[t], v) <=> v = r[2]) /\ ~Accepts(stack'[t], v) BY <1>4, <1>5 DEF Plain
  <2> QED BY <1>8, <1>11, <2>1, <2>2, <2>3, <2>4, CountsNow DEF One
<1>16. TypeOK' /\ Stacks'
  <2>1. Mailboxes(down') /\ Mailboxes(up') /\ scatter' \subseteq Mirror /\ awaited' \subseteq Mirror
        /\ client' \in ClientSet /\ meals' \in [Vertex -> Nat] /\ \A v \in Vertex : meals'[v] <= MaxMeals[v]
    BY <1>2, Invariant
  <2>2. lock' \in LockSet BY <1>1, <1>2, <1>3, LocksTyped
  <2> QED BY <1>1, <1>2, <1>4, <1>8, <2>1, <2>2, TypeNext
<1> QED BY <1>9, <1>10, <1>13, <1>15, <1>16 DEF IInv

LEMMA StartStopKeeps ==
  ASSUME IInv, NEW t \in Thread, StartStop(t)
  PROVE  IInv'
<1>0. PICK r : r = Here(t) OBVIOUS
<1>1. /\ FineStacks /\ phil \in PhilSet /\ fork \in ForkSet /\ lock \in LockSet
      /\ Tasks /\ Held /\ awaited \subseteq Mirror /\ AcquiredCounts /\ ForksFine BY Invariant
<1>2. /\ At(t, "lock") /\ Top(t).op = "stop"
      /\ lock' = [lock EXCEPT ![r] = t]
      /\ phil' = SetCounter(SetState(phil, r, "thinking"), r, 0)
      /\ fork' = [e \in Edges |-> IF e \in EdgesAt(r) THEN [fork[e] EXCEPT !.dirty = TRUE] ELSE fork[e]]
      /\ Become(t, <<[Top(t) EXCEPT !.at = "edge"]>> \o Callers(t))
      /\ down' = down /\ up' = up /\ scatter' = scatter /\ awaited' = awaited
      /\ client' = client /\ meals' = meals
  BY <1>0 DEF StartStop, Doing, Top, SetCounter, SetState, calls
<1>3. /\ ~Idle(t) /\ Top(t).at = "lock" /\ stack[t] # << >> /\ Top(t) = stack[t][1]
      /\ r \in Replica /\ r[1] = t[1] /\ r[2] = Top(t).v /\ r[2] \in Vertex
  BY <1>0, <1>1, <1>2, AtFacts, TopFacts, SetFacts
<1>4. /\ FineStacks' /\ \A u \in Thread \ {t} : stack'[u] = stack[u]
      /\ Plain(stack'[t]) /\ SameBase(stack[t], stack'[t]) /\ Keeps(stack[t], stack'[t])
  BY <1>1, <1>2, Begins
<1>5. \A v \in Vertex : /\ Stops(stack[t], v) <=> v = r[2]
                        /\ ~Eats(stack[t], v) /\ ~Accepts(stack[t], v)
  BY <1>2, <1>3 DEF Accepts, Eats, Stops
<1>6. StopsAt(t, r) /\ \A q \in Replica : ~EatsAt(t, q) /\ ~AcceptsAt(t, q) /\ (StopsAt(t, q) => q = r)
  BY <1>3, <1>5, SetFacts DEF EatsAt, StopsAt, AcceptsAt
<1>8. /\ phil' \in PhilSet /\ St(r)' = "thinking" /\ phil'[r].counter = 0
      /\ \A z \in Replica : /\ z # r => St(z)' = St(z)
                            /\ z # r => phil'[z].counter = phil[z].counter
                            /\ phil'[z].forks_acquired = phil[z].forks_acquired
  <2> DEFINE p == SetState(phil, r, "thinking")
  <2>1. "thinking" \in State /\ 0 \in 0 .. 255 BY SMTT(30) DEF State
  <2> HIDE DEF p
  <2>2. OnlyAt(phil, p, r) /\ Fields(p[r], "thinking", phil[r].forks_acquired, phil[r].counter,
                                     phil[r].cancellation_sent, phil[r].lockid)
    BY <1>1, <1>3, <2>1, PhilFields DEF p
  <2>3. p \in PhilSet BY <2>2 DEF OnlyAt
  <2>4. OnlyAt(p, phil', r) /\ Fields(phil'[r], p[r].state, p[r].forks_acquired, 0,
                                      p[r].cancellation_sent, p[r].lockid)
    BY <1>2, <1>3, <2>1, <2>3, PhilFields DEF p
  <2> QED BY <2>2, <2>4 DEF OnlyAt, Fields, St
<1>9. /\ fork' \in ForkSet
      /\ \A e \in Edges : fork'[e].owner = fork[e].owner /\ fork'[e].requests = fork[e].requests
  BY <1>1, <1>2 DEF ForkSet
<1>10. AcquiredCounts' /\ \A z \in Replica : Owns(z)' <=> Owns(z)
  <2>1. \A z \in Replica : Acq(z)' = Acq(z) BY <1>8 DEF Acq
  <2> QED BY <1>1, <1>9, <2>1, AcquiredKept
<1>11. ForksFine' BY <1>1, <1>2, <1>9 DEF ForksFine, Reaped
<1>12. \A v \in Vertex : Counter(v)' = Counter(v)
  <2>1. r \notin Mirror => EndsAt(t, r[2]) BY <1>1, <1>3, <1>6 DEF Tasks, Grounds
  <2>2. r \notin Mirror => Counter(r[2]) = 0 BY <1>1, <1>3, <2>1 DEF Tasks, Enders, Programs
  <2> SUFFICES ASSUME NEW v \in Vertex PROVE Counter(v)' = Counter(v) OBVIOUS
  <2>3. CASE Master(v) = r
    <3>1. r \notin Mirror /\ r[2] = v BY <2>3, SetFacts
    <3> QED BY <1>8, <2>2, <2>3, <3>1 DEF Counter
  <2>4. CASE Master(v) # r BY <1>8, <2>4, SetFacts DEF Counter
  <2> QED BY <2>3, <2>4
<1>13. StopsEating(t, r)
  <2>1. OnlyThread(t) BY <1>4 DEF OnlyThread
  <2>2. /\ \A u \in Thread : u # t => SameRoles(u)
        /\ LessBase(t) /\ PlainAt(t)' BY <1>4, <2>1, OthersSame, PlainRoles
  <2>3. \A q \in Replica : \A op : Sent(q, op)' <=> Sent(q, op) BY <1>2, SentSame
  <2> QED BY <1>2, <1>6, <1>8, <1>10, <1>12, <2>2, <2>3 DEF StopsEating
<1>14. /\ Tasks' /\ Held'
       /\ \A q \in Replica : Waiting(q)' => Waiting(q)
  BY <1>1, <1>3, <1>13, StopKeepsTasks, StopKeepsHeld
<1>16. Counted'
  <2> SUFFICES ASSUME NEW v \in Vertex
               PROVE  NWaiting(v)' + NCalls(v)' + NReady(v)' + NAccepting(v)' + NListed(v)' <= Counter(v)'
    BY CountedNext
  <2>1. NCalls(v)' = NCalls(v) /\ NReady(v)' = NReady(v) BY <1>2, MailSame
  <2>2. /\ NListed(v)' = NListed(v)
        /\ NAccepting(v)' = NAccepting(v) - One(Accepts(stack[t], v)) + One(Accepts(stack'[t], v))
    BY <1>4, StacksCount
  <2>3. NWaiting(v)' <= NWaiting(v) /\ NWaiting(v)' \in Nat BY <1>14, WaitingLess
  <2>4. ~Accepts(stack[t], v) /\ ~Accepts(stack'[t], v) BY <1>4, <1>5 DEF Plain
  <2> QED BY <1>12, <2>1, <2>2, <2>3, <2>4, CountsNow DEF One
<1>17. TypeOK' /\ Stacks'
  <2>1. Mailboxes(down') /\ Mailboxes(up') /\ scatter' \subseteq Mirror /\ awaited' \subseteq Mirror
        /\ client' \in ClientSet /\ meals' \in [Vertex -> Nat] /\ \A v \in Vertex : meals'[v] <= MaxMeals[v]
    BY <1>2, Invariant
  <2>2. lock' \in LockSet BY <1>1, <1>2, <1>3, LocksTyped
  <2> QED BY <1>4, <1>8, <1>9, <2>1, <2>2, TypeNext
<1> QED BY <1>10, <1>11, <1>14, <1>16, <1>17 DEF IInv

LEMMA SetEatingKeeps ==
  ASSUME IInv, NEW t \in Thread, SetEating(t)
  PROVE  IInv'
<1>0. PICK r : r = Here(t) OBVIOUS
<1> DEFINE s == stack[t]
<1>1. /\ FineStacks /\ phil \in PhilSet /\ fork \in ForkSet /\ lock \in LockSet
      /\ Tasks /\ Held /\ NothingOwed /\ AcquiredCounts /\ ForksFine
      /\ awaited \subseteq Mirror /\ client \in ClientSet BY Invariant
<1>2. /\ ~Idle(t) /\ Top(t).op = "eat"
      /\ phil' = SetSent(SetState(phil, r, "eating"), r, FALSE)
      /\ client' = IF r = Master(Top(t).v) THEN [client EXCEPT ![Top(t).v] = "eating"] ELSE client
      /\ Become(t, Return(Callers(t)))
      /\ fork' = fork /\ lock' = lock /\ down' = down /\ up' = up
      /\ scatter' = scatter /\ awaited' = awaited /\ meals' = meals
  BY <1>0 DEF SetEating, Doing, Top, SetSent, SetState, calls
<1>3. /\ s # << >> /\ s \in Seq(Frame) /\ Fine(t[1], s) /\ Top(t) = s[1] /\ t[1] \in Machine
      /\ Callers(t) = Tail(s) BY <1>1, <1>2, TopFacts DEF Callers
<1>30. /\ stack[t] # << >> /\ Top(t) = stack[t][1]
       /\ r \in Replica /\ r[1] = t[1] /\ r[2] = Top(t).v /\ r[2] \in Vertex
  BY <1>0, <1>1, <1>2, TopFacts, SetFacts
<1>4. /\ FineStacks' /\ \A u \in Thread \ {t} : stack'[u] = stack[u]
      /\ Plain(stack'[t]) /\ SameBase(stack[t], stack'[t]) /\ Keeps(stack[t], stack'[t])
  <2> DEFINE s2 == Return(Tail(s))
  <2>1. s[1].op = "eat" /\ Become(t, s2) BY <1>2, <1>3
  <2> HIDE DEF s
  <2>2. PICK s1 : /\ Returned(s, s1)
                  /\ LET done == Depth(s1) # 0 /\ s1[1].op = "signal" /\ s1[1].ready = << >>
                     IN  (done /\ Returned(s1, Return(Tail(s)))) \/ (~done /\ Return(Tail(s)) = s1)
    BY <1>3, ReturnOps
  <2>3. LET done == Depth(s1) # 0 /\ s1[1].op = "signal" /\ s1[1].ready = << >>
        IN  (done /\ Returned(s1, s2)) \/ (~done /\ s2 = s1) BY <2>2
  <2> HIDE DEF s2
  <2>4. Fine(t[1], s2) /\ Plain(s2) /\ SameBase(s, s2) /\ Keeps(s, s2)
    BY <1>3, <2>1, <2>2, <2>3, EatReturns
  <2>5. /\ FineStacks' /\ stack'[t] = s2
        /\ \A u \in Thread \ {t} : stack'[u] = stack[u] BY <1>1, <2>1, <2>4, Becomes
  <2> QED BY <2>4, <2>5 DEF s
<1> HIDE DEF s
<1>5. \A v \in Vertex : /\ Eats(stack[t], v) <=> v = r[2]
                        /\ ~Stops(stack[t], v) /\ ~Accepts(stack[t], v)
  BY <1>2, <1>30 DEF Accepts, Eats, Stops
<1>6. EatsAt(t, r) /\ \A q \in Replica : ~StopsAt(t, q) /\ ~AcceptsAt(t, q) /\ (EatsAt(t, q) => q = r)
  BY <1>30, <1>5, SetFacts DEF EatsAt, StopsAt, AcceptsAt
<1>8. /\ phil' \in PhilSet /\ St(r)' = "eating"
      /\ \A z \in Replica : /\ z # r => St(z)' = St(z)
                            /\ phil'[z].counter = phil[z].counter
                            /\ phil'[z].forks_acquired = phil[z].forks_acquired
  <2> DEFINE p == SetState(phil, r, "eating")
  <2>1. "eating" \in State /\ FALSE \in BOOLEAN BY SMTT(30) DEF State
  <2> HIDE DEF p
  <2>2. OnlyAt(phil, p, r) /\ Fields(p[r], "eating", phil[r].forks_acquired, phil[r].counter,
                                     phil[r].cancellation_sent, phil[r].lockid)
    BY <1>1, <1>30, <2>1, PhilFields DEF p
  <2>3. p \in PhilSet BY <2>2 DEF OnlyAt
  <2>4. OnlyAt(p, phil', r) /\ Fields(phil'[r], p[r].state, p[r].forks_acquired, p[r].counter, FALSE, p[r].lockid)
    BY <1>2, <1>30, <2>1, <2>3, PhilFields DEF p
  <2> QED BY <2>2, <2>4 DEF OnlyAt, Fields, St
<1>9. AcquiredCounts' /\ \A z \in Replica : Owns(z)' <=> Owns(z)
  <2>1. \A z \in Replica : Acq(z)' = Acq(z) BY <1>8 DEF Acq
  <2> QED BY <1>1, <1>2, <2>1, AcquiredKept
<1>11. \A v \in Vertex : Counter(v)' = Counter(v) BY <1>8, SetFacts DEF Counter
<1>12. /\ client' \in ClientSet
       /\ \A v \in Vertex : client'[v] = IF r = Master(v) THEN "eating" ELSE client[v]
  <2>1. \A v \in Vertex : r = Master(v) => v = r[2] BY SetFacts
  <2>2. r = Master(r[2]) => client' = [client EXCEPT ![r[2]] = "eating"] BY <1>2, <1>30
  <2>3. r # Master(r[2]) => client' = client BY <1>2, <1>30
  <2> QED BY <1>1, <1>30, <2>1, <2>2, <2>3 DEF ClientSet
<1>12a. ForksFine'
  <2>1. /\ \A e \in Edges : fork'[e].owner \in {e.source, e.target}
        /\ \A e \in Edges : \A y \in fork'[e].requests :
             y \in fork[e].requests /\ fork'[e].owner = fork[e].owner BY <1>1, <1>2 DEF ForksFine
  <2>2. ASSUME NEW q \in Replica, Reaped, client[q[2]] = "hungry"
        PROVE  client'[q[2]] = "hungry" \/ Owns(q)'
    <3>1. q[2] \in Vertex BY SetFacts
    <3>2. CASE r = Master(q[2])
      <4>1. Winning(q[2]) BY <1>6, <3>2 DEF Winning
      <4>2. Counter(q[2]) = 0 BY <1>1, <3>1, <4>1 DEF Tasks, Winners
      <4>3. HasAll(q) BY <1>1, <2>2, <4>2, AllThere
      <4> QED BY <1>9, <4>3 DEF HasAll
    <3>3. CASE r # Master(q[2]) BY <1>12, <2>2, <3>1, <3>3
    <3> QED BY <3>2, <3>3
  <2> QED BY <1>1, <2>1, <2>2, ForksFineNext
<1>13. StartsToEat(t, r)
  <2>1. OnlyThread(t) BY <1>4 DEF OnlyThread
  <2>2. /\ \A u \in Thread : u # t => SameRoles(u)
        /\ LessBase(t) /\ PlainAt(t)' BY <1>4, <2>1, OthersSame, PlainRoles
  <2>3. \A q \in Replica : \A op : Sent(q, op)' <=> Sent(q, op) BY <1>2, SentSame
  <2> QED BY <1>2, <1>6, <1>8, <1>9, <1>11, <1>12, <2>2, <2>3 DEF StartsToEat
<1>14. /\ Tasks' /\ Held'
       /\ \A q \in Replica : Waiting(q)' => Waiting(q)
  BY <1>1, <1>30, <1>13, EatKeepsTasks, EatKeepsHeld
<1>16. Counted'
  <2> SUFFICES ASSUME NEW v \in Vertex
               PROVE  NWaiting(v)' + NCalls(v)' + NReady(v)' + NAccepting(v)' + NListed(v)' <= Counter(v)'
    BY CountedNext
  <2>1. NCalls(v)' = NCalls(v) /\ NReady(v)' = NReady(v) BY <1>2, MailSame
  <2>2. /\ NListed(v)' = NListed(v)
        /\ NAccepting(v)' = NAccepting(v) - One(Accepts(stack[t], v)) + One(Accepts(stack'[t], v))
    BY <1>4, StacksCount
  <2>3. NWaiting(v)' <= NWaiting(v) /\ NWaiting(v)' \in Nat BY <1>14, WaitingLess
  <2>4. ~Accepts(stack[t], v) /\ ~Accepts(stack'[t], v) BY <1>4, <1>5 DEF Plain
  <2> QED BY <1>11, <2>1, <2>2, <2>3, <2>4, CountsNow DEF One
<1>17. TypeOK' /\ Stacks'
  <2>1. Mailboxes(down') /\ Mailboxes(up') /\ scatter' \subseteq Mirror /\ awaited' \subseteq Mirror
        /\ meals' \in [Vertex -> Nat] /\ \A v \in Vertex : meals'[v] <= MaxMeals[v] BY <1>2, Invariant
  <2>3. fork' \in ForkSet /\ lock' \in LockSet BY <1>1, <1>2
  <2>2. phil' \in PhilSet /\ client' \in ClientSet /\ FineStacks' BY <1>4, <1>8, <1>12
  <2> QED BY <2>1, <2>2, <2>3, TypeNext
<1> QED BY <1>9, <1>12a, <1>14, <1>16, <1>17 DEF IInv

-----------------------------------------------------------------------------
(* Steps that leave the philosophers and the forks alone.                  *)

\* Requests are those of vertices that are still hungry.
LEMMA ForksFineSame ==
  ASSUME IInv, fork' = fork, \A v \in Vertex : client[v] = "hungry" => client'[v] = "hungry"
  PROVE  ForksFine'
<1>1. ForksFine /\ fork \in ForkSet BY Invariant
<1>2. \A e \in Edges : \A y \in fork[e].requests : y \in Vertex BY <1>1 DEF ForkSet
<1>3. Reaped' <=> Reaped BY DEF Reaped
<1> SUFFICES ASSUME NEW e \in Edges
             PROVE  /\ fork[e].owner \in {e.source, e.target}
                    /\ \A y \in fork[e].requests : /\ y \in {e.source, e.target} /\ y # fork[e].owner
                                                   /\ Reaped => client'[y] = "hungry"
  BY <1>3 DEF ForksFine
<1> QED BY <1>1, <1>2 DEF ForksFine

LEMMA LocksStill ==
  ASSUME IInv, phil' = phil, fork' = fork
  PROVE  /\ AcquiredCounts' /\ phil' \in PhilSet /\ fork' \in ForkSet
         /\ \A r \in Replica : St(r)' = St(r) /\ (Owns(r)' <=> Owns(r))
         /\ \A v \in Vertex : Counter(v)' = Counter(v)
         /\ (\A v \in Vertex : client[v] = "hungry" => client'[v] = "hungry") => ForksFine'
<1>1. ForksFine /\ AcquiredCounts /\ phil \in PhilSet /\ fork \in ForkSet BY Invariant
<1>2. \A r \in Replica : St(r)' = St(r) /\ Acq(r)' = Acq(r) BY DEF St, Acq
<1>3. AcquiredCounts' /\ \A r \in Replica : Owns(r)' <=> Owns(r) BY <1>1, <1>2, AcquiredKept
<1>4. (\A v \in Vertex : client[v] = "hungry" => client'[v] = "hungry") => ForksFine'
  BY ForksFineSame
<1>6. \A v \in Vertex : Counter(v)' = Counter(v) BY DEF Counter
<1> QED BY <1>1, <1>2, <1>3, <1>4, <1>6

\* The counts, when nobody accepts a cancellation.
LEMMA CountsStill ==
  ASSUME IInv, NEW t \in Thread, FineStacks', \A u \in Thread \ {t} : stack'[u] = stack[u],
         Keeps(stack[t], stack'[t]),
         \A v \in Vertex : ~Accepts(stack[t], v) /\ ~Accepts(stack'[t], v),
         \A v \in Vertex : NCalls(v)' = NCalls(v) /\ NReady(v)' = NReady(v) /\ Counter(v)' = Counter(v),
         \A q \in Replica : Waiting(q)' => Waiting(q)
  PROVE  Counted'
<1> SUFFICES ASSUME NEW v \in Vertex
             PROVE  NWaiting(v)' + NCalls(v)' + NReady(v)' + NAccepting(v)' + NListed(v)' <= Counter(v)'
  BY CountedNext
<1>1. /\ NListed(v)' = NListed(v)
      /\ NAccepting(v)' = NAccepting(v) - One(Accepts(stack[t], v)) + One(Accepts(stack'[t], v))
  BY StacksCount
<1>2. One(Accepts(stack[t], v)) = 0 /\ One(Accepts(stack'[t], v)) = 0 BY DEF One
<1>3. NCalls(v)' = NCalls(v) /\ NReady(v)' = NReady(v) /\ Counter(v)' = Counter(v) OBVIOUS
<1>4. NAccepting(v)' = NAccepting(v) BY <1>1, <1>2, CountsNow
<1>5. NWaiting(v)' <= NWaiting(v) /\ NWaiting(v)' \in Nat BY WaitingLess
<1> QED BY <1>1, <1>3, <1>4, <1>5, CountsNow

\* The parts of the invariant make the invariant.
LEMMA PartsNext ==
  ASSUME phil' \in PhilSet, fork' \in ForkSet, lock' \in LockSet, FineStacks',
         Mailboxes(down'), Mailboxes(up'), scatter' \subseteq Mirror, awaited' \subseteq Mirror,
         client' \in ClientSet, meals' \in [Vertex -> Nat], \A v \in Vertex : meals'[v] <= MaxMeals[v],
         ForksFine', AcquiredCounts', Counted', Tasks', Held'
  PROVE  IInv'
<1>1. TypeOK' /\ Stacks' BY TypeNext
<1> QED BY <1>1 DEF IInv

\* A thread that does nothing has no task.
LEMMA NoStackNoTask ==
  ASSUME NEW t \in Thread
  PROVE  /\ stack[t] = << >> => HasNoTask(t)
         /\ stack'[t] = << >> => HasNoTask(t)'
<1>1. stack[t] = << >> => HasNoTask(t)
  BY DEF HasNoTask, PlainAt, EatsAt, StopsAt, AcceptsAt, EndsAt, RepliesAt, StrayAt,
         Eats, Stops, Accepts, Ends, Replies, Stray
<1>2. stack'[t] = << >> => HasNoTask(t)'
  BY DEF HasNoTask, PlainAt, EatsAt, StopsAt, AcceptsAt, EndsAt, RepliesAt, StrayAt,
         Eats, Stops, Accepts, Ends, Replies, Stray
<1> QED BY <1>1, <1>2

-----------------------------------------------------------------------------
(* The ends of the tasks.                                                  *)

TaskOps == {"reply", "release"}

LEMMA TaskEnds ==
  ASSUME IInv, NEW t \in Thread, ~Idle(t), Top(t).op \in TaskOps, Become(t, << >>),
         phil' = phil, fork' = fork, down' = down, up' = up
  PROVE  /\ FineStacks' /\ EndsTask(t)
         /\ (\A q \in Replica : Waiting(q)' => Waiting(q)) => Counted'
         /\ Top(t).v \in Vertex
         /\ Top(t).op = "reply" => RepliesAt(t, Top(t).v)
         /\ Top(t).op = "release" => EndsAt(t, Top(t).v)
<1> DEFINE s2 == << >>
<1>0. PICK s : s = stack[t] OBVIOUS
<1>1. /\ FineStacks
      /\ s # << >> /\ s \in Seq(Frame) /\ Fine(t[1], s) /\ Top(t) = s[1] /\ t[1] \in Machine
      /\ Top(t) \in Frame BY <1>0, Invariant, TopFacts
<1>2. s[1].op \in {"reply", "release"} BY <1>1 DEF TaskOps
<1>3. /\ Plain(s) /\ Depth(s) = 1
      /\ Fine(t[1], s2) /\ Plain(s2) /\ SameBase(s, s2) /\ Keeps(s, s2) BY <1>1, <1>2, Done
<1>4. /\ FineStacks' /\ stack'[t] = << >>
      /\ \A u \in Thread \ {t} : stack'[u] = stack[u]
      /\ \A u \in Thread : u # t => SameRoles(u) BY <1>1, <1>3, Becomes
<1>5. PlainAt(t) /\ HasNoTask(t)' BY <1>0, <1>3, <1>4, PlainRoles, NoStackNoTask
<1>6. /\ \A r \in Replica : St(r)' = St(r) /\ (Owns(r)' <=> Owns(r))
      /\ \A v \in Vertex : Counter(v)' = Counter(v) BY LocksStill
<1>7. \A r \in Replica : \A op : Sent(r, op)' <=> Sent(r, op) BY SentSame
<1>8. EndsTask(t) BY <1>4, <1>5, <1>6, <1>7 DEF EndsTask, Undisturbed
<1>9. ASSUME \A q \in Replica : Waiting(q)' => Waiting(q)
      PROVE  Counted'
  <2>1. \A v \in Vertex : ~Accepts(stack[t], v) /\ ~Accepts(stack'[t], v) BY <1>0, <1>3, <1>4 DEF Plain
  <2>2. \A v \in Vertex : NCalls(v)' = NCalls(v) /\ NReady(v)' = NReady(v) BY MailSame
  <2>3. Keeps(stack[t], stack'[t]) BY <1>0, <1>3, <1>4
  <2> QED BY <1>4, <1>6, <1>9, <2>1, <2>2, <2>3, CountsStill
<1>10. Top(t).v \in Vertex BY <1>1, FrameFields
<1>11. /\ Top(t).op = "reply" => RepliesAt(t, Top(t).v)
       /\ Top(t).op = "release" => EndsAt(t, Top(t).v)
  BY <1>0, <1>1, <1>3 DEF RepliesAt, EndsAt, Replies, Ends
<1> QED BY <1>4, <1>8, <1>9, <1>10, <1>11

LEMMA ReplyKeeps ==
  ASSUME IInv, NEW t \in Thread, Reply(t)
  PROVE  IInv'
<1>0. PICK v : v = Top(t).v OBVIOUS
<1>1. /\ ~Idle(t) /\ Top(t).op = "reply" /\ Become(t, << >>)
      /\ awaited' = awaited \ {<<t[1], v>>}
      /\ phil' = phil /\ fork' = fork /\ lock' = lock /\ down' = down /\ up' = up /\ scatter' = scatter
      /\ client' = client /\ meals' = meals BY <1>0 DEF Reply, Doing, Top, Here
<1>2. Top(t).op \in TaskOps BY <1>1 DEF TaskOps
<1>3. /\ FineStacks' /\ EndsTask(t) /\ ((\A q \in Replica : Waiting(q)' => Waiting(q)) => Counted')
      /\ v \in Vertex /\ RepliesAt(t, v) BY <1>0, <1>1, <1>2, TaskEnds
<1>4. Tasks /\ Held /\ awaited \subseteq Mirror BY Invariant
<1>5. Tasks' BY <1>1, <1>3, <1>4, ReplyKeepsTasks
<1>6. Held' /\ Counted' BY <1>1, <1>3, <1>4, EndKeepsHeld
<1>7. ForksFine' /\ AcquiredCounts' /\ phil' \in PhilSet /\ fork' \in ForkSet BY <1>1, LocksStill
<1>8. /\ lock' \in LockSet /\ Mailboxes(down') /\ Mailboxes(up') /\ scatter' \subseteq Mirror
      /\ awaited' \subseteq Mirror
      /\ client' \in ClientSet /\ meals' \in [Vertex -> Nat] /\ \A w \in Vertex : meals'[w] <= MaxMeals[w]
  BY <1>1, Invariant
<1> QED BY <1>3, <1>5, <1>6, <1>7, <1>8, PartsNext

LEMMA ReleaseKeeps ==
  ASSUME IInv, NEW t \in Thread, Release(t)
  PROVE  IInv'
<1>0. PICK v : v = Top(t).v OBVIOUS
<1>1. /\ ~Idle(t) /\ Top(t).op = "release" /\ Become(t, Callers(t))
      /\ awaited \cap MirrorsOf(v) = {}
      /\ client' = [client EXCEPT ![v] = "thinking"]
      /\ phil' = phil /\ fork' = fork /\ lock' = lock /\ down' = down /\ up' = up /\ scatter' = scatter
      /\ awaited' = awaited /\ meals' = meals BY <1>0 DEF Release, Doing, Top, calls
<1>2. Top(t).op \in TaskOps BY <1>1 DEF TaskOps
<1>3. Become(t, << >>)
  <2>1. FineStacks BY Invariant
  <2>2. /\ stack[t] # << >> /\ Fine(t[1], stack[t]) /\ t[1] \in Machine
        /\ stack[t][1].op \in {"reply", "release"} BY <1>1, <2>1, TopFacts
  <2>3. Tail(stack[t]) = << >> BY <2>2, Done
  <2> QED BY <1>1, <2>3 DEF Callers
<1>4. /\ FineStacks' /\ EndsTask(t) /\ ((\A q \in Replica : Waiting(q)' => Waiting(q)) => Counted')
      /\ v \in Vertex /\ EndsAt(t, v) BY <1>0, <1>1, <1>2, <1>3, TaskEnds
<1>5. /\ Tasks /\ Held /\ awaited \subseteq Mirror /\ client \in ClientSet BY Invariant
<1>6. \A r \in awaited : r[2] # v BY <1>1, <1>5, SetFacts
<1>7. /\ client' \in ClientSet
      /\ \A w \in Vertex : client'[w] = IF w = v THEN "thinking" ELSE client[w]
  BY <1>1, <1>4, <1>5 DEF ClientSet
<1>8. Tasks' /\ client[v] = "stopping" BY <1>1, <1>4, <1>5, <1>6, <1>7, ReleaseKeepsTasks
<1>9. Held' /\ Counted'
  <2>1. \A w \in Vertex : client'[w] \in {"hungry", "eating"} => client'[w] = client[w] BY <1>7, <1>8
  <2> QED BY <1>1, <1>4, <1>5, <2>1, EndKeepsHeld
<1>10. ForksFine' /\ AcquiredCounts' /\ phil' \in PhilSet /\ fork' \in ForkSet BY <1>1, <1>7, <1>8, LocksStill
<1>11. /\ lock' \in LockSet /\ Mailboxes(down') /\ Mailboxes(up') /\ scatter' \subseteq Mirror
       /\ awaited' \subseteq Mirror
       /\ meals' \in [Vertex -> Nat] /\ \A w \in Vertex : meals'[w] <= MaxMeals[w] BY <1>1, Invariant
<1> QED BY <1>4, <1>7, <1>8, <1>9, <1>10, <1>11, PartsNext

-----------------------------------------------------------------------------
(* A thread with nothing to do begins to stop a replica.                   *)

LEMMA LoopIs ==
  ASSUME NEW r \in Replica, NEW op \in LoopOps
  PROVE  LET f == Loop(op, r) IN
         /\ f \in Frame /\ f.op = op /\ f.v = r[2] /\ f.at = "lock" /\ f.ready = << >>
         /\ ReadyIn(f) = << >> /\ WellPlaced(r[1], f)
<1> DEFINE f == Loop(op, r)
<1>1. /\ f.op = op /\ f.v = r[2] /\ f.at = "lock" /\ f.todo = EdgesAt(r) /\ f.ready = << >>
      /\ f.edge = NoEdge BY DEF Loop
<1>2. r[2] \in Vertex /\ r = <<r[1], r[2]>> /\ EdgesAt(r) \subseteq Edges BY SetFacts DEF EdgesAt
<1>3. f \in Frame BY <1>2 DEF Frame, Loop, LoopOps
<1>4. op \in {"grab", "accept", "stop"} BY DEF LoopOps
<1> HIDE DEF f
<1>5. ReadyIn(f) = << >> BY <1>1 DEF ReadyIn
<1>6. WellPlaced(r[1], f) BY <1>1, <1>2, <1>4 DEF WellPlaced
<1> QED BY <1>1, <1>3, <1>5, <1>6 DEF f

LEMMA CallIs ==
  ASSUME NEW k, NEW v \in Vertex, <<k, v>> \in Replica,
         NEW op, op \in {"eat", "reply", "release"}, op = "release" => k = Owner[v], op = "reply" => k # Owner[v]
  PROVE  LET f == Call(op, v) IN
         /\ f \in Frame /\ f.op = op /\ f.v = v
         /\ ReadyIn(f) = << >> /\ WellPlaced(k, f)
<1> DEFINE f == Call(op, v)
<1>1. f.op = op /\ f.v = v BY DEF Call
<1>2. f \in Frame BY DEF Frame, Call
<1> HIDE DEF f
<1>3. ReadyIn(f) = << >> /\ WellPlaced(k, f) BY <1>1 DEF ReadyIn, HasReady, WellPlaced
<1> QED BY <1>1, <1>2, <1>3 DEF f

LEMMA StartsToStop ==
  ASSUME IInv, NEW t \in Thread, Idle(t), NEW r \in Replica, t[1] = r[1], NEW op \in TaskOps,
         op = "release" => r = Master(r[2]), op = "reply" => r \in Mirror,
         Become(t, <<Loop("stop", r), Call(op, r[2])>>)
  PROVE  /\ FineStacks' /\ \A u \in Thread \ {t} : stack'[u] = stack[u]
         /\ \A u \in Thread : u # t => SameRoles(u)
         /\ Keeps(stack[t], stack'[t])
         /\ \A v \in Vertex : ~Accepts(stack[t], v) /\ ~Accepts(stack'[t], v)
         /\ HasNoTask(t)
         /\ \A q \in Replica : ~EatsAt(t, q)' /\ ~AcceptsAt(t, q)' /\ (StopsAt(t, q)' <=> q = r)
         /\ \A v \in Vertex : /\ EndsAt(t, v)' <=> op = "release" /\ v = r[2]
                              /\ RepliesAt(t, v)' <=> op = "reply" /\ v = r[2]
                              /\ ~StrayAt(t, v)'
<1>1. PICK f : f = Loop("stop", r) OBVIOUS
<1>2. PICK g : g = Call(op, r[2]) OBVIOUS
<1>3. /\ r[2] \in Vertex /\ r[1] \in Machine /\ <<r[1], r[2]>> \in Replica
      /\ r \in Mirror => r # Master(r[2]) /\ r = <<r[1], r[2]>>
      /\ \A q \in Replica : q = <<q[1], q[2]>>
      /\ op \in {"reply", "release"} BY SetFacts DEF TaskOps
<1>4. /\ f \in Frame /\ f.op = "stop" /\ f.v = r[2] /\ f.at = "lock" /\ f.ready = << >>
      /\ WellPlaced(r[1], f) BY <1>1, LoopIs DEF LoopOps
<1>5. g \in Frame /\ g.op = op /\ g.v = r[2] /\ WellPlaced(r[1], g) BY <1>3, <1>2, CallIs DEF Master
<1>6. PICK s2 : s2 = <<f, g>> OBVIOUS
<1>7. /\ Fine(t[1], s2) /\ Keeps(<< >>, s2)
      /\ s2 # << >> /\ s2[1] = f /\ s2[2] = g /\ Depth(s2) = 2 BY <1>3, <1>4, <1>5, <1>6, StartsWithTwo
<1>8. FineStacks /\ stack[t] = << >> BY Invariant DEF Idle
<1>9. /\ FineStacks' /\ stack'[t] = s2
      /\ \A u \in Thread \ {t} : stack'[u] = stack[u]
      /\ \A u \in Thread : u # t => SameRoles(u) BY <1>1, <1>2, <1>6, <1>7, <1>8, Becomes
<1>10. HasNoTask(t) BY <1>8, NoStackNoTask
<1>11. Keeps(stack[t], stack'[t]) BY <1>7, <1>8, <1>9
<1>12. \A v \in Vertex : /\ ~Accepts(stack[t], v) /\ ~Accepts(stack'[t], v)
                         /\ ~Eats(stack'[t], v) /\ (Stops(stack'[t], v) <=> v = r[2])
                         /\ Ends(stack'[t], v) <=> op = "release" /\ v = r[2]
                         /\ Replies(stack'[t], v) <=> op = "reply" /\ v = r[2]
                         /\ ~Stray(stack'[t], v)
  BY <1>3, <1>4, <1>5, <1>7, <1>8, <1>9 DEF Accepts, Eats, Stops, Ends, Replies, Stray
<1>13. \A q \in Replica : ~EatsAt(t, q)' /\ ~AcceptsAt(t, q)' /\ (StopsAt(t, q)' <=> q = r)
  BY SetFacts, <1>12 DEF EatsAt, AcceptsAt, StopsAt
<1>14. \A v \in Vertex : /\ EndsAt(t, v)' <=> op = "release" /\ v = r[2]
                         /\ RepliesAt(t, v)' <=> op = "reply" /\ v = r[2]
                         /\ ~StrayAt(t, v)'
  BY <1>3, <1>12 DEF EndsAt, RepliesAt, StrayAt
<1> QED BY <1>9, <1>10, <1>11, <1>12, <1>13, <1>14

LEMMA HandleScatterKeeps ==
  ASSUME IInv, NEW t \in Thread, HandleScatter(t)
  PROVE  IInv'
<1>1. PICK r \in scatter :
        /\ Idle(t) /\ t[1] = r[1] /\ scatter' = scatter \ {r}
        /\ Become(t, <<Loop("stop", r), Call("reply", r[2])>>)
        /\ phil' = phil /\ fork' = fork /\ lock' = lock /\ down' = down /\ up' = up
        /\ awaited' = awaited /\ client' = client /\ meals' = meals BY DEF HandleScatter, HandlerAt
<1>2. Tasks /\ Held /\ scatter \subseteq Mirror /\ awaited \subseteq Mirror BY Invariant
<1>3. r \in Mirror /\ r \in Replica BY <1>2, SetFacts
<1>4. "reply" \in TaskOps BY DEF TaskOps
<1>5. /\ FineStacks' /\ \A u \in Thread \ {t} : stack'[u] = stack[u]
      /\ \A u \in Thread : u # t => SameRoles(u)
      /\ Keeps(stack[t], stack'[t])
      /\ \A v \in Vertex : ~Accepts(stack[t], v) /\ ~Accepts(stack'[t], v)
      /\ HasNoTask(t)
      /\ \A q \in Replica : ~EatsAt(t, q)' /\ ~AcceptsAt(t, q)' /\ (StopsAt(t, q)' <=> q = r)
      /\ \A v \in Vertex : /\ ~EndsAt(t, v)' /\ ~StrayAt(t, v)'
                           /\ RepliesAt(t, v)' <=> v = r[2] BY <1>1, <1>3, <1>4, StartsToStop
<1>6. /\ ForksFine' /\ AcquiredCounts' /\ phil' \in PhilSet /\ fork' \in ForkSet
      /\ \A q \in Replica : St(q)' = St(q) /\ (Owns(q)' <=> Owns(q))
      /\ \A v \in Vertex : Counter(v)' = Counter(v) BY <1>1, LocksStill
<1>7. \A q \in Replica : \A op : Sent(q, op)' <=> Sent(q, op) BY <1>1, SentSame
<1>8. TakesScatter(t, r) BY <1>1, <1>5, <1>6, <1>7 DEF TakesScatter, Undisturbed
<1>9. Tasks' /\ Held' /\ \A q \in Replica : Waiting(q)' => Waiting(q) BY <1>2, <1>3, <1>8, ScatterKeeps
<1>10. Counted'
  <2>1. \A v \in Vertex : NCalls(v)' = NCalls(v) /\ NReady(v)' = NReady(v) BY <1>1, MailSame
  <2> QED BY <1>5, <1>6, <1>9, <2>1, CountsStill
<1>11. /\ lock' \in LockSet /\ Mailboxes(down') /\ Mailboxes(up') /\ awaited' \subseteq Mirror
       /\ client' \in ClientSet /\ meals' \in [Vertex -> Nat] /\ \A w \in Vertex : meals'[w] <= MaxMeals[w]
  BY <1>1, Invariant
<1>12. scatter' \subseteq Mirror BY <1>1, <1>2
<1> QED BY <1>5, <1>6, <1>7, <1>9, <1>10, <1>11, <1>12, PartsNext

-----------------------------------------------------------------------------
(* The client.                                                             *)

\* Philosophers that only differ in what the invariant does not speak of.
LEMMA LocksAlike ==
  ASSUME IInv, phil' \in PhilSet, fork' = fork,
         \A r \in Replica : /\ phil'[r].state = phil[r].state /\ phil'[r].counter = phil[r].counter
                            /\ phil'[r].forks_acquired = phil[r].forks_acquired
  PROVE  /\ AcquiredCounts' /\ fork' \in ForkSet
         /\ \A r \in Replica : St(r)' = St(r) /\ (Owns(r)' <=> Owns(r))
         /\ \A v \in Vertex : Counter(v)' = Counter(v)
<1>1. AcquiredCounts /\ fork \in ForkSet BY Invariant
<1>2. \A r \in Replica : St(r)' = St(r) /\ Acq(r)' = Acq(r) BY DEF St, Acq
<1>3. AcquiredCounts' /\ \A r \in Replica : Owns(r)' <=> Owns(r) BY <1>1, <1>2, AcquiredKept
<1>4. \A v \in Vertex : Counter(v)' = Counter(v) BY SetFacts DEF Counter
<1> QED BY <1>1, <1>2, <1>3, <1>4

LEMMA StopEatingKeeps ==
  ASSUME IInv, NEW t \in Thread, StopEating(t)
  PROVE  IInv'
<1>1. PICK v \in Vertex :
        /\ WorkerAt(t, v) /\ client[v] = "eating"
        /\ client' = [client EXCEPT ![v] = "stopping"]
        /\ Become(t, <<Loop("stop", Master(v)), Call("release", v)>>)
        /\ \/ /\ Client = "replica"
              /\ scatter' = scatter \cup MirrorsOf(v)
              /\ awaited' = awaited \cup MirrorsOf(v)
              /\ phil' = phil /\ down' = down
           \/ /\ Client # "replica"
              /\ phil' = SetCounter(phil, Master(v), 0)
              /\ SentToAll(down, down', v, [op |-> "stop"])
              /\ scatter' = scatter /\ awaited' = awaited
        /\ fork' = fork /\ lock' = lock /\ up' = up /\ meals' = meals
  BY DEF StopEating, SetCounter, Broadcast, SentToAll
<1>0. PICK r : r = Master(v) OBVIOUS
<1>2. /\ Tasks /\ Held /\ NothingOwed /\ phil \in PhilSet
      /\ scatter \subseteq Mirror /\ awaited \subseteq Mirror /\ client \in ClientSet
      /\ Mailboxes(down) BY Invariant
<1>3. r \in Replica /\ r[1] = Owner[v] /\ r[2] = v /\ MirrorsOf(v) \subseteq Mirror
  BY <1>0, SetFacts DEF Master
<1>4. Idle(t) /\ t[1] = r[1] BY <1>1, <1>3 DEF WorkerAt
<1>5. "release" \in TaskOps BY DEF TaskOps
<1>6. /\ FineStacks' /\ \A u \in Thread \ {t} : stack'[u] = stack[u]
      /\ \A u \in Thread : u # t => SameRoles(u)
      /\ Keeps(stack[t], stack'[t])
      /\ \A w \in Vertex : ~Accepts(stack[t], w) /\ ~Accepts(stack'[t], w)
      /\ HasNoTask(t)
      /\ \A q \in Replica : ~EatsAt(t, q)' /\ ~AcceptsAt(t, q)' /\ (StopsAt(t, q)' <=> q = r)
      /\ \A w \in Vertex : /\ ~RepliesAt(t, w)' /\ ~StrayAt(t, w)'
                           /\ EndsAt(t, w)' <=> w = v BY <1>0, <1>1, <1>3, <1>4, <1>5, StartsToStop
<1>7. Counter(v) = 0 BY <1>1, <1>2 DEF Tasks, Programs
<1>8. /\ phil' \in PhilSet
      /\ \A q \in Replica : /\ phil'[q].state = phil[q].state /\ phil'[q].counter = phil[q].counter
                            /\ phil'[q].forks_acquired = phil[q].forks_acquired
  <2>1. CASE phil' = phil BY <1>2, <2>1
  <2>2. CASE phil' = SetCounter(phil, r, 0)
    <3>1. 0 \in 0 .. 255 BY SMTT(30)
    <3>2. OnlyAt(phil, phil', r) /\ Fields(phil'[r], phil[r].state, phil[r].forks_acquired, 0,
                                           phil[r].cancellation_sent, phil[r].lockid)
      BY <1>2, <1>3, <2>2, <3>1, PhilFields
    <3>3. phil[r].counter = 0 BY <1>0, <1>7 DEF Counter
    <3> QED BY <3>2, <3>3 DEF OnlyAt, Fields
  <2> QED BY <1>0, <1>1, <2>1, <2>2
<1>9. /\ AcquiredCounts' /\ fork' \in ForkSet
      /\ \A q \in Replica : St(q)' = St(q) /\ (Owns(q)' <=> Owns(q))
      /\ \A w \in Vertex : Counter(w)' = Counter(w) BY <1>1, <1>8, LocksAlike
<1>10. /\ client' \in ClientSet
       /\ \A w \in Vertex : client'[w] = IF w = v THEN "stopping" ELSE client[w]
  BY <1>1, <1>2 DEF ClientSet
<1>16. ForksFine' BY <1>1, <1>10, ForksFineSame
<1>11. ProgramStops(t, v) /\ Mailboxes(down') /\ \A w \in Vertex : NCalls(w)' = NCalls(w)
  <2>1. CASE Client = "replica"
    <3>1. /\ scatter' = scatter \cup MirrorsOf(v) /\ awaited' = awaited \cup MirrorsOf(v)
          /\ down' = down BY <1>1, <2>1
    <3>2. \A q \in Mirror : \A op : Sent(q, op)' <=> Sent(q, op) BY <3>1, SentSame, SetFacts
    <3>3. \A w \in Vertex : NCalls(w)' = NCalls(w) BY <3>1, MailSame
    <3>4. ProgramStops(t, v) BY <1>0, <1>1, <1>6, <1>9, <1>10, <2>1, <3>1, <3>2 DEF ProgramStops
    <3> QED BY <1>2, <3>1, <3>3, <3>4
  <2>2. CASE Client # "replica"
    <3> DEFINE m == [op |-> "stop"]
    <3>1. /\ scatter' = scatter /\ awaited' = awaited /\ SentToAll(down, down', v, m) BY <1>1, <2>2
    <3>2. m \in Message /\ m.op = "stop" BY DEF Message
    <3> HIDE DEF m
    <3>3. /\ Mailboxes(down')
          /\ \A q \in Mirror : \A op : Sent(q, op)' <=> Sent(q, op) \/ (q[2] = v /\ op = "stop")
          /\ \A w \in Vertex : NCalls(w)' = NCalls(w) BY <1>2, <3>1, <3>2, DownToAll
    <3>4. ProgramStops(t, v) BY <1>0, <1>1, <1>6, <1>9, <1>10, <2>2, <3>1, <3>3 DEF ProgramStops
    <3> QED BY <3>3, <3>4
  <2> QED BY <2>1, <2>2
<1>12. Tasks' /\ Held' /\ \A q \in Replica : Waiting(q)' => Waiting(q) BY <1>2, <1>11, ProgramStopKeeps
<1>13. Counted'
  <2>1. \A w \in Vertex : NReady(w)' = NReady(w) BY <1>1, MailSame
  <2> QED BY <1>6, <1>9, <1>11, <1>12, <2>1, CountsStill
<1>14. scatter' \subseteq Mirror /\ awaited' \subseteq Mirror BY <1>1, <1>2, <1>3
<1>15. /\ lock' \in LockSet /\ Mailboxes(up')
       /\ meals' \in [Vertex -> Nat] /\ \A w \in Vertex : meals'[w] <= MaxMeals[w] BY <1>1, Invariant
<1> QED BY <1>6, <1>8, <1>9, <1>10, <1>11, <1>12, <1>13, <1>14, <1>15, <1>16, PartsNext

LEMMA MakeHungryKeeps ==
  ASSUME IInv, NEW t \in Thread, MakeHungry(t)
  PROVE  IInv'
<1>1. PICK v \in Vertex :
        /\ WorkerAt(t, v) /\ client[v] = "thinking" /\ meals[v] < MaxMeals[v]
        /\ phil' = [phil EXCEPT ![Master(v)].lockid = ~phil[Master(v)].lockid,
                                ![Master(v)].state = "hungry",
                                ![Master(v)].counter = (Cardinality(MirrorsOf(v)) + 1) % 256]
        /\ client' = [client EXCEPT ![v] = "hungry"]
        /\ meals' = [meals EXCEPT ![v] = @ + 1]
        /\ SentToAll(down, down', v, [op |-> "hungry", lockid |-> ~phil[Master(v)].lockid])
        /\ Become(t, <<Loop("grab", Master(v))>>)
        /\ fork' = fork /\ lock' = lock /\ up' = up /\ scatter' = scatter /\ awaited' = awaited
  BY DEF MakeHungry, Broadcast, SentToAll
<1>0. PICK r : r = Master(v) OBVIOUS
<1>2. PICK id : id = ~phil[r].lockid OBVIOUS
<1>3. PICK n : n = (Cardinality(MirrorsOf(v)) + 1) % 256 OBVIOUS
<1>4. /\ Tasks /\ Held /\ phil \in PhilSet
      /\ scatter \subseteq Mirror /\ awaited \subseteq Mirror /\ client \in ClientSet
      /\ Mailboxes(down) /\ NothingOwed /\ AcquiredCounts /\ ForksFine /\ fork \in ForkSet
      /\ FineStacks /\ meals \in [Vertex -> Nat] /\ \A w \in Vertex : meals[w] <= MaxMeals[w]
  BY Invariant
<1>5. r \in Replica /\ r[1] = Owner[v] /\ r[2] = v BY <1>0, SetFacts DEF Master
<1>6. Idle(t) /\ t[1] = r[1] /\ stack[t] = << >> BY <1>1, <1>5 DEF WorkerAt, Idle
<1>7. n = Cardinality(MirrorsOf(v)) + 1 /\ n \in 0 .. 255 /\ n # 0 /\ Cardinality(MirrorsOf(v)) \in Nat
  <2>1. PICK c : c = Cardinality(MirrorsOf(v)) OBVIOUS
  <2>2. c \in 0 .. 254 BY <2>1, FiniteFacts
  <2>3. (c + 1) % 256 = c + 1 BY <2>2
  <2> QED BY <1>3, <2>1, <2>2, <2>3
<1>8. Counter(v) = 0 BY <1>1, <1>4 DEF Tasks, Programs
<1>9. /\ phil' \in PhilSet /\ St(r)' = "hungry" /\ phil'[r].counter = n
      /\ \A z \in Replica : /\ z # r => St(z)' = St(z)
                            /\ z # r => phil'[z].counter = phil[z].counter
                            /\ phil'[z].forks_acquired = phil[z].forks_acquired
      /\ id \in BOOLEAN
  <2> DEFINE p1 == SetLockid(phil, r, id)
             p2 == SetState(p1, r, "hungry")
  <2>1. id \in BOOLEAN /\ "hungry" \in State BY <1>2 DEF State
  <2>2. phil' = SetCounter(p2, r, n) BY <1>0, <1>1, <1>2, <1>3 DEF SetLockid, SetState, SetCounter
  <2> HIDE DEF p2
  <2>3. p2 = SetState(p1, r, "hungry") BY SMTT(30) DEF p2
  <2> HIDE DEF p1
  <2>4. OnlyAt(phil, p1, r) /\ Fields(p1[r], phil[r].state, phil[r].forks_acquired, phil[r].counter,
                                      phil[r].cancellation_sent, id)
    BY <1>4, <1>5, <2>1, PhilFields DEF p1
  <2>5. p1 \in PhilSet BY <2>4 DEF OnlyAt
  <2>6. OnlyAt(p1, p2, r) /\ Fields(p2[r], "hungry", p1[r].forks_acquired, p1[r].counter,
                                    p1[r].cancellation_sent, p1[r].lockid)
    BY <1>5, <2>1, <2>3, <2>5, PhilFields
  <2>7. p2 \in PhilSet BY <2>6 DEF OnlyAt
  <2>8. OnlyAt(p2, phil', r) /\ Fields(phil'[r], p2[r].state, p2[r].forks_acquired, n,
                                       p2[r].cancellation_sent, p2[r].lockid)
    BY <1>5, <1>7, <2>2, <2>7, PhilFields
  <2> QED BY <2>1, <2>4, <2>6, <2>8 DEF OnlyAt, Fields, St
<1>10. AcquiredCounts' /\ \A z \in Replica : Owns(z)' <=> Owns(z)
  <2>1. \A z \in Replica : Acq(z)' = Acq(z) BY <1>9 DEF Acq
  <2> QED BY <1>1, <1>4, <2>1, AcquiredKept
<1>15. /\ client' \in ClientSet
       /\ \A w \in Vertex : client'[w] = IF w = v THEN "hungry" ELSE client[w]
  BY <1>1, <1>4 DEF ClientSet
<1>11. ForksFine' BY <1>1, <1>15, ForksFineSame
<1>12. Counter(v)' = n /\ \A w \in Vertex : w # v => Counter(w)' = Counter(w)
  <2>1. \A w \in Vertex : w # v => Master(w) \in Replica /\ Master(w) # r BY <1>5, SetFacts
  <2> QED BY <1>0, <1>9, <2>1 DEF Counter
<1>13. /\ FineStacks' /\ \A u \in Thread \ {t} : stack'[u] = stack[u]
       /\ \A u \in Thread : u # t => SameRoles(u)
       /\ Keeps(stack[t], stack'[t])
       /\ \A w \in Vertex : ~Accepts(stack[t], w) /\ ~Accepts(stack'[t], w)
       /\ HasNoTask(t) /\ HasNoTask(t)'
  <2>1. PICK f : f = Loop("grab", r) OBVIOUS
  <2>2. f.op = "grab" /\ WellPlaced(t[1], f) /\ ReadyIn(f) = << >>
    <3>1. "grab" \in LoopOps BY DEF LoopOps
    <3> QED BY <1>5, <1>6, <2>1, <3>1, LoopIs
  <2>3. PICK s2 : s2 = <<f>> OBVIOUS
  <2>4. t[1] \in Machine /\ f \in Frame
    <3>1. "grab" \in LoopOps BY DEF LoopOps
    <3> QED BY <1>5, <2>1, <3>1, LoopIs, SetFacts
  <2>5. Fine(t[1], s2) /\ Keeps(<< >>, s2) /\ s2 # << >> /\ s2[1] = f /\ Depth(s2) = 1
    BY <2>2, <2>3, <2>4, StartsWithOne
  <2>6. /\ FineStacks' /\ stack'[t] = s2
        /\ \A u \in Thread \ {t} : stack'[u] = stack[u]
        /\ \A u \in Thread : u # t => SameRoles(u) BY <1>0, <1>1, <1>4, <2>1, <2>3, <2>5, Becomes
  <2>7. HasNoTask(t) BY <1>6, NoStackNoTask
  <2>8. \A w \in Vertex : /\ ~Accepts(stack[t], w) /\ ~Accepts(stack'[t], w)
                          /\ ~Eats(stack'[t], w) /\ ~Stops(stack'[t], w)
                          /\ ~Ends(stack'[t], w) /\ ~Replies(stack'[t], w) /\ ~Stray(stack'[t], w)
    BY <1>6, <2>2, <2>5, <2>6 DEF Accepts, Eats, Stops, Ends, Replies, Stray
  <2>9. HasNoTask(t)'
    <3>1. PlainAt(t)' BY <2>8, PlainRoles DEF Plain
    <3>2. \A w \in Vertex : ~EndsAt(t, w)' /\ ~RepliesAt(t, w)' /\ ~StrayAt(t, w)'
      BY <2>8 DEF EndsAt, RepliesAt, StrayAt
    <3> QED BY <3>1, <3>2 DEF HasNoTask
  <2>10. Keeps(stack[t], stack'[t]) BY <1>6, <2>5, <2>6
  <2> QED BY <2>6, <2>7, <2>8, <2>9, <2>10
<1>14. /\ Mailboxes(down')
       /\ \A q \in Mirror : \A op : Sent(q, op)' <=> Sent(q, op) \/ (q[2] = v /\ op = "hungry")
       /\ \A w \in Vertex : w # v => NCalls(w)' = NCalls(w)
       /\ NCalls(v) = 0 => NCalls(v)' = Cardinality(MirrorsOf(v))
  <2> DEFINE m == [op |-> "hungry", lockid |-> id]
  <2>1. SentToAll(down, down', v, m) BY <1>0, <1>1, <1>2
  <2>2. m \in Message /\ m.op = "hungry" BY <1>9 DEF Message
  <2> HIDE DEF m
  <2> QED BY <1>4, <2>1, <2>2, DownToAll
<1>16. GetsHungry(t, v)
  <2>1. \A z \in Replica : /\ St(z)' = IF z = Master(v) THEN "hungry" ELSE St(z)
                           /\ Owns(z)' <=> Owns(z) BY <1>0, <1>9, <1>10
  <2> QED BY <1>1, <1>7, <1>12, <1>13, <1>14, <1>15, <2>1 DEF GetsHungry
<1>17. /\ Tasks' /\ Held'
       /\ \A q \in Replica : Waiting(q)' => Waiting(q) \/ q = r BY <1>0, <1>4, <1>16, HungryKeeps
<1>18. Counted'
  <2> SUFFICES ASSUME NEW w \in Vertex
               PROVE  NWaiting(w)' + NCalls(w)' + NReady(w)' + NAccepting(w)' + NListed(w)' <= Counter(w)'
    BY CountedNext
  <2>1. /\ NListed(w)' = NListed(w)
        /\ NAccepting(w)' = NAccepting(w) - One(Accepts(stack[t], w)) + One(Accepts(stack'[t], w))
    BY <1>13, StacksCount
  <2>2. One(Accepts(stack[t], w)) = 0 /\ One(Accepts(stack'[t], w)) = 0 BY <1>13 DEF One
  <2>3. NReady(w)' = NReady(w) BY <1>1, MailSame
  <2>4. /\ NWaiting(w) \in Nat /\ NWaiting(w)' \in Nat
        /\ NWaiting(w)' <= NWaiting(w) - One(r[2] = w /\ Waiting(r)) + One(r[2] = w /\ Waiting(r)')
    BY <1>5, <1>17, WaitingAt
  <2>5. CASE w # v
    <3>1. NWaiting(w)' <= NWaiting(w) BY <1>5, <2>4, <2>5 DEF One
    <3>2. Counter(w)' = Counter(w) /\ NCalls(w)' = NCalls(w) BY <1>12, <1>14, <2>5
    <3> QED BY <2>1, <2>2, <2>3, <2>4, <3>1, <3>2, CountsNow
  <2>6. CASE w = v
    <3>1. NWaiting(v) = 0 /\ NCalls(v) = 0 /\ NReady(v) = 0 /\ NAccepting(v) = 0 /\ NListed(v) = 0
      BY <1>8, CountsNow
    <3>2. NWaiting(v)' <= 1 /\ NWaiting(v)' \in Nat BY <2>4, <2>6, <3>1 DEF One
    <3>3. NCalls(v)' = Cardinality(MirrorsOf(v)) /\ Counter(v)' = Cardinality(MirrorsOf(v)) + 1
      BY <1>7, <1>12, <1>14, <3>1
    <3> QED BY <1>7, <2>1, <2>2, <2>3, <2>6, <3>1, <3>2, <3>3
  <2> QED BY <2>5, <2>6
<1>19. meals' \in [Vertex -> Nat] /\ \A w \in Vertex : meals'[w] <= MaxMeals[w]
  BY <1>1, <1>4, ConstantsAssumption
<1>20. /\ lock' \in LockSet /\ Mailboxes(up') /\ scatter' \subseteq Mirror /\ awaited' \subseteq Mirror
       /\ fork' \in ForkSet BY <1>1, Invariant
<1> QED BY <1>9, <1>10, <1>11, <1>13, <1>14, <1>15, <1>17, <1>18, <1>19, <1>20, PartsNext

-----------------------------------------------------------------------------
(* Steps that neither make a vertex hungry, nor let it eat or stop, and     *)
(* change at most the counters.                                            *)

CountersOnly ==
  /\ phil' \in PhilSet /\ fork' = fork
  /\ \A r \in Replica : /\ phil'[r].state = phil[r].state
                        /\ phil'[r].forks_acquired = phil[r].forks_acquired

LEMMA CountersOnlyKeeps ==
  ASSUME IInv, CountersOnly, client' = client
  PROVE  /\ ForksFine' /\ AcquiredCounts' /\ fork' \in ForkSet
         /\ \A r \in Replica : St(r)' = St(r) /\ (Owns(r)' <=> Owns(r))
<1>1. AcquiredCounts /\ fork \in ForkSet BY Invariant
<1>2. fork' = fork /\ \A r \in Replica : St(r)' = St(r) /\ Acq(r)' = Acq(r) BY DEF CountersOnly, St, Acq
<1>3. AcquiredCounts' /\ \A r \in Replica : Owns(r)' <=> Owns(r) BY <1>1, <1>2, AcquiredKept
<1>4. ForksFine' BY <1>2, ForksFineSame
<1> QED BY <1>1, <1>2, <1>3, <1>4

QuietStack(t) ==
  /\ FineStacks' /\ \A u \in Thread \ {t} : stack'[u] = stack[u]
  /\ Plain(stack[t]) /\ SameBase(stack[t], stack'[t])
  /\ \A v \in Vertex : ~Eats(stack'[t], v) /\ ~Stops(stack'[t], v)

\* The calls to the mirrors are those that were, and calls to accept a cancellation.
OnlyAccepts ==
  \A r \in Mirror : \A op : /\ Sent(r, op) => Sent(r, op)'
                            /\ op # "accept" => (Sent(r, op)' => Sent(r, op))

LEMMA QuietKeeps ==
  ASSUME IInv, NEW t \in Thread, QuietStack(t), CountersOnly,
         \A v \in Vertex : Counter(v)' = 0 <=> Counter(v) = 0,
         OnlyAccepts, UNCHANGED <<scatter, awaited, client>>
  PROVE  Tasks' /\ Held' /\ \A q \in Replica : Waiting(q)' => Waiting(q)
<1>1. Tasks /\ Held BY Invariant
<1>2. \A r \in Replica : St(r)' = St(r) /\ (Owns(r)' <=> Owns(r)) BY CountersOnlyKeeps
<1>3. /\ \A u \in Thread : u # t => SameRoles(u)
      /\ LessBase(t) /\ PlainAt(t) BY OthersSame, PlainRoles DEF QuietStack, OnlyThread
<1>4. \A r \in Replica : /\ ~EatsAt(t, r) /\ ~StopsAt(t, r) /\ ~EatsAt(t, r)' /\ ~StopsAt(t, r)'
                         /\ ~AcceptsAt(t, r)
                         /\ StaysOrMoves(r)
                         /\ Reaped /\ HasAll(r) => Owns(r)'
  <2> SUFFICES ASSUME NEW r \in Replica
               PROVE  /\ ~EatsAt(t, r) /\ ~StopsAt(t, r) /\ ~EatsAt(t, r)' /\ ~StopsAt(t, r)'
                      /\ ~AcceptsAt(t, r)
                      /\ StaysOrMoves(r)
                      /\ Reaped /\ HasAll(r) => Owns(r)' OBVIOUS
  <2>1. r[2] \in Vertex BY SetFacts
  <2>2. ~EatsAt(t, r) /\ ~StopsAt(t, r) /\ ~AcceptsAt(t, r) BY <1>3 DEF PlainAt
  <2>3. ~EatsAt(t, r)' /\ ~StopsAt(t, r)' BY <2>1 DEF QuietStack, EatsAt, StopsAt
  <2> QED BY <1>2, <2>2, <2>3 DEF StaysOrMoves, HasAll
<1>5. Quiet(t) BY <1>3, <1>4 DEF Quiet, OnlyAccepts
<1> QED BY <1>1, <1>2, <1>5, QuietKeepsTasks, QuietKeepsHeld

\* The master's counter goes up, or down.
LEMMA CounterBecomes ==
  ASSUME IInv, NEW v \in Vertex, NEW n \in 0 .. 255, phil' = SetCounter(phil, Master(v), n), fork' = fork
  PROVE  /\ CountersOnly /\ Counter(v)' = n
         /\ \A w \in Vertex : w # v => Counter(w)' = Counter(w)
<1>0. PICK r : r = Master(v) OBVIOUS
<1>1. r \in Replica /\ phil \in PhilSet BY SMTT(30), <1>0, SetFacts, Invariant
<1>2. OnlyAt(phil, phil', r) /\ Fields(phil'[r], phil[r].state, phil[r].forks_acquired, n,
                                       phil[r].cancellation_sent, phil[r].lockid)
  BY <1>0, <1>1, PhilFields
<1>3. CountersOnly /\ phil'[r].counter = n /\ \A z \in Replica : z # r => phil'[z].counter = phil[z].counter
  BY <1>2 DEF OnlyAt, Fields, CountersOnly
<1>4. \A w \in Vertex : w # v => Master(w) \in Replica /\ Master(w) # r BY <1>0, SetFacts
<1> QED BY <1>0, <1>3, <1>4 DEF Counter

LEMMA CountersStill ==
  ASSUME IInv, phil' = phil, fork' = fork
  PROVE  CountersOnly /\ \A v \in Vertex : Counter(v)' = Counter(v)
BY Invariant DEF CountersOnly, Counter

\* A granted cancellation counts the replica once more.
LEMMA OneMoreCounts ==
  ASSUME IInv, NoWrap, NEW v \in Vertex, phil' = OneMore(v), fork' = fork, Counter(v) > 0
  PROVE  /\ CountersOnly /\ Counter(v)' = Counter(v) + 1
         /\ \A w \in Vertex : Counter(w)' = 0 <=> Counter(w) = 0
         /\ \A w \in Vertex : w # v => Counter(w)' = Counter(w)
<1>1. PICK c : c = Counter(v) OBVIOUS
<1>2. PICK n : n = (c + 1) % 256 OBVIOUS
<1>3. c \in 1 .. 255 /\ n \in 0 .. 255 BY <1>1, CountsNow, <1>2
<1>4. phil' = SetCounter(phil, Master(v), n) BY <1>1, <1>2 DEF OneMore, SetCounter, Counter
<1>5. /\ CountersOnly /\ Counter(v)' = n
      /\ \A w \in Vertex : w # v => Counter(w)' = Counter(w) BY <1>3, <1>4, CounterBecomes
<1>6. c # 255 BY <1>2, <1>1, <1>5 DEF NoWrap
<1>7. n = c + 1
  <2>1. c \in 1 .. 254 BY <1>3, <1>6
  <2> QED BY <1>2, <2>1
<1> QED BY <1>1, <1>3, <1>5, <1>7

LEMMA IssueCancellationKeeps ==
  ASSUME IInv, NoWrap, NEW t \in Thread, IssueCancellation(t)
  PROVE  IInv'
<1>0. PICK v : v = Top(t).v OBVIOUS
<1>1. PICK r : r = Here(t) OBVIOUS
<1>2. PICK s : s = stack[t] OBVIOUS
<1>3. /\ ~Idle(t) /\ Top(t).op = "cancel"
      /\ \/ /\ r # Master(v)
            /\ Sent1(up, up', r, [op |-> "cancel", lockid |-> Top(t).lockid])
            /\ Become(t, Callers(t)) /\ phil' = phil
         \/ /\ r = Master(v) /\ Granted(v, Top(t).lockid)
            /\ phil' = OneMore(v) /\ Become(t, <<Loop("accept", r)>> \o Callers(t)) /\ up' = up
         \/ r = Master(v) /\ phil' = phil /\ Become(t, Callers(t)) /\ up' = up
      /\ fork' = fork /\ lock' = lock /\ down' = down /\ scatter' = scatter /\ awaited' = awaited
      /\ client' = client /\ meals' = meals BY <1>0, <1>1 DEF IssueCancellation, Doing, Top, Sent1
<1>4. /\ FineStacks /\ Mailboxes(up) /\ Mailboxes(down) BY Invariant
<1>5. /\ s # << >> /\ s \in Seq(Frame) /\ Fine(t[1], s) /\ Top(t) = s[1] /\ t[1] \in Machine
      /\ Callers(t) = Tail(s) /\ Top(t) \in Frame BY <1>2, <1>3, <1>4, TopFacts DEF Callers
<1>6. r \in Replica /\ r[1] = t[1] /\ r[2] = v /\ v \in Vertex
  BY <1>0, <1>1, <1>3, <1>4, TopFacts, SetFacts
<1>7. \A q \in Mirror : \A op : Sent(q, op)' <=> Sent(q, op) BY <1>3, SentSame, SetFacts
<1>9. /\ lock' \in LockSet /\ Mailboxes(down') /\ scatter' \subseteq Mirror /\ awaited' \subseteq Mirror
      /\ client' \in ClientSet /\ meals' \in [Vertex -> Nat] /\ \A w \in Vertex : meals'[w] <= MaxMeals[w]
  BY <1>3, Invariant
<1>10. CASE Become(t, Callers(t)) /\ phil' = phil
  <2>1. PICK s2 : s2 = Tail(s) OBVIOUS
  <2>2. /\ Fine(t[1], s2) /\ Plain(s) /\ Plain(s2) /\ SameBase(s, s2) /\ Keeps(s, s2)
    <3>1. Returned(s, s2) BY <1>5, <2>1, StackOps
    <3> QED BY <1>3, <1>5, <3>1, CancelReturns
  <2>3. /\ FineStacks' /\ stack'[t] = s2
        /\ \A u \in Thread \ {t} : stack'[u] = stack[u] BY <1>4, <1>5, <1>10, <2>1, <2>2, Becomes
  <2>4. QuietStack(t) BY <1>2, <2>2, <2>3 DEF QuietStack, Plain
  <2>5. CountersOnly /\ \A w \in Vertex : Counter(w)' = Counter(w) BY <1>3, <1>10, CountersStill
  <2>6. Tasks' /\ Held' /\ \A q \in Replica : Waiting(q)' => Waiting(q) BY <1>3, <1>7, <2>4, <2>5, QuietKeeps DEF OnlyAccepts
  <2>7. ForksFine' /\ AcquiredCounts' /\ fork' \in ForkSet BY <1>3, <2>5, CountersOnlyKeeps
  <2>8. Mailboxes(up') /\ \A w \in Vertex : NReady(w)' = NReady(w)
    <3>1. CASE up' = up BY <1>4, <3>1, MailSame
    <3>2. CASE r # Master(v) /\ Sent1(up, up', r, [op |-> "cancel", lockid |-> Top(t).lockid])
      <4> DEFINE m == [op |-> "cancel", lockid |-> Top(t).lockid]
      <4>1. Sent1(up, up', r, m) BY <3>2
      <4>2. m \in Message /\ m \notin [op : {"ready"}]
        <5>1. Top(t).lockid \in BOOLEAN BY <1>3, <1>5, FrameFields
        <5>2. m \in Message /\ m.op = "cancel" BY <5>1 DEF Message
        <5> HIDE DEF m
        <5> QED BY <5>2, MessageKinds
      <4> HIDE DEF m
      <4>3. r \in Mirror BY <1>6, <3>2, SetFacts
      <4>7. PICK P : P = [op : {"ready"}] OBVIOUS
      <4>4. \A w \in Vertex : /\ Mailboxes(up')
                              /\ Mail(up', w, P) = Mail(up, w, P) + One(r[2] = w /\ m \in P)
        BY <1>4, <4>1, <4>2, <4>3, MailSent
      <4>5. \A w \in Vertex : Mail(up', w, P) = Mail(up, w, P)
        BY <1>4, <4>2, <4>4, <4>7, MailTyped DEF One
      <4>6. \A w \in Vertex : NReady(w)' = NReady(w) BY <4>5, <4>7, NMailIs
      <4> QED BY <1>6, <4>4, <4>6
    <3> QED BY <1>3, <1>10, <3>1, <3>2
  <2>9. Counted'
    <3>1. \A w \in Vertex : ~Accepts(stack[t], w) /\ ~Accepts(stack'[t], w) BY <1>2, <2>2, <2>3 DEF Plain
    <3>2. \A w \in Vertex : NCalls(w)' = NCalls(w) BY <1>3, MailSame
    <3>3. Keeps(stack[t], stack'[t]) BY <1>2, <2>2, <2>3
    <3> QED BY <2>3, <2>5, <2>6, <2>8, <3>1, <3>2, <3>3, CountsStill
  <2>10. phil' \in PhilSet BY <2>5 DEF CountersOnly
  <2> QED BY <1>9, <2>3, <2>6, <2>7, <2>8, <2>9, <2>10, PartsNext
<1>11. CASE /\ r = Master(v) /\ Granted(v, Top(t).lockid)
            /\ phil' = OneMore(v) /\ Become(t, <<Loop("accept", r)>> \o Callers(t)) /\ up' = up
  <2>1. PICK f : f = Loop("accept", r) OBVIOUS
  <2>2. /\ f \in Frame /\ f.op = "accept" /\ f.v = v /\ f.at = "lock" /\ f.ready = << >>
        /\ WellPlaced(t[1], f) BY <1>6, <2>1, LoopIs DEF LoopOps
  <2>3. PICK s2 : s2 = <<f>> \o Tail(s) OBVIOUS
  <2>4. /\ Fine(t[1], s2) /\ Plain(s) /\ SameBase(s, s2) /\ Keeps(s, s2)
        /\ \A w \in Vertex : /\ Accepts(s2, w) <=> w = v
                             /\ ~Stops(s2, w) /\ ~Eats(s2, w)
    <3>1. Replaced(s, s2, f) BY <1>5, <2>2, <2>3, StackOps
    <3>2. s[1].op = "cancel" /\ f.v = s[1].v BY <1>0, <1>3, <1>5, <2>2
    <3> QED BY <1>5, <2>2, <3>1, <3>2, CancelAccepted
  <2>5. /\ FineStacks' /\ stack'[t] = s2
        /\ \A u \in Thread \ {t} : stack'[u] = stack[u]
    <3>1. Become(t, s2) BY <1>5, <1>11, <2>1, <2>3
    <3> QED BY <1>4, <2>4, <3>1, Becomes
  <2>7. QuietStack(t) BY <1>2, <2>4, <2>5 DEF QuietStack
  <2>8. /\ CountersOnly /\ Counter(v)' = Counter(v) + 1
        /\ \A w \in Vertex : Counter(w)' = 0 <=> Counter(w) = 0
        /\ \A w \in Vertex : w # v => Counter(w)' = Counter(w)
    <3>1. Counter(v) > 0 BY <1>11 DEF Granted, Counter
    <3> QED BY <1>3, <1>6, <1>11, <3>1, OneMoreCounts
  <2>9. Tasks' /\ Held' /\ \A q \in Replica : Waiting(q)' => Waiting(q) BY <1>3, <1>7, <2>7, <2>8, QuietKeeps DEF OnlyAccepts
  <2>10. ForksFine' /\ AcquiredCounts' /\ fork' \in ForkSet BY <1>3, <2>8, CountersOnlyKeeps
  <2>11. Counted'
    <3> SUFFICES ASSUME NEW w \in Vertex
                 PROVE  NWaiting(w)' + NCalls(w)' + NReady(w)' + NAccepting(w)' + NListed(w)' <= Counter(w)'
      BY CountedNext
    <3>1. Keeps(stack[t], stack'[t]) BY <1>2, <2>4, <2>5
    <3>2. /\ NListed(w)' = NListed(w)
          /\ NAccepting(w)' = NAccepting(w) - One(Accepts(stack[t], w)) + One(Accepts(stack'[t], w))
      BY <2>5, <3>1, StacksCount
    <3>3. One(Accepts(stack[t], w)) = 0 /\ One(Accepts(stack'[t], w)) = One(w = v)
      BY <1>2, <2>4, <2>5 DEF One, Plain
    <3>4. NCalls(w)' = NCalls(w) /\ NReady(w)' = NReady(w) BY <1>3, <1>11, MailSame
    <3>7. NWaiting(w)' <= NWaiting(w) /\ NWaiting(w)' \in Nat BY <2>9, WaitingLess
    <3>5. Counter(w)' = Counter(w) + One(w = v) BY <2>8, CountsNow DEF One
    <3>6. One(w = v) \in Nat BY DEF One
    <3> QED BY <3>2, <3>3, <3>4, <3>5, <3>6, <3>7, CountsNow
  <2>12. phil' \in PhilSet /\ Mailboxes(up') BY <1>4, <1>11, <2>8 DEF CountersOnly
  <2> QED BY <1>3, <1>9, <1>11, <2>5, <2>9, <2>10, <2>11, <2>12, PartsNext
<1> QED BY <1>3, <1>10, <1>11

-----------------------------------------------------------------------------
(* The calls to the master.                                                *)

LEMMA UpSent ==
  ASSUME Mailboxes(up), NEW r \in Mirror, NEW m \in Message, Sent1(up, up', r, m), NEW w \in Vertex
  PROVE  Mailboxes(up') /\ NReady(w)' = NReady(w) + One(r[2] = w /\ m.op = "ready")
<1>1. PICK P : P = [op : {"ready"}] OBVIOUS
<1>2. Mailboxes(up') /\ Mail(up', w, P) = Mail(up, w, P) + One(r[2] = w /\ m \in P) BY MailSent
<1>3. m \in P <=> m.op = "ready" BY <1>1, MessageKinds
<1>4. One(r[2] = w /\ m \in P) = One(r[2] = w /\ m.op = "ready") BY <1>3 DEF One
<1> QED BY <1>1, <1>2, <1>4, NMailIs

LEMMA UpTaken ==
  ASSUME Mailboxes(up), NEW r \in Mirror, NEW i \in DOMAIN up[r], Taken1(up, up', r, i), NEW w \in Vertex
  PROVE  Mailboxes(up') /\ NReady(w)' = NReady(w) - One(r[2] = w /\ up[r][i].op = "ready")
<1>1. PICK P : P = [op : {"ready"}] OBVIOUS
<1>2. PICK m : m = up[r][i] OBVIOUS
<1>8. Mailboxes(up') BY MailTaken
<1>3. Mail(up', w, P) = Mail(up, w, P) - One(r[2] = w /\ up[r][i] \in P) BY MailTaken
<1>4. up[r] \in Seq(Message) BY DEF Mailboxes
<1>5. m \in Message BY <1>2, <1>4, WithoutFacts
<1>6. m \in P <=> m.op = "ready" BY <1>1, <1>5, MessageKinds
<1>7. One(r[2] = w /\ up[r][i] \in P) = One(r[2] = w /\ up[r][i].op = "ready") BY <1>2, <1>6 DEF One
<1> QED BY <1>1, <1>3, <1>7, <1>8, NMailIs

\* The master hears of a replica.
LEMMA MasterHears ==
  ASSUME IInv, NEW v \in Vertex, NListed(v) # 0 \/ NReady(v) # 0
  PROVE  /\ Counter(v) \in 1 .. 255 /\ (Counter(v) - 1) % 256 = Counter(v) - 1
<1>1. PICK c : c = Counter(v) OBVIOUS
<1>2. c \in 1 .. 255 BY <1>1, CountsNow
<1>3. (c - 1) % 256 = c - 1 BY <1>2
<1> QED BY <1>1, <1>2, <1>3

\* The last one: all replicas are told to eat.
LEMMA MasterHeardAll ==
  ASSUME IInv, NEW t \in Thread, NEW v \in Vertex, t[1] = Owner[v],
         Counter(v) = 1, NListed(v) # 0 \/ NReady(v) # 0,
         \A u \in Thread : u # t => SameRoles(u),
         LessBase(t), PlainAt(t),
         \A w \in Vertex : /\ Eats(stack'[t], w) <=> w = v
                           /\ ~Stops(stack'[t], w) /\ ~Accepts(stack'[t], w),
         phil' = SetCounter(phil, Master(v), 0), fork' = fork,
         SentToAll(down, down', v, [op |-> "eat"]),
         UNCHANGED <<scatter, awaited, client>>
  PROVE  /\ Tasks' /\ Held'
         /\ \A q \in Replica : Waiting(q)' => Waiting(q)
         /\ Mailboxes(down') /\ \A w \in Vertex : NCalls(w)' = NCalls(w)
<1>1. Tasks /\ Held /\ Mailboxes(down) BY Invariant
<1>3. /\ CountersOnly /\ Counter(v)' = 0
      /\ \A w \in Vertex : w # v => Counter(w)' = Counter(w) BY CounterBecomes
<1>4. \A r \in Replica : St(r)' = St(r) /\ (Owns(r)' <=> Owns(r)) BY <1>3, CountersOnlyKeeps
<1>5. /\ Mailboxes(down')
      /\ \A q \in Mirror : \A op : Sent(q, op)' <=> Sent(q, op) \/ (q[2] = v /\ op = "eat")
      /\ \A w \in Vertex : NCalls(w)' = NCalls(w)
  <2> DEFINE m == [op |-> "eat"]
  <2>1. SentToAll(down, down', v, m) OBVIOUS
  <2>2. m \in Message /\ m.op = "eat" BY DEF Message
  <2> HIDE DEF m
  <2> QED BY <1>1, <2>1, <2>2, DownToAll
<1>6. \A r \in Replica : (EatsAt(t, r)' <=> r = Master(v)) /\ ~StopsAt(t, r)' /\ ~AcceptsAt(t, r)'
  BY SetFacts DEF Master, EatsAt, StopsAt, AcceptsAt
<1>7. Wins(t, v) BY <1>3, <1>4, <1>5, <1>6 DEF Wins
<1> QED BY <1>1, <1>5, <1>7, WinKeepsTasks, WinKeepsHeld

-----------------------------------------------------------------------------
(* A thread signals one replica of its list.                               *)

Shorter(f) == [f EXCEPT !.ready = Tail(@)]

LEMMA SignalFrame ==
  ASSUME NEW k \in Machine, NEW f \in Frame, f.op = "signal", WellPlaced(k, f), f.ready # << >>
  PROVE  LET g == Shorter(f) IN
         /\ g \in Frame /\ g.op = "signal" /\ g.v = f.v /\ g.ready = Tail(f.ready)
         /\ WellPlaced(k, g)
         /\ Head(f.ready) \in Vertex /\ <<k, Head(f.ready)>> \in Replica
<1> DEFINE g == Shorter(f)
<1>1. f \in [op : {"signal"}, v : Vertex, ready : Seq(Vertex)] BY DEF Frame
<1>2. PICK s : s = f.ready OBVIOUS
<1>3. /\ s \in Seq(Vertex) /\ s # << >> /\ Tail(s) \in Seq(Vertex) /\ s[1] \in Vertex /\ Head(s) = s[1]
      /\ Len(Tail(s)) = Len(s) - 1 /\ Len(s) \in Nat \ {0}
      /\ \A i \in 1 .. Len(s) - 1 : Tail(s)[i] = s[i + 1] BY <1>1, <1>2, Below
<1>4. /\ g \in [op : {"signal"}, v : Vertex, ready : Seq(Vertex)]
      /\ g.op = "signal" /\ g.v = f.v /\ g.ready = Tail(s) BY <1>1, <1>2, <1>3 DEF Shorter
<1>5. g \in Frame BY <1>4 DEF Frame
<1> HIDE DEF g
<1>6. <<k, f.v>> \in Replica /\ \A i \in 1 .. Len(s) : <<k, s[i]>> \in Replica
  BY <1>2 DEF WellPlaced, HasReady
<1>7. \A i \in 1 .. Len(Tail(s)) : <<k, Tail(s)[i]>> \in Replica BY <1>3, <1>6
<1>8. WellPlaced(k, g) BY <1>4, <1>6, <1>7 DEF WellPlaced
<1>9. Head(f.ready) \in Vertex /\ <<k, Head(f.ready)>> \in Replica BY <1>2, <1>3, <1>6
<1> QED BY <1>2, <1>4, <1>5, <1>8, <1>9 DEF g

LEMMA SignalGoesOn ==
  ASSUME IInv, NEW t \in Thread, Doing(t, "signal"), NEW f, f = Shorter(Top(t)),
         Become(t, Return(<<f>> \o Callers(t)))
  PROVE  /\ QuietStack(t) /\ Plain(stack'[t])
         /\ \A w \in Vertex : NListed(w)' = NListed(w) - One(w = Head(Top(t).ready))
<1>1. PICK s : s = stack[t] OBVIOUS
<1>2. FineStacks BY Invariant
<1>3. /\ s # << >> /\ s \in Seq(Frame) /\ Fine(t[1], s) /\ Top(t) = s[1] /\ t[1] \in Machine
      /\ Callers(t) = Tail(s) /\ s[1] \in Frame /\ s[1].op = "signal" /\ WellPlaced(t[1], s[1])
  BY <1>1, <1>2, TopFacts DEF Callers, Doing, Top
<1>4. s[1].ready # << >> BY <1>3, FineFacts
<1>5. /\ f \in Frame /\ f.op = "signal" /\ f.v = s[1].v /\ f.ready = Tail(s[1].ready)
      /\ WellPlaced(t[1], f) BY <1>3, <1>4, SignalFrame, ZenonT(30)
<1>6. PICK s2 : s2 = Return(<<f>> \o Tail(s)) OBVIOUS
<1>7. \/ f.ready # << >> /\ Replaced(s, s2, f)
      \/ f.ready = << >> /\ Returned(s, s2) BY <1>3, <1>5, <1>6, ReturnOps
<1>8. /\ Fine(t[1], s2) /\ Plain(s2) /\ SameBase(s, s2)
      /\ Depth(s) \in {1, 2} /\ Lists(s, Depth(s)) = s[1].ready
      /\ Changes(s, s2, Depth(s), f.ready)
  <2>1. s[1].op \in LoopOps \cup {"signal"} BY <1>3
  <2> QED BY <1>3, <1>5, <1>7, <2>1, SignalsNext
<1>9. /\ FineStacks' /\ stack'[t] = s2
      /\ \A u \in Thread \ {t} : stack'[u] = stack[u]
  <2>1. Become(t, s2) BY <1>3, <1>6
  <2> QED BY <1>2, <1>8, <2>1, Becomes
<1>10. QuietStack(t)
  <2>1. Plain(s) BY <1>3 DEF Plain, Eats, Stops, Accepts
  <2> QED BY <1>1, <1>8, <1>9, <2>1 DEF QuietStack, Plain
<1>11. \A w \in Vertex : NListed(w)' = NListed(w) - One(w = Head(Top(t).ready))
  <2>1. PICK n : n = Depth(s) OBVIOUS
  <2>2. /\ n \in 1 .. 3 /\ Lists(stack[t], n) = s[1].ready
        /\ Changes(stack[t], stack'[t], n, Tail(Lists(stack[t], n))) BY <1>1, <1>5, <1>8, <1>9, <2>1
  <2>3. Lists(stack[t], n) # << >> BY <1>4, <2>2
  <2> QED BY <1>2, <1>3, <1>9, <2>2, <2>3, ListedLess
<1> QED BY <1>8, <1>9, <1>10, <1>11

\* The counts, when one replica that was listed is told of, or is counted.
LEMMA CountsSignal ==
  ASSUME IInv, NEW t \in Thread, NEW v \in Vertex, \A u \in Thread \ {t} : stack'[u] = stack[u],
         \A w \in Vertex : ~Accepts(stack[t], w) /\ ~Accepts(stack'[t], w),
         \A w \in Vertex : NCalls(w)' = NCalls(w), \A q \in Replica : Waiting(q)' => Waiting(q),
         \A w \in Vertex : NListed(w)' = NListed(w) - One(w = v),
         NEW b \in BOOLEAN,
         \A w \in Vertex : NReady(w)' = NReady(w) + One(w = v /\ b),
         \A w \in Vertex : Counter(w)' = Counter(w) - One(w = v /\ ~b)
  PROVE  Counted'
<1> SUFFICES ASSUME NEW w \in Vertex
             PROVE  NWaiting(w)' + NCalls(w)' + NReady(w)' + NAccepting(w)' + NListed(w)' <= Counter(w)'
  BY CountedNext
<1>1. /\ NWaiting(w) + NCalls(w) + NReady(w) + NAccepting(w) + NListed(w) <= Counter(w)
      /\ NWaiting(w) \in Nat /\ NCalls(w) \in Nat /\ NReady(w) \in Nat
      /\ NAccepting(w) \in Nat /\ NListed(w) \in Nat /\ Counter(w) \in 0 .. 255 BY CountsNow
<1>2. NAccepting(w)' = NAccepting(w) - One(Accepts(stack[t], w)) + One(Accepts(stack'[t], w))
  BY AcceptingAt
<1>3. NAccepting(w)' = NAccepting(w) BY <1>1, <1>2 DEF One
<1>4. One(w = v) = One(w = v /\ b) + One(w = v /\ ~b) /\ One(w = v /\ b) \in {0, 1} /\ One(w = v /\ ~b) \in {0, 1}
  BY DEF One
<1>6. NWaiting(w)' <= NWaiting(w) /\ NWaiting(w)' \in Nat BY WaitingLess
<1>5. /\ NCalls(w)' = NCalls(w)
      /\ NListed(w)' = NListed(w) - One(w = v)
      /\ NReady(w)' = NReady(w) + One(w = v /\ b)
      /\ Counter(w)' = Counter(w) - One(w = v /\ ~b) OBVIOUS
<1> QED BY <1>1, <1>3, <1>4, <1>5, <1>6

\* The stack of a thread whose signal was the last: it makes the vertex eat.
LEMMA SignalWins ==
  ASSUME IInv, NEW t \in Thread, Doing(t, "signal"), NEW f, f = Shorter(Top(t)),
         NEW v \in Vertex, v = Head(Top(t).ready),
         Become(t, <<Call("eat", v)>> \o (<<f>> \o Callers(t)))
  PROVE  /\ FineStacks' /\ \A u \in Thread \ {t} : stack'[u] = stack[u]
         /\ \A u \in Thread : u # t => SameRoles(u)
         /\ LessBase(t) /\ PlainAt(t) /\ \A w \in Vertex : ~Accepts(stack[t], w)
         /\ \A w \in Vertex : /\ Eats(stack'[t], w) <=> w = v
                              /\ ~Stops(stack'[t], w) /\ ~Accepts(stack'[t], w)
         /\ \A w \in Vertex : NListed(w)' = NListed(w) - One(w = v)
<1>1. PICK s : s = stack[t] OBVIOUS
<1>2. FineStacks BY Invariant
<1>3. /\ s # << >> /\ s \in Seq(Frame) /\ Fine(t[1], s) /\ Top(t) = s[1] /\ t[1] \in Machine
      /\ Callers(t) = Tail(s) /\ s[1] \in Frame /\ s[1].op = "signal" /\ WellPlaced(t[1], s[1])
  BY <1>1, <1>2, TopFacts DEF Callers, Doing, Top
<1>4. s[1].ready # << >> BY <1>3, FineFacts
<1>5. /\ f \in Frame /\ f.op = "signal" /\ f.v = s[1].v /\ f.ready = Tail(s[1].ready)
      /\ WellPlaced(t[1], f) /\ <<t[1], v>> \in Replica BY <1>3, <1>4, SignalFrame
<1>6. PICK c : c = Call("eat", v) OBVIOUS
<1>7. c \in Frame /\ c.op = "eat" /\ c.v = v /\ WellPlaced(t[1], c) BY <1>5, <1>6, CallIs
<1>8. PICK s2 : s2 = <<c>> \o (<<f>> \o Tail(s)) OBVIOUS
<1>9. Called(s, s2, c, f) BY <1>3, <1>5, <1>7, <1>8, StackOps
<1>10. /\ Fine(t[1], s2) /\ SameBase(s, s2)
       /\ \A w \in Vertex : /\ Eats(s2, w) <=> w = v
                            /\ ~Stops(s2, w) /\ ~Accepts(s2, w)
       /\ Depth(s) \in {1, 2} /\ Lists(s, Depth(s)) = s[1].ready
       /\ Changes(s, s2, Depth(s), f.ready)
  <2>1. PICK k : k = t[1] OBVIOUS
  <2>2. /\ k \in Machine /\ Fine(k, s) /\ s # << >> /\ s[1].op = "signal"
        /\ f \in Frame /\ f.op = "signal" /\ f.v = s[1].v /\ WellPlaced(k, f)
        /\ c \in Frame /\ c.op = "eat" /\ WellPlaced(k, c) BY <1>3, <1>5, <1>7, <2>1
  <2>3. /\ Fine(k, s2) /\ SameBase(s, s2)
        /\ \A w \in Vertex : /\ Eats(s2, w) <=> w = c.v
                             /\ ~Stops(s2, w) /\ ~Accepts(s2, w)
        /\ Depth(s) \in {1, 2} /\ Lists(s, Depth(s)) = s[1].ready
        /\ Changes(s, s2, Depth(s), f.ready) BY <1>9, <2>2, SignalsEat
  <2> QED BY <1>7, <2>1, <2>3
<1>11. /\ FineStacks' /\ stack'[t] = s2
       /\ \A u \in Thread \ {t} : stack'[u] = stack[u]
       /\ \A u \in Thread : u # t => SameRoles(u)
  <2>1. Become(t, s2) BY <1>3, <1>6, <1>8
  <2> QED BY <1>2, <1>10, <2>1, Becomes
<1>12. Plain(s) /\ PlainAt(t) /\ LessBase(t)
  <2>1. Plain(s) BY <1>3 DEF Plain, Eats, Stops, Accepts
  <2> QED BY <1>1, <1>10, <1>11, <2>1, PlainRoles
<1>14. \A w \in Vertex : NListed(w)' = NListed(w) - One(w = v)
  <2>1. PICK n : n = Depth(s) OBVIOUS
  <2>2. /\ n \in 1 .. 3 /\ Lists(stack[t], n) = s[1].ready
        /\ Changes(stack[t], stack'[t], n, Tail(Lists(stack[t], n))) BY <1>1, <1>5, <1>10, <1>11, <2>1
  <2>3. Lists(stack[t], n) # << >> /\ Head(Lists(stack[t], n)) = v BY <1>3, <1>4, <2>2
  <2> QED BY <1>2, <1>11, <2>2, <2>3, ListedLess
<1> QED BY <1>1, <1>10, <1>11, <1>12, <1>14 DEF Plain

LEMMA EnterHorsDoeuvreKeeps ==
  ASSUME IInv, NEW t \in Thread, EnterHorsDoeuvre(t)
  PROVE  IInv'
<1>0. PICK f : f = Shorter(Top(t)) OBVIOUS
<1>1. PICK v : v = Head(Top(t).ready) OBVIOUS
<1>2. PICK left : left = (Counter(v) - 1) % 256 OBVIOUS
<1>3. PICK rest : rest = <<f>> \o Callers(t) OBVIOUS
<1>4. /\ Doing(t, "signal")
      /\ \/ /\ Owner[v] = t[1] /\ up' = up
            /\ phil' = SetCounter(phil, Master(v), left)
            /\ \/ /\ left = 0 /\ SentToAll(down, down', v, [op |-> "eat"])
                  /\ Become(t, <<Call("eat", v)>> \o rest)
               \/ left # 0 /\ Become(t, Return(rest)) /\ down' = down
         \/ /\ Owner[v] # t[1] /\ Sent1(up, up', <<t[1], v>>, [op |-> "ready"])
            /\ Become(t, Return(rest)) /\ phil' = phil /\ down' = down
      /\ fork' = fork /\ lock' = lock /\ scatter' = scatter /\ awaited' = awaited
      /\ client' = client /\ meals' = meals
  BY <1>0, <1>1, <1>2, <1>3 DEF EnterHorsDoeuvre, SignalReady, Broadcast, SentToAll, Sent1, SetCounter,
     Shorter, Counter
<1>5. /\ FineStacks /\ Mailboxes(up) /\ Mailboxes(down) /\ Counted /\ TypeOK BY Invariant
<1>6. /\ v \in Vertex /\ <<t[1], v>> \in Replica /\ NListed(v) # 0
  <2>1. PICK s : s = stack[t] OBVIOUS
  <2>2. /\ s # << >> /\ s \in Seq(Frame) /\ Fine(t[1], s) /\ Top(t) = s[1] /\ t[1] \in Machine
        /\ s[1] \in Frame /\ s[1].op = "signal" /\ WellPlaced(t[1], s[1])
    BY <1>4, <1>5, <2>1, TopFacts DEF Doing, Top
  <2>3. s[1].ready # << >> /\ Depth(s) \in {1, 2, 3} BY <2>2, FineFacts
  <2>4. v \in Vertex /\ <<t[1], v>> \in Replica BY <1>1, <2>2, <2>3, SignalFrame
  <2>5. Lists(s, Depth(s)) = s[1].ready BY <2>2, <2>3, ListsOfOps DEF ReadyIn, HasReady
  <2>6. PICK n : n = Depth(s) OBVIOUS
  <2>7. n \in 1 .. 3 /\ Lists(stack[t], n) # << >> /\ Head(Lists(stack[t], n)) = v
    BY <1>1, <2>1, <2>2, <2>3, <2>5, <2>6
  <2> QED BY <1>5, <2>4, <2>7, Heard
<1>7. Counter(v) \in 1 .. 255 /\ left = Counter(v) - 1 BY <1>2, <1>6, MasterHears
<1>8. /\ lock' \in LockSet /\ scatter' \subseteq Mirror /\ awaited' \subseteq Mirror
      /\ client' \in ClientSet /\ meals' \in [Vertex -> Nat] /\ \A w \in Vertex : meals'[w] <= MaxMeals[w]
  BY <1>4, Invariant
<1>9. CASE /\ Owner[v] = t[1] /\ up' = up /\ phil' = SetCounter(phil, Master(v), left)
           /\ left = 0 /\ SentToAll(down, down', v, [op |-> "eat"])
           /\ Become(t, <<Call("eat", v)>> \o rest)
  <2>1. /\ FineStacks' /\ \A u \in Thread \ {t} : stack'[u] = stack[u]
        /\ \A u \in Thread : u # t => SameRoles(u)
        /\ LessBase(t) /\ PlainAt(t) /\ \A w \in Vertex : ~Accepts(stack[t], w)
        /\ \A w \in Vertex : /\ Eats(stack'[t], w) <=> w = v
                             /\ ~Stops(stack'[t], w) /\ ~Accepts(stack'[t], w)
        /\ \A w \in Vertex : NListed(w)' = NListed(w) - One(w = v)
    BY <1>0, <1>1, <1>3, <1>4, <1>6, <1>9, SignalWins
  <2>2. Counter(v) = 1 BY <1>7, <1>9
  <2>3. /\ Tasks' /\ Held'
        /\ \A q \in Replica : Waiting(q)' => Waiting(q)
        /\ Mailboxes(down') /\ \A w \in Vertex : NCalls(w)' = NCalls(w)
    BY <1>4, <1>6, <1>9, <2>1, <2>2, MasterHeardAll
  <2>4. /\ CountersOnly /\ Counter(v)' = 0
        /\ \A w \in Vertex : w # v => Counter(w)' = Counter(w)
    <3>1. left \in 0 .. 255 BY <1>9
    <3> QED BY <1>4, <1>6, <1>9, <3>1, CounterBecomes
  <2>5. ForksFine' /\ AcquiredCounts' /\ fork' \in ForkSet BY <1>4, <2>4, CountersOnlyKeeps
  <2>6. Counted'
    <3>1. \A w \in Vertex : NReady(w)' = NReady(w) + One(w = v /\ FALSE)
      BY <1>9, MailSame, CountsNow DEF One
    <3>2. \A w \in Vertex : Counter(w)' = Counter(w) - One(w = v /\ ~FALSE)
      BY <2>2, <2>4, CountsNow DEF One
    <3> QED BY <1>6, <2>1, <2>3, <3>1, <3>2, CountsSignal
  <2>7. phil' \in PhilSet /\ Mailboxes(up') BY <1>5, <1>9, <2>4 DEF CountersOnly
  <2> QED BY <1>8, <2>1, <2>3, <2>5, <2>6, <2>7, PartsNext
<1>10. CASE /\ Become(t, Return(rest)) /\ down' = down
            /\ \/ Owner[v] = t[1] /\ up' = up /\ phil' = SetCounter(phil, Master(v), left) /\ left # 0
               \/ Owner[v] # t[1] /\ Sent1(up, up', <<t[1], v>>, [op |-> "ready"]) /\ phil' = phil
  <2>1. PICK b : b = (Owner[v] # t[1]) OBVIOUS
  <2>2. /\ QuietStack(t) /\ Plain(stack'[t])
        /\ \A w \in Vertex : NListed(w)' = NListed(w) - One(w = v)
    BY <1>0, <1>1, <1>3, <1>4, <1>10, SignalGoesOn
  <2>3. /\ CountersOnly /\ \A w \in Vertex : Counter(w)' = Counter(w) - One(w = v /\ ~b)
        /\ \A w \in Vertex : Counter(w)' = 0 <=> Counter(w) = 0
    <3>1. CASE b
      <4>1. phil' = phil BY <1>10, <2>1, <3>1
      <4>2. CountersOnly /\ \A w \in Vertex : Counter(w)' = Counter(w) BY <1>4, <4>1, CountersStill
      <4> QED BY <3>1, <4>2, CountsNow DEF One
    <3>2. CASE ~b
      <4>0. left \in 0 .. 255 BY <1>7
      <4>1. phil' = SetCounter(phil, Master(v), left) /\ left # 0 /\ left \in 0 .. 255
        BY <1>10, <2>1, <3>2, <4>0
      <4>2. /\ CountersOnly /\ Counter(v)' = left
            /\ \A w \in Vertex : w # v => Counter(w)' = Counter(w) BY <1>4, <1>6, <4>1, CounterBecomes
      <4>3. \A w \in Vertex : Counter(w)' = Counter(w) - One(w = v /\ ~b)
        BY <1>7, <3>2, <4>2, CountsNow DEF One
      <4>4. \A w \in Vertex : Counter(w)' = 0 <=> Counter(w) = 0 BY <1>7, <4>1, <4>2
      <4> QED BY <4>2, <4>3, <4>4
    <3> QED BY <3>1, <3>2
  <2>4. Mailboxes(down') /\ \A q \in Mirror : \A op : Sent(q, op)' <=> Sent(q, op)
    BY <1>5, <1>10, SentSame, SetFacts
  <2>5. Tasks' /\ Held' /\ \A q \in Replica : Waiting(q)' => Waiting(q)
    BY <1>4, <2>2, <2>3, <2>4, QuietKeeps DEF OnlyAccepts
  <2>6. ForksFine' /\ AcquiredCounts' /\ fork' \in ForkSet BY <1>4, <2>3, CountersOnlyKeeps
  <2>7. Mailboxes(up') /\ \A w \in Vertex : NReady(w)' = NReady(w) + One(w = v /\ b)
    <3>1. CASE ~b
      <4>1. up' = up BY <1>10, <2>1, <3>1
      <4> QED BY <1>5, <3>1, <4>1, MailSame, CountsNow DEF One
    <3>2. CASE b
      <4> DEFINE m == [op |-> "ready"]
      <4>1. PICK r : r = <<t[1], v>> OBVIOUS
      <4>2. r \in Mirror /\ r[2] = v BY <1>6, <2>1, <3>2, <4>1 DEF Mirror, Master
      <4>3. m \in Message /\ m.op = "ready" /\ Sent1(up, up', r, m)
        BY <1>10, <2>1, <3>2, <4>1 DEF Message
      <4> HIDE DEF m
      <4>4. \A w \in Vertex : Mailboxes(up') /\ NReady(w)' = NReady(w) + One(r[2] = w /\ m.op = "ready")
        BY <1>5, <4>2, <4>3, UpSent
      <4>5. \A w \in Vertex : One(r[2] = w /\ m.op = "ready") = One(w = v /\ b)
        BY <3>2, <4>2, <4>3 DEF One
      <4> QED BY <1>6, <4>4, <4>5
    <3> QED BY <3>1, <3>2
  <2>8. Counted'
    <3>1. \A w \in Vertex : ~Accepts(stack[t], w) /\ ~Accepts(stack'[t], w) BY <2>2 DEF QuietStack, Plain
    <3>2. \A w \in Vertex : NCalls(w)' = NCalls(w) BY <1>10, MailSame
    <3>3. \A u \in Thread \ {t} : stack'[u] = stack[u] BY <2>2 DEF QuietStack
    <3>4. b \in BOOLEAN BY <2>1
    <3> QED BY <1>6, <2>2, <2>3, <2>5, <2>7, <3>1, <3>2, <3>3, <3>4, CountsSignal
  <2>9. phil' \in PhilSet /\ FineStacks' BY <2>2, <2>3 DEF CountersOnly, QuietStack
  <2> QED BY <1>8, <2>4, <2>5, <2>6, <2>7, <2>8, <2>9, PartsNext
<1> QED BY <1>4, <1>9, <1>10

-----------------------------------------------------------------------------
(* Handlers.                                                               *)

LEMMA HandlerIdle ==
  ASSUME NEW t \in Thread, NEW r \in Replica, HandlerAt(t, r)
  PROVE  Idle(t) /\ stack[t] = << >> /\ t[1] = r[1] /\ HasNoTask(t)
BY NoStackNoTask DEF HandlerAt, Idle

LEMMA StackStill ==
  ASSUME IInv, NEW t \in Thread, stack' = stack, stack[t] = << >>
  PROVE  /\ QuietStack(t) /\ FineStacks'
         /\ \A w \in Vertex : NListed(w)' = NListed(w) /\ NAccepting(w)' = NAccepting(w)
<1>1. FineStacks /\ FineStacks' BY Invariant DEF FineStacks
<1>2. /\ Plain(stack[t]) /\ SameBase(stack[t], stack'[t])
      /\ \A v \in Vertex : ~Eats(stack'[t], v) /\ ~Stops(stack'[t], v) /\ ~Accepts(stack'[t], v)
  BY DEF Plain, SameBase, Eats, Stops, Accepts, Ends, Replies, Stray
<1>3. QuietStack(t) BY <1>1, <1>2 DEF QuietStack
<1>4. \A w \in Vertex : NListed(w)' = NListed(w) /\ NAccepting(w)' = NAccepting(w)
  <2> SUFFICES ASSUME NEW w \in Vertex
               PROVE  NListed(w)' = NListed(w) /\ NAccepting(w)' = NAccepting(w) OBVIOUS
  <2>1. Keeps(stack[t], stack'[t]) BY DEF Keeps
  <2>2. /\ NListed(w)' = NListed(w)
        /\ NAccepting(w)' = NAccepting(w) - One(Accepts(stack[t], w)) + One(Accepts(stack'[t], w))
    BY <1>1, <2>1, StacksCount
  <2>3. One(Accepts(stack[t], w)) = 0 /\ One(Accepts(stack'[t], w)) = 0 BY <1>2 DEF One, Plain
  <2> QED BY <2>2, <2>3, CountsNow
<1> QED BY <1>1, <1>3, <1>4

\* A handler on the master's machine starts to make the vertex eat.
LEMMA HandlerWins ==
  ASSUME IInv, NEW t \in Thread, NEW v \in Vertex, HandlerAt(t, Master(v)),
         Become(t, <<Call("eat", v)>>)
  PROVE  /\ FineStacks' /\ \A u \in Thread \ {t} : stack'[u] = stack[u]
         /\ \A u \in Thread : u # t => SameRoles(u)
         /\ LessBase(t) /\ PlainAt(t)
         /\ \A w \in Vertex : /\ Eats(stack'[t], w) <=> w = v
                              /\ ~Stops(stack'[t], w) /\ ~Accepts(stack'[t], w)
         /\ \A w \in Vertex : NListed(w)' = NListed(w) /\ NAccepting(w)' = NAccepting(w)
<1>0. PICK r : r = Master(v) OBVIOUS
<1>1. r \in Replica /\ r[1] = Owner[v] /\ r[2] = v /\ r = <<Owner[v], v>> BY <1>0, SetFacts DEF Master
<1>2. stack[t] = << >> /\ t[1] = r[1] /\ HasNoTask(t) BY <1>0, <1>1, HandlerIdle
<1>3. FineStacks /\ t[1] \in Machine BY Invariant, SetFacts
<1>4. PICK c : c = Call("eat", v) OBVIOUS
<1>5. c \in Frame /\ c.op = "eat" /\ c.v = v /\ WellPlaced(t[1], c) /\ ReadyIn(c) = << >>
  <2>1. <<t[1], v>> \in Replica BY <1>1, <1>2
  <2> QED BY <1>4, <2>1, CallIs
<1>6. PICK s2 : s2 = <<c>> OBVIOUS
<1>7. Fine(t[1], s2) /\ Keeps(<< >>, s2) /\ s2 # << >> /\ s2[1] = c /\ Depth(s2) = 1
  BY <1>3, <1>5, <1>6, StartsWithOne
<1>8. /\ FineStacks' /\ stack'[t] = s2
      /\ \A u \in Thread \ {t} : stack'[u] = stack[u]
      /\ \A u \in Thread : u # t => SameRoles(u) BY <1>3, <1>4, <1>6, <1>7, Becomes
<1>9. /\ PlainAt(t) /\ \A w \in Vertex : ~Accepts(stack[t], w)
      /\ \A w \in Vertex : /\ Eats(stack'[t], w) <=> w = v
                           /\ ~Stops(stack'[t], w) /\ ~Accepts(stack'[t], w)
                           /\ ~Ends(stack'[t], w) /\ ~Replies(stack'[t], w) /\ ~Stray(stack'[t], w)
  BY <1>2, <1>5, <1>7, <1>8 DEF HasNoTask, Eats, Stops, Accepts, Ends, Replies, Stray
<1>10. LessBase(t) BY <1>9 DEF LessBase, EndsAt, RepliesAt, StrayAt
<1>11. \A w \in Vertex : NListed(w)' = NListed(w) /\ NAccepting(w)' = NAccepting(w)
  <2> SUFFICES ASSUME NEW w \in Vertex
               PROVE  NListed(w)' = NListed(w) /\ NAccepting(w)' = NAccepting(w) OBVIOUS
  <2>1. Keeps(stack[t], stack'[t]) BY <1>2, <1>7, <1>8
  <2>2. /\ NListed(w)' = NListed(w)
        /\ NAccepting(w)' = NAccepting(w) - One(Accepts(stack[t], w)) + One(Accepts(stack'[t], w))
    BY <1>8, <2>1, StacksCount
  <2>3. One(Accepts(stack[t], w)) = 0 /\ One(Accepts(stack'[t], w)) = 0 BY <1>9 DEF One
  <2> QED BY <2>2, <2>3, CountsNow
<1> QED BY <1>8, <1>9, <1>10, <1>11

LEMMA HandleUpKeeps ==
  ASSUME IInv, NoWrap, NEW t \in Thread, HandleUp(t)
  PROVE  IInv'
<1>1. PICK r \in Mirror : \E i \in DOMAIN up[r] :
        /\ HandlerAt(t, Master(r[2]))
        /\ up' = [up EXCEPT ![r] = Without(@, i)]
        /\ \/ up[r][i].op = "ready" /\ SignalReady(t, r[2], << >>)
           \/ /\ up[r][i].op = "cancel"
              /\ \/ /\ Granted(r[2], up[r][i].lockid) /\ phil' = OneMore(r[2])
                    /\ Sent1(down, down', r, [op |-> "accept"])
                 \/ phil' = phil /\ down' = down
              /\ stack' = stack
        /\ fork' = fork /\ lock' = lock /\ scatter' = scatter /\ awaited' = awaited
        /\ client' = client /\ meals' = meals BY DEF HandleUp, Sent1
<1>13. PICK i \in DOMAIN up[r] :
        /\ HandlerAt(t, Master(r[2]))
        /\ up' = [up EXCEPT ![r] = Without(@, i)]
        /\ \/ up[r][i].op = "ready" /\ SignalReady(t, r[2], << >>)
           \/ /\ up[r][i].op = "cancel"
              /\ \/ /\ Granted(r[2], up[r][i].lockid) /\ phil' = OneMore(r[2])
                    /\ Sent1(down, down', r, [op |-> "accept"])
                 \/ phil' = phil /\ down' = down
              /\ stack' = stack
        /\ fork' = fork /\ lock' = lock /\ scatter' = scatter /\ awaited' = awaited
        /\ client' = client /\ meals' = meals BY <1>1
<1>2. PICK v : v = r[2] OBVIOUS
<1>3. /\ FineStacks /\ Mailboxes(up) /\ Mailboxes(down) /\ Counted /\ TypeOK BY Invariant
<1>4. r \in Replica /\ v \in Vertex /\ up[r] \in Seq(Message) /\ Master(v) \in Replica
  BY <1>2, <1>3, SetFacts DEF Mailboxes
<1>6. PICK m : m = up[r][i] OBVIOUS
<1>7. Taken1(up, up', r, i) BY <1>13 DEF Taken1
<1>8. Mailboxes(up') /\ \A w \in Vertex : NReady(w)' = NReady(w) - One(r[2] = w /\ up[r][i].op = "ready")
  <2>1. \A w \in Vertex : Mailboxes(up') /\ NReady(w)' = NReady(w) - One(r[2] = w /\ up[r][i].op = "ready")
    BY <1>3, <1>7, UpTaken
  <2> QED BY <1>4, <2>1
<1>9. stack[t] = << >> /\ t[1] = Owner[v] BY <1>13, <1>2, <1>4, HandlerIdle DEF Master
<1>10. /\ lock' \in LockSet /\ scatter' \subseteq Mirror /\ awaited' \subseteq Mirror
       /\ client' \in ClientSet /\ meals' \in [Vertex -> Nat] /\ \A w \in Vertex : meals'[w] <= MaxMeals[w]
  BY <1>13, Invariant
<1>11. CASE m.op = "ready" /\ SignalReady(t, v, << >>)
  <2>1. NReady(v) # 0 BY <1>2, <1>3, <1>6, <1>11, NMailFacts
  <2>2. PICK left : left = (Counter(v) - 1) % 256 OBVIOUS
  <2>3. Counter(v) \in 1 .. 255 /\ left = Counter(v) - 1 BY <1>4, <2>1, <2>2, MasterHears
  <2>4. left \in 0 .. 255 BY <2>3
  <2>5. /\ phil' = SetCounter(phil, Master(v), left)
        /\ \/ /\ left = 0 /\ SentToAll(down, down', v, [op |-> "eat"])
              /\ Become(t, <<Call("eat", v)>> \o << >>)
           \/ left # 0 /\ Become(t, Return(<< >>)) /\ down' = down
    BY <1>11, <2>2 DEF SignalReady, Broadcast, SentToAll, SetCounter, Counter
  <2>6. /\ CountersOnly /\ Counter(v)' = left
        /\ \A w \in Vertex : w # v => Counter(w)' = Counter(w) BY <1>13, <1>4, <2>4, <2>5, CounterBecomes
  <2>7. ForksFine' /\ AcquiredCounts' /\ fork' \in ForkSet /\ phil' \in PhilSet
    BY <1>13, <2>6, CountersOnlyKeeps DEF CountersOnly
  <2>8. /\ FineStacks' /\ \A w \in Vertex : NListed(w)' = NListed(w) /\ NAccepting(w)' = NAccepting(w)
        /\ Tasks' /\ Held'
        /\ \A q \in Replica : Waiting(q)' => Waiting(q)
        /\ Mailboxes(down') /\ \A w \in Vertex : NCalls(w)' = NCalls(w)
    <3>1. CASE /\ left = 0 /\ SentToAll(down, down', v, [op |-> "eat"])
               /\ Become(t, <<Call("eat", v)>> \o << >>)
      <4>1. Become(t, <<Call("eat", v)>>) BY <3>1
      <4>2. /\ FineStacks' /\ \A u \in Thread \ {t} : stack'[u] = stack[u]
            /\ \A u \in Thread : u # t => SameRoles(u)
            /\ LessBase(t) /\ PlainAt(t)
            /\ \A w \in Vertex : /\ Eats(stack'[t], w) <=> w = v
                                 /\ ~Stops(stack'[t], w) /\ ~Accepts(stack'[t], w)
            /\ \A w \in Vertex : NListed(w)' = NListed(w) /\ NAccepting(w)' = NAccepting(w)
        BY <1>13, <1>2, <1>4, <4>1, HandlerWins
      <4>3. Counter(v) = 1 BY <2>3, <3>1
      <4>4. phil' = SetCounter(phil, Master(v), 0) /\ SentToAll(down, down', v, [op |-> "eat"])
        BY <2>5, <3>1
      <4>5. /\ Tasks' /\ Held'
            /\ \A q \in Replica : Waiting(q)' => Waiting(q)
            /\ Mailboxes(down') /\ \A w \in Vertex : NCalls(w)' = NCalls(w)
        BY <1>13, <1>4, <1>9, <2>1, <4>2, <4>3, <4>4, MasterHeardAll
      <4> QED BY <4>2, <4>5
    <3>2. CASE left # 0 /\ Become(t, Return(<< >>)) /\ down' = down
      <4>1. stack' = stack BY <1>3, <1>9, <3>2 DEF Return, Become, FineStacks
      <4>2. /\ QuietStack(t) /\ FineStacks'
            /\ \A w \in Vertex : NListed(w)' = NListed(w) /\ NAccepting(w)' = NAccepting(w)
        BY <1>9, <4>1, StackStill
      <4>3. Mailboxes(down') /\ \A q \in Mirror : \A op : Sent(q, op)' <=> Sent(q, op)
        BY <1>3, <3>2, SentSame, SetFacts
      <4>5. \A w \in Vertex : Counter(w)' = 0 <=> Counter(w) = 0
        <5>1. Counter(v)' # 0 BY <2>6, <3>2
        <5>2. Counter(v) # 0 BY <2>3
        <5> QED BY <2>6, <5>1, <5>2
      <4>6. Tasks' /\ Held' /\ \A q \in Replica : Waiting(q)' => Waiting(q)
        BY <1>13, <2>6, <4>2, <4>3, <4>5, QuietKeeps DEF OnlyAccepts
      <4>7. \A w \in Vertex : NCalls(w)' = NCalls(w) BY <3>2, MailSame
      <4> QED BY <4>2, <4>3, <4>6, <4>7
    <3> QED BY <2>5, <3>1, <3>2
  <2>9. Counted'
    <3> SUFFICES ASSUME NEW w \in Vertex
                 PROVE  NWaiting(w)' + NCalls(w)' + NReady(w)' + NAccepting(w)' + NListed(w)' <= Counter(w)'
      BY CountedNext
    <3>1. NReady(w)' = NReady(w) - One(w = v) BY <1>2, <1>6, <1>8, <1>11 DEF One
    <3>2. Counter(w)' = Counter(w) - One(w = v) BY <2>3, <2>6, CountsNow DEF One
    <3>3. One(w = v) \in {0, 1} BY DEF One
    <3>4. /\ NWaiting(w) + NCalls(w) + NReady(w) + NAccepting(w) + NListed(w) <= Counter(w)
          /\ NWaiting(w) \in Nat /\ NCalls(w) \in Nat /\ NReady(w) \in Nat
          /\ NAccepting(w) \in Nat /\ NListed(w) \in Nat /\ Counter(w) \in 0 .. 255 BY CountsNow
    <3>5. /\ NCalls(w)' = NCalls(w)
          /\ NListed(w)' = NListed(w) /\ NAccepting(w)' = NAccepting(w) BY <2>8
    <3>6. NWaiting(w)' <= NWaiting(w) /\ NWaiting(w)' \in Nat BY <2>8, WaitingLess
    <3> QED BY <3>1, <3>2, <3>3, <3>4, <3>5, <3>6
  <2> QED BY <1>8, <1>10, <2>7, <2>8, <2>9, PartsNext
<1>12. CASE /\ m.op = "cancel" /\ stack' = stack
            /\ \/ /\ Granted(v, m.lockid) /\ phil' = OneMore(v)
                  /\ Sent1(down, down', r, [op |-> "accept"])
               \/ phil' = phil /\ down' = down
  <2>1. /\ QuietStack(t) /\ FineStacks'
        /\ \A w \in Vertex : NListed(w)' = NListed(w) /\ NAccepting(w)' = NAccepting(w)
    BY <1>9, <1>12, StackStill
  <2>2. PICK b : b = ~(phil' = phil /\ down' = down) OBVIOUS
  <2>3. /\ CountersOnly /\ \A w \in Vertex : Counter(w)' = Counter(w) + One(w = v /\ b)
        /\ \A w \in Vertex : Counter(w)' = 0 <=> Counter(w) = 0
        /\ Mailboxes(down')
        /\ \A q \in Mirror : \A op : /\ Sent(q, op) => Sent(q, op)'
                                     /\ op # "accept" => (Sent(q, op)' => Sent(q, op))
        /\ \A w \in Vertex : NCalls(w)' = NCalls(w) + One(w = v /\ b)
    <3>1. CASE ~b
      <4>1. phil' = phil /\ down' = down BY <2>2, <3>1
      <4>2. CountersOnly /\ \A w \in Vertex : Counter(w)' = Counter(w) BY <1>13, <4>1, CountersStill
      <4>3. Mailboxes(down') /\ \A q \in Mirror : \A op : Sent(q, op)' <=> Sent(q, op)
        BY <1>3, <4>1, SentSame, SetFacts
      <4>4. \A w \in Vertex : NCalls(w)' = NCalls(w) BY <4>1, MailSame
      <4>5. \A w \in Vertex : One(w = v /\ b) = 0 BY <3>1 DEF One
      <4>6. \A w \in Vertex : Counter(w) \in Nat /\ NCalls(w) \in Nat BY CountsNow
      <4> QED BY <4>2, <4>3, <4>4, <4>5, <4>6
    <3>2. CASE b
      <4> DEFINE a == [op |-> "accept"]
      <4>1. Granted(v, m.lockid) /\ phil' = OneMore(v) /\ Sent1(down, down', r, a) BY <1>12, <2>2, <3>2
      <4>2. Counter(v) > 0 BY <4>1 DEF Granted, Counter
      <4>3. /\ CountersOnly /\ Counter(v)' = Counter(v) + 1
            /\ \A w \in Vertex : Counter(w)' = 0 <=> Counter(w) = 0
            /\ \A w \in Vertex : w # v => Counter(w)' = Counter(w)
        BY <1>13, <1>4, <4>1, <4>2, OneMoreCounts
      <4>4. a \in Message /\ a.op = "accept" BY DEF Message
      <4> HIDE DEF a
      <4>5. /\ Mailboxes(down')
            /\ \A q \in Mirror : \A op : /\ Sent(q, op) => Sent(q, op)'
                                         /\ op # "accept" => (Sent(q, op)' => Sent(q, op))
            /\ \A w \in Vertex : NCalls(w)' = NCalls(w) + One(r[2] = w) BY <1>3, <4>1, <4>4, DownSent
      <4>6. \A w \in Vertex : One(w = v /\ b) = One(r[2] = w) BY <1>2, <3>2 DEF One
      <4>7. \A w \in Vertex : Counter(w)' = Counter(w) + One(w = v /\ b) BY <3>2, <4>3, CountsNow DEF One
      <4> QED BY <4>3, <4>5, <4>6, <4>7
    <3> QED BY <2>2, <3>1, <3>2
  <2>4. Tasks' /\ Held' /\ \A q \in Replica : Waiting(q)' => Waiting(q)
    <3>1. CountersOnly /\ \A w \in Vertex : Counter(w)' = 0 <=> Counter(w) = 0 BY <2>3
    <3>2. OnlyAccepts BY <2>3 DEF OnlyAccepts
    <3>3. UNCHANGED <<scatter, awaited, client>> BY <1>13
    <3> QED BY <2>1, <3>1, <3>2, <3>3, QuietKeeps
  <2>5. ForksFine' /\ AcquiredCounts' /\ fork' \in ForkSet /\ phil' \in PhilSet
    BY <1>13, <2>3, CountersOnlyKeeps DEF CountersOnly
  <2>6. Counted'
    <3> SUFFICES ASSUME NEW w \in Vertex
                 PROVE  NWaiting(w)' + NCalls(w)' + NReady(w)' + NAccepting(w)' + NListed(w)' <= Counter(w)'
      BY CountedNext
    <3>1. NReady(w)' = NReady(w)
      <4>1. One(r[2] = w /\ up[r][i].op = "ready") = 0 BY <1>6, <1>12 DEF One
      <4> QED BY <1>8, <4>1, CountsNow
    <3>2. One(w = v /\ b) \in {0, 1} BY DEF One
    <3>3. /\ NWaiting(w) + NCalls(w) + NReady(w) + NAccepting(w) + NListed(w) <= Counter(w)
          /\ NWaiting(w) \in Nat /\ NCalls(w) \in Nat /\ NReady(w) \in Nat
          /\ NAccepting(w) \in Nat /\ NListed(w) \in Nat /\ Counter(w) \in 0 .. 255 BY CountsNow
    <3>5. NWaiting(w)' <= NWaiting(w) /\ NWaiting(w)' \in Nat BY <2>4, WaitingLess
    <3>4. /\ NCalls(w)' = NCalls(w) + One(w = v /\ b)
          /\ NListed(w)' = NListed(w) /\ NAccepting(w)' = NAccepting(w)
          /\ Counter(w)' = Counter(w) + One(w = v /\ b) BY <2>1, <2>3
    <3> QED BY <3>1, <3>2, <3>3, <3>4, <3>5
  <2> QED BY <1>8, <1>10, <2>1, <2>3, <2>4, <2>5, <2>6, PartsNext
<1> QED BY <1>13, <1>2, <1>6, <1>11, <1>12

\* A handler on a mirror's machine starts with what the master asks for.
LEMMA HandlerStarts ==
  ASSUME IInv, NEW t \in Thread, NEW r \in Mirror, HandlerAt(t, r),
         NEW f \in Frame, WellPlaced(t[1], f), ReadyIn(f) = << >>, f.v = r[2],
         f.op \in {"grab", "accept", "stop", "eat"}, f.op # "eat" => f.at = "lock",
         Become(t, <<f>>)
  PROVE  /\ FineStacks' /\ \A u \in Thread \ {t} : stack'[u] = stack[u]
         /\ \A u \in Thread : u # t => SameRoles(u)
         /\ HasNoTask(t) /\ t[1] = r[1]
         /\ \A q \in Replica : /\ EatsAt(t, q)' <=> q = r /\ f.op = "eat"
                               /\ StopsAt(t, q)' <=> q = r /\ f.op = "stop"
                               /\ AcceptsAt(t, q)' <=> q = r /\ f.op = "accept"
         /\ \A v \in Vertex : ~EndsAt(t, v)' /\ ~RepliesAt(t, v)' /\ (StrayAt(t, v)' <=> v = r[2] /\ f.op = "stop")
         /\ \A w \in Vertex : /\ NListed(w)' = NListed(w)
                              /\ NAccepting(w)' = NAccepting(w) + One(w = r[2] /\ f.op = "accept")
<1>1. r \in Replica /\ r[2] \in Vertex BY SetFacts
<1>2. stack[t] = << >> /\ t[1] = r[1] /\ HasNoTask(t) BY <1>1, HandlerIdle
<1>3. FineStacks /\ t[1] \in Machine BY Invariant, SetFacts
<1>4. PICK s2 : s2 = <<f>> OBVIOUS
<1>5. Fine(t[1], s2) /\ Keeps(<< >>, s2) /\ s2 # << >> /\ s2[1] = f /\ Depth(s2) = 1
  BY <1>3, <1>4, StartsWithOne
<1>6. /\ FineStacks' /\ stack'[t] = s2
      /\ \A u \in Thread \ {t} : stack'[u] = stack[u]
      /\ \A u \in Thread : u # t => SameRoles(u) BY <1>3, <1>4, <1>5, Becomes
<1>7. \A w \in Vertex : /\ ~Accepts(stack[t], w)
                        /\ Eats(stack'[t], w) <=> w = r[2] /\ f.op = "eat"
                        /\ Stops(stack'[t], w) <=> w = r[2] /\ f.op = "stop"
                        /\ Accepts(stack'[t], w) <=> w = r[2] /\ f.op = "accept"
                        /\ ~Ends(stack'[t], w) /\ ~Replies(stack'[t], w)
                        /\ Stray(stack'[t], w) <=> w = r[2] /\ f.op = "stop"
  BY <1>2, <1>5, <1>6 DEF Eats, Stops, Accepts, Ends, Replies, Stray
<1>9. \A q \in Replica : /\ EatsAt(t, q)' <=> q = r /\ f.op = "eat"
                         /\ StopsAt(t, q)' <=> q = r /\ f.op = "stop"
                         /\ AcceptsAt(t, q)' <=> q = r /\ f.op = "accept"
  <2> SUFFICES ASSUME NEW q \in Replica
               PROVE  /\ EatsAt(t, q)' <=> q = r /\ f.op = "eat"
                      /\ StopsAt(t, q)' <=> q = r /\ f.op = "stop"
                      /\ AcceptsAt(t, q)' <=> q = r /\ f.op = "accept" OBVIOUS
  <2>1. q[2] \in Vertex /\ (q = r <=> q[1] = r[1] /\ q[2] = r[2]) BY <1>1, SetFacts
  <2> QED BY <1>2, <1>7, <2>1 DEF EatsAt, StopsAt, AcceptsAt
<1>10. \A v \in Vertex : ~EndsAt(t, v)' /\ ~RepliesAt(t, v)' /\ (StrayAt(t, v)' <=> v = r[2] /\ f.op = "stop")
  BY <1>7 DEF EndsAt, RepliesAt, StrayAt
<1>11. \A w \in Vertex : /\ NListed(w)' = NListed(w)
                         /\ NAccepting(w)' = NAccepting(w) + One(w = r[2] /\ f.op = "accept")
  <2> SUFFICES ASSUME NEW w \in Vertex
               PROVE  /\ NListed(w)' = NListed(w)
                      /\ NAccepting(w)' = NAccepting(w) + One(w = r[2] /\ f.op = "accept") OBVIOUS
  <2>1. Keeps(stack[t], stack'[t]) BY <1>2, <1>5, <1>6
  <2>2. /\ NListed(w)' = NListed(w)
        /\ NAccepting(w)' = NAccepting(w) - One(Accepts(stack[t], w)) + One(Accepts(stack'[t], w))
    BY <1>6, <2>1, StacksCount
  <2>3. One(Accepts(stack[t], w)) = 0 /\ One(Accepts(stack'[t], w)) = One(w = r[2] /\ f.op = "accept")
    BY <1>7 DEF One
  <2>4. NAccepting(w) \in Nat /\ One(w = r[2] /\ f.op = "accept") \in {0, 1} BY CountsNow DEF One
  <2> QED BY <2>2, <2>3, <2>4
<1> QED BY <1>2, <1>6, <1>9, <1>10, <1>11

LEMMA HandleDownKeeps ==
  ASSUME IInv, NEW t \in Thread, HandleDown(t)
  PROVE  IInv'
<1>1. PICK r \in Mirror : \E i \in DOMAIN down[r] :
        /\ HandlerAt(t, r)
        /\ down' = [down EXCEPT ![r] = Without(@, i)]
        /\ \/ /\ down[r][i].op = "hungry"
              /\ phil' = SetLockid(SetState(phil, r, "hungry"), r, down[r][i].lockid)
              /\ Become(t, <<Loop("grab", r)>>)
           \/ /\ down[r][i].op = "eat"
              /\ Become(t, <<Call("eat", r[2])>>) /\ phil' = phil
           \/ /\ down[r][i].op \in {"accept", "stop"}
              /\ Become(t, <<Loop(down[r][i].op, r)>>) /\ phil' = phil
        /\ fork' = fork /\ lock' = lock /\ up' = up /\ scatter' = scatter /\ awaited' = awaited
        /\ client' = client /\ meals' = meals BY DEF HandleDown, SetLockid, SetState
<1>2. PICK i \in DOMAIN down[r] :
        /\ HandlerAt(t, r)
        /\ down' = [down EXCEPT ![r] = Without(@, i)]
        /\ \/ /\ down[r][i].op = "hungry"
              /\ phil' = SetLockid(SetState(phil, r, "hungry"), r, down[r][i].lockid)
              /\ Become(t, <<Loop("grab", r)>>)
           \/ /\ down[r][i].op = "eat"
              /\ Become(t, <<Call("eat", r[2])>>) /\ phil' = phil
           \/ /\ down[r][i].op \in {"accept", "stop"}
              /\ Become(t, <<Loop(down[r][i].op, r)>>) /\ phil' = phil
        /\ fork' = fork /\ lock' = lock /\ up' = up /\ scatter' = scatter /\ awaited' = awaited
        /\ client' = client /\ meals' = meals BY <1>1
<1>3. /\ Tasks /\ Held /\ phil \in PhilSet
      /\ Mailboxes(down) /\ NothingOwed /\ AcquiredCounts /\ ForksFine /\ fork \in ForkSet BY Invariant
<1>4. r \in Replica /\ r[2] \in Vertex /\ down[r] \in Seq(Message) /\ <<r[1], r[2]>> \in Replica
  BY <1>3, SetFacts DEF Mailboxes
<1>6. PICK m : m = down[r][i] OBVIOUS
<1>7. PICK op : op = m.op OBVIOUS
<1>8. Taken1(down, down', r, i) BY <1>2 DEF Taken1
<1>9. /\ Mailboxes(down') /\ m \in Message /\ Sent(r, op) /\ op \in {"eat", "stop", "hungry", "accept"}
      /\ \A q \in Mirror : q # r => \A o : Sent(q, o)' <=> Sent(q, o)
      /\ \A o : Sent(r, o)' => Sent(r, o)
      /\ \A o : Sent(r, o) => Sent(r, o)' \/ o = op
      /\ \A v \in Vertex : NCalls(v)' = NCalls(v) - One(r[2] = v /\ op \in {"hungry", "accept"})
  <2>1. op \in {"eat", "stop", "hungry", "accept"} BY <1>2, <1>6, <1>7
  <2>2. /\ Mailboxes(down') /\ m \in Message /\ Sent(r, m.op)
        /\ \A q \in Mirror : \A o : q # r => (Sent(q, o)' <=> Sent(q, o))
        /\ \A q \in Replica : \A o : Sent(q, o)' => Sent(q, o)
        /\ \A o : Sent(r, o) => Sent(r, o)' \/ o = m.op
        /\ \A v \in Vertex : NCalls(v)' = NCalls(v) - One(r[2] = v /\ m.op \in {"hungry", "accept"})
    BY <1>3, <1>6, <1>8, DownTaken
  <2> QED BY <1>4, <1>7, <2>1, <2>2
<1>10. t[1] = r[1] BY <1>2 DEF HandlerAt
<1>11. PICK f : /\ f \in Frame /\ WellPlaced(t[1], f) /\ ReadyIn(f) = << >> /\ f.v = r[2]
                /\ f.op = IF op = "hungry" THEN "grab" ELSE op
                /\ f.op # "eat" => f.at = "lock"
                /\ Become(t, <<f>>)
  <2>1. CASE op = "hungry" /\ Become(t, <<Loop("grab", r)>>)
    <3>1. "grab" \in LoopOps BY DEF LoopOps
    <3> QED BY <1>4, <1>10, <2>1, <3>1, LoopIs
  <2>2. CASE op = "eat" /\ Become(t, <<Call("eat", r[2])>>)
    <3>1. PICK c : c = Call("eat", r[2]) OBVIOUS
    <3>2. c \in Frame /\ c.op = "eat" /\ c.v = r[2] /\ ReadyIn(c) = << >> /\ WellPlaced(t[1], c)
      BY <1>4, <1>10, <3>1, CallIs
    <3> QED BY <2>2, <3>1, <3>2
  <2>3. CASE op \in {"accept", "stop"} /\ Become(t, <<Loop(op, r)>>)
    <3>1. op \in LoopOps BY <2>3 DEF LoopOps
    <3> QED BY <1>4, <1>10, <2>3, <3>1, LoopIs
  <2> QED BY <1>2, <1>6, <1>7, <2>1, <2>2, <2>3
<1>12. /\ FineStacks' /\ \A u \in Thread \ {t} : stack'[u] = stack[u]
       /\ \A u \in Thread : u # t => SameRoles(u)
       /\ HasNoTask(t)
       /\ \A q \in Replica : /\ EatsAt(t, q)' <=> q = r /\ op = "eat"
                             /\ StopsAt(t, q)' <=> q = r /\ op = "stop"
                             /\ AcceptsAt(t, q)' <=> q = r /\ op = "accept"
       /\ \A v \in Vertex : ~EndsAt(t, v)' /\ ~RepliesAt(t, v)' /\ (StrayAt(t, v)' <=> v = r[2] /\ op = "stop")
       /\ \A w \in Vertex : /\ NListed(w)' = NListed(w)
                            /\ NAccepting(w)' = NAccepting(w) + One(w = r[2] /\ op = "accept")
  <2>1. f.op \in {"grab", "accept", "stop", "eat"} BY <1>9, <1>11
  <2>2. /\ f.op = "eat" <=> op = "eat"
        /\ f.op = "stop" <=> op = "stop"
        /\ f.op = "accept" <=> op = "accept" BY <1>9, <1>11
  <2>3. /\ FineStacks' /\ \A u \in Thread \ {t} : stack'[u] = stack[u]
        /\ \A u \in Thread : u # t => SameRoles(u)
        /\ HasNoTask(t) /\ t[1] = r[1]
        /\ \A q \in Replica : /\ EatsAt(t, q)' <=> q = r /\ f.op = "eat"
                              /\ StopsAt(t, q)' <=> q = r /\ f.op = "stop"
                              /\ AcceptsAt(t, q)' <=> q = r /\ f.op = "accept"
        /\ \A v \in Vertex : ~EndsAt(t, v)' /\ ~RepliesAt(t, v)' /\ (StrayAt(t, v)' <=> v = r[2] /\ f.op = "stop")
        /\ \A w \in Vertex : /\ NListed(w)' = NListed(w)
                             /\ NAccepting(w)' = NAccepting(w) + One(w = r[2] /\ f.op = "accept")
    BY <1>2, <1>11, <2>1, HandlerStarts
  <2>4. \A w \in Vertex : One(w = r[2] /\ f.op = "accept") = One(w = r[2] /\ op = "accept")
    BY <2>2 DEF One
  <2> QED BY <2>2, <2>3, <2>4
<1>13. /\ phil' \in PhilSet /\ St(r)' = IF op = "hungry" THEN "hungry" ELSE St(r)
       /\ \A z \in Replica : /\ z # r => St(z)' = St(z)
                             /\ phil'[z].counter = phil[z].counter
                             /\ phil'[z].forks_acquired = phil[z].forks_acquired
  <2>1. CASE op = "hungry" /\ phil' = SetLockid(SetState(phil, r, "hungry"), r, m.lockid)
    <3> DEFINE p == SetState(phil, r, "hungry")
    <3>1. "hungry" \in State /\ m.lockid \in BOOLEAN BY <1>7, <1>9, <2>1, MessageKinds DEF State
    <3>2. phil' = SetLockid(p, r, m.lockid) BY <2>1
    <3> HIDE DEF p
    <3>3. OnlyAt(phil, p, r) /\ Fields(p[r], "hungry", phil[r].forks_acquired, phil[r].counter,
                                       phil[r].cancellation_sent, phil[r].lockid)
      BY <1>3, <1>4, <3>1, PhilFields DEF p
    <3>4. p \in PhilSet BY <3>3 DEF OnlyAt
    <3>5. OnlyAt(p, phil', r) /\ Fields(phil'[r], p[r].state, p[r].forks_acquired, p[r].counter,
                                        p[r].cancellation_sent, m.lockid)
      BY <1>4, <3>1, <3>2, <3>4, PhilFields
    <3> QED BY <2>1, <3>3, <3>5 DEF OnlyAt, Fields, St
  <2>2. CASE op # "hungry" /\ phil' = phil BY <1>3, <2>2 DEF St
  <2> QED BY <1>2, <1>6, <1>7, <2>1, <2>2
<1>14. AcquiredCounts' /\ \A z \in Replica : Owns(z)' <=> Owns(z)
  <2>1. \A z \in Replica : Acq(z)' = Acq(z) BY <1>13 DEF Acq
  <2> QED BY <1>2, <1>3, <2>1, AcquiredKept
<1>15. ForksFine' BY <1>2, ForksFineSame
<1>16. \A v \in Vertex : Counter(v)' = Counter(v) BY <1>13, SetFacts DEF Counter
<1>17. TakesCall(t, r, op) BY <1>2, <1>9, <1>10, <1>12, <1>13, <1>14, <1>16 DEF TakesCall
<1>18. /\ Tasks' /\ Held'
       /\ \A q \in Replica : Waiting(q)' => Waiting(q) \/ (q = r /\ op = "hungry")
  BY <1>3, <1>17, CallKeepsTasks, CallKeepsHeld
<1>19. Counted'
  <2> SUFFICES ASSUME NEW w \in Vertex
               PROVE  NWaiting(w)' + NCalls(w)' + NReady(w)' + NAccepting(w)' + NListed(w)' <= Counter(w)'
    BY CountedNext
  <2>1. /\ NWaiting(w) + NCalls(w) + NReady(w) + NAccepting(w) + NListed(w) <= Counter(w)
        /\ NWaiting(w) \in Nat /\ NCalls(w) \in Nat /\ NReady(w) \in Nat
        /\ NAccepting(w) \in Nat /\ NListed(w) \in Nat /\ Counter(w) \in 0 .. 255 BY CountsNow
  <2>2. /\ NWaiting(w)' \in Nat
        /\ NWaiting(w)' <= NWaiting(w) - One(r[2] = w /\ Waiting(r)) + One(r[2] = w /\ Waiting(r)')
    BY <1>4, <1>18, WaitingAt
  <2>3. NWaiting(w)' <= NWaiting(w) + One(r[2] = w /\ op = "hungry")
    BY <1>4, <1>18, <2>1, <2>2 DEF One
  <2>4. One(r[2] = w /\ op \in {"hungry", "accept"}) = One(r[2] = w /\ op = "hungry") + One(w = r[2] /\ op = "accept")
    BY DEF One
  <2>5. One(r[2] = w /\ op = "hungry") \in {0, 1} /\ One(w = r[2] /\ op = "accept") \in {0, 1} BY DEF One
  <2>6. /\ NCalls(w)' = NCalls(w) - One(r[2] = w /\ op \in {"hungry", "accept"})
        /\ NListed(w)' = NListed(w)
        /\ NAccepting(w)' = NAccepting(w) + One(w = r[2] /\ op = "accept")
        /\ Counter(w)' = Counter(w) BY <1>9, <1>12, <1>16
  <2>7. NReady(w)' = NReady(w) BY <1>2, MailSame
  <2> QED BY <2>1, <2>2, <2>3, <2>4, <2>5, <2>6, <2>7
<1>20. /\ lock' \in LockSet /\ Mailboxes(up') /\ scatter' \subseteq Mirror /\ awaited' \subseteq Mirror
       /\ fork' \in ForkSet /\ client' \in ClientSet /\ meals' \in [Vertex -> Nat]
       /\ \A w \in Vertex : meals'[w] <= MaxMeals[w] BY <1>2, Invariant
<1> QED BY <1>9, <1>12, <1>13, <1>14, <1>15, <1>18, <1>19, <1>20, PartsNext

(* Nothing happens.                                                        *)

LEMMA StillCounts ==
  ASSUME IInv, UNCHANGED vars, NEW v \in Vertex
  PROVE  /\ NCalls(v)' = NCalls(v) /\ NReady(v)' = NReady(v)
         /\ NListed(v)' = NListed(v) /\ NAccepting(v)' = NAccepting(v)
<1>1. stack' = stack /\ down' = down /\ up' = up BY DEF vars, calls
<1>2. NCalls(v)' = NCalls(v) /\ NReady(v)' = NReady(v) BY <1>1, MailSame
<1>3. Listed' = Listed BY <1>1, ListedIs, ListedPrime
<1>4. NListed(v)' = NListed(v) BY <1>3 DEF NListed, Places
<1>5. CASE Thread = {} BY <1>5, <1>2, <1>4 DEF Accepting, NAccepting
<1>6. CASE Thread # {}
  <2>1. PICK t : t \in Thread BY <1>6
  <2>2. \A u \in Thread \ {t} : stack'[u] = stack[u] BY <1>1
  <2>3. /\ NAccepting(v) \in Nat
        /\ NAccepting(v)' = NAccepting(v) - One(Accepts(stack[t], v)) + One(Accepts(stack'[t], v))
    BY <2>1, <2>2, AcceptingAt
  <2>4. One(Accepts(stack'[t], v)) = One(Accepts(stack[t], v)) /\ One(Accepts(stack[t], v)) \in Nat
    BY <1>1 DEF One
  <2>5. NAccepting(v)' = NAccepting(v) BY <2>3, <2>4
  <2> QED BY <1>2, <1>4, <2>5
<1> QED BY <1>5, <1>6

LEMMA StillRoles ==
  ASSUME IInv, UNCHANGED vars
  PROVE  Tasks' /\ Held' /\ \A q \in Replica : Waiting(q)' => Waiting(q)
<1>1. \A u \in Thread : SameRoles(u)
  BY DEF SameRoles, EatsAt, StopsAt, AcceptsAt, EndsAt, RepliesAt, StrayAt, vars
<1>2. \A u \in Thread, r \in Replica : /\ EatsAt(u, r)' <=> EatsAt(u, r)
                                       /\ StopsAt(u, r)' <=> StopsAt(u, r)
                                       /\ AcceptsAt(u, r)' <=> AcceptsAt(u, r) BY <1>1 DEF SameRoles
<1>3. \A u \in Thread, v \in Vertex : /\ EndsAt(u, v)' <=> EndsAt(u, v)
                                      /\ RepliesAt(u, v)' <=> RepliesAt(u, v)
                                      /\ StrayAt(u, v)' <=> StrayAt(u, v) BY <1>1 DEF SameRoles
<1>4. /\ \A r \in Replica : \A op : Sent(r, op)' <=> Sent(r, op)
      /\ client' = client /\ scatter' = scatter /\ awaited' = awaited BY SentSame DEF vars, calls
<1>5. /\ \A r \in Replica : St(r)' = St(r) /\ (Owns(r)' <=> Owns(r))
      /\ \A v \in Vertex : Counter(v)' = Counter(v) BY LocksStill DEF vars
<1>6. /\ \A v \in Vertex : Master(v) \in Replica
      /\ \A r \in Mirror : r \in Replica
      /\ \A r \in Replica : r[2] \in Vertex BY SetFacts
<1>7. \A v \in Vertex : Winning(v)' <=> Winning(v) BY <1>2, <1>6 DEF Winning
<1>8. \A r \in Replica : HasAll(r)' <=> HasAll(r) BY <1>5 DEF HasAll
<1>9. \A r \in Replica : Bound(r)' <=> Bound(r) BY <1>2, <1>4 DEF Bound
<1>10. Tasks /\ Held BY Invariant
<1>11. Tasks'
  <2>1. Programs' /\ Winners' /\ Enders'
    BY <1>3, <1>4, <1>5, <1>7, <1>10 DEF Tasks, Programs, Winners, Enders
  <2>2. OneEach' BY <1>2, <1>3, <1>6, <1>10 DEF Tasks, OneEach
  <2>3. Scatters' BY <1>3, <1>4, <1>10 DEF Tasks, Scatters
  <2>4. Grounds' BY <1>2, <1>3, <1>6, <1>10 DEF Tasks, Grounds
  <2>5. Strays' BY <1>3, <1>4, <1>6, <1>10 DEF Tasks, Strays
  <2> QED BY <2>1, <2>2, <2>3, <2>4, <2>5 DEF Tasks
<1>12. Held'
  <2>1. Reaped' <=> Reaped BY DEF Reaped
  <2>2. CASE ~Reaped BY <2>1, <2>2 DEF Held
  <2>3. CASE Reaped
    <3>1. \A r \in Replica : St(r)' = "hors_doeuvre" => Owns(r)' BY <1>5, <1>10, <2>3 DEF Held
    <3>2. \A v \in Vertex : client'[v] = "eating" => St(Master(v))' = "eating"
      <4>1. \A v \in Vertex : client[v] = "eating" => St(Master(v)) = "eating" BY <1>10, <2>3 DEF Held
      <4> QED BY <1>4, <1>5, <1>6, <4>1
    <3>3. \A r \in Replica : Bound(r)' => HasAll(r)' /\ (r = Master(r[2]) => St(r)' = "eating")
      BY <1>5, <1>8, <1>9, <1>10, <2>3 DEF Held
    <3> QED BY <3>1, <3>2, <3>3 DEF Held
  <2> QED BY <2>2, <2>3
<1>13. \A q \in Replica : Waiting(q)' => Waiting(q)
  <2>1. \A q \in Replica : Expecting(q)' <=> Expecting(q) BY <1>2, <1>4 DEF Expecting
  <2>2. \A q \in Replica : Wanting(q)' <=> Wanting(q) BY <1>4 DEF Wanting, Reaped
  <2> QED BY <1>5, <1>8, <2>1, <2>2 DEF Waiting, Lost
<1> QED BY <1>11, <1>12, <1>13

LEMMA StutterKeeps ==
  ASSUME IInv, UNCHANGED vars
  PROVE  IInv'
<1>1. /\ phil' = phil /\ fork' = fork /\ lock' = lock /\ stack' = stack /\ down' = down /\ up' = up
      /\ scatter' = scatter /\ awaited' = awaited /\ client' = client /\ meals' = meals
  BY DEF vars, calls
<1>2. /\ phil \in PhilSet /\ fork \in ForkSet /\ lock \in LockSet /\ FineStacks
      /\ Mailboxes(down) /\ Mailboxes(up) /\ scatter \subseteq Mirror /\ awaited \subseteq Mirror
      /\ client \in ClientSet /\ meals \in [Vertex -> Nat] /\ \A v \in Vertex : meals[v] <= MaxMeals[v]
  BY Invariant
<1>3. FineStacks' BY <1>1, <1>2 DEF FineStacks
<1>4. ForksFine' /\ AcquiredCounts' BY <1>1, LocksStill
<1>5. Tasks' /\ Held' /\ \A q \in Replica : Waiting(q)' => Waiting(q) BY StillRoles
<1>6. Counted'
  <2> SUFFICES ASSUME NEW v \in Vertex
               PROVE  NWaiting(v)' + NCalls(v)' + NReady(v)' + NAccepting(v)' + NListed(v)' <= Counter(v)'
    BY CountedNext
  <2>2. NWaiting(v)' <= NWaiting(v) /\ NWaiting(v)' \in Nat BY <1>5, WaitingLess
  <2>1. Counter(v)' = Counter(v) BY <1>1, LocksStill
  <2>3. /\ NCalls(v)' = NCalls(v) /\ NReady(v)' = NReady(v)
        /\ NListed(v)' = NListed(v) /\ NAccepting(v)' = NAccepting(v) BY StillCounts
  <2> QED BY <2>1, <2>2, <2>3, CountsNow
<1> QED BY <1>1, <1>2, <1>3, <1>4, <1>5, <1>6, PartsNext

(* The beginning.                                                          *)

LEMMA NoPlaces ==
  ASSUME NEW D, NEW q, \A j \in D : q[j] = << >>, DOMAIN q = D, NEW P
  PROVE  Places(q, P) = {} /\ Cardinality(Places(q, P)) = 0
<1>1. \A j \in D : DOMAIN q[j] = {} BY LenProperties, EmptySeq
<1>2. UNION {{j} \X DOMAIN q[j] : j \in DOMAIN q} = {} BY <1>1
<1>3. Places(q, P) = {} BY <1>2 DEF Places
<1> QED BY <1>3, FS_EmptySet

LEMMA InitLocks ==
  ASSUME Init
  PROVE  /\ phil \in PhilSet /\ fork \in ForkSet /\ lock \in LockSet
         /\ ForksFine /\ AcquiredCounts
         /\ \A r \in Replica : St(r) = "thinking" /\ Counter(r[2]) = 0
         /\ \A v \in Vertex : Counter(v) = 0
<1>1. fork \in ForkSet BY EdgeFacts DEF Init, ForkSet, FirstOwner
<1>2. \A e \in Edges : fork[e].owner = FirstOwner(e) /\ fork[e].requests = {} BY DEF Init
<1>3. \A r \in Replica : /\ phil[r].forks_acquired = Cardinality({e \in EdgesAt(r) : FirstOwner(e) = r[2]})
                         /\ phil[r].state = "thinking" /\ phil[r].counter = 0 BY DEF Init
<1>4. \A r \in Replica : {e \in EdgesAt(r) : FirstOwner(e) = r[2]} = Owned(r)
  BY <1>2, EdgeFacts DEF Owned
<1>5. AcquiredCounts BY <1>3, <1>4 DEF AcquiredCounts
<1>6. phil \in PhilSet BY <1>4, OwnedFacts DEF Init, PhilSet, State
<1>7. ForksFine BY <1>2, EdgeFacts DEF ForksFine, FirstOwner
<1>8. \A v \in Vertex : Counter(v) = 0 BY <1>3, SetFacts DEF Counter
<1>9. lock \in LockSet BY DEF Init, LockSet
<1>10. \A r \in Replica : St(r) = "thinking" /\ Counter(r[2]) = 0 BY <1>3, <1>8, SetFacts DEF St
<1> QED BY <1>1, <1>5, <1>6, <1>7, <1>8, <1>9, <1>10

LEMMA InitStacks ==
  ASSUME Init
  PROVE  /\ FineStacks /\ Mailboxes(down) /\ Mailboxes(up)
         /\ \A t \in Thread : stack[t] = << >>
         /\ \A r \in Replica : \A op : ~Sent(r, op)
         /\ \A t \in Thread : HasNoTask(t)
<1>1. \A t \in Thread : stack[t] = << >> BY DEF Init
<1>2. /\ stack \in [Thread -> Seq(Frame)] BY EmptySeq DEF Init
<1>3. << >> \in Seq(Frame) /\ Depth(<< >>) = 0 BY EmptySeq DEF Depth
<1>4. \A t \in Thread : Fine(t[1], stack[t])
  <2> SUFFICES ASSUME NEW t \in Thread
               PROVE  Fine(t[1], stack[t]) OBVIOUS
  <2>1. stack[t] \in Seq(Frame) /\ Depth(stack[t]) = 0 BY <1>1, <1>3
  <2>2. Shaped(stack[t]) BY <2>1 DEF Shaped
  <2>3. Placed(t[1], stack[t]) BY <2>1 DEF Placed
  <2> QED BY <2>1, <2>2, <2>3 DEF Fine
<1>5. Mailboxes(down) /\ Mailboxes(up) BY EmptySeq DEF Init, Mailboxes
<1>6. \A r \in Mirror : down[r] = << >> /\ Len(down[r]) = 0 BY EmptySeq DEF Init
<1>8. \A r \in Replica : \A op : ~Sent(r, op) BY <1>6 DEF Sent, HasOp
<1>9. \A t \in Thread : HasNoTask(t) BY <1>1, NoStackNoTask
<1> QED BY <1>1, <1>2, <1>4, <1>5, <1>8, <1>9 DEF FineStacks

LEMMA InitCounted ==
  ASSUME Init
  PROVE  Counted
<1> SUFFICES ASSUME NEW v \in Vertex
             PROVE  Covered(v) = 0 /\ Counter(v) = 0 BY DEF Counted
<1>1. Counter(v) = 0 /\ \A r \in Replica : St(r) = "thinking" BY InitLocks
<1>2. NWaiting(v) = 0
  <2>1. \A r \in Replica : client[r[2]] = "thinking" BY SetFacts DEF Init
  <2>2. \A r \in Replica : ~Waiting(r) BY <1>1, <2>1 DEF Waiting, Lost, Wanting
  <2>3. WaitingReplicas(v) = {} BY <2>2 DEF WaitingReplicas
  <2> QED BY <2>3, FS_EmptySet DEF NWaiting
<1>3. NCalls(v) = 0 /\ NReady(v) = 0
  <2>1. \A r \in MirrorsOf(v) : down[r] = << >> /\ up[r] = << >> BY SetFacts DEF Init
  <2>2. Mail(down, v, Calling) = 0 /\ Mail(up, v, [op : {"ready"}]) = 0 BY <2>1, NoPlaces DEF Mail
  <2> QED BY <2>2, NMailIs
<1>4. NAccepting(v) = 0 BY InitStacks, AcceptingIs, FS_EmptySet DEF Accepts, NAccepting
<1>5. NListed(v) = 0
  <2>1. \A t \in Thread, n \in 1 .. 3 : Lists(stack[t], n) = << >>
    BY InitStacks, EmptySeq DEF Depth, Lists
  <2>2. \A p \in Thread \X (1 .. 3) : Listed[p] = << >> BY <2>1, ListedIs
  <2>3. DOMAIN Listed = Thread \X (1 .. 3) BY ListedIs
  <2> QED BY <2>2, <2>3, NoPlaces DEF NListed
<1> QED BY <1>1, <1>2, <1>3, <1>4, <1>5 DEF Covered

LEMMA InitInv ==
  ASSUME Init
  PROVE  IInv
<1>1. /\ \A t \in Thread : HasNoTask(t)
      /\ \A r \in Replica : \A op : ~Sent(r, op)
      /\ \A r \in Replica : St(r) = "thinking" /\ Counter(r[2]) = 0
      /\ \A v \in Vertex : Counter(v) = 0 BY InitStacks, InitLocks
<1>2. /\ \A t \in Thread : \A r \in Replica : ~EatsAt(t, r) /\ ~StopsAt(t, r) /\ ~AcceptsAt(t, r)
      /\ \A t \in Thread : \A v \in Vertex : ~EndsAt(t, v) /\ ~RepliesAt(t, v) /\ ~StrayAt(t, v)
  BY <1>1 DEF HasNoTask, PlainAt
<1>3. \A v \in Vertex : client[v] = "thinking" /\ ~Winning(v) BY <1>2, SetFacts DEF Init, Winning
<1>4. awaited = {} /\ scatter = {} BY DEF Init
<1>5. Tasks
  <2>1. Programs /\ Winners /\ Enders BY <1>1, <1>2, <1>3 DEF Programs, Winners, Enders
  <2>2. OneEach BY <1>2, SetFacts DEF OneEach
  <2>3. Scatters BY <1>2, <1>4 DEF Scatters
  <2>4. Grounds /\ Strays BY <1>1, <1>2, SetFacts DEF Grounds, Strays
  <2> QED BY <2>1, <2>2, <2>3, <2>4 DEF Tasks
<1>6. Held BY <1>1, <1>2, <1>3, <1>4 DEF Held, Bound
<1>8. meals \in [Vertex -> Nat] /\ \A v \in Vertex : meals[v] <= MaxMeals[v]
  BY ConstantsAssumption DEF Init
<1>9. client \in ClientSet BY DEF Init, ClientSet
<1>10. TypeOK
  <2>1. FineStacks /\ Mailboxes(down) /\ Mailboxes(up) BY InitStacks
  <2>2. phil \in PhilSet /\ fork \in ForkSet /\ lock \in LockSet BY InitLocks
  <2> QED BY <1>4, <1>8, <1>9, <2>1, <2>2
          DEF TypeOK, FineStacks, Mailboxes, PhilSet, ForkSet, LockSet, ClientSet
<1>11. Stacks BY InitStacks DEF FineStacks, Fine, Stacks
<1> QED BY <1>5, <1>6, <1>10, <1>11, InitStacks, InitLocks, InitCounted DEF IInv

(* Every step.                                                             *)

LEMMA LoopStepKeeps ==
  ASSUME IInv, NEW t \in Thread, LoopStep(t)
  PROVE  IInv'
<1>1. \/ StartGrab(t) \/ StartAccept(t) \/ StartStop(t) \/ Backoff(t)
      \/ (LockOther(t) \/ RelockLower(t)) \/ LeaveLoop(t)
      \/ TakeFork(t) \/ RequestFork(t) \/ AskBack(t) \/ RelockHigher(t)
      \/ AcceptEdge(t) \/ StopEdge(t) \/ FinishLoop(t) BY DEF LoopStep
<1>2. CASE StartGrab(t) BY <1>2, StartGrabKeeps
<1>3. CASE StartAccept(t) BY <1>3, StartAcceptKeeps
<1>4. CASE StartStop(t) BY <1>4, StartStopKeeps
<1>5. CASE Backoff(t) BY <1>5, BackoffKeeps
<1>6. CASE LockOther(t) \/ RelockLower(t) BY <1>6, LockOtherKeeps
<1>7. CASE LeaveLoop(t) BY <1>7, LeaveLoopKeeps
<1>8. CASE TakeFork(t) BY <1>8, TakeForkKeeps
<1>9. CASE RequestFork(t) BY <1>9, RequestForkKeeps
<1>10. CASE AskBack(t) BY <1>10, AskBackKeeps
<1>11. CASE RelockHigher(t) BY <1>11, RelockHigherKeeps
<1>12. CASE AcceptEdge(t) BY <1>12, AcceptEdgeKeeps
<1>13. CASE StopEdge(t) BY <1>13, StopEdgeKeeps
<1>14. CASE FinishLoop(t) BY <1>14, FinishLoopKeeps
<1> QED BY <1>1, <1>2, <1>3, <1>4, <1>5, <1>6, <1>7, <1>8, <1>9, <1>10, <1>11, <1>12, <1>13, <1>14

LEMMA StepKeeps ==
  ASSUME IInv, [Next]_vars, [NoWrap]_vars
  PROVE  IInv'
<1>1. CASE UNCHANGED vars BY <1>1, StutterKeeps
<1>2. CASE Terminated BY <1>2, StutterKeeps DEF Terminated
<1>3. CASE ~UNCHANGED vars /\ \E t \in Thread : Continue(t) \/ Handle(t) \/ MakeHungry(t) \/ StopEating(t)
  <2> PICK t \in Thread : Continue(t) \/ Handle(t) \/ MakeHungry(t) \/ StopEating(t) BY <1>3
  <2> NoWrap BY <1>3
  <2>1. CASE LoopStep(t) BY <2>1, LoopStepKeeps
  <2>2. CASE EnterHorsDoeuvre(t) BY <2>2, EnterHorsDoeuvreKeeps
  <2>3. CASE SetEating(t) BY <2>3, SetEatingKeeps
  <2>4. CASE IssueCancellation(t) BY <2>4, IssueCancellationKeeps
  <2>5. CASE Reply(t) BY <2>5, ReplyKeeps
  <2>6. CASE Release(t) BY <2>6, ReleaseKeeps
  <2>7. CASE HandleDown(t) BY <2>7, HandleDownKeeps
  <2>8. CASE HandleUp(t) BY <2>8, HandleUpKeeps
  <2>9. CASE HandleScatter(t) BY <2>9, HandleScatterKeeps
  <2>10. CASE MakeHungry(t) BY <2>10, MakeHungryKeeps
  <2>11. CASE StopEating(t) BY <2>11, StopEatingKeeps
  <2> QED BY <2>1, <2>2, <2>3, <2>4, <2>5, <2>6, <2>7, <2>8, <2>9, <2>10, <2>11 DEF Continue, Handle
<1> QED BY <1>1, <1>2, <1>3 DEF Next

\* The invariant of every behaviour in which the counters do not overflow.
LEMMA Invariance ==
  Spec /\ [][NoWrap]_vars => []IInv
<1>1. Init => IInv BY InitInv
<1>2. IInv /\ [Next]_vars /\ [NoWrap]_vars => IInv' BY StepKeeps
<1> QED BY <1>1, <1>2, PTL DEF Spec

(* What it means.                                                          *)

\* The vertices a vertex shares an edge with.
Adjacent(v) == {Other(e, v) : e \in {d \in Edges : v \in {d.source, d.target}}}

\* A vertex that has won owns all its forks.
LEMMA WinnerOwns ==
  ASSUME IInv, Reaped, NEW v \in Vertex, HasWon(v), NEW r \in Replica, r[2] = v
  PROVE  Owns(r)
<1>1. client[v] \in {"hungry", "eating"} /\ Counter(v) = 0
  BY Invariant DEF HasWon, Tasks, Programs, Winners
<1> QED BY <1>1, Invariant, AllThere DEF HasAll

\* Of two neighbours at most one has won: both would own the fork between them.
LEMMA OneHasWon ==
  ASSUME IInv, Reaped, NEW v \in Vertex, NEW w \in Adjacent(v)
  PROVE  w \in Vertex /\ ~(HasWon(v) /\ HasWon(w))
<1>1. PICK e \in Edges : v \in {e.source, e.target} /\ w = Other(e, v) BY DEF Adjacent
<1>2. /\ e.on \in Machine /\ e.source \in Vertex /\ e.target \in Vertex /\ e.source # e.target
      /\ <<e.on, e.source>> \in Replica /\ <<e.on, e.target>> \in Replica
      /\ e \in EdgesAt(<<e.on, e.source>>) /\ e \in EdgesAt(<<e.on, e.target>>) BY EdgeFacts
<1>3. w \in {e.source, e.target} /\ w # v BY <1>1, <1>2 DEF Other
<1>4. PICK r \in Replica : r = <<e.on, v>> /\ e \in EdgesAt(r) /\ r[2] = v BY <1>1, <1>2
<1>5. PICK x \in Replica : x = <<e.on, w>> /\ e \in EdgesAt(x) /\ x[2] = w BY <1>3, <1>2
<1>6. w \in Vertex BY <1>2, <1>3
<1>7. HasWon(v) => fork[e].owner = v BY <1>4, WinnerOwns DEF Owns
<1>8. HasWon(w) => fork[e].owner = w BY <1>5, <1>6, WinnerOwns DEF Owns
<1> QED BY <1>3, <1>6, <1>7, <1>8

LEMMA NXNeighbours ==
  ASSUME NEW v \in Vertex
  PROVE  [u \in Vertex |-> {Other(e, u) : e \in {d \in Edges : u \in {d.source, d.target}}}][v] = Adjacent(v)
BY DEF Adjacent

LEMMA Excludes ==
  ASSUME IInv, Reaped
  PROVE  NX!Exclusion
<1> SUFFICES ASSUME NEW v \in Vertex, NEW w \in Adjacent(v)
             PROVE  ~(client[v] = "eating" /\ client[w] = "eating") BY NXNeighbours DEF NX!Exclusion
<1> QED BY OneHasWon DEF HasWon

(* The refinement, step by step.                                           *)

LEMMA OnlyFourTell ==
  ASSUME NEW t \in Thread, Continue(t) \/ Handle(t) \/ MakeHungry(t) \/ StopEating(t)
  PROVE  client' = client \/ SetEating(t) \/ Release(t) \/ MakeHungry(t) \/ StopEating(t)
<1>1. CASE LoopStep(t)
  BY <1>1 DEF LoopStep, StartGrab, StartAccept, StartStop, Backoff, LockOther, LeaveLoop,
       TakeFork, RequestFork, AskBack, RelockLower, RelockHigher, AcceptEdge, StopEdge, FinishLoop
<1>2. CASE EnterHorsDoeuvre(t) BY <1>2 DEF EnterHorsDoeuvre
<1>3. CASE IssueCancellation(t) BY <1>3 DEF IssueCancellation
<1>4. CASE Reply(t) BY <1>4 DEF Reply
<1>5. CASE HandleDown(t) BY <1>5 DEF HandleDown
<1>6. CASE HandleUp(t) BY <1>6 DEF HandleUp
<1>7. CASE HandleScatter(t) BY <1>7 DEF HandleScatter
<1> QED BY SMTT(30), <1>1, <1>2, <1>3, <1>4, <1>5, <1>6, <1>7 DEF Continue, Handle

LEMMA EatMaps ==
  ASSUME IInv, Reaped, NEW t \in Thread, SetEating(t)
  PROVE  [NX!Next]_client
<1>1. /\ ~Idle(t) /\ Top(t).op = "eat" /\ FineStacks
      /\ client' = IF Here(t) = Master(Top(t).v)
                   THEN [client EXCEPT ![Top(t).v] = "eating"] ELSE client
  BY Invariant DEF SetEating, Doing, Top
<1>2. CASE Here(t) # Master(Top(t).v) BY <1>1, <1>2
<1>3. CASE Here(t) = Master(Top(t).v)
  <2>1. /\ stack[t] # << >> /\ Top(t) = stack[t][1] /\ Top(t) \in Frame
        /\ Here(t) \in Replica /\ Here(t)[1] = t[1] /\ Here(t)[2] = Top(t).v BY <1>1, TopFacts
  <2>2. PICK v \in Vertex : v = Top(t).v BY <2>1, FrameFields
  <2>3. EatsAt(t, Master(v)) BY <1>1, <1>3, <2>1, <2>2 DEF EatsAt, Eats
  <2>4. Winning(v) /\ HasWon(v) BY <2>3 DEF Winning, HasWon
  <2>5. client[v] = "hungry" BY <2>4, Invariant DEF Tasks, Winners
  <2>6. \A w \in Adjacent(v) : client[w] # "eating" BY <2>4, OneHasWon DEF HasWon
  <2>7. client' = [client EXCEPT ![v] = "eating"] BY <1>1, <1>3, <2>2
  <2>8. NX!Eat(v) BY <2>5, <2>6, <2>7, NXNeighbours DEF NX!Eat
  <2> QED BY <2>8 DEF NX!Next
<1> QED BY <1>2, <1>3

LEMMA ReleaseMaps ==
  ASSUME IInv, NEW t \in Thread, Release(t)
  PROVE  [NX!Next]_client
<1>1. /\ ~Idle(t) /\ Top(t).op = "release" /\ FineStacks
      /\ client' = [client EXCEPT ![Top(t).v] = "thinking"] BY Invariant DEF Release, Doing, Top
<1>2. /\ stack[t] # << >> /\ Top(t) = stack[t][1] /\ Top(t) \in Frame /\ Fine(t[1], stack[t])
      /\ t[1] \in Machine BY <1>1, TopFacts
<1>3. PICK v \in Vertex : v = Top(t).v BY <1>2, FrameFields
<1>4. Depth(stack[t]) = 1 BY <1>1, <1>2, Done
<1>5. EndsAt(t, v) BY <1>1, <1>2, <1>3, <1>4 DEF EndsAt, Ends
<1>6. client[v] = "stopping" BY <1>5, Invariant DEF Tasks, Enders
<1>7. NX!Rest(v) BY <1>1, <1>3, <1>6 DEF NX!Rest
<1> QED BY <1>7 DEF NX!Next

LEMMA StepMaps ==
  ASSUME IInv, Reaped, [Next]_vars
  PROVE  [NX!Next]_client
<1>1. CASE UNCHANGED vars \/ Terminated BY <1>1 DEF Terminated, vars
<1>2. CASE \E t \in Thread : Continue(t) \/ Handle(t) \/ MakeHungry(t) \/ StopEating(t)
  <2> PICK t \in Thread : Continue(t) \/ Handle(t) \/ MakeHungry(t) \/ StopEating(t) BY <1>2
  <2>1. CASE client' = client BY <2>1
  <2>2. CASE SetEating(t) BY <2>2, EatMaps
  <2>3. CASE Release(t) BY <2>3, ReleaseMaps
  <2>4. CASE MakeHungry(t)
    <3>1. PICK v \in Vertex : client[v] = "thinking" /\ client' = [client EXCEPT ![v] = "hungry"]
      BY <2>4 DEF MakeHungry
    <3>2. NX!GetHungry(v) BY <3>1 DEF NX!GetHungry
    <3> QED BY <3>2 DEF NX!Next
  <2>5. CASE StopEating(t)
    <3>1. PICK v \in Vertex : client[v] = "eating" /\ client' = [client EXCEPT ![v] = "stopping"]
      BY <2>5 DEF StopEating
    <3>2. NX!Stop(v) BY <3>1 DEF NX!Stop
    <3> QED BY <3>2 DEF NX!Next
  <2> QED BY <2>1, <2>2, <2>3, <2>4, <2>5, OnlyFourTell
<1> QED BY <1>1, <1>2 DEF Next

LEMMA InitMaps ==
  ASSUME Init
  PROVE  NX!Init BY DEF Init, NX!Init

(* What the forks and the counters say.                                    *)

LEMMA CountedForks ==
  ASSUME IInv
  PROVE  ForksCounted
BY Invariant DEF AcquiredCounts, Owned, ForksCounted

LEMMA ReadyOnes ==
  ASSUME IInv, Reaped
  PROVE  ReadyHaveForks
<1> SUFFICES ASSUME NEW r \in Replica, St(r) = "hors_doeuvre" \/ client[r[2]] = "eating"
             PROVE  Full(phil, r) BY DEF ReadyHaveForks, St
<1>1. AcquiredCounts /\ Held BY Invariant
<1>2. CASE St(r) = "hors_doeuvre"
  <2>1. Owns(r) BY <1>1, <1>2 DEF Held
  <2> QED BY <1>1, <2>1, FullOwns
<1>3. CASE client[r[2]] = "eating"
  <2>1. r[2] \in Vertex BY SetFacts
  <2>2. Owns(r) BY <1>3, <2>1, WinnerOwns DEF HasWon
  <2> QED BY <1>1, <2>2, FullOwns
<1> QED BY <1>2, <1>3

LEMMA ServedStop ==
  ASSUME IInv, Reaped
  PROVE  StopsOnlyTheServed
<1> SUFFICES ASSUME NEW t \in Thread, Doing(t, "stop"), At(t, "lock")
             PROVE  /\ Full(phil, Here(t))
                    /\ \/ phil[Here(t)].state = "eating"
                       \/ phil[Here(t)].state = "hors_doeuvre" /\ Here(t) \in Mirror
  BY DEF StopsOnlyTheServed
<1>1. ~Idle(t) /\ Top(t).op = "stop" /\ Top(t).at = "lock" /\ FineStacks BY Invariant DEF Doing, At, Top
<1>2. /\ stack[t] # << >> /\ Top(t) = stack[t][1]
      /\ Here(t) \in Replica /\ Here(t)[1] = t[1] /\ Here(t)[2] = Top(t).v BY <1>1, TopFacts
<1>3. PICK r \in Replica : r = Here(t) BY <1>2
<1>4. StopsAt(t, r) BY <1>1, <1>2, <1>3 DEF StopsAt, Stops
<1>5. Bound(r) BY <1>4 DEF Bound
<1>6. HasAll(r) /\ (r = Master(r[2]) => St(r) = "eating") BY <1>5, Invariant DEF Held
<1>7. Full(phil, r) BY <1>6, Invariant, FullOwns DEF HasAll
<1>8. St(r) = "eating" \/ (St(r) = "hors_doeuvre" /\ r \in Mirror) BY <1>6, SetFacts DEF HasAll
<1> QED BY <1>3, <1>7, <1>8 DEF St

-----------------------------------------------------------------------------
(* The theorems.                                                           *)

\* Philosophers, forks, locks, stacks and calls have the declared types: the counter
\* stays in a byte, forks_acquired never falls below 0, owners are vertices.
THEOREM TypeCorrect == Spec /\ [][NoWrap]_vars => []TypeOK
<1>1. IInv => TypeOK BY DEF IInv
<1> QED BY <1>1, Invariance, PTL

\* complete_consistency_check() at every step, and not only at rest: forks_acquired
\* is the number of forks the philosopher owns.
THEOREM ForksAreCounted == Spec /\ [][NoWrap]_vars => []ForksCounted
<1>1. IInv => ForksCounted BY CountedForks
<1> QED BY <1>1, Invariance, PTL

\* The master's counter covers every replica, call and granted cancellation it has to
\* hear of, whatever overtakes what: signal_ready() makes nobody eat too early.
THEOREM MastersWaitForAll == Spec /\ [][NoWrap]_vars => []CounterCovers
<1>1. IInv => CounterCovers BY Invariant, CoveredIsOwed
<1> QED BY <1>1, Invariance, PTL

\* A replica that is ready has the forks of its machine, and when the program of a
\* vertex runs all its replicas have them, those of which a call is late too.
THEOREM ReadyOnesHaveForks == Reaped => (Spec /\ [][NoWrap]_vars => []ReadyHaveForks)
<1> SUFFICES ASSUME Reaped
             PROVE  Spec /\ [][NoWrap]_vars => []ReadyHaveForks OBVIOUS
<1>1. IInv => ReadyHaveForks BY ReadyOnes
<1> QED BY <1>1, Invariance, PTL

\* async_consistent_engine.hpp: "adjacent vertices are never executed simultaneously".
THEOREM NeighboursNeverEatTogether == Reaped => (Spec /\ [][NoWrap]_vars => []NeighboursExclude)
<1> SUFFICES ASSUME Reaped
             PROVE  Spec /\ [][NoWrap]_vars => []NeighboursExclude OBVIOUS
<1>1. IInv => NeighboursExclude BY Excludes DEF NeighboursExclude
<1> QED BY <1>1, Invariance, PTL

\* Every step of the locks is a step of NeighbourExclusion or changes no program:
\* set_eating() on the master is the only one that starts a program, of a vertex
\* that is hungry and none of whose neighbours is executed.
THEOREM LocksImplementExclusion == Reaped => (Spec /\ [][NoWrap]_vars => ImplementsExclusion)
<1> SUFFICES ASSUME Reaped
             PROVE  Spec /\ [][NoWrap]_vars => ImplementsExclusion OBVIOUS
<1>1. Init => NX!Init BY InitMaps
<1>2. IInv /\ [Next]_vars => [NX!Next]_client BY StepMaps
<1> QED BY <1>1, <1>2, Invariance, PTL DEF Spec, ImplementsExclusion, NX!Spec

\* Who is to stop has all its forks, and eats unless the call to eat is late.
THEOREM OnlyTheServedStop == Reaped => (Spec /\ [][NoWrap]_vars => []StopsOnlyTheServed)
<1> SUFFICES ASSUME Reaped
             PROVE  Spec /\ [][NoWrap]_vars => []StopsOnlyTheServed OBVIOUS
<1>1. IInv => StopsOnlyTheServed BY ServedStop
<1> QED BY <1>1, Invariance, PTL

=============================================================================
