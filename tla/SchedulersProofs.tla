-------------------------- MODULE SchedulersProofs --------------------------
(***************************************************************************)
(* What TLAPS proves of Schedulers, for every number of vertices, cpus,    *)
(* queues, fibers, handlers and signals: where a scheduled vertex is, and  *)
(* that the fibers do not sleep over one.                                  *)
(***************************************************************************)
EXTENDS Schedulers, SequenceTheorems, WellFoundedInduction, FiniteSetTheorems, TLAPS

-----------------------------------------------------------------------------
(* The constants.                                                          *)

NQueues == multi * ncpus

LEMMA Divide ==
  ASSUME NEW a \in Nat, NEW b \in Nat \ {0}
  PROVE  a \div b \in Nat /\ b * (a \div b) <= a /\ a < b * (a \div b) + b OBVIOUS

LEMMA Modulo ==
  ASSUME NEW a \in Nat, NEW b \in Nat \ {0}
  PROVE  a % b \in Nat /\ a % b < b /\ a = b * (a \div b) + (a % b) OBVIOUS

LEMMA ModuloOf ==
  ASSUME NEW b \in Nat \ {0}, NEW a \in 0 .. b - 1
  PROVE  a % b = a /\ (a + b) % b = a OBVIOUS

LEMMA Product ==
  ASSUME NEW a \in Nat, NEW b \in Nat
  PROVE  a * b \in Nat /\ a * b = b * a OBVIOUS

LEMMA Bigger ==
  ASSUME NEW a \in Nat, NEW b \in Nat, NEW c \in Nat, a <= b
  PROVE  c * a <= c * b OBVIOUS

LEMMA Numbers ==
  /\ num_vertices \in Nat \ {0} /\ ncpus \in Nat \ {0} /\ multi \in Nat \ {0}
  /\ sub_queue_size \in Nat /\ min_priority \in Nat /\ MaxSignals \in Nat /\ randomizer \in Nat
  /\ nfibers \in Nat /\ nfibers >= ncpus
  /\ NQueues \in Nat \ {0} /\ Queue = 0 .. NQueues - 1
  /\ 0 \in Vertex /\ 0 \in Queue /\ 0 \in Cpu
  /\ Vertex = 0 .. num_vertices - 1 /\ Cpu = 0 .. ncpus - 1
<1>1. /\ num_vertices \in Nat \ {0} /\ ncpus \in Nat \ {0} /\ multi \in Nat \ {0}
      /\ sub_queue_size \in Nat /\ min_priority \in Nat /\ MaxSignals \in Nat /\ randomizer \in Nat
      /\ nfibers \in Nat /\ nfibers >= ncpus BY ConstantsAssumption
<1>2. multi * ncpus \in Nat \ {0} BY <1>1
<1> QED BY <1>1, <1>2 DEF NQueues, Queue, Vertex, Cpu

LEMMA CpuOfType == ASSUME NEW f \in Fiber PROVE CpuOf(f) \in Cpu
<1>1. f \in Nat BY Numbers DEF Fiber
<1> QED BY <1>1, Numbers, Modulo DEF CpuOf

\* Every cpu has a fiber.
LEMMA EveryCpu == ASSUME NEW c \in Cpu PROVE \E f \in Fiber : CpuOf(f) = c
<1>1. c \in Fiber BY Numbers DEF Fiber
<1>2. c % ncpus = c BY Numbers, ModuloOf
<1> QED BY <1>1, <1>2 DEF CpuOf

LEMMA QueueOf == ASSUME NEW n \in Nat PROVE n % NQueues \in Queue
BY Numbers, Modulo

LEMMA FirstQueue ==
  ASSUME NEW c \in Cpu, NEW offset \in 0 .. multi - 1
  PROVE  c * multi + offset \in Queue
<1>1. multi * c <= multi * (ncpus - 1) BY Numbers, Bigger
<1>2. multi * (ncpus - 1) = NQueues - multi BY Numbers DEF NQueues
<1>3. c * multi = multi * c /\ multi * c \in Nat BY Numbers
<1> QED BY <1>1, <1>2, <1>3, Numbers

\* From any queue on, all of them are met.
LEMMA Around ==
  ASSUME NEW first \in Queue, NEW q \in Queue
  PROVE  \E j \in 0 .. NQueues - 1 : (first + j) % NQueues = q
<1>0. NQueues \in Nat \ {0} /\ first \in 0 .. NQueues - 1 /\ q \in 0 .. NQueues - 1 BY Numbers
<1>1. CASE first <= q
  <2>1. q - first \in 0 .. NQueues - 1 /\ first + (q - first) = q BY <1>0, <1>1
  <2>2. q % NQueues = q BY <1>0, ModuloOf
  <2> QED BY <2>1, <2>2
<1>2. CASE q < first
  <2>1. q + NQueues - first \in 0 .. NQueues - 1 /\ first + (q + NQueues - first) = q + NQueues
    BY <1>0, <1>2
  <2>2. (q + NQueues) % NQueues = q BY <1>0, ModuloOf
  <2> QED BY <2>1, <2>2
<1> QED BY <1>0, <1>1, <1>2

LEMMA VertexAt == ASSUME NEW idx \in Nat PROVE (idx * randomizer) % num_vertices \in Vertex
<1>1. idx * randomizer \in Nat BY Numbers, Product
<1> QED BY <1>1, Numbers, Modulo

LEMMA MaxFails == max_fails \in Nat /\ max_fails >= 1 /\ max_fails <= num_vertices + 1
<1>1. /\ num_vertices \div ncpus \in Nat /\ ncpus * (num_vertices \div ncpus) <= num_vertices
  BY Numbers, Divide
<1>2. PICK d \in Nat : d = num_vertices \div ncpus BY <1>1
<1>3. d * 1 <= d * ncpus BY Numbers, Bigger
<1>4. d * ncpus = ncpus * d BY Numbers, Product
<1> QED BY <1>1, <1>2, <1>3, <1>4, Numbers DEF max_fails

-----------------------------------------------------------------------------
(* Sequences.                                                              *)

In(s, v) == \E i \in DOMAIN s : s[i].v = v
Once(s) == \A i, j \in DOMAIN s : s[i].v = s[j].v => i = j

LEMMA EmptyFacts ==
  /\ Once(<<>>)
  /\ \A v : ~In(<<>>, v) BY DEF Once, In

LEMMA FullFacts ==
  ASSUME NEW S, NEW s \in Seq(S), s # <<>>
  PROVE  1 \in DOMAIN s /\ In(s, s[1].v) /\ Head(s) = s[1]
<1>1. Len(s) \in Nat /\ Len(s) # 0 /\ DOMAIN s = 1 .. Len(s) BY EmptySeq, LenProperties
<1>2. 1 \in DOMAIN s BY <1>1
<1> QED BY <1>2 DEF In

LEMMA RemoveFacts ==
  ASSUME NEW S, NEW s \in Seq(S), NEW i \in DOMAIN s
  PROVE  /\ Remove(s, i) \in Seq(S)
         /\ Once(s) => /\ Once(Remove(s, i))
                       /\ \A v : In(Remove(s, i), v) <=> In(s, v) /\ v # s[i].v
<1> DEFINE a == SubSeq(s, 1, i - 1)
           b == SubSeq(s, i + 1, Len(s))
           r == a \o b
<1>0. Len(s) \in Nat /\ DOMAIN s = 1 .. Len(s) /\ i \in 1 .. Len(s) BY LenProperties
<1>e. \A j \in 1 .. Len(s) : s[j] \in S BY ElementOfSeq
<1>1. a \in Seq(S) /\ Len(a) = i - 1 /\ \A j \in 1 .. i - 1 : a[j] = s[j]
  <2>1. \A j \in 1 .. i - 1 : s[j] \in S BY <1>0, <1>e
  <2>2. 1 \in Int /\ i - 1 \in Int BY <1>0
  <2> HIDE DEF a
  <2>3. a \in Seq(S) /\ Len(a) = IF 1 <= i - 1 THEN i - 1 - 1 + 1 ELSE 0
    BY <2>1, <2>2, SubSeqProperties DEF a
  <2>4. \A j \in 1 .. i - 1 - 1 + 1 : a[j] = s[1 + j - 1] BY <2>1, <2>2, SubSeqProperties DEF a
  <2>5. ASSUME NEW j \in 1 .. i - 1 PROVE a[j] = s[j] BY <1>0, <2>4
  <2> QED BY <1>0, <2>3, <2>5
<1>2. b \in Seq(S) /\ Len(b) = Len(s) - i /\ \A j \in 1 .. Len(s) - i : b[j] = s[i + j]
  <2>1. \A j \in i + 1 .. Len(s) : s[j] \in S BY <1>0, <1>e
  <2>2. i + 1 \in Int /\ Len(s) \in Int BY <1>0
  <2> HIDE DEF b
  <2>3. b \in Seq(S) /\ Len(b) = IF i + 1 <= Len(s) THEN Len(s) - (i + 1) + 1 ELSE 0
    BY <2>1, <2>2, SubSeqProperties DEF b
  <2>4. \A j \in 1 .. Len(s) - (i + 1) + 1 : b[j] = s[i + 1 + j - 1]
    BY SMTT(30), <2>1, <2>2, SubSeqProperties DEF b
  <2>5. ASSUME NEW j \in 1 .. Len(s) - i PROVE b[j] = s[i + j] BY <1>0, <2>4
  <2> QED BY <1>0, <2>3, <2>5
<1> HIDE DEF a, b
<1>3. /\ r \in Seq(S) /\ Len(r) = Len(s) - 1
      /\ \A j \in 1 .. Len(s) - 1 : r[j] = IF j < i THEN s[j] ELSE s[j + 1]
  <2>1. /\ r \in Seq(S) /\ Len(r) = Len(a) + Len(b)
        /\ \A j \in 1 .. Len(a) + Len(b) : r[j] = IF j <= Len(a) THEN a[j] ELSE b[j - Len(a)]
    BY <1>1, <1>2, ConcatProperties
  <2> HIDE DEF r
  <2>2. Len(r) = Len(s) - 1 BY <1>0, <1>1, <1>2, <2>1
  <2>3. ASSUME NEW j \in 1 .. Len(s) - 1 PROVE r[j] = IF j < i THEN s[j] ELSE s[j + 1]
    <3>1. r[j] = IF j <= i - 1 THEN a[j] ELSE b[j - (i - 1)] BY SMTT(30), <1>0, <1>1, <1>2, <2>1
    <3>2. CASE j < i BY <1>0, <1>1, <3>1, <3>2
    <3>3. CASE j >= i
      <4>1. j - (i - 1) \in 1 .. Len(s) - i /\ i + (j - (i - 1)) = j + 1 /\ ~(j <= i - 1) BY <1>0, <3>3
      <4>2. b[j - (i - 1)] = s[i + (j - (i - 1))] BY <1>2, <4>1
      <4> QED BY <1>0, <3>1, <3>3, <4>1, <4>2
    <3> QED BY <1>0, <3>2, <3>3
  <2> QED BY <2>1, <2>2, <2>3
<1>4. Remove(s, i) = r BY DEF Remove, a, b
<1> HIDE DEF r
<1>5. DOMAIN r = 1 .. Len(s) - 1 BY <1>0, <1>3, LenProperties
<1>6. ASSUME Once(s) PROVE Once(r)
  <2> SUFFICES ASSUME NEW j \in DOMAIN r, NEW k \in DOMAIN r, r[j].v = r[k].v PROVE j = k BY DEF Once
  <2>1. PICK jj \in DOMAIN s : r[j] = s[jj] /\ jj = IF j < i THEN j ELSE j + 1 BY <1>0, <1>3, <1>5
  <2>2. PICK kk \in DOMAIN s : r[k] = s[kk] /\ kk = IF k < i THEN k ELSE k + 1 BY <1>0, <1>3, <1>5
  <2>3. jj = kk BY <1>6, <2>1, <2>2 DEF Once
  <2> QED BY <1>0, <1>5, <2>1, <2>2, <2>3
<1>7. ASSUME Once(s), NEW v PROVE In(r, v) <=> In(s, v) /\ v # s[i].v
  <2>1. ASSUME In(r, v) PROVE In(s, v) /\ v # s[i].v
    <3>1. PICK j \in DOMAIN r : r[j].v = v BY <2>1 DEF In
    <3>2. PICK jj \in DOMAIN s : r[j] = s[jj] /\ jj = IF j < i THEN j ELSE j + 1 BY <1>0, <1>3, <1>5
    <3>3. jj # i BY <1>0, <1>5, <3>2
    <3> QED BY <1>7, <3>1, <3>2, <3>3 DEF In, Once
  <2>2. ASSUME In(s, v), v # s[i].v PROVE In(r, v)
    <3>1. PICK j \in DOMAIN s : s[j].v = v BY <2>2 DEF In
    <3>2. j # i BY <2>2, <3>1
    <3>3. PICK k \in DOMAIN r : r[k] = s[j]
      <4>1. CASE j < i BY SMTT(30), <1>0, <1>3, <1>5, <4>1
      <4>2. CASE j > i
        <5>1. j - 1 \in 1 .. Len(s) - 1 /\ ~(j - 1 < i) /\ (j - 1) + 1 = j BY <1>0, <4>2
        <5> QED BY <1>3, <1>5, <5>1
      <4> QED BY <1>0, <3>2, <4>1, <4>2
    <3> QED BY <3>1, <3>3 DEF In
  <2> QED BY <2>1, <2>2
<1> QED BY <1>3, <1>4, <1>6, <1>7

LEMMA TailFacts ==
  ASSUME NEW S, NEW s \in Seq(S), s # <<>>
  PROVE  /\ Head(s) \in S /\ Tail(s) \in Seq(S) /\ In(s, Head(s).v)
         /\ Len(Tail(s)) = Len(s) - 1
         /\ \A i \in DOMAIN Tail(s) : i + 1 \in DOMAIN s /\ Tail(s)[i] = s[i + 1]
         /\ \A i \in DOMAIN s : i = 1 \/ (i - 1 \in DOMAIN Tail(s) /\ s[i] = Tail(s)[i - 1])
         /\ Once(s) => /\ Once(Tail(s))
                       /\ \A v : In(Tail(s), v) <=> In(s, v) /\ v # Head(s).v
<1>1. /\ Head(s) \in S /\ Tail(s) \in Seq(S) /\ Len(Tail(s)) = Len(s) - 1
      /\ \A i \in 1 .. Len(Tail(s)) : Tail(s)[i] = s[i + 1] BY HeadTailProperties
<1>2. 1 \in DOMAIN s /\ In(s, s[1].v) /\ Head(s) = s[1] BY FullFacts
<1>3. Len(s) \in Nat /\ DOMAIN s = 1 .. Len(s) BY LenProperties
<1> DEFINE r == Tail(s)
<1>4. DOMAIN r = 1 .. Len(s) - 1 BY <1>1, LenProperties
<1>5. \A i \in DOMAIN r : i + 1 \in DOMAIN s /\ r[i] = s[i + 1] BY <1>1, <1>3, <1>4
<1>6. \A i \in DOMAIN s : i = 1 \/ (i - 1 \in DOMAIN r /\ s[i] = r[i - 1]) BY <1>3, <1>4, <1>5
<1> HIDE DEF r
<1>7. ASSUME Once(s) PROVE Once(r)
  <2> SUFFICES ASSUME NEW j \in DOMAIN r, NEW k \in DOMAIN r, r[j].v = r[k].v PROVE j = k BY DEF Once
  <2>1. j + 1 = k + 1 BY <1>5, <1>7 DEF Once
  <2> QED BY <1>3, <1>4, <2>1
<1>8. ASSUME Once(s), NEW v PROVE In(r, v) <=> In(s, v) /\ v # s[1].v
  <2>1. ASSUME In(r, v) PROVE In(s, v) /\ v # s[1].v
    <3>1. PICK j \in DOMAIN r : r[j].v = v BY <2>1 DEF In
    <3>2. j + 1 \in DOMAIN s /\ s[j + 1].v = v /\ j + 1 # 1 BY <1>3, <1>4, <1>5, <3>1
    <3> QED BY <1>2, <1>8, <3>2 DEF In, Once
  <2>2. ASSUME In(s, v), v # s[1].v PROVE In(r, v) BY <2>2, <1>6 DEF In
  <2> QED BY <2>1, <2>2
<1> QED BY <1>1, <1>2, <1>5, <1>6, <1>7, <1>8 DEF r

LEMMA AppendFacts ==
  ASSUME NEW S, NEW s \in Seq(S), NEW e \in S
  PROVE  /\ Append(s, e) \in Seq(S) /\ Append(s, e) # <<>>
         /\ \A i \in DOMAIN s : i \in DOMAIN Append(s, e) /\ Append(s, e)[i] = s[i]
         /\ Len(s) + 1 \in DOMAIN Append(s, e) /\ Append(s, e)[Len(s) + 1] = e
         /\ Len(s) + 1 \notin DOMAIN s
         /\ \A i \in DOMAIN Append(s, e) : i \in DOMAIN s \/ i = Len(s) + 1
         /\ \A v : In(Append(s, e), v) <=> In(s, v) \/ v = e.v
         /\ Once(s) /\ ~In(s, e.v) => Once(Append(s, e))
<1> DEFINE r == Append(s, e)
<1>1. /\ r \in Seq(S) /\ r # <<>> /\ Len(r) = Len(s) + 1
      /\ \A i \in 1 .. Len(s) : r[i] = s[i]
      /\ r[Len(s) + 1] = e BY AppendProperties
<1> HIDE DEF r
<1>2. Len(s) \in Nat /\ DOMAIN s = 1 .. Len(s) BY LenProperties
<1>3. DOMAIN r = 1 .. Len(s) + 1 BY <1>1, LenProperties
<1>4. \A i \in DOMAIN s : i \in DOMAIN r /\ r[i] = s[i] BY <1>1, <1>2, <1>3
<1>5. Len(s) + 1 \in DOMAIN r /\ Len(s) + 1 \notin DOMAIN s BY <1>2, <1>3
<1>6. \A i \in DOMAIN r : i \in DOMAIN s \/ i = Len(s) + 1 BY <1>2, <1>3
<1>7. \A v : In(r, v) <=> In(s, v) \/ v = e.v BY <1>1, <1>4, <1>5, <1>6 DEF In
<1>8. ASSUME Once(s), ~In(s, e.v) PROVE Once(r)
  <2> SUFFICES ASSUME NEW j \in DOMAIN r, NEW k \in DOMAIN r, r[j].v = r[k].v PROVE j = k BY DEF Once
  <2>1. CASE j \in DOMAIN s /\ k \in DOMAIN s BY <1>4, <1>8, <2>1 DEF Once
  <2>2. CASE j \in DOMAIN s /\ k = Len(s) + 1 BY <1>1, <1>4, <1>8, <2>2 DEF In
  <2>3. CASE k \in DOMAIN s /\ j = Len(s) + 1 BY <1>1, <1>4, <1>8, <2>3 DEF In
  <2> QED BY <1>6, <2>1, <2>2, <2>3
<1> QED BY <1>1, <1>4, <1>5, <1>6, <1>7, <1>8 DEF r

-----------------------------------------------------------------------------
(* The highest priority.                                                   *)

LEMMA NatMin ==
  ASSUME NEW T, T \subseteq Nat, T # {}
  PROVE  \E x \in T : \A y \in T : x <= y
<1> DEFINE R == OpToRel(<, Nat)
<1>1. IsWellFoundedOn(R, Nat) BY NatLessThanWellFounded
<1>2. \E x \in T : \A y \in T : ~ (<<y, x>> \in R)
  <2> HIDE DEF R
  <2> QED BY <1>1, WFMin
<1>3. R = {ss \in Nat \X Nat : ss[1] < ss[2]} BY DEF OpToRel
<1>4. PICK x \in T : \A y \in T : ~ (<<y, x>> \in R) BY <1>2
<1>5. \A y \in T : ~ (y < x) BY <1>3, <1>4
<1> HIDE DEF R
<1> QED BY <1>5

EntryType == [v : Vertex, priority : 1 .. MaxSignals]

LEMMA EntryMember ==
  ASSUME NEW s \in EntrySeq
  PROVE  /\ s \in Seq(EntryType)
         /\ \A i \in DOMAIN s : /\ s[i] \in EntryType /\ s[i].v \in Vertex
                                /\ s[i].priority \in 1 .. MaxSignals
         /\ Len(s) \in Nat /\ DOMAIN s = 1 .. Len(s)
<1>1. s \in Seq(EntryType) BY DEF EntrySeq, EntryType
<1>2. Len(s) \in Nat /\ DOMAIN s = 1 .. Len(s) BY <1>1, LenProperties
<1>3. \A i \in DOMAIN s : s[i] \in EntryType BY <1>1, <1>2, ElementOfSeq
<1> QED BY <1>1, <1>2, <1>3 DEF EntryType

\* What the schedulers need in order to give every vertex away: the strict order of
\* sweep skips vertices, and the priority scheduler keeps what is below min_priority.
Reliable == "sweep_strict" \notin Kinds /\ ("priority" \in Kinds => min_priority <= 1)

\* Then a queue with something in it has something to pop.
LEMMA SomethingToPop ==
  ASSUME Reliable, kind \in Kinds, NEW s \in EntrySeq, s # <<>>
  PROVE  kind \in {"fifo", "priority"} => Poppable(s) # {}
<1>1. s \in Seq(EntryType) BY EntryMember
<1>2. 1 \in DOMAIN s BY <1>1, FullFacts
<1>3. CASE kind = "fifo" BY <1>2, <1>3 DEF Poppable
<1>4. CASE kind = "priority"
  <2> DEFINE T == {MaxSignals - s[i].priority : i \in DOMAIN s}
  <2>0. MaxSignals \in Nat BY Numbers
  <2>1. \A i \in DOMAIN s : s[i].priority \in 1 .. MaxSignals BY EntryMember
  <2>2. T \subseteq Nat /\ T # {} BY <2>0, <2>1, <1>2
  <2>3. PICK x \in T : \A y \in T : x <= y
    <3> HIDE DEF T
    <3> QED BY <2>2, NatMin
  <2>4. PICK i \in DOMAIN s : x = MaxSignals - s[i].priority OBVIOUS
  <2>5. ASSUME NEW j \in DOMAIN s PROVE s[j].priority <= s[i].priority
    <3>1. MaxSignals - s[j].priority \in T OBVIOUS
    <3>2. MaxSignals - s[i].priority <= MaxSignals - s[j].priority BY <2>3, <2>4, <3>1
    <3> QED BY <2>0, <2>1, <3>2
  <2>6. s[i].priority >= min_priority BY <1>4, <2>1, Numbers DEF Reliable
  <2>7. kind # "fifo" BY <1>4
  <2>8. i \in Poppable(s) BY <2>5, <2>6, <2>7 DEF Poppable
  <2> QED BY <2>8
<1> QED BY <1>3, <1>4

-----------------------------------------------------------------------------
(* What each thread may be doing.                                          *)

QueueKinds == {"fifo", "priority", "queued_fifo"}
SweepKinds == {"sweep", "sweep_strict"}
GetPlaces == {"next", "visit", "steal", "pop", "sweep", "take"}
SignalPlaces == {"schedule", "push", "cancel", "wake"}

FieldsOf(t, s) ==
  /\ s.quitting => s.at \in GetPlaces
  /\ t \notin Fiber => s.at \in {"idle"} \cup SignalPlaces
  /\ s.at = "idle" => t \notin Fiber
  /\ s.at \in {"schedule", "push"} => s.priority >= 1
  /\ s.at = "visit" => kind \in {"fifo", "priority"} /\ s.i < NQueues
  /\ s.at \in {"steal", "pop"} => kind = "queued_fifo"
  /\ s.at = "steal" => s.i < NQueues
  /\ s.at = "sweep" => kind \in SweepKinds /\ s.i <= max_fails + 1
  /\ s.at = "push" => kind \in QueueKinds

Fields == \A t \in Thread : FieldsOf(t, thread[t])

BoxBound == \A v \in Vertex : box[v] <= signals

\* The state of t becomes s, and t is alone.
Moves(t, s) ==
  /\ s \in ThreadState /\ FieldsOf(t, s)
  /\ thread' \in [Thread -> ThreadState]
  /\ thread'[t] = s
  /\ \A u \in Thread : u # t => thread'[u] = thread[u]

LEMMA BecomeMoves ==
  ASSUME TypeOK, NEW t \in Thread, NEW s \in ThreadState, FieldsOf(t, s), Become(t, s)
  PROVE  Moves(t, s)
<1>1. thread \in [Thread -> ThreadState] BY DEF TypeOK
<1>2. thread' = [thread EXCEPT ![t] = s] BY DEF Become
<1> QED BY <1>1, <1>2 DEF Moves

Labels ==
  {"idle", "next", "visit", "steal", "pop", "sweep", "take", "run", "quit", "begin",
   "asleep", "woken", "schedule", "push", "cancel", "wake"}

LEMMA ThreadFields ==
  ASSUME TypeOK, Fields, NEW t \in Thread
  PROVE  /\ thread[t] \in ThreadState /\ FieldsOf(t, thread[t])
         /\ thread[t].at \in Labels /\ thread[t].v \in Vertex
         /\ thread[t].priority \in 0 .. MaxSignals /\ thread[t].first \in Queue
         /\ thread[t].i \in Nat /\ thread[t].quitting \in BOOLEAN
<1>1. thread[t] \in ThreadState BY DEF TypeOK
<1>2. 0 .. num_vertices + multi * ncpus + 2 \subseteq Nat BY Numbers DEF NQueues
<1> QED BY <1>1, <1>2 DEF ThreadState, Fields, Labels

LEMMA StateType ==
  ASSUME NEW place \in Labels, NEW q \in BOOLEAN
  PROVE  /\ State(place, q) \in ThreadState
         /\ State(place, q).at = place /\ State(place, q).quitting = q /\ State(place, q).i = 0
<1>1. 0 \in Vertex /\ 0 \in Queue /\ 0 \in 0 .. MaxSignals /\ 0 \in 0 .. num_vertices + multi * ncpus + 2
  BY Numbers DEF NQueues
<1> QED BY <1>1 DEF State, ThreadState, Labels

LEMMA FiberIsThread == Fiber \subseteq Thread
BY DEF Thread

LEMMA PlainState ==
  ASSUME NEW t, NEW place \in Labels \ {"visit", "steal", "pop", "sweep", "schedule", "push", "idle"},
         NEW q \in BOOLEAN, q => place \in GetPlaces, t \notin Fiber => place \in SignalPlaces
  PROVE  FieldsOf(t, State(place, q)) BY DEF State, FieldsOf, GetPlaces, SignalPlaces, Labels

LEMMA NewTaskMoves ==
  ASSUME TypeOK, Fields, NEW f \in Fiber, NEW v \in Vertex, NewTask(f, v)
  PROVE  \E s : Moves(f, s) /\ s.at = "take" /\ s.v = v /\ s.quitting = thread[f].quitting
<1>0. f \in Thread /\ thread[f].quitting \in BOOLEAN BY FiberIsThread, ThreadFields
<1>1. PICK s : s = [State("take", thread[f].quitting) EXCEPT !.v = v] OBVIOUS
<1>2. Become(f, s) BY <1>1 DEF NewTask
<1>3. State("take", thread[f].quitting) \in ThreadState BY <1>0, StateType DEF Labels
<1>4. /\ s.at = "take" /\ s.v = v /\ s.quitting = thread[f].quitting
      /\ s.priority = 0 /\ s.first = 0 /\ s.i = 0
      /\ s \in ThreadState BY <1>1, <1>3 DEF State, ThreadState
<1>5. FieldsOf(f, s) BY <1>4 DEF FieldsOf, GetPlaces
<1> QED BY <1>0, <1>2, <1>4, <1>5, BecomeMoves

LEMMA EmptyMoves ==
  ASSUME TypeOK, Fields, NEW f \in Fiber, Empty(f)
  PROVE  \E s : /\ Moves(f, s) /\ ~s.quitting
                /\ s.at = IF thread[f].quitting THEN "asleep" ELSE "quit"
<1>0. f \in Thread /\ thread[f].quitting \in BOOLEAN BY FiberIsThread, ThreadFields
<1>1. PICK place \in {"asleep", "quit"} : place = IF thread[f].quitting THEN "asleep" ELSE "quit" OBVIOUS
<1>2. Become(f, State(place, FALSE)) BY <1>0, <1>1 DEF Empty
<1>3. FieldsOf(f, State(place, FALSE)) BY <1>1, PlainState DEF Labels
<1>4. State(place, FALSE) \in ThreadState /\ State(place, FALSE).at = place /\ ~State(place, FALSE).quitting
  BY ZenonT(60), <1>1, StateType DEF Labels
<1>5. Moves(f, State(place, FALSE)) BY <1>0, <1>2, <1>3, <1>4, BecomeMoves
<1> QED BY <1>1, <1>4, <1>5

LEMMA GotoMoves ==
  ASSUME TypeOK, Fields, NEW t \in Thread, NEW place \in Labels,
         FieldsOf(t, [thread[t] EXCEPT !.at = place]), Goto(t, place)
  PROVE  \E s : /\ Moves(t, s) /\ s.at = place /\ s.v = thread[t].v
                /\ s.quitting = thread[t].quitting
<1>1. thread[t] \in ThreadState BY ThreadFields
<1>2. PICK s : s = [thread[t] EXCEPT !.at = place] OBVIOUS
<1>3. s \in ThreadState /\ s.at = place /\ s.v = thread[t].v /\ s.quitting = thread[t].quitting
  BY <1>1, <1>2 DEF ThreadState, Labels
<1>4. Become(t, s) BY <1>2 DEF Goto
<1> QED BY <1>2, <1>3, <1>4, BecomeMoves

\* Counting one more step of a loop.
LEMMA CountMoves ==
  ASSUME TypeOK, Fields, NEW f \in Fiber,
         FieldsOf(f, [thread[f] EXCEPT !.i = @ + 1]),
         thread[f].i + 1 <= num_vertices + NQueues + 2,
         Become(f, [thread[f] EXCEPT !.i = @ + 1])
  PROVE  \E s : /\ Moves(f, s) /\ s.at = thread[f].at /\ s.i = thread[f].i + 1
                /\ s.first = thread[f].first /\ s.v = thread[f].v /\ s.quitting = thread[f].quitting
<1>0. f \in Thread /\ thread[f] \in ThreadState /\ thread[f].i \in Nat BY FiberIsThread, ThreadFields
<1>1. PICK s : s = [thread[f] EXCEPT !.i = @ + 1] OBVIOUS
<1>2. thread[f].i + 1 \in 0 .. num_vertices + multi * ncpus + 2
  <2>1. multi * ncpus = NQueues BY DEF NQueues
  <2>2. num_vertices \in Nat /\ NQueues \in Nat BY Numbers
  <2>3. thread[f].i + 1 \in 0 .. num_vertices + NQueues + 2 BY <1>0, <2>2
  <2> QED BY <2>1, <2>3
<1>3. /\ s.at = thread[f].at /\ s.i = thread[f].i + 1 /\ s.first = thread[f].first
      /\ s.v = thread[f].v /\ s.quitting = thread[f].quitting BY <1>0, <1>1 DEF ThreadState
<1>4. s \in ThreadState BY <1>0, <1>1, <1>2 DEF ThreadState
<1>5. Moves(f, s) BY <1>0, <1>1, <1>4, BecomeMoves
<1> QED BY <1>3, <1>5

-----------------------------------------------------------------------------
(* What each action does.                                                  *)

LEMMA BeginVisitsDoes ==
  ASSUME TypeOK, Fields, NEW f \in Fiber, BeginVisits(f)
  PROVE  /\ At(f, "next")
         /\ \E s : Moves(f, s) /\ s.at = "visit" /\ s.i = 0 /\ s.quitting = thread[f].quitting
<1>0. f \in Thread /\ thread[f].quitting \in BOOLEAN BY FiberIsThread, ThreadFields
<1>1. PICK offset \in 0 .. multi - 1 :
        Become(f, [State("visit", thread[f].quitting) EXCEPT !.first = CpuOf(f) * multi + offset])
  BY DEF BeginVisits
<1>2. CpuOf(f) * multi + offset \in Queue BY CpuOfType, FirstQueue
<1>3. PICK q \in Queue : q = CpuOf(f) * multi + offset BY <1>2
<1>4. PICK s : s = [State("visit", thread[f].quitting) EXCEPT !.first = q] OBVIOUS
<1>5. Become(f, s) BY <1>1, <1>3, <1>4
<1>6. State("visit", thread[f].quitting) \in ThreadState BY <1>0, StateType DEF Labels
<1>7. /\ s.at = "visit" /\ s.i = 0 /\ s.quitting = thread[f].quitting /\ s.priority = 0
      /\ s \in ThreadState BY <1>4, <1>6 DEF State, ThreadState
<1>8. FieldsOf(f, s) BY <1>7, Numbers DEF BeginVisits, QueueScheduler, FieldsOf, GetPlaces
<1> QED BY <1>0, <1>5, <1>7, <1>8, BecomeMoves DEF BeginVisits

LEMMA VisitDoes ==
  ASSUME TypeOK, Fields, NEW f \in Fiber, Visit(f)
  PROVE  /\ At(f, "visit")
         /\ \E q \in Queue :
              /\ q = (thread[f].first + thread[f].i) % NQueues
              /\ \/ /\ Poppable(queues[q]) = {}
                    /\ UNCHANGED <<vertex_is_scheduled, queues>>
                    /\ \E s :
                         /\ Moves(f, s)
                         /\ \/ /\ thread[f].i = NQueues - 1 /\ ~s.quitting
                               /\ s.at = IF thread[f].quitting THEN "asleep" ELSE "quit"
                            \/ /\ thread[f].i # NQueues - 1 /\ s.at = "visit"
                               /\ s.i = thread[f].i + 1 /\ s.first = thread[f].first
                               /\ s.quitting = thread[f].quitting
                 \/ \E i \in DOMAIN queues[q] :
                      /\ queues' = [queues EXCEPT ![q] = Remove(queues[q], i)]
                      /\ vertex_is_scheduled' = vertex_is_scheduled \ {queues[q][i].v}
                      /\ \E s : /\ Moves(f, s) /\ s.quitting = thread[f].quitting
                                /\ IF queues[q][i].v \in vertex_is_scheduled
                                   THEN s.at = "take" /\ s.v = queues[q][i].v
                                   ELSE s = thread[f]
<1>0. f \in Thread BY FiberIsThread
<1>1. /\ thread[f] \in ThreadState /\ thread[f].first \in Queue /\ thread[f].i \in Nat
      /\ FieldsOf(f, thread[f]) /\ thread[f].quitting \in BOOLEAN /\ thread \in [Thread -> ThreadState]
  BY <1>0, ThreadFields DEF TypeOK
<1>2. thread[f].at = "visit" BY DEF Visit, At
<1>3. PICK q \in Queue : q = (thread[f].first + thread[f].i) % NQueues
  <2>1. thread[f].first + thread[f].i \in Nat BY <1>1, Numbers
  <2> QED BY <2>1, QueueOf
<1>4. queues[q] \in EntrySeq BY DEF TypeOK
<1>5. CASE /\ Poppable(queues[q]) = {}
           /\ IF thread[f].i = NQueues - 1 THEN Empty(f)
              ELSE Become(f, [thread[f] EXCEPT !.i = @ + 1])
           /\ UNCHANGED <<vertex_is_scheduled, queues>>
  <2>1. CASE thread[f].i = NQueues - 1
    <3>1. Empty(f) BY <1>5, <2>1
    <3>2. PICK s : /\ Moves(f, s) /\ ~s.quitting
                   /\ s.at = IF thread[f].quitting THEN "asleep" ELSE "quit" BY <3>1, EmptyMoves
    <3> QED BY <1>2, <1>3, <1>5, <2>1, <3>2 DEF At
  <2>2. CASE thread[f].i # NQueues - 1
    <3>1. Become(f, [thread[f] EXCEPT !.i = @ + 1]) BY <1>5, <2>2
    <3>2. thread[f].i + 1 < NQueues /\ thread[f].i + 1 <= num_vertices + NQueues + 2
      BY <1>1, <1>2, <2>2, Numbers DEF FieldsOf
    <3>3. PICK x : x = [thread[f] EXCEPT !.i = @ + 1] OBVIOUS
    <3>4. /\ x.at = "visit" /\ x.i = thread[f].i + 1 /\ x.priority = thread[f].priority
          /\ x.quitting = thread[f].quitting BY <1>1, <1>2, <3>3 DEF ThreadState
    <3>5. FieldsOf(f, x) BY <1>1, <1>2, <3>2, <3>4 DEF FieldsOf
    <3>6. PICK s : /\ Moves(f, s) /\ s.at = thread[f].at /\ s.i = thread[f].i + 1
                   /\ s.first = thread[f].first /\ s.quitting = thread[f].quitting
      BY SMTT(30), <3>1, <3>2, <3>3, <3>5, CountMoves
    <3> QED BY <1>2, <1>3, <1>5, <2>2, <3>6 DEF At
  <2> QED BY <2>1, <2>2
<1>6. CASE \E i \in Poppable(queues[q]) :
             /\ queues' = [queues EXCEPT ![q] = Remove(@, i)]
             /\ vertex_is_scheduled' = vertex_is_scheduled \ {queues[q][i].v}
             /\ IF queues[q][i].v \in vertex_is_scheduled THEN NewTask(f, queues[q][i].v)
                ELSE UNCHANGED thread
  <2>1. PICK i \in Poppable(queues[q]) :
             /\ queues' = [queues EXCEPT ![q] = Remove(queues[q], i)]
             /\ vertex_is_scheduled' = vertex_is_scheduled \ {queues[q][i].v}
             /\ IF queues[q][i].v \in vertex_is_scheduled THEN NewTask(f, queues[q][i].v)
                ELSE UNCHANGED thread BY <1>6 DEF TypeOK
  <2>2. i \in DOMAIN queues[q]
    <3> QED BY DEF Poppable
  <2>3. queues[q][i].v \in Vertex BY <1>4, <2>2, EntryMember
  <2>4. PICK s : /\ Moves(f, s) /\ s.quitting = thread[f].quitting
                 /\ IF queues[q][i].v \in vertex_is_scheduled
                    THEN s.at = "take" /\ s.v = queues[q][i].v
                    ELSE s = thread[f]
    <3>1. CASE queues[q][i].v \in vertex_is_scheduled BY <2>1, <2>3, <3>1, NewTaskMoves
    <3>2. CASE queues[q][i].v \notin vertex_is_scheduled
      <4>1. thread' = thread BY <2>1, <3>2
      <4>2. Moves(f, thread[f]) BY <1>0, <1>1, <4>1 DEF Moves
      <4> QED BY <3>2, <4>2
    <3> QED BY <3>1, <3>2
  <2> QED BY <1>2, <1>3, <2>1, <2>2, <2>4 DEF At
<1> QED BY <1>3, <1>5, <1>6 DEF Visit, NQueues

LEMMA TakeOutQueueDoes ==
  ASSUME TypeOK, Fields, NEW f \in Fiber, TakeOutQueue(f)
  PROVE  /\ At(f, "next") /\ kind = "queued_fifo" /\ OutLockFree(CpuOf(f))
         /\ out_queues' \in [Cpu -> EntrySeq] /\ master_queue' \in Seq(EntrySeq)
         /\ \/ /\ out_queues[CpuOf(f)] = <<>> /\ master_queue # <<>>
               /\ out_queues' = [out_queues EXCEPT ![CpuOf(f)] = Head(master_queue)]
               /\ master_queue' = Tail(master_queue)
            \/ /\ out_queues[CpuOf(f)] # <<>> \/ master_queue = <<>>
               /\ UNCHANGED <<out_queues, master_queue>>
         /\ \E s : /\ Moves(f, s) /\ s.i = 0 /\ s.quitting = thread[f].quitting
                   /\ s.at = IF out_queues'[CpuOf(f)] = <<>> THEN "steal" ELSE "pop"
<1>0. f \in Thread /\ thread[f].quitting \in BOOLEAN BY FiberIsThread, ThreadFields
<1>1. PICK place \in {"steal", "pop"} : place = IF out_queues'[CpuOf(f)] = <<>> THEN "steal" ELSE "pop"
  OBVIOUS
<1>2. Become(f, State(place, thread[f].quitting)) BY <1>1 DEF TakeOutQueue
<1>3. /\ State(place, thread[f].quitting) \in ThreadState
      /\ State(place, thread[f].quitting).at = place /\ State(place, thread[f].quitting).i = 0
      /\ State(place, thread[f].quitting).quitting = thread[f].quitting
  BY <1>0, <1>1, StateType DEF Labels
<1>4. kind = "queued_fifo" BY DEF TakeOutQueue
<1>5. FieldsOf(f, State(place, thread[f].quitting)) BY <1>1, <1>3, <1>4, Numbers DEF FieldsOf, GetPlaces
<1>6. Moves(f, State(place, thread[f].quitting)) BY <1>0, <1>2, <1>3, <1>5, BecomeMoves
<1>7. \/ /\ out_queues[CpuOf(f)] = <<>> /\ master_queue # <<>>
         /\ out_queues' = [out_queues EXCEPT ![CpuOf(f)] = Head(master_queue)]
         /\ master_queue' = Tail(master_queue)
      \/ /\ out_queues[CpuOf(f)] # <<>> \/ master_queue = <<>>
         /\ UNCHANGED <<out_queues, master_queue>> BY DEF TakeOutQueue
<1>8. out_queues' \in [Cpu -> EntrySeq] /\ master_queue' \in Seq(EntrySeq)
  <2>1. out_queues \in [Cpu -> EntrySeq] /\ master_queue \in Seq(EntrySeq) BY DEF TypeOK
  <2>2. CASE master_queue # <<>>
    <3>1. Head(master_queue) \in EntrySeq /\ Tail(master_queue) \in Seq(EntrySeq)
      BY <2>1, <2>2, HeadTailProperties
    <3> QED BY <1>7, <2>1, <3>1
  <2> QED BY <1>7, <2>1, <2>2
<1> QED BY <1>1, <1>3, <1>4, <1>6, <1>7, <1>8 DEF TakeOutQueue

LEMMA StealDoes ==
  ASSUME TypeOK, Fields, NEW f \in Fiber, Steal(f)
  PROVE  /\ At(f, "steal") /\ kind = "queued_fifo"
         /\ \E q \in Queue :
              /\ q = (thread[f].i + multi * CpuOf(f)) % NQueues
              /\ \/ /\ queues[q] # <<>>
                    /\ out_queues' = [out_queues EXCEPT ![CpuOf(f)] = queues[q]]
                    /\ queues' = [queues EXCEPT ![q] = <<>>]
                    /\ \E s : Moves(f, s) /\ s.at = "pop" /\ s.quitting = thread[f].quitting
                 \/ /\ queues[q] = <<>>
                    /\ UNCHANGED <<out_queues, queues>>
                    /\ \E s :
                         /\ Moves(f, s) /\ s.quitting = thread[f].quitting
                         /\ \/ thread[f].i = NQueues - 1 /\ s.at = "pop"
                            \/ thread[f].i # NQueues - 1 /\ s.at = "steal" /\ s.i = thread[f].i + 1
<1>0. f \in Thread BY FiberIsThread
<1>1. /\ thread[f] \in ThreadState /\ thread[f].i \in Nat /\ FieldsOf(f, thread[f])
      /\ thread[f].quitting \in BOOLEAN BY <1>0, ThreadFields
<1>2. thread[f].at = "steal" BY DEF Steal, At
<1>3. kind = "queued_fifo" BY <1>1, <1>2 DEF FieldsOf
<1>4. PICK q \in Queue : q = (thread[f].i + multi * CpuOf(f)) % NQueues
  <2>1. multi * CpuOf(f) \in Nat BY CpuOfType, Numbers, Product
  <2>2. thread[f].i + multi * CpuOf(f) \in Nat BY <1>1, <2>1
  <2> QED BY <2>2, QueueOf
<1>5. /\ State("pop", thread[f].quitting) \in ThreadState /\ State("pop", thread[f].quitting).at = "pop"
      /\ State("pop", thread[f].quitting).quitting = thread[f].quitting BY <1>1, StateType DEF Labels
<1>6. FieldsOf(f, State("pop", thread[f].quitting)) BY <1>3, <1>5 DEF FieldsOf, GetPlaces
<1>7. Become(f, State("pop", thread[f].quitting)) => Moves(f, State("pop", thread[f].quitting))
  BY <1>0, <1>5, <1>6, BecomeMoves
<1>8. CASE queues[q] # <<>>
  <2>1. /\ out_queues' = [out_queues EXCEPT ![CpuOf(f)] = queues[q]]
        /\ queues' = [queues EXCEPT ![q] = <<>>]
        /\ Become(f, State("pop", thread[f].quitting)) BY <1>4, <1>8 DEF Steal, NQueues
  <2> QED BY <1>2, <1>3, <1>4, <1>5, <1>7, <1>8, <2>1 DEF At
<1>9. CASE queues[q] = <<>>
  <2>1. /\ UNCHANGED <<out_queues, queues>>
        /\ Become(f, IF thread[f].i = NQueues - 1 THEN State("pop", thread[f].quitting)
                     ELSE [thread[f] EXCEPT !.i = @ + 1]) BY <1>4, <1>9 DEF Steal, NQueues
  <2>2. CASE thread[f].i = NQueues - 1 BY <1>2, <1>3, <1>4, <1>5, <1>7, <1>9, <2>1, <2>2 DEF At
  <2>3. CASE thread[f].i # NQueues - 1
    <3>1. Become(f, [thread[f] EXCEPT !.i = @ + 1]) BY <2>1, <2>3
    <3>2. thread[f].i + 1 < NQueues /\ thread[f].i + 1 <= num_vertices + NQueues + 2
      BY <1>1, <1>2, <2>3, Numbers DEF FieldsOf
    <3>3. PICK x : x = [thread[f] EXCEPT !.i = @ + 1] OBVIOUS
    <3>4. /\ x.at = "steal" /\ x.i = thread[f].i + 1 /\ x.priority = thread[f].priority
          /\ x.quitting = thread[f].quitting BY <1>1, <1>2, <3>3 DEF ThreadState
    <3>5. FieldsOf(f, x) BY <1>1, <1>2, <3>2, <3>4 DEF FieldsOf
    <3>6. PICK s : /\ Moves(f, s) /\ s.at = thread[f].at /\ s.i = thread[f].i + 1
                   /\ s.quitting = thread[f].quitting BY <3>1, <3>2, <3>3, <3>5, CountMoves
    <3> QED BY <1>2, <1>3, <1>4, <1>9, <2>1, <2>3, <3>6 DEF At
  <2> QED BY <2>2, <2>3
<1> QED BY <1>8, <1>9

LEMMA PopOutQueueDoes ==
  ASSUME TypeOK, Fields, NEW f \in Fiber, PopOutQueue(f)
  PROVE  /\ At(f, "pop") /\ kind = "queued_fifo"
         /\ \/ /\ out_queues[CpuOf(f)] = <<>>
               /\ UNCHANGED <<out_queues, vertex_is_scheduled>>
               /\ \E s : /\ Moves(f, s) /\ ~s.quitting
                         /\ s.at = IF thread[f].quitting THEN "asleep" ELSE "quit"
            \/ /\ out_queues[CpuOf(f)] # <<>>
               /\ out_queues' = [out_queues EXCEPT ![CpuOf(f)] = Tail(out_queues[CpuOf(f)])]
               /\ vertex_is_scheduled' = vertex_is_scheduled \ {Head(out_queues[CpuOf(f)]).v}
               /\ \E s : /\ Moves(f, s) /\ s.quitting = thread[f].quitting
                         /\ IF Head(out_queues[CpuOf(f)]).v \in vertex_is_scheduled
                            THEN s.at = "take" /\ s.v = Head(out_queues[CpuOf(f)]).v
                            ELSE s = thread[f]
<1>0. f \in Thread BY FiberIsThread
<1>1. thread[f] \in ThreadState /\ FieldsOf(f, thread[f]) /\ thread \in [Thread -> ThreadState]
  BY <1>0, ThreadFields DEF TypeOK
<1>2. thread[f].at = "pop" BY DEF PopOutQueue, At
<1>3. kind = "queued_fifo" BY <1>1, <1>2 DEF FieldsOf
<1>4. CASE out_queues[CpuOf(f)] = <<>>
  <2>1. Empty(f) /\ UNCHANGED <<out_queues, vertex_is_scheduled>> BY <1>4 DEF PopOutQueue
  <2>2. PICK s : /\ Moves(f, s) /\ ~s.quitting
                 /\ s.at = IF thread[f].quitting THEN "asleep" ELSE "quit" BY <2>1, EmptyMoves
  <2> QED BY <1>2, <1>3, <1>4, <2>1, <2>2 DEF At
<1>5. CASE out_queues[CpuOf(f)] # <<>>
  <2>0. out_queues \in [Cpu -> EntrySeq] /\ CpuOf(f) \in Cpu BY CpuOfType DEF TypeOK
  <2>1. PICK v : v = Head(out_queues[CpuOf(f)]).v OBVIOUS
  <2>2. /\ out_queues' = [out_queues EXCEPT ![CpuOf(f)] = Tail(@)]
        /\ vertex_is_scheduled' = vertex_is_scheduled \ {v}
        /\ IF v \in vertex_is_scheduled THEN NewTask(f, v) ELSE UNCHANGED thread
    BY <1>5, <2>1 DEF PopOutQueue
  <2>3. out_queues' = [out_queues EXCEPT ![CpuOf(f)] = Tail(out_queues[CpuOf(f)])] BY <2>0, <2>2
  <2>4. v \in Vertex
    <3>1. out_queues[CpuOf(f)] \in EntrySeq BY <2>0
    <3>2. out_queues[CpuOf(f)] \in Seq(EntryType) BY <3>1, EntryMember
    <3>3. Head(out_queues[CpuOf(f)]) \in EntryType BY <1>5, <3>2, HeadTailProperties
    <3> QED BY <2>1, <3>3 DEF EntryType
  <2>5. PICK s : /\ Moves(f, s) /\ s.quitting = thread[f].quitting
                 /\ IF v \in vertex_is_scheduled THEN s.at = "take" /\ s.v = v ELSE s = thread[f]
    <3>1. CASE v \in vertex_is_scheduled BY <2>2, <2>4, <3>1, NewTaskMoves
    <3>2. CASE v \notin vertex_is_scheduled
      <4>1. thread' = thread BY <2>2, <3>2
      <4>2. Moves(f, thread[f]) BY <1>0, <1>1, <4>1 DEF Moves
      <4> QED BY <3>2, <4>2
    <3> QED BY <3>1, <3>2
  <2> QED BY <1>2, <1>3, <1>5, <2>1, <2>2, <2>3, <2>5 DEF At
<1> QED BY <1>4, <1>5

LEMMA BeginSweepDoes ==
  ASSUME TypeOK, Fields, NEW f \in Fiber, BeginSweep(f)
  PROVE  /\ At(f, "next") /\ kind \in SweepKinds
         /\ \E s : Moves(f, s) /\ s.at = "sweep" /\ s.i = 0 /\ s.quitting = thread[f].quitting
<1>0. f \in Thread /\ thread[f].quitting \in BOOLEAN BY FiberIsThread, ThreadFields
<1>1. kind \in SweepKinds /\ At(f, "next") /\ Become(f, State("sweep", thread[f].quitting))
  BY DEF BeginSweep, SweepKinds
<1>2. /\ State("sweep", thread[f].quitting) \in ThreadState
      /\ State("sweep", thread[f].quitting).at = "sweep" /\ State("sweep", thread[f].quitting).i = 0
      /\ State("sweep", thread[f].quitting).quitting = thread[f].quitting BY <1>0, StateType DEF Labels
<1>3. 0 <= max_fails + 1 BY MaxFails
<1>4. FieldsOf(f, State("sweep", thread[f].quitting)) BY <1>1, <1>2, <1>3 DEF FieldsOf, GetPlaces
<1>5. Moves(f, State("sweep", thread[f].quitting)) BY <1>0, <1>1, <1>2, <1>4, BecomeMoves
<1> QED BY <1>1, <1>2, <1>5

LEMMA SweepDoes ==
  ASSUME TypeOK, Fields, NEW f \in Fiber, Sweep(f)
  PROVE  /\ At(f, "sweep") /\ kind \in SweepKinds
         /\ \E idx \in Nat, v \in Vertex :
              /\ idx = next_index[IndexOf(CpuOf(f))] /\ v = (idx * randomizer) % num_vertices
              /\ next_index' = [next_index EXCEPT ![IndexOf(CpuOf(f))] = Incremented(idx, CpuOf(f))]
              /\ \/ /\ thread[f].i > max_fails \/ idx >= num_vertices
                    /\ UNCHANGED vertex_is_scheduled
                    /\ \E s : /\ Moves(f, s) /\ ~s.quitting
                              /\ s.at = IF thread[f].quitting THEN "asleep" ELSE "quit"
                 \/ /\ thread[f].i <= max_fails /\ idx < num_vertices
                    /\ vertex_is_scheduled' = vertex_is_scheduled \ {v}
                    /\ \E s : /\ Moves(f, s) /\ s.quitting = thread[f].quitting
                              /\ IF v \in vertex_is_scheduled THEN s.at = "take" /\ s.v = v
                                 ELSE s.at = "sweep" /\ s.i = thread[f].i + 1
<1>0. f \in Thread BY FiberIsThread
<1>1. thread[f] \in ThreadState /\ thread[f].i \in Nat /\ FieldsOf(f, thread[f]) BY <1>0, ThreadFields
<1>2. thread[f].at = "sweep" BY DEF Sweep, At
<1>3. kind \in SweepKinds BY <1>1, <1>2 DEF FieldsOf
<1>4. CpuOf(f) \in Cpu /\ IndexOf(CpuOf(f)) \in Cpu BY CpuOfType, Numbers DEF IndexOf
<1>5. next_index \in [Cpu -> 0 .. num_vertices + ncpus] BY DEF TypeOK
<1>6. PICK idx \in Nat : idx = next_index[IndexOf(CpuOf(f))] BY <1>4, <1>5, Numbers
<1>7. PICK v \in Vertex : v = (idx * randomizer) % num_vertices BY VertexAt
<1>8. next_index' = [next_index EXCEPT ![IndexOf(CpuOf(f))] = Incremented(idx, CpuOf(f))]
  BY <1>4, <1>5, <1>6 DEF Sweep
<1>9. IF thread[f].i > max_fails \/ idx >= num_vertices
      THEN Empty(f) /\ UNCHANGED vertex_is_scheduled
      ELSE /\ vertex_is_scheduled' = vertex_is_scheduled \ {v}
           /\ IF v \in vertex_is_scheduled THEN NewTask(f, v)
              ELSE Become(f, [thread[f] EXCEPT !.i = @ + 1]) BY <1>6, <1>7 DEF Sweep
<1>10. CASE thread[f].i > max_fails \/ idx >= num_vertices
  <2>1. Empty(f) /\ UNCHANGED vertex_is_scheduled BY <1>9, <1>10
  <2>2. PICK s : /\ Moves(f, s) /\ ~s.quitting
                 /\ s.at = IF thread[f].quitting THEN "asleep" ELSE "quit" BY <2>1, EmptyMoves
  <2> QED BY <1>2, <1>3, <1>6, <1>7, <1>8, <1>10, <2>1, <2>2 DEF At
<1>11. CASE ~(thread[f].i > max_fails \/ idx >= num_vertices)
  <2>1. /\ vertex_is_scheduled' = vertex_is_scheduled \ {v}
        /\ IF v \in vertex_is_scheduled THEN NewTask(f, v)
           ELSE Become(f, [thread[f] EXCEPT !.i = @ + 1]) BY <1>9, <1>11
  <2>0. max_fails \in Int /\ num_vertices \in Int /\ thread[f].i \in Int /\ idx \in Int
    BY <1>1, MaxFails, Numbers
  <2>2. thread[f].i <= max_fails /\ idx < num_vertices BY <1>11, <2>0
  <2>3. PICK s : /\ Moves(f, s) /\ s.quitting = thread[f].quitting
                 /\ IF v \in vertex_is_scheduled THEN s.at = "take" /\ s.v = v
                    ELSE s.at = "sweep" /\ s.i = thread[f].i + 1
    <3>1. CASE v \in vertex_is_scheduled BY <2>1, <3>1, NewTaskMoves
    <3>2. CASE v \notin vertex_is_scheduled
      <4>1. Become(f, [thread[f] EXCEPT !.i = @ + 1]) BY <2>1, <3>2
      <4>2. thread[f].i + 1 <= max_fails + 1 /\ thread[f].i + 1 <= num_vertices + NQueues + 2
        <5>1. max_fails <= num_vertices + 1 /\ NQueues \in Nat BY MaxFails, Numbers
        <5> QED BY <2>0, <2>2, <5>1, SMTT(30)
      <4>3. PICK x : x = [thread[f] EXCEPT !.i = @ + 1] OBVIOUS
      <4>4. /\ x.at = "sweep" /\ x.i = thread[f].i + 1 /\ x.priority = thread[f].priority
            /\ x.quitting = thread[f].quitting BY <1>1, <1>2, <4>3 DEF ThreadState
      <4>5. FieldsOf(f, x) BY <1>1, <1>2, <4>2, <4>4 DEF FieldsOf
      <4>6. PICK s : /\ Moves(f, s) /\ s.at = thread[f].at /\ s.i = thread[f].i + 1
                     /\ s.quitting = thread[f].quitting BY <4>1, <4>2, <4>3, <4>5, CountMoves
      <4> QED BY <1>2, <3>2, <4>6
    <3> QED BY <3>1, <3>2
  <2> QED BY <1>2, <1>3, <1>6, <1>7, <1>8, <2>1, <2>2, <2>3 DEF At
<1> QED BY <1>10, <1>11

\* Threads that begin again or only go on.
LEMMA PlainMoves ==
  ASSUME TypeOK, Fields, NEW t \in Thread,
         NEW place \in Labels \ {"visit", "steal", "pop", "sweep", "schedule", "push", "idle"},
         NEW q \in BOOLEAN, q => place \in GetPlaces, t \notin Fiber => place \in SignalPlaces,
         Become(t, State(place, q))
  PROVE  \E s : Moves(t, s) /\ s.at = place /\ s.quitting = q
<1>1. FieldsOf(t, State(place, q)) BY PlainState
<1>2. State(place, q) \in ThreadState /\ State(place, q).at = place /\ State(place, q).quitting = q
  BY StateType
<1> QED BY <1>1, <1>2, BecomeMoves

LEMMA IdleFacts ==
  ASSUME NEW t \in Thread
  PROVE  /\ Idle(t) \in ThreadState /\ FieldsOf(t, Idle(t))
         /\ Idle(t).at = IF t \in Fiber THEN "next" ELSE "idle"
         /\ ~Idle(t).quitting
<1>1. CASE t \in Fiber BY ZenonT(60), <1>1, PlainState, StateType DEF Idle, Labels
<1>2. CASE t \notin Fiber BY ZenonT(60), <1>2, StateType DEF Idle, FieldsOf, Labels
<1> QED BY <1>1, <1>2

LEMMA IdleMoves ==
  ASSUME TypeOK, Fields, NEW t \in Thread, Become(t, Idle(t))
  PROVE  \E s : Moves(t, s) /\ s.at = (IF t \in Fiber THEN "next" ELSE "idle") /\ ~s.quitting
BY IdleFacts, BecomeMoves

LEMMA TakeMessageDoes ==
  ASSUME TypeOK, Fields, NEW f \in Fiber, TakeMessage(f)
  PROVE  /\ At(f, "take") /\ thread[f].v \in Vertex
         /\ box' = [box EXCEPT ![thread[f].v] = 0]
         /\ \E s : /\ Moves(f, s)
                   /\ \/ s.at = "next" /\ s.quitting = thread[f].quitting
                      \/ s.at = "run" /\ ~s.quitting
<1>0. f \in Thread /\ thread[f].quitting \in BOOLEAN /\ thread[f].v \in Vertex
  BY FiberIsThread, ThreadFields
<1>1. CASE box[thread[f].v] = 0 BY <1>1, <1>0, PlainMoves DEF TakeMessage, Labels, GetPlaces
<1>2. CASE box[thread[f].v] # 0
  <2>1. Become(f, State("run", FALSE)) BY <1>2 DEF TakeMessage
  <2>2. \E s : Moves(f, s) /\ s.at = "run" /\ s.quitting = FALSE
    BY <1>0, <2>1, PlainMoves DEF Labels, GetPlaces
  <2> QED BY <1>0, <2>2 DEF TakeMessage
<1> QED BY <1>1, <1>2

LEMMA RunProgramDoes ==
  ASSUME TypeOK, Fields, NEW f \in Fiber, RunProgram(f)
  PROVE  /\ At(f, "run")
         /\ \E s : Moves(f, s) /\ s.at = "next" /\ ~s.quitting BY FiberIsThread, IdleMoves DEF RunProgram

LEMMA BeginDoneDoes ==
  ASSUME TypeOK, Fields, NEW f \in Fiber, BeginDone(f)
  PROVE  /\ At(f, "quit")
         /\ \E s : Moves(f, s) /\ s.at = "begin" /\ ~s.quitting
<1>0. f \in Thread BY FiberIsThread
<1>1. thread[f].at = "quit" /\ Goto(f, "begin") BY DEF BeginDone, At
<1>2. FieldsOf(f, thread[f]) /\ thread[f] \in ThreadState /\ thread[f].quitting \in BOOLEAN
  BY <1>0, ThreadFields
<1>3. ~thread[f].quitting BY <1>1, <1>2 DEF FieldsOf, GetPlaces
<1>4. PICK x : x = [thread[f] EXCEPT !.at = "begin"] OBVIOUS
<1>5. x.at = "begin" /\ x.quitting = thread[f].quitting BY <1>2, <1>4 DEF ThreadState
<1>6. FieldsOf(f, x) BY <1>3, <1>5 DEF FieldsOf
<1>7. \E s : Moves(f, s) /\ s.at = "begin" /\ s.quitting = thread[f].quitting
  <2>1. "begin" \in Labels BY DEF Labels
  <2> QED BY <1>0, <1>1, <1>4, <1>6, <2>1, GotoMoves
<1> QED BY <1>1, <1>3, <1>7 DEF At

LEMMA LockDoneDoes ==
  ASSUME TypeOK, Fields, NEW f \in Fiber, LockDone(f)
  PROVE  /\ At(f, "begin") /\ MutexFree
         /\ \E s : Moves(f, s) /\ s.at = "next" /\ s.quitting
<1>1. Become(f, State("next", TRUE)) BY DEF LockDone
<1>2. \E s : Moves(f, s) /\ s.at = "next" /\ s.quitting = TRUE
  BY <1>1, FiberIsThread, PlainMoves DEF Labels, GetPlaces
<1> QED BY <1>2 DEF LockDone

LEMMA LeaveDoneDoes ==
  ASSUME TypeOK, Fields, NEW f \in Fiber, LeaveDone(f)
  PROVE  /\ At(f, "woken")
         /\ \E s : Moves(f, s) /\ s.at = "next" /\ ~s.quitting BY FiberIsThread, IdleMoves DEF LeaveDone

LEMMA AddDoes ==
  ASSUME TypeOK, Fields, BoxBound, NEW t \in Thread, Add(t)
  PROVE  /\ At(t, "idle") \/ At(t, "run")
         /\ signals < MaxSignals /\ signals' = signals + 1
         /\ \E v \in Vertex :
              /\ box' = [box EXCEPT ![v] = box[v] + 1]
              /\ \E s : Moves(t, s) /\ s.at = "schedule" /\ ~s.quitting /\ s.v = v
<1>1. PICK v \in Signallable :
       /\ box' = [box EXCEPT ![v] = @ + 1]
       /\ Become(t, [State("schedule", FALSE) EXCEPT !.v = v, !.priority = box[v] + 1]) BY DEF Add
<1>2. v \in Vertex BY ConstantsAssumption
<1>3. box \in [Vertex -> 0 .. MaxSignals] /\ signals \in 0 .. MaxSignals BY DEF TypeOK
<1>4. box' = [box EXCEPT ![v] = box[v] + 1] BY <1>1, <1>2, <1>3
<1>5. signals < MaxSignals /\ signals' = signals + 1 BY DEF Add
<1>6. box[v] + 1 \in 1 .. MaxSignals BY <1>2, <1>3, <1>5, Numbers DEF BoxBound
<1>7. PICK p \in 1 .. MaxSignals : p = box[v] + 1 BY <1>6
<1>8. PICK s : s = [State("schedule", FALSE) EXCEPT !.v = v, !.priority = p] OBVIOUS
<1>9. State("schedule", FALSE) \in ThreadState BY StateType DEF Labels
<1>10. /\ s.at = "schedule" /\ s.v = v /\ ~s.quitting /\ s.priority = p
       /\ s \in ThreadState
  <2>1. p \in 0 .. MaxSignals BY Numbers
  <2> QED BY <1>2, <1>8, <1>9, <2>1 DEF State, ThreadState
<1>11. FieldsOf(t, s) BY <1>10, Numbers DEF FieldsOf, SignalPlaces
<1>12. Become(t, s) BY <1>1, <1>7, <1>8
<1>13. Moves(t, s) BY <1>10, <1>11, <1>12, BecomeMoves
<1> QED BY <1>2, <1>4, <1>5, <1>10, <1>13 DEF Add

LEMMA ScheduleDoes ==
  ASSUME TypeOK, Fields, NEW t \in Thread, Schedule(t)
  PROVE  /\ At(t, "schedule") /\ thread[t].v \in Vertex
         /\ vertex_is_scheduled' = vertex_is_scheduled \cup {thread[t].v}
         /\ \E s : /\ Moves(t, s) /\ ~s.quitting /\ s.v = thread[t].v
                   /\ s.at = IF thread[t].v \in vertex_is_scheduled \/ kind \in SweepKinds
                             THEN "cancel" ELSE "push"
<1>1. thread[t].at = "schedule" BY DEF Schedule, At
<1>2. /\ FieldsOf(t, thread[t]) /\ thread[t] \in ThreadState /\ thread[t].v \in Vertex
      /\ thread[t].quitting \in BOOLEAN BY ThreadFields
<1>3. ~thread[t].quitting BY <1>1, <1>2 DEF FieldsOf, GetPlaces
<1>4. PICK place \in {"cancel", "push"} :
        place = IF thread[t].v \in vertex_is_scheduled \/ kind \in SweepKinds THEN "cancel" ELSE "push"
  OBVIOUS
<1>5. Goto(t, place) BY <1>4 DEF Schedule, SweepKinds
<1>6. PICK x : x = [thread[t] EXCEPT !.at = place] OBVIOUS
<1>7. x.at = place /\ x.quitting = thread[t].quitting /\ x.priority = thread[t].priority
  BY <1>2, <1>6 DEF ThreadState
<1>8. kind \in QueueKinds \cup SweepKinds BY ConstantsAssumption DEF TypeOK, QueueKinds, SweepKinds
<1>9. FieldsOf(t, x) BY <1>1, <1>2, <1>3, <1>4, <1>7, <1>8 DEF FieldsOf, SignalPlaces
<1>10. \E s : /\ Moves(t, s) /\ s.at = place /\ s.v = thread[t].v /\ s.quitting = thread[t].quitting
  <2>1. place \in Labels BY DEF Labels
  <2> QED BY <1>5, <1>6, <1>9, <2>1, GotoMoves
<1> QED BY <1>1, <1>2, <1>3, <1>4, <1>10 DEF Schedule, At

LEMMA PushDoes ==
  ASSUME TypeOK, Fields, NEW t \in Thread, Push(t)
  PROVE  /\ At(t, "push") /\ kind \in QueueKinds /\ thread[t].v \in Vertex
         /\ Entry(thread[t].v, thread[t].priority) \in EntryType
         /\ \E q \in Queue :
              \/ /\ kind = "queued_fifo"
                 /\ queues' = [queues EXCEPT ![q] = <<>>]
                 /\ master_queue' = Append(master_queue,
                                           Append(queues[q], Entry(thread[t].v, thread[t].priority)))
              \/ /\ queues' = [queues EXCEPT ![q] =
                                 Append(queues[q], Entry(thread[t].v, thread[t].priority))]
                 /\ UNCHANGED master_queue
         /\ \E s : Moves(t, s) /\ s.at = "cancel" /\ ~s.quitting
<1>1. thread[t].at = "push" BY DEF Push, At
<1>2. /\ FieldsOf(t, thread[t]) /\ thread[t] \in ThreadState /\ thread[t].v \in Vertex
      /\ thread[t].quitting \in BOOLEAN /\ thread[t].priority \in 0 .. MaxSignals BY ThreadFields
<1>3. ~thread[t].quitting /\ thread[t].priority >= 1 /\ kind \in QueueKinds
  BY <1>1, <1>2 DEF FieldsOf, GetPlaces
<1>4. Entry(thread[t].v, thread[t].priority) \in EntryType BY <1>2, <1>3, Numbers DEF Entry, EntryType
<1>5. Goto(t, "cancel") BY DEF Push
<1>6. PICK x : x = [thread[t] EXCEPT !.at = "cancel"] OBVIOUS
<1>7. x.at = "cancel" /\ x.quitting = thread[t].quitting BY <1>2, <1>6 DEF ThreadState
<1>8. FieldsOf(t, x) BY <1>3, <1>7 DEF FieldsOf, SignalPlaces
<1>9. \E s : Moves(t, s) /\ s.at = "cancel" /\ s.quitting = thread[t].quitting
  <2>1. "cancel" \in Labels BY DEF Labels
  <2> QED BY <1>5, <1>6, <1>8, <2>1, GotoMoves
<1>10. PICK q \in Queue :
         IF kind = "queued_fifo"
            /\ Len(Append(queues[q], Entry(thread[t].v, thread[t].priority))) > sub_queue_size
         THEN /\ queues' = [queues EXCEPT ![q] = <<>>]
              /\ master_queue' = Append(master_queue,
                                        Append(queues[q], Entry(thread[t].v, thread[t].priority)))
         ELSE /\ queues' = [queues EXCEPT ![q] =
                              Append(queues[q], Entry(thread[t].v, thread[t].priority))]
              /\ UNCHANGED master_queue BY DEF Push
<1>11. \/ /\ kind = "queued_fifo"
          /\ queues' = [queues EXCEPT ![q] = <<>>]
          /\ master_queue' = Append(master_queue,
                                    Append(queues[q], Entry(thread[t].v, thread[t].priority)))
       \/ /\ queues' = [queues EXCEPT ![q] =
                          Append(queues[q], Entry(thread[t].v, thread[t].priority))]
          /\ UNCHANGED master_queue BY <1>10
<1> QED BY <1>1, <1>2, <1>3, <1>4, <1>9, <1>11 DEF At

LEMMA FieldsKept ==
  ASSUME kind' = kind, \A u \in Thread : FieldsOf(u, thread'[u])
  PROVE  Fields' BY DEF Fields, FieldsOf, max_fails, NQueues

LEMMA MovesFields ==
  ASSUME Fields, NEW t \in Thread, NEW s, Moves(t, s), kind' = kind
  PROVE  Fields'
<1>1. ASSUME NEW u \in Thread PROVE FieldsOf(u, thread'[u]) BY DEF Moves, Fields
<1> QED BY <1>1, FieldsKept

LEMMA CancelNobodyDoes ==
  ASSUME TypeOK, Fields, NEW t \in Thread, CancelNobody(t)
  PROVE  /\ At(t, "cancel")
         /\ \A f \in Fiber : ~thread[f].quitting /\ ~At(f, "asleep")
         /\ \E s : Moves(t, s) /\ s.at = (IF t \in Fiber THEN "next" ELSE "idle") /\ ~s.quitting
<1>1. \A f \in Fiber : ~thread[f].quitting /\ ~At(f, "asleep") BY DEF CancelNobody, Critical, At
<1> QED BY <1>1, IdleMoves DEF CancelNobody

LEMMA CancelDoes ==
  ASSUME TypeOK, Fields, NEW t \in Thread, Cancel(t)
  PROVE  /\ At(t, "cancel")
         /\ \E s : Moves(t, s) /\ s.at = "wake" /\ ~s.quitting
<1>1. thread[t].at = "cancel" /\ Goto(t, "wake") BY DEF Cancel, At
<1>2. FieldsOf(t, thread[t]) /\ thread[t] \in ThreadState /\ thread[t].quitting \in BOOLEAN
  BY ThreadFields
<1>3. ~thread[t].quitting BY <1>1, <1>2 DEF FieldsOf, GetPlaces
<1>4. PICK x : x = [thread[t] EXCEPT !.at = "wake"] OBVIOUS
<1>5. x.at = "wake" /\ x.quitting = thread[t].quitting BY <1>2, <1>4 DEF ThreadState
<1>6. FieldsOf(t, x) BY <1>3, <1>5 DEF FieldsOf, SignalPlaces
<1>7. \E s : Moves(t, s) /\ s.at = "wake" /\ s.quitting = thread[t].quitting
  <2>1. "wake" \in Labels BY DEF Labels
  <2> QED BY <1>1, <1>4, <1>6, <2>1, GotoMoves
<1> QED BY <1>1, <1>3, <1>7 DEF At

LEMMA WakeDoes ==
  ASSUME TypeOK, Fields, NEW t \in Thread, Wake(t)
  PROVE  /\ At(t, "wake") /\ MutexFree
         /\ thread' \in [Thread -> ThreadState] /\ Fields'
         /\ thread'[t].at = (IF t \in Fiber THEN "next" ELSE "idle") /\ ~thread'[t].quitting
         /\ \A u \in Thread : u # t =>
              IF At(u, "asleep") THEN thread'[u].at = "woken" /\ ~thread'[u].quitting
              ELSE thread'[u] = thread[u]
<1>1. /\ At(t, "wake") /\ MutexFree /\ kind' = kind
      /\ thread' = [u \in Thread |-> IF u = t THEN Idle(t)
                                     ELSE IF At(u, "asleep") THEN State("woken", FALSE)
                                     ELSE thread[u]] BY DEF Wake
<1>2. /\ State("woken", FALSE) \in ThreadState /\ State("woken", FALSE).at = "woken"
      /\ ~State("woken", FALSE).quitting BY StateType DEF Labels
<1>3. \A u \in Thread : thread[u] \in ThreadState /\ FieldsOf(u, thread[u]) BY ThreadFields
<1>4. \A u \in Thread : At(u, "asleep") => FieldsOf(u, State("woken", FALSE))
  BY <1>3, PlainState DEF Labels, At, FieldsOf, SignalPlaces
<1>5. thread' \in [Thread -> ThreadState] BY <1>1, <1>2, <1>3, IdleFacts
<1>6. Fields'
  <2>1. ASSUME NEW u \in Thread PROVE FieldsOf(u, thread'[u]) BY <1>1, <1>3, <1>4, IdleFacts
  <2> QED BY <1>1, <2>1, FieldsKept
<1> QED BY <1>1, <1>2, <1>5, <1>6, IdleFacts

-----------------------------------------------------------------------------
(* Types.                                                                  *)

Base == TypeOK /\ Fields /\ BoxBound

LEMMA BaseInit == Init => Base
<1> SUFFICES ASSUME Init PROVE Base OBVIOUS
<1>1. \A t \in Thread : thread[t] \in ThreadState /\ FieldsOf(t, thread[t]) BY IdleFacts DEF Init
<1>2. <<>> \in EntrySeq /\ <<>> \in Seq(EntrySeq) BY EmptySeq DEF EntrySeq
<1>3. thread \in [Thread -> ThreadState] BY <1>1 DEF Init
<1>4. \A c \in Cpu : (IF kind = "sweep" THEN c ELSE 0) \in 0 .. num_vertices + ncpus BY Numbers
<1>5. 0 \in 0 .. MaxSignals BY Numbers
<1>6. TypeOK BY <1>2, <1>3, <1>4, <1>5 DEF Init, TypeOK
<1>7. BoxBound BY <1>5 DEF Init, BoxBound
<1> QED BY <1>1, <1>6, <1>7 DEF Base, Fields

\* When only the threads have moved.
LEMMA BaseQuiet ==
  ASSUME Base, NEW t \in Thread, NEW s, Moves(t, s), UNCHANGED <<kind, box, signals>>,
         vertex_is_scheduled' \subseteq Vertex,
         queues' \in [Queue -> EntrySeq], master_queue' \in Seq(EntrySeq),
         out_queues' \in [Cpu -> EntrySeq],
         next_index' \in [Cpu -> 0 .. num_vertices + ncpus]
  PROVE  Base'
<1>1. thread' \in [Thread -> ThreadState] BY DEF Moves
<1>2. TypeOK' BY <1>1 DEF Base, TypeOK
<1>3. Fields' BY MovesFields DEF Base
<1>4. BoxBound' BY DEF Base, BoxBound
<1> QED BY <1>2, <1>3, <1>4 DEF Base

LEMMA IncrementedType ==
  ASSUME NEW c \in Cpu, NEW idx \in 0 .. num_vertices + ncpus
  PROVE  Incremented(idx, c) \in 0 .. num_vertices + ncpus
<1>1. CASE kind = "sweep_strict" BY Numbers, Modulo, <1>1 DEF Incremented
<1>2. CASE kind # "sweep_strict" BY <1>2, Numbers DEF Incremented
<1> QED BY <1>1, <1>2

LEMMA BaseGet ==
  ASSUME Base, NEW f \in Fiber, get_next(f)
  PROVE  Base'
<1>0. /\ TypeOK /\ Fields /\ f \in Thread /\ CpuOf(f) \in Cpu
      /\ vertex_is_scheduled \subseteq Vertex /\ queues \in [Queue -> EntrySeq]
      /\ master_queue \in Seq(EntrySeq) /\ out_queues \in [Cpu -> EntrySeq]
      /\ next_index \in [Cpu -> 0 .. num_vertices + ncpus] BY FiberIsThread, CpuOfType DEF Base, TypeOK
<1>1. CASE BeginVisits(f)
  <2>1. \E s : Moves(f, s) BY <1>0, <1>1, BeginVisitsDoes
  <2> QED BY <1>0, <1>1, <2>1, BaseQuiet DEF BeginVisits, sched_vars
<1>2. CASE Visit(f)
  <2>1. UNCHANGED <<kind, master_queue, out_queues, next_index, box, signals>> BY <1>2 DEF Visit
  <2>2. PICK q \in Queue :
          \/ UNCHANGED <<vertex_is_scheduled, queues>> /\ \E s : Moves(f, s)
          \/ \E i \in DOMAIN queues[q] :
               /\ queues' = [queues EXCEPT ![q] = Remove(queues[q], i)]
               /\ vertex_is_scheduled' = vertex_is_scheduled \ {queues[q][i].v}
               /\ \E s : Moves(f, s) BY <1>0, <1>2, VisitDoes
  <2>3. CASE UNCHANGED <<vertex_is_scheduled, queues>> /\ \E s : Moves(f, s)
    BY <1>0, <2>1, <2>3, BaseQuiet
  <2>4. ASSUME NEW i \in DOMAIN queues[q],
               queues' = [queues EXCEPT ![q] = Remove(queues[q], i)],
               vertex_is_scheduled' = vertex_is_scheduled \ {queues[q][i].v},
               \E s : Moves(f, s)
        PROVE  Base'
    <3>1. queues[q] \in Seq(EntryType) BY <1>0, EntryMember
    <3>2. Remove(queues[q], i) \in EntrySeq BY <3>1, RemoveFacts DEF EntrySeq, EntryType
    <3>3. queues' \in [Queue -> EntrySeq] BY <1>0, <2>4, <3>2
    <3> QED BY <1>0, <2>1, <2>4, <3>3, BaseQuiet
  <2> QED BY <2>2, <2>3, <2>4
<1>3. CASE TakeOutQueue(f)
  <2>1. out_queues' \in [Cpu -> EntrySeq] /\ master_queue' \in Seq(EntrySeq) /\ \E s : Moves(f, s)
    BY <1>0, <1>3, TakeOutQueueDoes
  <2>2. UNCHANGED <<kind, vertex_is_scheduled, queues, next_index, box, signals>>
    BY <1>3 DEF TakeOutQueue
  <2> QED BY <1>0, <2>1, <2>2, BaseQuiet
<1>4. CASE Steal(f)
  <2>1. UNCHANGED <<kind, vertex_is_scheduled, master_queue, next_index, box, signals>> BY <1>4 DEF Steal
  <2>2. PICK q \in Queue :
          \/ /\ out_queues' = [out_queues EXCEPT ![CpuOf(f)] = queues[q]]
             /\ queues' = [queues EXCEPT ![q] = <<>>] /\ \E s : Moves(f, s)
          \/ UNCHANGED <<out_queues, queues>> /\ \E s : Moves(f, s) BY <1>0, <1>4, StealDoes
  <2>3. <<>> \in EntrySeq BY EmptySeq DEF EntrySeq
  <2>4. queues' \in [Queue -> EntrySeq] /\ out_queues' \in [Cpu -> EntrySeq] BY <1>0, <2>2, <2>3
  <2> QED BY <1>0, <2>1, <2>2, <2>4, BaseQuiet
<1>5. CASE PopOutQueue(f)
  <2>1. UNCHANGED <<kind, queues, master_queue, next_index, box, signals>> BY <1>5 DEF PopOutQueue
  <2>2. \/ UNCHANGED <<out_queues, vertex_is_scheduled>> /\ \E s : Moves(f, s)
        \/ /\ out_queues[CpuOf(f)] # <<>>
           /\ out_queues' = [out_queues EXCEPT ![CpuOf(f)] = Tail(out_queues[CpuOf(f)])]
           /\ vertex_is_scheduled' = vertex_is_scheduled \ {Head(out_queues[CpuOf(f)]).v}
           /\ \E s : Moves(f, s) BY <1>0, <1>5, PopOutQueueDoes
  <2>3. out_queues[CpuOf(f)] # <<>> => Tail(out_queues[CpuOf(f)]) \in EntrySeq
    BY <1>0, EntryMember, TailFacts DEF EntrySeq, EntryType
  <2>4. out_queues' \in [Cpu -> EntrySeq] /\ vertex_is_scheduled' \subseteq Vertex BY <1>0, <2>2, <2>3
  <2> QED BY <1>0, <2>1, <2>2, <2>4, BaseQuiet
<1>6. CASE BeginSweep(f)
  <2>1. \E s : Moves(f, s) BY <1>0, <1>6, BeginSweepDoes
  <2> QED BY <1>0, <1>6, <2>1, BaseQuiet DEF BeginSweep, sched_vars
<1>7. CASE Sweep(f)
  <2>1. UNCHANGED <<kind, queues, master_queue, out_queues, box, signals>> BY <1>7 DEF Sweep
  <2>2. PICK idx \in Nat, v \in Vertex :
          /\ idx = next_index[IndexOf(CpuOf(f))]
          /\ next_index' = [next_index EXCEPT ![IndexOf(CpuOf(f))] = Incremented(idx, CpuOf(f))]
          /\ \/ UNCHANGED vertex_is_scheduled /\ \E s : Moves(f, s)
             \/ vertex_is_scheduled' = vertex_is_scheduled \ {v} /\ \E s : Moves(f, s)
    BY <1>0, <1>7, SweepDoes
  <2>3. IndexOf(CpuOf(f)) \in Cpu BY <1>0, Numbers DEF IndexOf
  <2>4. Incremented(idx, CpuOf(f)) \in 0 .. num_vertices + ncpus BY <1>0, <2>2, <2>3, IncrementedType
  <2>5. next_index' \in [Cpu -> 0 .. num_vertices + ncpus] BY <1>0, <2>2, <2>3, <2>4
  <2>6. vertex_is_scheduled' \subseteq Vertex BY <1>0, <2>2
  <2> QED BY <1>0, <2>1, <2>2, <2>5, <2>6, BaseQuiet
<1> QED BY <1>1, <1>2, <1>3, <1>4, <1>5, <1>6, <1>7 DEF get_next

LEMMA BaseSame ==
  ASSUME Base, NEW t \in Thread, \E s : Moves(t, s), UNCHANGED <<kind, sched_vars, box, signals>>
  PROVE  Base' BY BaseQuiet DEF Base, TypeOK, sched_vars

LEMMA BaseFiber ==
  ASSUME Base, NEW f \in Fiber, FiberStep(f)
  PROVE  Base'
<1>0. TypeOK /\ Fields /\ BoxBound /\ f \in Thread BY FiberIsThread DEF Base
<1>1. CASE get_next(f) BY <1>1, BaseGet
<1>2. CASE TakeMessage(f)
  <2>1. UNCHANGED <<kind, sched_vars, signals>> BY <1>2 DEF TakeMessage
  <2>2. PICK v \in Vertex : box' = [box EXCEPT ![v] = 0] BY <1>0, <1>2, TakeMessageDoes
  <2>3. PICK s : Moves(f, s) BY <1>0, <1>2, TakeMessageDoes
  <2>4. box \in [Vertex -> 0 .. MaxSignals] /\ signals \in 0 .. MaxSignals BY <1>0 DEF TypeOK
  <2>5. box' \in [Vertex -> 0 .. MaxSignals] BY <2>2, <2>4, Numbers
  <2>6. TypeOK' BY <1>0, <2>1, <2>3, <2>5 DEF TypeOK, Moves, sched_vars
  <2>7. Fields' BY <1>0, <2>1, <2>3, MovesFields
  <2>8. BoxBound' BY <1>0, <2>1, <2>2, <2>4, Numbers DEF BoxBound
  <2> QED BY <2>6, <2>7, <2>8 DEF Base
<1>3. CASE RunProgram(f) BY <1>0, <1>3, RunProgramDoes, BaseSame DEF RunProgram
<1>4. CASE BeginDone(f) BY <1>0, <1>4, BeginDoneDoes, BaseSame DEF BeginDone
<1>5. CASE LockDone(f) BY <1>0, <1>5, LockDoneDoes, BaseSame DEF LockDone
<1>6. CASE LeaveDone(f) BY <1>0, <1>6, LeaveDoneDoes, BaseSame DEF LeaveDone
<1> QED BY <1>1, <1>2, <1>3, <1>4, <1>5, <1>6 DEF FiberStep

LEMMA BaseSignal ==
  ASSUME Base, NEW t \in Thread, Add(t) \/ Signal(t)
  PROVE  Base'
<1>0. TypeOK /\ Fields /\ BoxBound BY DEF Base
<1>1. CASE Add(t)
  <2>1. UNCHANGED <<kind, sched_vars>> BY <1>1 DEF Add
  <2>2. signals < MaxSignals /\ signals' = signals + 1 BY <1>0, <1>1, AddDoes
  <2>3. PICK v \in Vertex : box' = [box EXCEPT ![v] = box[v] + 1] /\ \E s : Moves(t, s)
    BY <1>0, <1>1, AddDoes
  <2>4. PICK s : Moves(t, s) BY <2>3
  <2>5. box \in [Vertex -> 0 .. MaxSignals] /\ signals \in 0 .. MaxSignals BY <1>0 DEF TypeOK
  <2>6. box[v] + 1 \in 0 .. MaxSignals /\ box[v] + 1 <= signals + 1
    BY <1>0, <2>2, <2>5, Numbers DEF BoxBound
  <2>7. box' \in [Vertex -> 0 .. MaxSignals] /\ signals' \in 0 .. MaxSignals
    BY <2>2, <2>3, <2>5, <2>6, Numbers
  <2>8. TypeOK' BY <1>0, <2>1, <2>4, <2>7 DEF TypeOK, Moves, sched_vars
  <2>9. Fields' BY <1>0, <2>1, <2>4, MovesFields
  <2>10. BoxBound'
    <3> SUFFICES ASSUME NEW w \in Vertex PROVE box'[w] <= signals' BY DEF BoxBound
    <3>1. box[w] <= signals /\ box[w] \in Nat /\ signals \in Nat BY <1>0, <2>5, Numbers DEF BoxBound
    <3>2. CASE w = v BY <2>2, <2>3, <2>5, <2>6, <3>2
    <3>3. CASE w # v BY <2>2, <2>3, <2>5, <3>1, <3>3
    <3> QED BY <3>2, <3>3
  <2> QED BY <2>8, <2>9, <2>10 DEF Base
<1>2. CASE Schedule(t)
  <2>1. UNCHANGED <<kind, queues, master_queue, out_queues, next_index, box, signals>>
    BY <1>2 DEF Schedule
  <2>2. /\ thread[t].v \in Vertex /\ \E s : Moves(t, s)
        /\ vertex_is_scheduled' = vertex_is_scheduled \cup {thread[t].v} BY <1>0, <1>2, ScheduleDoes
  <2>3. vertex_is_scheduled' \subseteq Vertex BY <1>0, <2>2 DEF TypeOK
  <2> QED BY <1>0, <2>1, <2>2, <2>3, BaseQuiet DEF TypeOK
<1>3. CASE Push(t)
  <2>1. UNCHANGED <<kind, vertex_is_scheduled, out_queues, next_index, box, signals>> BY <1>3 DEF Push
  <2>2. PICK e \in EntryType : e = Entry(thread[t].v, thread[t].priority) BY <1>0, <1>3, PushDoes
  <2>3. PICK q \in Queue :
          \/ /\ queues' = [queues EXCEPT ![q] = <<>>]
             /\ master_queue' = Append(master_queue, Append(queues[q], e))
          \/ queues' = [queues EXCEPT ![q] = Append(queues[q], e)] /\ UNCHANGED master_queue
    <3>1. \E q \in Queue :
              \/ /\ kind = "queued_fifo"
                 /\ queues' = [queues EXCEPT ![q] = <<>>]
                 /\ master_queue' = Append(master_queue,
                                           Append(queues[q], Entry(thread[t].v, thread[t].priority)))
              \/ /\ queues' = [queues EXCEPT ![q] =
                                 Append(queues[q], Entry(thread[t].v, thread[t].priority))]
                 /\ UNCHANGED master_queue BY <1>0, <1>3, PushDoes
    <3> QED BY <2>2, <3>1
  <2>4. PICK s : Moves(t, s) BY <1>0, <1>3, PushDoes
  <2>5. queues \in [Queue -> EntrySeq] /\ master_queue \in Seq(EntrySeq) BY <1>0 DEF TypeOK
  <2>6. Append(queues[q], e) \in EntrySeq /\ <<>> \in EntrySeq
    <3>1. queues[q] \in Seq(EntryType) BY <2>5, EntryMember
    <3> QED BY <3>1, AppendFacts, EmptySeq DEF EntrySeq, EntryType
  <2>7. Append(master_queue, Append(queues[q], e)) \in Seq(EntrySeq) BY <2>5, <2>6, AppendFacts
  <2>8. queues' \in [Queue -> EntrySeq] /\ master_queue' \in Seq(EntrySeq) BY <2>3, <2>5, <2>6, <2>7
  <2> QED BY <1>0, <2>1, <2>4, <2>8, BaseQuiet DEF TypeOK
<1>4. CASE CancelNobody(t) BY <1>0, <1>4, CancelNobodyDoes, BaseSame DEF CancelNobody
<1>5. CASE Cancel(t) BY <1>0, <1>5, CancelDoes, BaseSame DEF Cancel
<1>6. CASE Wake(t)
  <2>1. thread' \in [Thread -> ThreadState] /\ Fields' BY <1>0, <1>6, WakeDoes
  <2>2. UNCHANGED <<kind, sched_vars, box, signals>> BY <1>6 DEF Wake
  <2>3. TypeOK' BY <1>0, <2>1, <2>2 DEF TypeOK, sched_vars
  <2>4. BoxBound' BY <1>0, <2>2 DEF BoxBound
  <2> QED BY <2>1, <2>3, <2>4 DEF Base
<1> QED BY <1>1, <1>2, <1>3, <1>4, <1>5, <1>6 DEF Signal

LEMMA BaseNext == Base /\ [Next]_vars => Base'
<1> SUFFICES ASSUME Base, [Next]_vars PROVE Base' OBVIOUS
<1>1. ASSUME UNCHANGED vars PROVE Base'
  <2>1. TypeOK' BY <1>1 DEF Base, TypeOK, vars, sched_vars
  <2>2. BoxBound' BY <1>1 DEF Base, BoxBound, vars
  <2>3. \A u \in Thread : FieldsOf(u, thread'[u]) BY <1>1 DEF Base, Fields, vars
  <2>4. Fields' BY <1>1, <2>3, FieldsKept DEF vars
  <2> QED BY <2>1, <2>2, <2>4 DEF Base
<1> QED BY <1>1, BaseFiber, BaseSignal DEF Next

\* Every variable has its type.
THEOREM TypesKept == Spec => []TypeOK
<1>1. Base => TypeOK BY DEF Base
<1> QED BY <1>1, BaseInit, BaseNext, PTL DEF Spec

-----------------------------------------------------------------------------
(* out_queue_locks.                                                        *)

Locked == {"steal", "pop"}

OutLock ==
  /\ \A f, g \in Fiber : /\ thread[f].at \in Locked /\ thread[g].at \in Locked
                         /\ CpuOf(f) = CpuOf(g)
                         => f = g
  /\ \A f \in Fiber : At(f, "steal") => out_queues[CpuOf(f)] = <<>>

LEMMA OutLockStep ==
  ASSUME Base, OutLock, NEW t \in Thread, NEW s, Moves(t, s),
         s.at \in Locked =>
           t \in Fiber /\ (thread[t].at \in Locked \/ OutLockFree(CpuOf(t))),
         \A c \in Cpu :
           \/ out_queues'[c] = out_queues[c]
           \/ t \in Fiber /\ c = CpuOf(t) /\ (thread[t].at \in Locked \/ OutLockFree(c)),
         s.at = "steal" => out_queues'[CpuOf(t)] = <<>>
  PROVE  OutLock'
<1>1. ASSUME NEW f \in Fiber, NEW g \in Fiber, thread'[f].at \in Locked, thread'[g].at \in Locked,
             CpuOf(f) = CpuOf(g)
      PROVE  f = g BY <1>1, FiberIsThread DEF OutLock, Moves, OutLockFree, At, Locked
<1>2. ASSUME NEW f \in Fiber, thread'[f].at = "steal"
      PROVE  out_queues'[CpuOf(f)] = <<>>
  <2>0. f \in Thread /\ CpuOf(f) \in Cpu BY FiberIsThread, CpuOfType
  <2>1. CASE f = t BY <1>2, <2>1 DEF Moves
  <2>2. CASE f # t
    <3>1. thread[f].at = "steal" BY <1>2, <2>0, <2>2 DEF Moves
    <3>2. out_queues'[CpuOf(f)] = out_queues[CpuOf(f)]
      BY <2>0, <2>2, <3>1 DEF OutLock, OutLockFree, At, Locked
    <3> QED BY <3>1, <3>2 DEF OutLock, At
  <2> QED BY <2>1, <2>2
<1>3. \A f, g \in Fiber : /\ thread'[f].at \in Locked /\ thread'[g].at \in Locked
                          /\ CpuOf(f) = CpuOf(g)
                          => f = g BY <1>1
<1>4. \A f \in Fiber : thread'[f].at = "steal" => out_queues'[CpuOf(f)] = <<>> BY <1>2
<1> QED BY <1>3, <1>4 DEF OutLock, At, CpuOf

\* A step after which the thread does not hold the lock, and the out queues are as before.
LEMMA OutLockElse ==
  ASSUME Base, OutLock, NEW t \in Thread, NEW s, Moves(t, s), s.at \notin Locked,
         UNCHANGED out_queues
  PROVE  OutLock'
<1>1. s.at # "steal" BY DEF Locked
<1>2. \A c \in Cpu : out_queues'[c] = out_queues[c] OBVIOUS
<1> QED BY <1>1, <1>2, OutLockStep

LEMMA OutLockGet ==
  ASSUME Base, OutLock, NEW f \in Fiber, get_next(f)
  PROVE  OutLock'
<1>0. /\ TypeOK /\ Fields /\ f \in Thread /\ CpuOf(f) \in Cpu
      /\ out_queues \in [Cpu -> EntrySeq] BY FiberIsThread, CpuOfType DEF Base, TypeOK
<1>1. CASE BeginVisits(f)
  <2>1. PICK s : Moves(f, s) /\ s.at = "visit" BY <1>0, <1>1, BeginVisitsDoes
  <2>2. UNCHANGED out_queues BY <1>1 DEF BeginVisits, sched_vars
  <2> QED BY <1>0, <2>1, <2>2, OutLockElse DEF Locked
<1>2. CASE Visit(f)
  <2>1. UNCHANGED out_queues BY <1>2 DEF Visit
  <2>2. PICK s : Moves(f, s) /\ (s.at \in {"asleep", "quit", "visit", "take"} \/ s = thread[f])
    BY <1>0, <1>2, VisitDoes
  <2>3. s.at \notin Locked BY <1>0, <1>2, <2>2, VisitDoes DEF Locked, At
  <2> QED BY <1>0, <2>1, <2>2, <2>3, OutLockElse
<1>3. CASE TakeOutQueue(f)
  <2>1. /\ OutLockFree(CpuOf(f))
        /\ \/ out_queues' = [out_queues EXCEPT ![CpuOf(f)] = Head(master_queue)]
           \/ UNCHANGED out_queues BY <1>0, <1>3, TakeOutQueueDoes
  <2>2. PICK s : /\ Moves(f, s)
                 /\ s.at = IF out_queues'[CpuOf(f)] = <<>> THEN "steal" ELSE "pop"
    BY <1>0, <1>3, TakeOutQueueDoes
  <2>3. \A c \in Cpu : out_queues'[c] = out_queues[c] \/ c = CpuOf(f) BY <1>0, <2>1
  <2> QED BY <1>0, <2>1, <2>2, <2>3, OutLockStep
<1>4. CASE Steal(f)
  <2>1. thread[f].at = "steal" BY <1>0, <1>4, StealDoes DEF At
  <2>2. PICK q \in Queue :
           \/ /\ out_queues' = [out_queues EXCEPT ![CpuOf(f)] = queues[q]]
              /\ \E s : Moves(f, s) /\ s.at = "pop"
           \/ UNCHANGED out_queues /\ \E s : Moves(f, s) /\ s.at \in {"pop", "steal"}
    BY <1>0, <1>4, StealDoes
  <2>3. CASE /\ out_queues' = [out_queues EXCEPT ![CpuOf(f)] = queues[q]]
             /\ \E s : Moves(f, s) /\ s.at = "pop"
    <3>1. PICK s : Moves(f, s) /\ s.at = "pop" BY <2>3
    <3>2. \A c \in Cpu : out_queues'[c] = out_queues[c] \/ c = CpuOf(f) BY <1>0, <2>3
    <3>3. thread[f].at \in Locked /\ s.at # "steal" BY <2>1, <3>1 DEF Locked
    <3> QED BY <1>0, <3>1, <3>2, <3>3, OutLockStep
  <2>4. CASE UNCHANGED out_queues /\ \E s : Moves(f, s) /\ s.at \in {"pop", "steal"}
    <3>1. PICK s : Moves(f, s) /\ s.at \in {"pop", "steal"} BY <2>4
    <3>2. \A c \in Cpu : out_queues'[c] = out_queues[c] BY <2>4
    <3>3. thread[f].at \in Locked /\ out_queues'[CpuOf(f)] = <<>> BY <2>1, <2>4 DEF Locked, OutLock, At
    <3> QED BY <1>0, <3>1, <3>2, <3>3, OutLockStep
  <2> QED BY <2>2, <2>3, <2>4
<1>5. CASE PopOutQueue(f)
  <2>1. thread[f].at \in Locked /\ thread[f].at # "steal" BY <1>0, <1>5, PopOutQueueDoes DEF At, Locked
  <2>2. PICK s : Moves(f, s) /\ (s.at \in {"asleep", "quit", "take"} \/ s = thread[f])
    BY <1>0, <1>5, PopOutQueueDoes
  <2>3. \/ out_queues' = [out_queues EXCEPT ![CpuOf(f)] = Tail(out_queues[CpuOf(f)])]
        \/ UNCHANGED out_queues BY <1>0, <1>5, PopOutQueueDoes
  <2>4. \A c \in Cpu : out_queues'[c] = out_queues[c] \/ c = CpuOf(f) BY <1>0, <2>3
  <2>5. s.at # "steal" BY <2>1, <2>2
  <2> QED BY <1>0, <2>1, <2>2, <2>4, <2>5, OutLockStep
<1>6. CASE BeginSweep(f)
  <2>1. PICK s : Moves(f, s) /\ s.at = "sweep" BY <1>0, <1>6, BeginSweepDoes
  <2>2. UNCHANGED out_queues BY <1>6 DEF BeginSweep, sched_vars
  <2> QED BY <1>0, <2>1, <2>2, OutLockElse DEF Locked
<1>7. CASE Sweep(f)
  <2>1. PICK s : Moves(f, s) /\ s.at \in {"asleep", "quit", "take", "sweep"} BY <1>0, <1>7, SweepDoes
  <2>2. UNCHANGED out_queues BY <1>7 DEF Sweep
  <2> QED BY <1>0, <2>1, <2>2, OutLockElse DEF Locked
<1> QED BY <1>1, <1>2, <1>3, <1>4, <1>5, <1>6, <1>7 DEF get_next

\* The places a thread can be in after a step that is not one of get_next() or a wake-up.
LEMMA OtherMoves ==
  ASSUME Base, NEW t \in Thread,
         \/ /\ t \in Fiber
            /\ \/ TakeMessage(t) \/ RunProgram(t) \/ BeginDone(t) \/ LockDone(t) \/ LeaveDone(t)
         \/ Add(t) \/ Schedule(t) \/ Push(t) \/ CancelNobody(t) \/ Cancel(t)
  PROVE  /\ UNCHANGED out_queues
         /\ \E s : Moves(t, s) /\ s.at \notin Locked /\ (s.at = "push" => Schedule(t))
<1>0. TypeOK /\ Fields /\ BoxBound BY DEF Base
<1>1. UNCHANGED out_queues
  BY DEF TakeMessage, RunProgram, BeginDone, LockDone, LeaveDone, Add, Schedule, Push, CancelNobody,
         Cancel, sched_vars
<1>2. ASSUME t \in Fiber, TakeMessage(t) \/ RunProgram(t) \/ BeginDone(t) \/ LockDone(t) \/ LeaveDone(t)
      PROVE  \E s : Moves(t, s) /\ s.at \in {"next", "run", "begin"}
  BY <1>0, <1>2, TakeMessageDoes, RunProgramDoes, BeginDoneDoes, LockDoneDoes, LeaveDoneDoes
<1>3. ASSUME Add(t) \/ Schedule(t) \/ Push(t) \/ CancelNobody(t) \/ Cancel(t)
      PROVE  \E s : /\ Moves(t, s) /\ s.at \in {"schedule", "cancel", "push", "next", "idle", "wake"}
                    /\ s.at = "push" => Schedule(t)
  <2>1. CASE Add(t) BY <1>0, <2>1, AddDoes
  <2>2. CASE Schedule(t) BY <1>0, <2>2, ScheduleDoes
  <2>3. CASE Push(t) BY <1>0, <2>3, PushDoes
  <2>4. CASE CancelNobody(t) BY <1>0, <2>4, CancelNobodyDoes
  <2>5. CASE Cancel(t) BY <1>0, <2>5, CancelDoes
  <2> QED BY <1>3, <2>1, <2>2, <2>3, <2>4, <2>5
<1> QED BY <1>1, <1>2, <1>3 DEF Locked

LEMMA OutLockNext == Base /\ OutLock /\ [Next]_vars => OutLock'
<1> SUFFICES ASSUME Base, OutLock, [Next]_vars PROVE OutLock' OBVIOUS
<1>1. ASSUME NEW f \in Fiber, get_next(f) PROVE OutLock' BY <1>1, OutLockGet
<1>2. ASSUME NEW t \in Thread,
             \/ /\ t \in Fiber
                /\ \/ TakeMessage(t) \/ RunProgram(t) \/ BeginDone(t) \/ LockDone(t) \/ LeaveDone(t)
             \/ Add(t) \/ Schedule(t) \/ Push(t) \/ CancelNobody(t) \/ Cancel(t)
      PROVE  OutLock' BY <1>2, OtherMoves, OutLockElse
<1>3. ASSUME NEW t \in Thread, Wake(t) PROVE OutLock'
  <2>1. \A u \in Thread : thread'[u].at \in Locked => thread'[u].at = thread[u].at
    BY <1>3, WakeDoes DEF Base, Locked
  <2>2. UNCHANGED out_queues BY <1>3 DEF Wake, sched_vars
  <2> QED BY <2>1, <2>2, FiberIsThread DEF OutLock, At, Locked, CpuOf
<1>4. ASSUME UNCHANGED vars PROVE OutLock' BY <1>4 DEF OutLock, At, CpuOf, vars, sched_vars
<1> QED BY <1>1, <1>2, <1>3, <1>4, FiberIsThread DEF Next, FiberStep, Signal

-----------------------------------------------------------------------------
(* Where a vertex is.                                                      *)

Pushing(th, v) == {t \in Thread : th[t].at = "push" /\ th[t].v = v}

\* The queues that v is in, and the threads about to push it.
Holders(v) ==
  {<<"queue", q>> : q \in {p \in Queue : In(queues[p], v)}}
  \cup {<<"out", c>> : c \in {d \in Cpu : In(out_queues[d], v)}}
  \cup {<<"master", j>> : j \in {k \in DOMAIN master_queue : In(master_queue[k], v)}}
  \cup {<<"push", t>> : t \in Pushing(thread, v)}

\* What the plain queues and the priority queues do not use is empty.
QueuesFit ==
  kind # "queued_fifo" => master_queue = <<>> /\ \A c \in Cpu : out_queues[c] = <<>>

MasterFull == \A j \in DOMAIN master_queue : master_queue[j] # <<>>

AllOnce ==
  /\ \A q \in Queue : Once(queues[q])
  /\ \A c \in Cpu : Once(out_queues[c])
  /\ \A j \in DOMAIN master_queue : Once(master_queue[j])

\* A vertex is in one place, if its bit is set, and in none otherwise.
Kept(H, v, scheduled) ==
  /\ \A x, y \in H : x = y
  /\ v \in scheduled <=> H # {}

Held == kind \in QueueKinds => \A v \in Vertex : Kept(Holders(v), v, vertex_is_scheduled)

QueueInv == QueuesFit /\ MasterFull /\ AllOnce /\ Held

LEMMA HolderIs ==
  ASSUME NEW v, NEW x
  PROVE  x \in Holders(v) <=>
           \/ \E q \in Queue : x = <<"queue", q>> /\ In(queues[q], v)
           \/ \E c \in Cpu : x = <<"out", c>> /\ In(out_queues[c], v)
           \/ \E j \in DOMAIN master_queue : x = <<"master", j>> /\ In(master_queue[j], v)
           \/ \E t \in Pushing(thread, v) : x = <<"push", t>> BY DEF Holders

LEMMA HolderWillBe ==
  ASSUME NEW v, NEW x
  PROVE  x \in Holders(v)' <=>
           \/ \E q \in Queue : x = <<"queue", q>> /\ In(queues'[q], v)
           \/ \E c \in Cpu : x = <<"out", c>> /\ In(out_queues'[c], v)
           \/ \E j \in DOMAIN master_queue' : x = <<"master", j>> /\ In(master_queue'[j], v)
           \/ \E t \in Pushing(thread', v) : x = <<"push", t>> BY DEF Holders, Pushing, In

LEMMA HoldersSame ==
  ASSUME UNCHANGED <<queues, out_queues, master_queue>>, NEW v,
         Pushing(thread', v) = Pushing(thread, v)
  PROVE  Holders(v)' = Holders(v)
<1>1. ASSUME NEW x PROVE x \in Holders(v)' <=> x \in Holders(v) BY HolderIs, HolderWillBe
<1> QED BY <1>1 DEF Holders

\* Taking an entry out of a queue.
LEMMA HoldersRemove ==
  ASSUME UNCHANGED <<out_queues, master_queue>>, NEW q \in Queue, NEW v, NEW w,
         Pushing(thread', w) = Pushing(thread, w),
         \A p \in Queue : In(queues'[p], w) <=> In(queues[p], w) /\ (p = q => w # v)
  PROVE  \A x : x \in Holders(w)' <=> x \in Holders(w) /\ (w = v => x # <<"queue", q>>)
<1> SUFFICES ASSUME NEW x
             PROVE  x \in Holders(w)' <=> x \in Holders(w) /\ (w = v => x # <<"queue", q>>) OBVIOUS
<1> QED BY HolderIs, HolderWillBe

LEMMA HoldersRemoveOut ==
  ASSUME UNCHANGED <<queues, master_queue>>, NEW c \in Cpu, NEW v, NEW w,
         Pushing(thread', w) = Pushing(thread, w),
         \A d \in Cpu : In(out_queues'[d], w) <=> In(out_queues[d], w) /\ (d = c => w # v)
  PROVE  \A x : x \in Holders(w)' <=> x \in Holders(w) /\ (w = v => x # <<"out", c>>)
<1> SUFFICES ASSUME NEW x
             PROVE  x \in Holders(w)' <=> x \in Holders(w) /\ (w = v => x # <<"out", c>>) OBVIOUS
<1> QED BY HolderIs, HolderWillBe

\* The first of the master queue becomes the out queue of c.
FromMaster(c, x) ==
  IF x = <<"master", 1>> THEN <<"out", c>>
  ELSE IF x[1] = "master" THEN <<"master", x[2] - 1>> ELSE x

LEMMA HoldersFromMaster ==
  ASSUME UNCHANGED queues, NEW c \in Cpu, NEW w, Pushing(thread', w) = Pushing(thread, w),
         master_queue \in Seq(EntrySeq), master_queue # <<>>, out_queues[c] = <<>>,
         \A d \in Cpu : out_queues'[d] = IF d = c THEN master_queue[1] ELSE out_queues[d],
         master_queue' = Tail(master_queue)
  PROVE  Holders(w)'
           = {FromMaster(c, x) : x \in Holders(w)}
<1> DEFINE H == Holders(w)
<1>3. DOMAIN master_queue = 1 .. Len(master_queue) /\ Len(master_queue) \in Nat BY LenProperties
<1>4. /\ \A j \in DOMAIN master_queue' : j + 1 \in DOMAIN master_queue /\ master_queue'[j] = master_queue[j + 1]
      /\ \A j \in DOMAIN master_queue : j = 1 \/ (j - 1 \in DOMAIN master_queue' /\ master_queue[j] = master_queue'[j - 1])
      /\ Len(master_queue') = Len(master_queue) - 1 /\ DOMAIN master_queue' = 1 .. Len(master_queue) - 1
  BY <1>3, TailFacts, LenProperties
<1>5. 1 \in DOMAIN master_queue BY FullFacts
<1>6. \A d \in Cpu : out_queues'[d] = IF d = c THEN master_queue[1] ELSE out_queues[d] OBVIOUS
<1>7. ~In(out_queues[c], w) BY EmptyFacts
<1>8. ASSUME NEW y, y \in Holders(w)'
      PROVE  \E x \in H : y = FromMaster(c, x)
  <2>1. CASE \E q \in Queue : y = <<"queue", q>> /\ In(queues[q], w)
    BY <2>1, HolderIs, HolderWillBe DEF FromMaster
  <2>2. CASE \E d \in Cpu : y = <<"out", d>> /\ In(out_queues'[d], w)
    <3>1. PICK d \in Cpu : y = <<"out", d>> /\ In(out_queues'[d], w) BY <2>2
    <3>2. CASE d = c
      <4>1. <<"master", 1>> \in H BY <1>5, <1>6, <3>1, <3>2, HolderIs, HolderWillBe
      <4>2. y = FromMaster(c, <<"master", 1>>) BY <3>1, <3>2 DEF FromMaster
      <4> QED BY <4>1, <4>2
    <3>3. CASE d # c
      <4>1. y \in H BY <1>6, <3>1, <3>3, HolderIs, HolderWillBe
      <4>2. y = FromMaster(c, y) BY <3>1 DEF FromMaster
      <4> QED BY <4>1, <4>2
    <3> QED BY <3>2, <3>3
  <2>3. CASE \E j \in DOMAIN master_queue' : y = <<"master", j>> /\ In(master_queue'[j], w)
    <3>1. PICK j \in DOMAIN master_queue' : y = <<"master", j>> /\ In(master_queue'[j], w) BY <2>3
    <3>2. PICK k \in DOMAIN master_queue : k = j + 1 /\ master_queue'[j] = master_queue[k] BY <1>4, <3>1
    <3>3. <<"master", k>> \in H BY <3>1, <3>2, HolderIs, HolderWillBe
    <3>4. k # 1 /\ k - 1 = j BY <1>3, <1>4, <3>1, <3>2
    <3>5. y = FromMaster(c, <<"master", k>>) BY <3>1, <3>4 DEF FromMaster
    <3> QED BY <3>3, <3>5
  <2>4. CASE \E t \in Pushing(thread, w) : y = <<"push", t>>
    BY <2>4, HolderIs, HolderWillBe DEF FromMaster
  <2> QED BY <1>8, <2>1, <2>2, <2>3, <2>4, HolderIs, HolderWillBe
<1>9. ASSUME NEW x, x \in H
      PROVE  FromMaster(c, x) \in Holders(w)'
  <2>1. CASE \E q \in Queue : x = <<"queue", q>> /\ In(queues[q], w)
    BY <2>1, HolderIs, HolderWillBe DEF FromMaster
  <2>2. CASE \E d \in Cpu : x = <<"out", d>> /\ In(out_queues[d], w)
    <3>1. PICK d \in Cpu : x = <<"out", d>> /\ In(out_queues[d], w) BY <2>2
    <3>2. d # c BY <1>7, <3>1
    <3>3. FromMaster(c, x) = x BY <3>1 DEF FromMaster
    <3> QED BY <1>6, <3>1, <3>2, <3>3, HolderIs, HolderWillBe
  <2>3. CASE \E j \in DOMAIN master_queue : x = <<"master", j>> /\ In(master_queue[j], w)
    <3>1. PICK j \in DOMAIN master_queue : x = <<"master", j>> /\ In(master_queue[j], w) BY <2>3
    <3>2. CASE j = 1
      <4>1. FromMaster(c, x) = <<"out", c>> BY <3>1, <3>2 DEF FromMaster
      <4>2. In(out_queues'[c], w) BY <1>6, <3>1, <3>2
      <4> QED BY <4>1, <4>2, HolderIs, HolderWillBe
    <3>3. CASE j # 1
      <4>1. FromMaster(c, x) = <<"master", j - 1>> BY <3>1, <3>3 DEF FromMaster
      <4>2. j - 1 \in DOMAIN master_queue' /\ In(master_queue'[j - 1], w) BY <1>4, <3>1, <3>3
      <4> QED BY <4>1, <4>2, HolderIs, HolderWillBe
    <3> QED BY <3>2, <3>3
  <2>4. CASE \E t \in Pushing(thread, w) : x = <<"push", t>>
    BY <2>4, HolderIs, HolderWillBe DEF FromMaster
  <2> QED BY <1>9, <2>1, <2>2, <2>3, <2>4, HolderIs, HolderWillBe
<1> HIDE DEF H
<1>10. Holders(w)' = {FromMaster(c, x) : x \in H} BY <1>8, <1>9
<1> QED BY <1>10 DEF H

\* An in queue becomes the out queue of c.
FromQueue(q, c, x) == IF x = <<"queue", q>> THEN <<"out", c>> ELSE x

LEMMA HoldersSteal ==
  ASSUME UNCHANGED master_queue, NEW q \in Queue, NEW c \in Cpu, NEW w,
         Pushing(thread', w) = Pushing(thread, w), out_queues[c] = <<>>,
         \A p \in Queue : queues'[p] = IF p = q THEN <<>> ELSE queues[p],
         \A d \in Cpu : out_queues'[d] = IF d = c THEN queues[q] ELSE out_queues[d]
  PROVE  Holders(w)'
           = {FromQueue(q, c, x) : x \in Holders(w)}
<1> DEFINE H == Holders(w)
<1>3. \A p \in Queue : In(queues'[p], w) <=> In(queues[p], w) /\ p # q BY EmptyFacts
<1>4. \A d \in Cpu : In(out_queues'[d], w) <=> IF d = c THEN In(queues[q], w) ELSE In(out_queues[d], w) OBVIOUS
<1>5. ~In(out_queues[c], w) BY EmptyFacts
<1>6. ASSUME NEW y, y \in Holders(w)'
      PROVE  \E x \in H : y = FromQueue(q, c, x)
  <2>1. CASE \E p \in Queue : y = <<"queue", p>> /\ In(queues'[p], w)
    <3>1. y \in H /\ y = FromQueue(q, c, y) BY <1>3, <2>1, HolderIs, HolderWillBe DEF FromQueue
    <3> QED BY <3>1
  <2>2. CASE \E d \in Cpu : y = <<"out", d>> /\ In(out_queues'[d], w)
    <3>1. PICK d \in Cpu : y = <<"out", d>> /\ In(out_queues'[d], w) BY <2>2
    <3>2. CASE d = c
      <4>1. <<"queue", q>> \in H /\ y = FromQueue(q, c, <<"queue", q>>)
        BY <1>4, <3>1, <3>2, HolderIs, HolderWillBe DEF FromQueue
      <4> QED BY <4>1
    <3>3. CASE d # c
      <4>1. y \in H /\ y = FromQueue(q, c, y) BY <1>4, <3>1, <3>3, HolderIs, HolderWillBe DEF FromQueue
      <4> QED BY <4>1
    <3> QED BY <3>2, <3>3
  <2>3. CASE \E j \in DOMAIN master_queue : y = <<"master", j>> /\ In(master_queue[j], w)
    BY <2>3, HolderIs, HolderWillBe DEF FromQueue
  <2>4. CASE \E t \in Pushing(thread, w) : y = <<"push", t>>
    BY <2>4, HolderIs, HolderWillBe DEF FromQueue
  <2> QED BY <1>6, <2>1, <2>2, <2>3, <2>4, HolderIs, HolderWillBe
<1>7. ASSUME NEW x, x \in H
      PROVE  FromQueue(q, c, x) \in Holders(w)'
  <2>1. CASE \E p \in Queue : x = <<"queue", p>> /\ In(queues[p], w)
    <3>1. PICK p \in Queue : x = <<"queue", p>> /\ In(queues[p], w) BY <2>1
    <3>2. CASE p = q BY <1>4, <3>1, <3>2, HolderIs, HolderWillBe DEF FromQueue
    <3>3. CASE p # q BY <1>3, <3>1, <3>3, HolderIs, HolderWillBe DEF FromQueue
    <3> QED BY <3>2, <3>3
  <2>2. CASE \E d \in Cpu : x = <<"out", d>> /\ In(out_queues[d], w)
    <3>1. PICK d \in Cpu : x = <<"out", d>> /\ In(out_queues[d], w) BY <2>2
    <3>2. d # c BY <1>5, <3>1
    <3> QED BY <1>4, <3>1, <3>2, HolderIs, HolderWillBe DEF FromQueue
  <2>3. CASE \E j \in DOMAIN master_queue : x = <<"master", j>> /\ In(master_queue[j], w)
    BY <2>3, HolderIs, HolderWillBe DEF FromQueue
  <2>4. CASE \E t \in Pushing(thread, w) : x = <<"push", t>> BY <2>4, HolderIs, HolderWillBe DEF FromQueue
  <2> QED BY <1>7, <2>1, <2>2, <2>3, <2>4, HolderIs, HolderWillBe
<1> HIDE DEF H
<1>8. Holders(w)' = {FromQueue(q, c, x) : x \in H} BY <1>6, <1>7
<1> QED BY <1>8 DEF H

\* t pushes v on q, ...
FromPush(t, q, x) == IF x = <<"push", t>> THEN <<"queue", q>> ELSE x

LEMMA HoldersPush ==
  ASSUME UNCHANGED <<out_queues, master_queue>>, NEW q \in Queue, NEW t \in Thread, NEW w \in Vertex,
         \A p \in Queue :
           In(queues'[p], w) <=> In(queues[p], w) \/ (p = q /\ t \in Pushing(thread, w)),
         Pushing(thread', w) = Pushing(thread, w) \ {t}
  PROVE  Holders(w)'
           = {FromPush(t, q, x) : x \in Holders(w)}
<1> DEFINE H == Holders(w)
<1>3. \A p \in Queue : In(queues'[p], w) <=> In(queues[p], w) \/ (p = q /\ t \in Pushing(thread, w)) OBVIOUS
<1>6. ASSUME NEW y, y \in Holders(w)'
      PROVE  \E x \in H : y = FromPush(t, q, x)
  <2>1. CASE \E p \in Queue : y = <<"queue", p>> /\ In(queues'[p], w)
    <3>1. PICK p \in Queue : y = <<"queue", p>> /\ In(queues'[p], w) BY <2>1
    <3>2. CASE In(queues[p], w)
      <4>1. y \in H /\ y = FromPush(t, q, y) BY <3>1, <3>2, HolderIs, HolderWillBe DEF FromPush
      <4> QED BY <4>1
    <3>3. CASE p = q /\ t \in Pushing(thread, w)
      <4>1. <<"push", t>> \in H /\ y = FromPush(t, q, <<"push", t>>)
        BY <3>1, <3>3, HolderIs, HolderWillBe DEF FromPush
      <4> QED BY <4>1
    <3> QED BY <1>3, <3>1, <3>2, <3>3
  <2>2. CASE \E d \in Cpu : y = <<"out", d>> /\ In(out_queues[d], w)
    BY <2>2, HolderIs, HolderWillBe DEF FromPush
  <2>3. CASE \E j \in DOMAIN master_queue : y = <<"master", j>> /\ In(master_queue[j], w)
    BY <2>3, HolderIs, HolderWillBe DEF FromPush
  <2>4. CASE \E u \in Pushing(thread', w) : y = <<"push", u>>
    <3>1. PICK u \in Pushing(thread', w) : y = <<"push", u>> BY <2>4
    <3>2. u \in Pushing(thread, w) /\ u # t OBVIOUS
    <3>3. y \in H BY <3>1, <3>2, HolderIs, HolderWillBe
    <3>4. y # <<"push", t>> BY <3>1, <3>2
    <3>5. y = FromPush(t, q, y) BY <3>4 DEF FromPush
    <3> QED BY <3>3, <3>5
  <2> QED BY <1>6, <2>1, <2>2, <2>3, <2>4, HolderIs, HolderWillBe
<1>7. ASSUME NEW x, x \in H
      PROVE  FromPush(t, q, x) \in Holders(w)'
  <2>1. CASE \E p \in Queue : x = <<"queue", p>> /\ In(queues[p], w)
    BY <1>3, <2>1, HolderIs, HolderWillBe DEF FromPush
  <2>2. CASE \E d \in Cpu : x = <<"out", d>> /\ In(out_queues[d], w) BY <2>2, HolderIs, HolderWillBe DEF FromPush
  <2>3. CASE \E j \in DOMAIN master_queue : x = <<"master", j>> /\ In(master_queue[j], w)
    BY <2>3, HolderIs, HolderWillBe DEF FromPush
  <2>4. CASE \E u \in Pushing(thread, w) : x = <<"push", u>>
    <3>1. PICK u \in Pushing(thread, w) : x = <<"push", u>> BY <2>4
    <3>2. CASE u = t
      <4>1. FromPush(t, q, x) = <<"queue", q>> BY <3>1, <3>2 DEF FromPush
      <4>2. In(queues'[q], w) BY <1>3, <3>2
      <4> QED BY <4>1, <4>2, HolderIs, HolderWillBe
    <3>3. CASE u # t
      <4>1. FromPush(t, q, x) = x BY <3>1, <3>3 DEF FromPush
      <4>2. u \in Pushing(thread', w) BY <3>3
      <4> QED BY <3>1, <4>1, <4>2, HolderIs, HolderWillBe
    <3> QED BY <3>2, <3>3
  <2> QED BY <1>7, <2>1, <2>2, <2>3, <2>4, HolderIs, HolderWillBe
<1> HIDE DEF H
<1>8. Holders(w)' = {FromPush(t, q, x) : x \in H} BY <1>6, <1>7
<1> QED BY <1>8 DEF H

\* ... and q, with v, becomes the last of the master queue.
ToMaster(t, q, j, x) == IF x = <<"push", t>> \/ x = <<"queue", q>> THEN <<"master", j>> ELSE x

LEMMA HoldersToMaster ==
  ASSUME UNCHANGED out_queues, master_queue \in Seq(EntrySeq),
         NEW q \in Queue, NEW t \in Thread, NEW r \in EntrySeq, NEW w \in Vertex,
         \A p \in Queue : queues'[p] = IF p = q THEN <<>> ELSE queues[p],
         master_queue' = Append(master_queue, r),
         In(r, w) <=> In(queues[q], w) \/ t \in Pushing(thread, w),
         Pushing(thread', w) = Pushing(thread, w) \ {t}
  PROVE  Holders(w)'
           = {ToMaster(t, q, Len(master_queue) + 1, x) : x \in Holders(w)}
<1> DEFINE H == Holders(w)
<1>3. \A p \in Queue : In(queues'[p], w) <=> In(queues[p], w) /\ p # q BY EmptyFacts
<1>4. PICK n : n = Len(master_queue) + 1 OBVIOUS
<1>5. /\ \A j \in DOMAIN master_queue : j \in DOMAIN master_queue' /\ master_queue'[j] = master_queue[j] /\ j # n
      /\ n \in DOMAIN master_queue' /\ master_queue'[n] = r
      /\ \A j \in DOMAIN master_queue' : j \in DOMAIN master_queue \/ j = n BY <1>4, AppendFacts
<1>6. ASSUME NEW y, y \in Holders(w)'
      PROVE  \E x \in H : y = ToMaster(t, q, n, x)
  <2>1. CASE \E p \in Queue : y = <<"queue", p>> /\ In(queues'[p], w)
    <3>1. PICK p \in Queue : y = <<"queue", p>> /\ In(queues[p], w) /\ p # q BY <1>3, <2>1
    <3>2. y \in H /\ y = ToMaster(t, q, n, y) BY <3>1, HolderIs, HolderWillBe DEF ToMaster
    <3> QED BY <3>2
  <2>2. CASE \E d \in Cpu : y = <<"out", d>> /\ In(out_queues[d], w)
    BY <2>2, HolderIs, HolderWillBe DEF ToMaster
  <2>3. CASE \E j \in DOMAIN master_queue' : y = <<"master", j>> /\ In(master_queue'[j], w)
    <3>1. PICK j \in DOMAIN master_queue' : y = <<"master", j>> /\ In(master_queue'[j], w) BY <2>3
    <3>2. CASE j \in DOMAIN master_queue
      <4>1. y \in H /\ y = ToMaster(t, q, n, y) BY <1>5, <3>1, <3>2, HolderIs, HolderWillBe DEF ToMaster
      <4> QED BY <4>1
    <3>3. CASE j = n
      <4>1. CASE In(queues[q], w)
        <5>1. <<"queue", q>> \in H /\ y = ToMaster(t, q, n, <<"queue", q>>)
          BY <3>1, <3>3, <4>1, HolderIs, HolderWillBe DEF ToMaster
        <5> QED BY <5>1
      <4>2. CASE t \in Pushing(thread, w)
        <5>1. <<"push", t>> \in H /\ y = ToMaster(t, q, n, <<"push", t>>)
          BY <3>1, <3>3, <4>2, HolderIs, HolderWillBe DEF ToMaster
        <5> QED BY <5>1
      <4> QED BY <1>5, <3>1, <3>3, <4>1, <4>2
    <3> QED BY <1>5, <3>2, <3>3
  <2>4. CASE \E u \in Pushing(thread', w) : y = <<"push", u>>
    <3>1. PICK u \in Pushing(thread', w) : y = <<"push", u>> BY <2>4
    <3>2. u \in Pushing(thread, w) /\ u # t OBVIOUS
    <3>3. y \in H BY <3>1, <3>2, HolderIs, HolderWillBe
    <3>4. y # <<"push", t>> /\ y # <<"queue", q>> BY <3>1, <3>2
    <3>5. y = ToMaster(t, q, n, y) BY <3>4 DEF ToMaster
    <3> QED BY <3>3, <3>5
  <2> QED BY <1>6, <2>1, <2>2, <2>3, <2>4, HolderIs, HolderWillBe
<1>7. ASSUME NEW x, x \in H
      PROVE  ToMaster(t, q, n, x) \in Holders(w)'
  <2>1. CASE \E p \in Queue : x = <<"queue", p>> /\ In(queues[p], w)
    <3>1. PICK p \in Queue : x = <<"queue", p>> /\ In(queues[p], w) BY <2>1
    <3>2. CASE p = q
      <4>1. ToMaster(t, q, n, x) = <<"master", n>> BY <3>1, <3>2 DEF ToMaster
      <4>2. In(master_queue'[n], w) BY <1>5, <3>1, <3>2
      <4> QED BY <1>5, <4>1, <4>2, HolderIs, HolderWillBe
    <3>3. CASE p # q
      <4>1. ToMaster(t, q, n, x) = x BY <3>1, <3>3 DEF ToMaster
      <4> QED BY <1>3, <3>1, <3>3, <4>1, HolderIs, HolderWillBe
    <3> QED BY <3>2, <3>3
  <2>2. CASE \E d \in Cpu : x = <<"out", d>> /\ In(out_queues[d], w) BY <2>2, HolderIs, HolderWillBe DEF ToMaster
  <2>3. CASE \E j \in DOMAIN master_queue : x = <<"master", j>> /\ In(master_queue[j], w)
    <3>1. PICK j \in DOMAIN master_queue : x = <<"master", j>> /\ In(master_queue[j], w) BY <2>3
    <3>2. ToMaster(t, q, n, x) = x BY <3>1 DEF ToMaster
    <3>3. j \in DOMAIN master_queue' /\ In(master_queue'[j], w) BY <1>5, <3>1
    <3> QED BY <3>1, <3>2, <3>3, HolderIs, HolderWillBe
  <2>4. CASE \E u \in Pushing(thread, w) : x = <<"push", u>>
    <3>1. PICK u \in Pushing(thread, w) : x = <<"push", u>> BY <2>4
    <3>2. CASE u = t
      <4>1. ToMaster(t, q, n, x) = <<"master", n>> BY <3>1, <3>2 DEF ToMaster
      <4>2. In(master_queue'[n], w) BY <1>5, <3>2
      <4> QED BY <1>5, <4>1, <4>2, HolderIs, HolderWillBe
    <3>3. CASE u # t
      <4>1. ToMaster(t, q, n, x) = x BY <3>1, <3>3 DEF ToMaster
      <4>2. u \in Pushing(thread', w) BY <3>3
      <4> QED BY <3>1, <4>1, <4>2, HolderIs, HolderWillBe
    <3> QED BY <3>2, <3>3
  <2> QED BY <1>7, <2>1, <2>2, <2>3, <2>4, HolderIs, HolderWillBe
<1> HIDE DEF H
<1>8. Holders(w)' = {ToMaster(t, q, n, x) : x \in H} BY <1>6, <1>7
<1> QED BY <1>4, <1>8 DEF H

-----------------------------------------------------------------------------
(* A scheduled vertex is in one place.                                     *)

LEMMA PushingSame ==
  ASSUME NEW t \in Thread, NEW s, Moves(t, s), thread[t].at # "push", s.at # "push", NEW v
  PROVE  Pushing(thread', v) = Pushing(thread, v) BY DEF Pushing, Moves

LEMMA HeldPrime ==
  ASSUME UNCHANGED kind,
         kind \in QueueKinds => \A v \in Vertex : Kept(Holders(v)', v, vertex_is_scheduled')
  PROVE  Held' BY DEF Held, Kept

LEMMA QueueInvQuiet ==
  ASSUME QueueInv, NEW t \in Thread, NEW s, Moves(t, s), thread[t].at # "push", s.at # "push",
         UNCHANGED <<kind, queues, master_queue, out_queues>>,
         UNCHANGED vertex_is_scheduled \/ kind \notin QueueKinds
  PROVE  QueueInv'
<1>1. QueuesFit' /\ MasterFull' /\ AllOnce' BY DEF QueueInv, QueuesFit, MasterFull, AllOnce, Once
<1>2. \A v : Holders(v)' = Holders(v) BY PushingSame, HoldersSame
<1>3. Held' BY <1>2, HeldPrime DEF QueueInv, Held
<1> QED BY <1>1, <1>3 DEF QueueInv

LEMMA QueueInvVisit ==
  ASSUME Base, QueueInv, NEW f \in Fiber, Visit(f)
  PROVE  QueueInv'
<1>0. /\ TypeOK /\ Fields /\ f \in Thread /\ queues \in [Queue -> EntrySeq]
      /\ QueuesFit /\ MasterFull /\ AllOnce /\ Held BY FiberIsThread DEF Base, TypeOK, QueueInv
<1>1. UNCHANGED <<kind, master_queue, out_queues, next_index, box, signals>> BY DEF Visit
<1>2. thread[f].at = "visit" BY <1>0, VisitDoes DEF At
<1>3. PICK q \in Queue :
         \/ /\ UNCHANGED <<vertex_is_scheduled, queues>>
            /\ \E s : Moves(f, s) /\ s.at \in {"asleep", "quit", "visit"}
         \/ \E i \in DOMAIN queues[q] :
              /\ queues' = [queues EXCEPT ![q] = Remove(queues[q], i)]
              /\ vertex_is_scheduled' = vertex_is_scheduled \ {queues[q][i].v}
              /\ \E s : Moves(f, s) /\ (s.at = "take" \/ s = thread[f]) BY <1>0, VisitDoes
<1>4. CASE /\ UNCHANGED <<vertex_is_scheduled, queues>>
           /\ \E s : Moves(f, s) /\ s.at \in {"asleep", "quit", "visit"}
  BY <1>0, <1>1, <1>2, <1>4, QueueInvQuiet
<1>5. ASSUME NEW i \in DOMAIN queues[q],
             queues' = [queues EXCEPT ![q] = Remove(queues[q], i)],
             vertex_is_scheduled' = vertex_is_scheduled \ {queues[q][i].v},
             NEW s, Moves(f, s), s.at = "take" \/ s = thread[f]
      PROVE  QueueInv'
  <2> DEFINE r == Remove(queues[q], i)
             v == queues[q][i].v
  <2>1. queues[q] \in Seq(EntryType) /\ v \in Vertex BY <1>0, EntryMember
  <2>2. Once(queues[q]) BY <1>0 DEF AllOnce
  <2>3. Once(r) /\ \A w : In(r, w) <=> In(queues[q], w) /\ w # v BY <2>1, <2>2, RemoveFacts
  <2>i. In(queues[q], v) BY DEF In
  <2>4. queues' = [queues EXCEPT ![q] = r] /\ vertex_is_scheduled' = vertex_is_scheduled \ {v} BY <1>5
  <2> HIDE DEF r, v
  <2>5. QueuesFit' /\ MasterFull' BY <1>0, <1>1 DEF QueuesFit, MasterFull
  <2>6. AllOnce'
    <3>1. \A p \in Queue : Once(queues'[p]) BY <1>0, <2>3, <2>4 DEF AllOnce
    <3>2. \A c \in Cpu : Once(out_queues'[c]) BY <1>0, <1>1 DEF AllOnce
    <3>3. \A j \in DOMAIN master_queue' : Once(master_queue'[j]) BY <1>0, <1>1 DEF AllOnce
    <3> QED BY <3>1, <3>2, <3>3 DEF AllOnce, Once
  <2>7. ASSUME kind \in QueueKinds, NEW w \in Vertex
        PROVE  Kept(Holders(w)', w, vertex_is_scheduled')
    <3>1. Pushing(thread', w) = Pushing(thread, w)
      <4>1. s.at # "push" BY <1>2, <1>5
      <4> QED BY <1>0, <1>2, <1>5, <4>1, PushingSame
    <3>2. \A p \in Queue : In(queues'[p], w) <=> In(queues[p], w) /\ (p = q => w # v) BY <1>0, <2>3, <2>4
    <3>3. \A x : x \in Holders(w)' <=> x \in Holders(w) /\ (w = v => x # <<"queue", q>>)
      BY <1>1, <3>1, <3>2, HoldersRemove
    <3>4. Kept(Holders(w), w, vertex_is_scheduled) BY <1>0, <2>7 DEF Held
    <3>5. CASE w # v
      <4>1. Holders(w)' = Holders(w) BY <3>3, <3>5
      <4>2. w \in vertex_is_scheduled' <=> w \in vertex_is_scheduled BY <2>4, <3>5
      <4> QED BY <3>4, <4>1, <4>2 DEF Kept
    <3>6. CASE w = v
      <4>1. <<"queue", q>> \in Holders(w) BY <2>i, <3>6, HolderIs
      <4>2. Holders(w)' = {} BY <3>3, <3>4, <3>6, <4>1 DEF Kept
      <4>3. w \notin vertex_is_scheduled' BY <2>4, <3>6
      <4> QED BY <4>2, <4>3 DEF Kept
    <3> QED BY <3>5, <3>6
  <2>8. Held' BY <1>1, <2>7, HeldPrime
  <2> QED BY <2>5, <2>6, <2>8 DEF QueueInv
<1> QED BY <1>3, <1>4, <1>5

LEMMA QueueInvTake ==
  ASSUME Base, QueueInv, NEW f \in Fiber, TakeOutQueue(f)
  PROVE  /\ QueueInv'
         /\ master_queue # <<>> => out_queues'[CpuOf(f)] # <<>>
         /\ \/ /\ master_queue # <<>> /\ out_queues'[CpuOf(f)] # <<>>
               /\ \A w : Holders(w)' = {FromMaster(CpuOf(f), x) : x \in Holders(w)}
            \/ /\ UNCHANGED <<out_queues, master_queue>>
               /\ \A w : Holders(w)' = Holders(w)
<1>0. /\ TypeOK /\ Fields /\ f \in Thread /\ CpuOf(f) \in Cpu
      /\ queues \in [Queue -> EntrySeq] /\ out_queues \in [Cpu -> EntrySeq]
      /\ master_queue \in Seq(EntrySeq)
      /\ QueuesFit /\ MasterFull /\ AllOnce /\ Held
  BY FiberIsThread, CpuOfType DEF Base, TypeOK, QueueInv
<1> DEFINE c == CpuOf(f)
<1>1. UNCHANGED <<kind, vertex_is_scheduled, queues, next_index, box, signals>> BY DEF TakeOutQueue
<1>2. thread[f].at = "next" /\ kind = "queued_fifo" BY <1>0, TakeOutQueueDoes DEF At
<1>3. PICK s : /\ Moves(f, s)
               /\ s.at = IF out_queues'[CpuOf(f)] = <<>> THEN "steal" ELSE "pop"
  BY <1>0, TakeOutQueueDoes
<1>4. \A w : Pushing(thread', w) = Pushing(thread, w)
  <2> SUFFICES ASSUME NEW w PROVE Pushing(thread', w) = Pushing(thread, w) OBVIOUS
  <2>1. s.at # "push" BY <1>3
  <2> QED BY <1>0, <1>2, <1>3, <2>1, PushingSame
<1>5. \/ /\ out_queues[c] = <<>> /\ master_queue # <<>>
         /\ out_queues' = [out_queues EXCEPT ![c] = Head(master_queue)]
         /\ master_queue' = Tail(master_queue)
      \/ /\ out_queues[c] # <<>> \/ master_queue = <<>>
         /\ UNCHANGED <<out_queues, master_queue>> BY <1>0, TakeOutQueueDoes
<1>6. CASE /\ out_queues[c] = <<>> /\ master_queue # <<>>
           /\ out_queues' = [out_queues EXCEPT ![c] = Head(master_queue)]
           /\ master_queue' = Tail(master_queue)
  <2>1. /\ 1 \in DOMAIN master_queue /\ Head(master_queue) = master_queue[1]
        /\ \A j \in DOMAIN master_queue' :
             j + 1 \in DOMAIN master_queue /\ master_queue'[j] = master_queue[j + 1]
    BY <1>0, <1>6, FullFacts, TailFacts
  <2>2. out_queues'[c] = master_queue[1] /\ \A d \in Cpu : d # c => out_queues'[d] = out_queues[d]
    BY <1>0, <1>6, <2>1
  <2>3. out_queues'[c] # <<>> BY <1>0, <2>1, <2>2 DEF MasterFull
  <2>4. QueuesFit' BY <1>1, <1>2 DEF QueuesFit
  <2>5. MasterFull' BY <1>0, <2>1 DEF MasterFull
  <2>6. AllOnce'
    <3>1. \A p \in Queue : Once(queues'[p]) BY <1>0, <1>1 DEF AllOnce
    <3>2. \A d \in Cpu : Once(out_queues'[d]) BY <1>0, <2>1, <2>2 DEF AllOnce
    <3>3. \A j \in DOMAIN master_queue' : Once(master_queue'[j]) BY <1>0, <2>1 DEF AllOnce
    <3> QED BY <3>1, <3>2, <3>3 DEF AllOnce, Once
  <2>7. ASSUME NEW w PROVE Holders(w)' = {FromMaster(c, x) : x \in Holders(w)}
    <3>1. /\ \A d \in Cpu : out_queues'[d] = IF d = c THEN master_queue[1] ELSE out_queues[d]
          /\ UNCHANGED queues /\ Pushing(thread', w) = Pushing(thread, w) BY <1>1, <1>4, <2>2
    <3>2. c \in Cpu BY <1>0
    <3> HIDE DEF c
    <3> QED BY <1>0, <1>6, <3>1, <3>2, HoldersFromMaster
  <2>8. ASSUME NEW w \in Vertex PROVE Kept(Holders(w)', w, vertex_is_scheduled')
    <3>1. Kept(Holders(w), w, vertex_is_scheduled) BY <1>0, <1>2 DEF Held, QueueKinds
    <3> QED BY <1>1, <2>7, <3>1 DEF Kept
  <2>9. Held' BY <1>1, <2>8, HeldPrime
  <2> QED BY <1>6, <2>3, <2>4, <2>5, <2>6, <2>7, <2>9 DEF QueueInv
<1>7. CASE /\ out_queues[c] # <<>> \/ master_queue = <<>>
           /\ UNCHANGED <<out_queues, master_queue>>
  <2>1. s.at # "push" BY <1>3
  <2>2. QueueInv' BY <1>0, <1>1, <1>2, <1>3, <1>7, <2>1, QueueInvQuiet
  <2>3. \A w : Holders(w)' = Holders(w) BY <1>1, <1>4, <1>7, HoldersSame
  <2> QED BY <1>7, <2>2, <2>3
<1> QED BY <1>5, <1>6, <1>7

LEMMA QueueInvSteal ==
  ASSUME Base, QueueInv, OutLock, NEW f \in Fiber, Steal(f)
  PROVE  /\ QueueInv'
         /\ \E q \in Queue :
              /\ q = (thread[f].i + multi * CpuOf(f)) % NQueues
              /\ \/ /\ out_queues'[CpuOf(f)] # <<>>
                    /\ \A d \in Cpu : d # CpuOf(f) => out_queues'[d] = out_queues[d]
                    /\ \E s : Moves(f, s) /\ s.at = "pop" /\ s.quitting = thread[f].quitting
                    /\ \A w : Holders(w)' = {FromQueue(q, CpuOf(f), x) : x \in Holders(w)}
                 \/ /\ queues[q] = <<>> /\ UNCHANGED <<out_queues, queues>>
                    /\ \A w : Holders(w)' = Holders(w)
                    /\ \E s :
                         /\ Moves(f, s) /\ s.quitting = thread[f].quitting
                         /\ \/ thread[f].i = NQueues - 1 /\ s.at = "pop"
                            \/ thread[f].i # NQueues - 1 /\ s.at = "steal" /\ s.i = thread[f].i + 1
<1>0. /\ TypeOK /\ Fields /\ f \in Thread /\ CpuOf(f) \in Cpu
      /\ queues \in [Queue -> EntrySeq] /\ out_queues \in [Cpu -> EntrySeq]
      /\ QueuesFit /\ MasterFull /\ AllOnce /\ Held
  BY FiberIsThread, CpuOfType DEF Base, TypeOK, QueueInv
<1> DEFINE c == CpuOf(f)
<1>1. UNCHANGED <<kind, vertex_is_scheduled, master_queue, next_index, box, signals>> BY DEF Steal
<1>2. thread[f].at = "steal" /\ kind = "queued_fifo" BY <1>0, StealDoes DEF At
<1>3. PICK q \in Queue :
         /\ q = (thread[f].i + multi * CpuOf(f)) % NQueues
         /\ \/ /\ queues[q] # <<>>
               /\ out_queues' = [out_queues EXCEPT ![CpuOf(f)] = queues[q]]
               /\ queues' = [queues EXCEPT ![q] = <<>>]
               /\ \E s : Moves(f, s) /\ s.at = "pop" /\ s.quitting = thread[f].quitting
            \/ /\ queues[q] = <<>>
               /\ UNCHANGED <<out_queues, queues>>
               /\ \E s :
                    /\ Moves(f, s) /\ s.quitting = thread[f].quitting
                    /\ \/ thread[f].i = NQueues - 1 /\ s.at = "pop"
                       \/ thread[f].i # NQueues - 1 /\ s.at = "steal" /\ s.i = thread[f].i + 1
  BY <1>0, StealDoes
<1>4. PICK s : Moves(f, s) /\ s.at \in {"pop", "steal"} BY <1>3
<1>5. \A w : Pushing(thread', w) = Pushing(thread, w)
  <2> SUFFICES ASSUME NEW w PROVE Pushing(thread', w) = Pushing(thread, w) OBVIOUS
  <2>1. s.at # "push" BY <1>4
  <2> QED BY <1>0, <1>2, <1>4, <2>1, PushingSame
<1>6. CASE /\ queues[q] # <<>>
           /\ out_queues' = [out_queues EXCEPT ![c] = queues[q]]
           /\ queues' = [queues EXCEPT ![q] = <<>>]
           /\ \E x : Moves(f, x) /\ x.at = "pop" /\ x.quitting = thread[f].quitting
  <2>1. out_queues[c] = <<>> BY <1>2 DEF OutLock, At
  <2>2. out_queues'[c] = queues[q] /\ \A d \in Cpu : d # c => out_queues'[d] = out_queues[d]
    BY <1>0, <1>6
  <2>4. QueuesFit' /\ MasterFull' BY <1>0, <1>1, <1>2 DEF QueuesFit, MasterFull
  <2>6. AllOnce'
    <3>1. \A p \in Queue : Once(queues'[p]) BY <1>0, <1>6, EmptyFacts DEF AllOnce
    <3>2. \A d \in Cpu : Once(out_queues'[d]) BY <1>0, <2>2 DEF AllOnce
    <3>3. \A j \in DOMAIN master_queue' : Once(master_queue'[j]) BY <1>0, <1>1 DEF AllOnce
    <3> QED BY <3>1, <3>2, <3>3 DEF AllOnce, Once
  <2>7. ASSUME NEW w PROVE Holders(w)' = {FromQueue(q, c, x) : x \in Holders(w)}
    <3>1. /\ \A p \in Queue : queues'[p] = IF p = q THEN <<>> ELSE queues[p]
          /\ \A d \in Cpu : out_queues'[d] = IF d = c THEN queues[q] ELSE out_queues[d]
          /\ UNCHANGED master_queue /\ Pushing(thread', w) = Pushing(thread, w)
      BY <1>0, <1>1, <1>5, <1>6, <2>2
    <3>2. c \in Cpu BY <1>0
    <3> HIDE DEF c
    <3> QED BY <2>1, <3>1, <3>2, HoldersSteal
  <2>8. ASSUME NEW w \in Vertex PROVE Kept(Holders(w)', w, vertex_is_scheduled')
    <3>1. Kept(Holders(w), w, vertex_is_scheduled) BY <1>0, <1>2 DEF Held, QueueKinds
    <3> QED BY <1>1, <2>7, <3>1 DEF Kept
  <2>9. Held' BY <1>1, <2>8, HeldPrime
  <2> QED BY <1>3, <1>6, <2>2, <2>4, <2>6, <2>7, <2>9 DEF QueueInv
<1>7. CASE /\ queues[q] = <<>>
           /\ UNCHANGED <<out_queues, queues>>
           /\ \E x :
                /\ Moves(f, x) /\ x.quitting = thread[f].quitting
                /\ \/ thread[f].i = NQueues - 1 /\ x.at = "pop"
                   \/ thread[f].i # NQueues - 1 /\ x.at = "steal" /\ x.i = thread[f].i + 1
  <2>1. s.at # "push" BY <1>4
  <2>2. QueueInv' BY <1>0, <1>1, <1>2, <1>4, <1>7, <2>1, QueueInvQuiet
  <2>3. \A w : Holders(w)' = Holders(w) BY <1>1, <1>5, <1>7, HoldersSame
  <2> QED BY <1>3, <1>7, <2>2, <2>3
<1> QED BY <1>3, <1>6, <1>7

LEMMA QueueInvPop ==
  ASSUME Base, QueueInv, NEW f \in Fiber, PopOutQueue(f)
  PROVE  QueueInv'
<1>0. /\ TypeOK /\ Fields /\ f \in Thread /\ CpuOf(f) \in Cpu
      /\ out_queues \in [Cpu -> EntrySeq]
      /\ QueuesFit /\ MasterFull /\ AllOnce /\ Held
  BY FiberIsThread, CpuOfType DEF Base, TypeOK, QueueInv
<1>1. UNCHANGED <<kind, queues, master_queue, next_index, box, signals>> BY DEF PopOutQueue
<1>2. thread[f].at = "pop" /\ kind = "queued_fifo" BY <1>0, PopOutQueueDoes DEF At
<1>3. CASE out_queues[CpuOf(f)] = <<>>
  <2>1. UNCHANGED <<out_queues, vertex_is_scheduled>> BY <1>0, <1>3, PopOutQueueDoes
  <2>2. PICK s : Moves(f, s) /\ s.at \in {"asleep", "quit"} BY <1>0, <1>3, PopOutQueueDoes
  <2>3. s.at # "push" /\ thread[f].at # "push" BY <1>2, <2>2
  <2> QED BY <1>0, <1>1, <2>1, <2>2, <2>3, QueueInvQuiet
<1>4. CASE out_queues[CpuOf(f)] # <<>>
  <2>1. PICK c \in Cpu : c = CpuOf(f) BY <1>0
  <2>2. PICK v : v = Head(out_queues[c]).v OBVIOUS
  <2>3. PICK r : r = Tail(out_queues[c]) OBVIOUS
  <2>4. /\ out_queues' = [out_queues EXCEPT ![c] = r]
        /\ vertex_is_scheduled' = vertex_is_scheduled \ {v}
    BY <1>0, <1>4, <2>1, <2>2, <2>3, PopOutQueueDoes
  <2>5. PICK s : Moves(f, s) /\ (s.at = "take" \/ s = thread[f]) BY <1>0, <1>4, PopOutQueueDoes
  <2>6. out_queues[c] \in Seq(EntryType) /\ Once(out_queues[c]) BY <1>0, EntryMember DEF AllOnce
  <2>7. In(out_queues[c], v) /\ Once(r) /\ \A w : In(r, w) <=> In(out_queues[c], w) /\ w # v
    BY <1>4, <2>1, <2>2, <2>3, <2>6, TailFacts
  <2>8. QueuesFit' /\ MasterFull' BY <1>0, <1>1, <1>2 DEF QueuesFit, MasterFull
  <2>9. AllOnce'
    <3>1. \A p \in Queue : Once(queues'[p]) BY <1>0, <1>1 DEF AllOnce
    <3>2. \A d \in Cpu : Once(out_queues'[d]) BY <1>0, <2>4, <2>7 DEF AllOnce
    <3>3. \A j \in DOMAIN master_queue' : Once(master_queue'[j]) BY <1>0, <1>1 DEF AllOnce
    <3> QED BY <3>1, <3>2, <3>3 DEF AllOnce, Once
  <2>10. ASSUME NEW w \in Vertex PROVE Kept(Holders(w)', w, vertex_is_scheduled')
    <3>1. Pushing(thread', w) = Pushing(thread, w)
      <4>1. s.at # "push" BY <1>2, <2>5
      <4> QED BY <1>0, <1>2, <2>5, <4>1, PushingSame
    <3>2. \A d \in Cpu : In(out_queues'[d], w) <=> In(out_queues[d], w) /\ (d = c => w # v)
      BY <1>0, <2>4, <2>7
    <3>3. \A x : x \in Holders(w)' <=> x \in Holders(w) /\ (w = v => x # <<"out", c>>)
      BY <1>1, <3>1, <3>2, HoldersRemoveOut
    <3>4. Kept(Holders(w), w, vertex_is_scheduled) BY <1>0, <1>2 DEF Held, QueueKinds
    <3>5. CASE w # v
      <4>1. Holders(w)' = Holders(w) BY <3>3, <3>5
      <4>2. w \in vertex_is_scheduled' <=> w \in vertex_is_scheduled BY <2>4, <3>5
      <4> QED BY <3>4, <4>1, <4>2 DEF Kept
    <3>6. CASE w = v
      <4>1. <<"out", c>> \in Holders(w) BY <2>7, <3>6, HolderIs
      <4>2. Holders(w)' = {} BY <3>3, <3>4, <3>6, <4>1 DEF Kept
      <4>3. w \notin vertex_is_scheduled' BY <2>4, <3>6
      <4> QED BY <4>2, <4>3 DEF Kept
    <3> QED BY <3>5, <3>6
  <2>11. Held' BY <1>1, <2>10, HeldPrime
  <2> QED BY <2>8, <2>9, <2>11 DEF QueueInv
<1> QED BY <1>3, <1>4

LEMMA QueueInvSchedule ==
  ASSUME Base, QueueInv, NEW t \in Thread, Schedule(t)
  PROVE  QueueInv'
<1>0. TypeOK /\ Fields /\ QueuesFit /\ MasterFull /\ AllOnce /\ Held BY DEF Base, QueueInv
<1>1. UNCHANGED <<kind, queues, master_queue, out_queues, next_index, box, signals>> BY DEF Schedule
<1>2. PICK v \in Vertex : v = thread[t].v BY <1>0, ScheduleDoes
<1>3. thread[t].at = "schedule" /\ vertex_is_scheduled' = vertex_is_scheduled \cup {v}
  BY <1>0, <1>2, ScheduleDoes DEF At
<1>4. PICK s : /\ Moves(t, s) /\ s.v = v
               /\ s.at = IF v \in vertex_is_scheduled \/ kind \in SweepKinds THEN "cancel" ELSE "push"
  BY <1>0, <1>2, ScheduleDoes
<1>5. CASE v \in vertex_is_scheduled \/ kind \in SweepKinds
  <2>1. thread[t].at # "push" /\ s.at # "push" BY <1>3, <1>4, <1>5
  <2>2. UNCHANGED vertex_is_scheduled \/ kind \notin QueueKinds BY <1>3, <1>5 DEF QueueKinds, SweepKinds
  <2> QED BY <1>1, <1>4, <2>1, <2>2, QueueInvQuiet
<1>6. CASE v \notin vertex_is_scheduled /\ kind \notin SweepKinds
  <2>1. s.at = "push" /\ thread'[t] = s BY <1>4, <1>6 DEF Moves
  <2>2. QueuesFit' /\ MasterFull' /\ AllOnce' BY <1>0, <1>1 DEF QueuesFit, MasterFull, AllOnce, Once
  <2>3. ASSUME kind \in QueueKinds, NEW w \in Vertex
        PROVE  Kept(Holders(w)', w, vertex_is_scheduled')
    <3>1. \A u \in Thread : u # t => thread'[u] = thread[u] BY <1>4 DEF Moves
    <3>2. \A u : u \in Pushing(thread', w) <=> u \in Pushing(thread, w) \/ (u = t /\ w = v)
      BY <1>3, <1>4, <2>1, <3>1 DEF Pushing
    <3>3. \A x : x \in Holders(w)' <=> x \in Holders(w) \/ (x = <<"push", t>> /\ w = v)
      <4> SUFFICES ASSUME NEW x
                   PROVE  x \in Holders(w)' <=> x \in Holders(w) \/ (x = <<"push", t>> /\ w = v) OBVIOUS
      <4> QED BY <1>1, <3>2, HolderIs, HolderWillBe
    <3>4. Kept(Holders(w), w, vertex_is_scheduled) BY <1>0, <2>3 DEF Held
    <3>5. CASE w # v
      <4>1. Holders(w)' = Holders(w) BY <3>3, <3>5
      <4>2. w \in vertex_is_scheduled' <=> w \in vertex_is_scheduled BY <1>3, <3>5
      <4> QED BY <3>4, <4>1, <4>2 DEF Kept
    <3>6. CASE w = v
      <4>1. Holders(w) = {} BY <1>6, <3>4, <3>6 DEF Kept
      <4>2. Holders(w)' = {<<"push", t>>} BY <3>3, <3>6, <4>1
      <4>3. w \in vertex_is_scheduled' BY <1>3, <3>6
      <4> QED BY <4>2, <4>3 DEF Kept
    <3> QED BY <3>5, <3>6
  <2>4. Held' BY <1>1, <2>3, HeldPrime
  <2> QED BY <2>2, <2>4 DEF QueueInv
<1> QED BY <1>5, <1>6

LEMMA QueueInvPush ==
  ASSUME Base, QueueInv, NEW t \in Thread, Push(t)
  PROVE  QueueInv'
<1>0. /\ TypeOK /\ Fields /\ queues \in [Queue -> EntrySeq] /\ master_queue \in Seq(EntrySeq)
      /\ QueuesFit /\ MasterFull /\ AllOnce /\ Held BY DEF Base, TypeOK, QueueInv
<1>1. UNCHANGED <<kind, vertex_is_scheduled, out_queues, next_index, box, signals>> BY DEF Push
<1>2. PICK e \in EntryType : e = Entry(thread[t].v, thread[t].priority) BY <1>0, PushDoes
<1>3. PICK v \in Vertex : v = thread[t].v /\ v = e.v BY <1>0, <1>2, PushDoes DEF Entry
<1>4. thread[t].at = "push" /\ kind \in QueueKinds BY <1>0, PushDoes DEF At
<1>5. PICK q \in Queue :
        \/ /\ kind = "queued_fifo"
           /\ queues' = [queues EXCEPT ![q] = <<>>]
           /\ master_queue' = Append(master_queue, Append(queues[q], e))
        \/ /\ queues' = [queues EXCEPT ![q] = Append(queues[q], e)]
           /\ UNCHANGED master_queue BY <1>0, <1>2, PushDoes
<1>6. PICK s : Moves(t, s) /\ s.at = "cancel" BY <1>0, PushDoes
<1>7. \A w : /\ t \in Pushing(thread, w) <=> w = v
             /\ Pushing(thread', w) = Pushing(thread, w) \ {t} BY <1>6, <1>3, <1>4 DEF Moves, Pushing
<1>8. \A w \in Vertex : Kept(Holders(w), w, vertex_is_scheduled) BY <1>0, <1>4 DEF Held
<1>9. ~In(queues[q], v)
  <2> SUFFICES ASSUME In(queues[q], v) PROVE FALSE OBVIOUS
  <2>1. <<"queue", q>> \in Holders(v) BY HolderIs
  <2>2. <<"push", t>> \in Holders(v) BY <1>7, HolderIs
  <2>3. <<"queue", q>> # <<"push", t>> OBVIOUS
  <2> QED BY <1>8, <2>1, <2>2, <2>3 DEF Kept
<1>10. PICK r : r = Append(queues[q], e) OBVIOUS
<1>11. /\ r \in EntrySeq /\ r # <<>> /\ Once(r)
       /\ \A w : In(r, w) <=> In(queues[q], w) \/ w = v
  <2>1. queues[q] \in Seq(EntryType) /\ Once(queues[q]) BY <1>0, EntryMember DEF AllOnce
  <2>2. r \in Seq(EntryType) BY <1>10, <2>1, AppendFacts
  <2>3. r # <<>> /\ Once(r) BY <1>3, <1>9, <1>10, <2>1, AppendFacts
  <2>4. \A w : In(r, w) <=> In(queues[q], w) \/ w = v BY <1>3, <1>10, <2>1, AppendFacts
  <2>5. r \in EntrySeq BY <2>2 DEF EntrySeq, EntryType
  <2> QED BY <2>3, <2>4, <2>5
<1>12. \A c \in Cpu : Once(out_queues'[c]) BY <1>0, <1>1 DEF AllOnce
<1>13. CASE /\ kind = "queued_fifo"
            /\ queues' = [queues EXCEPT ![q] = <<>>]
            /\ master_queue' = Append(master_queue, r)
  <2>1. /\ \A j \in DOMAIN master_queue : j \in DOMAIN master_queue' /\ master_queue'[j] = master_queue[j]
        /\ Len(master_queue) + 1 \in DOMAIN master_queue' /\ master_queue'[Len(master_queue) + 1] = r
        /\ \A j \in DOMAIN master_queue' : j \in DOMAIN master_queue \/ j = Len(master_queue) + 1
    BY <1>0, <1>11, <1>13, AppendFacts
  <2>2. QueuesFit' BY <1>1, <1>13 DEF QueuesFit
  <2>3. MasterFull' BY <1>0, <1>11, <2>1 DEF MasterFull
  <2>4. AllOnce'
    <3>1. \A p \in Queue : Once(queues'[p]) BY <1>0, <1>13, EmptyFacts DEF AllOnce
    <3>2. \A j \in DOMAIN master_queue' : Once(master_queue'[j]) BY <1>0, <1>11, <2>1 DEF AllOnce
    <3> QED BY <1>12, <3>1, <3>2 DEF AllOnce, Once
  <2>5. ASSUME NEW w \in Vertex PROVE Kept(Holders(w)', w, vertex_is_scheduled')
    <3>1. /\ UNCHANGED out_queues
          /\ \A p \in Queue : queues'[p] = IF p = q THEN <<>> ELSE queues[p]
          /\ In(r, w) <=> In(queues[q], w) \/ t \in Pushing(thread, w)
          /\ Pushing(thread', w) = Pushing(thread, w) \ {t} BY <1>0, <1>1, <1>7, <1>11, <1>13
    <3>2. Holders(w)' = {ToMaster(t, q, Len(master_queue) + 1, x) : x \in Holders(w)}
      BY <1>0, <1>11, <1>13, <3>1, HoldersToMaster
    <3>3. Kept(Holders(w), w, vertex_is_scheduled) BY <1>8
    <3> QED BY <1>1, <3>2, <3>3 DEF Kept
  <2>6. Held' BY <1>1, <2>5, HeldPrime
  <2> QED BY <2>2, <2>3, <2>4, <2>6 DEF QueueInv
<1>14. CASE queues' = [queues EXCEPT ![q] = r] /\ UNCHANGED master_queue
  <2>1. QueuesFit' /\ MasterFull' BY <1>0, <1>1, <1>14 DEF QueuesFit, MasterFull
  <2>2. AllOnce'
    <3>1. \A p \in Queue : Once(queues'[p]) BY <1>0, <1>11, <1>14 DEF AllOnce
    <3>2. \A j \in DOMAIN master_queue' : Once(master_queue'[j]) BY <1>0, <1>14 DEF AllOnce
    <3> QED BY <1>12, <3>1, <3>2 DEF AllOnce, Once
  <2>3. ASSUME NEW w \in Vertex PROVE Kept(Holders(w)', w, vertex_is_scheduled')
    <3>1. /\ UNCHANGED <<out_queues, master_queue>>
          /\ \A p \in Queue :
               In(queues'[p], w) <=> In(queues[p], w) \/ (p = q /\ t \in Pushing(thread, w))
          /\ Pushing(thread', w) = Pushing(thread, w) \ {t} BY <1>0, <1>1, <1>7, <1>11, <1>14
    <3>2. Holders(w)' = {FromPush(t, q, x) : x \in Holders(w)} BY <3>1, HoldersPush
    <3>3. Kept(Holders(w), w, vertex_is_scheduled) BY <1>8
    <3> QED BY <1>1, <3>2, <3>3 DEF Kept
  <2>4. Held' BY <1>1, <2>3, HeldPrime
  <2> QED BY <2>1, <2>2, <2>4 DEF QueueInv
<1> QED BY <1>5, <1>10, <1>13, <1>14

LEMMA QueueInvInit == Init => QueueInv
<1> SUFFICES ASSUME Init PROVE QueueInv OBVIOUS
<1>1. DOMAIN master_queue = {} /\ \A q \in Queue : queues[q] = <<>> BY DEF Init
<1>2. \A c \in Cpu : out_queues[c] = <<>> BY DEF Init
<1>3. QueuesFit /\ MasterFull BY <1>1, <1>2 DEF QueuesFit, MasterFull, Init
<1>4. AllOnce BY <1>1, <1>2, EmptyFacts DEF AllOnce
<1>5. ASSUME NEW v \in Vertex PROVE Kept(Holders(v), v, vertex_is_scheduled)
  <2>1. \A t \in Thread : thread[t].at # "push" BY IdleFacts DEF Init
  <2>2. Pushing(thread, v) = {} BY <2>1 DEF Pushing
  <2>3. Holders(v) = {} BY <1>1, <1>2, <2>2, EmptyFacts DEF Holders
  <2> QED BY <2>3 DEF Kept, Init
<1> QED BY <1>3, <1>4, <1>5 DEF QueueInv, Held

LEMMA QueueInvNext == Base /\ OutLock /\ QueueInv /\ [Next]_vars => QueueInv'
<1> SUFFICES ASSUME Base, OutLock, QueueInv, [Next]_vars PROVE QueueInv' OBVIOUS
<1>0. TypeOK /\ Fields /\ BoxBound BY DEF Base
<1>1. ASSUME NEW t \in Thread, NEW s, Moves(t, s), thread[t].at # "push", s.at # "push",
             UNCHANGED <<kind, queues, master_queue, out_queues>>,
             UNCHANGED vertex_is_scheduled \/ kind \notin QueueKinds
      PROVE  QueueInv' BY <1>1, QueueInvQuiet
<1>2. ASSUME NEW f \in Fiber, get_next(f) PROVE QueueInv'
  <2>0. f \in Thread BY FiberIsThread
  <2>1. CASE BeginVisits(f)
    <3>1. thread[f].at = "next" /\ \E s : Moves(f, s) /\ s.at = "visit"
      BY <1>0, <2>1, BeginVisitsDoes DEF At
    <3> QED BY <1>1, <2>0, <2>1, <3>1 DEF BeginVisits, sched_vars
  <2>2. CASE Visit(f) BY <2>2, QueueInvVisit
  <2>3. CASE TakeOutQueue(f) BY <2>3, QueueInvTake
  <2>4. CASE Steal(f) BY <2>4, QueueInvSteal
  <2>5. CASE PopOutQueue(f) BY <2>5, QueueInvPop
  <2>6. CASE BeginSweep(f)
    <3>1. thread[f].at = "next" /\ \E s : Moves(f, s) /\ s.at = "sweep"
      BY <1>0, <2>6, BeginSweepDoes DEF At
    <3> QED BY <1>1, <2>0, <2>6, <3>1 DEF BeginSweep, sched_vars
  <2>7. CASE Sweep(f)
    <3>1. thread[f].at = "sweep" /\ kind \notin QueueKinds
      BY <1>0, <2>7, SweepDoes DEF At, QueueKinds, SweepKinds
    <3>2. PICK s : Moves(f, s) /\ s.at \in {"asleep", "quit", "take", "sweep"} BY <1>0, <2>7, SweepDoes
    <3> QED BY <1>1, <2>0, <2>7, <3>1, <3>2 DEF Sweep
  <2> QED BY <1>2, <2>1, <2>2, <2>3, <2>4, <2>5, <2>6, <2>7 DEF get_next
<1>3. ASSUME NEW t \in Thread,
             \/ /\ t \in Fiber
                /\ \/ TakeMessage(t) \/ RunProgram(t) \/ BeginDone(t) \/ LockDone(t) \/ LeaveDone(t)
             \/ Add(t) \/ CancelNobody(t) \/ Cancel(t)
      PROVE  QueueInv'
  <2>1. thread[t].at # "push"
    BY <1>3 DEF TakeMessage, RunProgram, BeginDone, LockDone, LeaveDone, Add, CancelNobody, Cancel, At
  <2>2. UNCHANGED <<kind, vertex_is_scheduled, queues, master_queue, out_queues>>
    BY <1>3 DEF TakeMessage, RunProgram, BeginDone, LockDone, LeaveDone, Add, CancelNobody, Cancel,
                sched_vars
  <2>3. PICK s : Moves(t, s) /\ (s.at = "push" => Schedule(t)) BY <1>3, OtherMoves
  <2>4. thread[t].at # "schedule"
    BY <1>3 DEF TakeMessage, RunProgram, BeginDone, LockDone, LeaveDone, Add, CancelNobody, Cancel, At
  <2>5. s.at # "push" BY <2>3, <2>4 DEF Schedule, At
  <2> QED BY <1>1, <2>1, <2>2, <2>3, <2>5
<1>4. ASSUME NEW t \in Thread, Wake(t) PROVE QueueInv'
  <2>1. UNCHANGED <<kind, vertex_is_scheduled, queues, master_queue, out_queues>>
    BY <1>4 DEF Wake, sched_vars
  <2>2. \A w : Pushing(thread', w) = Pushing(thread, w) BY <1>0, <1>4, WakeDoes DEF At, Pushing
  <2>3. \A w : Holders(w)' = Holders(w) BY <2>1, <2>2, HoldersSame
  <2>4. QueuesFit' /\ MasterFull' /\ AllOnce' BY <2>1 DEF QueueInv, QueuesFit, MasterFull, AllOnce, Once
  <2>5. Held' BY <2>1, <2>3, HeldPrime DEF QueueInv, Held
  <2> QED BY <2>4, <2>5 DEF QueueInv
<1>5. ASSUME UNCHANGED vars PROVE QueueInv'
  <2>1. UNCHANGED <<kind, vertex_is_scheduled, queues, master_queue, out_queues, thread>>
    BY <1>5 DEF vars, sched_vars
  <2>2. \A w : Holders(w)' = Holders(w) BY <2>1, HoldersSame
  <2>4. QueuesFit' /\ MasterFull' /\ AllOnce' BY <2>1 DEF QueueInv, QueuesFit, MasterFull, AllOnce, Once
  <2>5. Held' BY <2>1, <2>2, HeldPrime DEF QueueInv, Held
  <2> QED BY <2>4, <2>5 DEF QueueInv
<1> QED BY <1>2, <1>3, <1>4, <1>5, QueueInvSchedule, QueueInvPush, FiberIsThread
  DEF Next, FiberStep, Signal

-----------------------------------------------------------------------------
(* QueuedOnce, from where the vertices are.                                *)

\* A place of v is a position in a queue, or a thread that pushes it.
LEMMA PlaceIs ==
  ASSUME NEW v, NEW x
  PROVE  x \in Places(v) <=>
           \/ \E q \in Queue : \E i \in DOMAIN queues[q] :
                x = <<"queue", q, i>> /\ queues[q][i].v = v
           \/ \E c \in Cpu : \E i \in DOMAIN out_queues[c] :
                x = <<"out", c, i>> /\ out_queues[c][i].v = v
           \/ \E j \in DOMAIN master_queue : \E i \in DOMAIN master_queue[j] :
                x = <<"master", j, i>> /\ master_queue[j][i].v = v
           \/ \E t \in Pushing(thread, v) : x = <<"push", t, 0>> BY DEF Places, Positions, Pushing, At

LEMMA PlaceHolder ==
  ASSUME NEW v, NEW x \in Places(v)
  PROVE  <<x[1], x[2]>> \in Holders(v)
<1>1. CASE \E q \in Queue : \E i \in DOMAIN queues[q] : x = <<"queue", q, i>> /\ queues[q][i].v = v
  BY <1>1, HolderIs DEF In
<1>2. CASE \E c \in Cpu : \E i \in DOMAIN out_queues[c] :
             x = <<"out", c, i>> /\ out_queues[c][i].v = v BY <1>2, HolderIs DEF In
<1>3. CASE \E j \in DOMAIN master_queue : \E i \in DOMAIN master_queue[j] :
             x = <<"master", j, i>> /\ master_queue[j][i].v = v BY <1>3, HolderIs DEF In
<1>4. CASE \E t \in Pushing(thread, v) : x = <<"push", t, 0>> BY <1>4, HolderIs
<1> QED BY <1>1, <1>2, <1>3, <1>4, PlaceIs

LEMMA HolderPlace ==
  ASSUME NEW v, Holders(v) # {}
  PROVE  Places(v) # {}
<1>0. PICK h : h \in Holders(v) OBVIOUS
<1>1. CASE \E q \in Queue : h = <<"queue", q>> /\ In(queues[q], v) BY <1>1, PlaceIs DEF In
<1>2. CASE \E c \in Cpu : h = <<"out", c>> /\ In(out_queues[c], v) BY <1>2, PlaceIs DEF In
<1>3. CASE \E j \in DOMAIN master_queue : h = <<"master", j>> /\ In(master_queue[j], v)
  BY <1>3, PlaceIs DEF In
<1>4. CASE \E t \in Pushing(thread, v) : h = <<"push", t>> BY <1>4, PlaceIs
<1> QED BY <1>0, <1>1, <1>2, <1>3, <1>4, HolderIs

\* Two places of one holder are the same.
LEMMA PlacesDiffer ==
  ASSUME AllOnce, NEW v, NEW x \in Places(v), NEW y \in Places(v), x[1] = y[1], x[2] = y[2]
  PROVE  x = y
<1>1. CASE \E q \in Queue : \E i \in DOMAIN queues[q] : x = <<"queue", q, i>> /\ queues[q][i].v = v
  BY <1>1, PlaceIs DEF AllOnce, Once
<1>2. CASE \E c \in Cpu : \E i \in DOMAIN out_queues[c] :
             x = <<"out", c, i>> /\ out_queues[c][i].v = v BY <1>2, PlaceIs DEF AllOnce, Once
<1>3. CASE \E j \in DOMAIN master_queue : \E i \in DOMAIN master_queue[j] :
             x = <<"master", j, i>> /\ master_queue[j][i].v = v BY <1>3, PlaceIs DEF AllOnce, Once
<1>4. CASE \E t \in Pushing(thread, v) : x = <<"push", t, 0>> BY <1>4, PlaceIs
<1> QED BY <1>1, <1>2, <1>3, <1>4, PlaceIs

LEMMA OncePlaced == TypeOK /\ QueueInv => QueuedOnce
<1> SUFFICES ASSUME TypeOK, QueueInv, kind \in {"fifo", "priority", "queued_fifo"}, NEW v \in Vertex
             PROVE  Cardinality(Places(v)) = IF v \in vertex_is_scheduled THEN 1 ELSE 0 BY DEF QueuedOnce
<1>1. AllOnce /\ Kept(Holders(v), v, vertex_is_scheduled) BY DEF QueueInv, Held, QueueKinds
<1>2. \A x, y \in Places(v) : x = y
  <2> SUFFICES ASSUME NEW x \in Places(v), NEW y \in Places(v) PROVE x = y OBVIOUS
  <2>1. <<x[1], x[2]>> = <<y[1], y[2]>> BY <1>1, PlaceHolder DEF Kept
  <2> QED BY <1>1, <2>1, PlacesDiffer
<1>3. CASE v \in vertex_is_scheduled
  <2>1. Places(v) # {} BY <1>1, <1>3, HolderPlace DEF Kept
  <2>2. PICK x : Places(v) = {x} BY <1>2, <2>1
  <2> QED BY <1>3, <2>2, FS_Singleton
<1>4. CASE v \notin vertex_is_scheduled
  <2>1. Holders(v) = {} BY <1>1, <1>4 DEF Kept
  <2>2. Places(v) = {} BY <2>1, PlaceHolder
  <2> QED BY <1>4, <2>2, FS_EmptySet
<1> QED BY <1>3, <1>4

\* The invariants of the queues, together.
LEMMA QueuesKept == Spec => [](Base /\ OutLock /\ QueueInv)
<1>1. Init => Base /\ OutLock /\ QueueInv
  <2>1. Init => OutLock BY IdleFacts, FiberIsThread DEF Init, OutLock, At, Locked
  <2> QED BY <2>1, BaseInit, QueueInvInit
<1>2. Base /\ OutLock /\ QueueInv /\ [Next]_vars => (Base /\ OutLock /\ QueueInv)'
  BY BaseNext, OutLockNext, QueueInvNext
<1> QED BY <1>1, <1>2, PTL DEF Spec

\* A vertex whose bit is set is in one queue, once, or in the hands of the one thread that
\* is about to push it, and no other vertex is anywhere: under all three schedulers with
\* queues, whichever queues are swapped into the master queue, taken out of it or stolen.
THEOREM VerticesQueuedOnce == Spec => []QueuedOnce
<1>1. Base /\ OutLock /\ QueueInv => QueuedOnce BY OncePlaced DEF Base
<1> QED BY <1>1, QueuesKept, PTL

-----------------------------------------------------------------------------
(* The critical section of the consensus.                                  *)

Mutex == \A f, g \in Fiber : thread[f].quitting /\ thread[g].quitting => f = g

LEMMA MutexStep ==
  ASSUME Mutex, NEW t \in Thread, NEW s, Moves(t, s), s.quitting => thread[t].quitting \/ MutexFree
  PROVE  Mutex'
<1> SUFFICES ASSUME NEW f \in Fiber, NEW g \in Fiber, thread'[f].quitting, thread'[g].quitting
             PROVE  f = g BY DEF Mutex
<1>0. f \in Thread /\ g \in Thread BY FiberIsThread
<1>1. CASE f # t /\ g # t BY <1>0, <1>1 DEF Moves, Mutex
<1>2. CASE f = t /\ g # t BY <1>0, <1>2 DEF Moves, Mutex, MutexFree
<1>3. CASE f # t /\ g = t BY <1>0, <1>3 DEF Moves, Mutex, MutexFree
<1> QED BY <1>1, <1>2, <1>3

LEMMA MutexNext == Base /\ Mutex /\ [Next]_vars => Mutex'
<1> SUFFICES ASSUME Base, Mutex, [Next]_vars PROVE Mutex' OBVIOUS
<1>0. TypeOK /\ Fields /\ BoxBound BY DEF Base
<1>1. ASSUME NEW f \in Fiber, get_next(f) PROVE Mutex'
  <2>0. f \in Thread BY FiberIsThread
  <2>1. CASE BeginVisits(f) BY <1>0, <2>0, <2>1, BeginVisitsDoes, MutexStep
  <2>2. CASE Visit(f)
    <3>1. PICK s : Moves(f, s) /\ (s.quitting => thread[f].quitting) BY <1>0, <2>2, VisitDoes
    <3> QED BY <2>0, <3>1, MutexStep
  <2>3. CASE TakeOutQueue(f)
    <3>1. PICK s : Moves(f, s) /\ s.quitting = thread[f].quitting BY <1>0, <2>3, TakeOutQueueDoes
    <3> QED BY <2>0, <3>1, MutexStep
  <2>4. CASE Steal(f)
    <3>1. PICK s : Moves(f, s) /\ s.quitting = thread[f].quitting BY <1>0, <2>4, StealDoes
    <3> QED BY <2>0, <3>1, MutexStep
  <2>5. CASE PopOutQueue(f)
    <3>1. PICK s : Moves(f, s) /\ (s.quitting => thread[f].quitting) BY <1>0, <2>5, PopOutQueueDoes
    <3> QED BY <2>0, <3>1, MutexStep
  <2>6. CASE BeginSweep(f) BY <1>0, <2>0, <2>6, BeginSweepDoes, MutexStep
  <2>7. CASE Sweep(f)
    <3>1. PICK s : Moves(f, s) /\ (s.quitting => thread[f].quitting) BY <1>0, <2>7, SweepDoes
    <3> QED BY <2>0, <3>1, MutexStep
  <2> QED BY <1>1, <2>1, <2>2, <2>3, <2>4, <2>5, <2>6, <2>7 DEF get_next
<1>2. ASSUME NEW f \in Fiber, TakeMessage(f) PROVE Mutex'
  <2>1. PICK s : Moves(f, s) /\ (s.quitting => thread[f].quitting) BY <1>0, <1>2, TakeMessageDoes
  <2> QED BY <2>1, FiberIsThread, MutexStep
<1>3. ASSUME NEW f \in Fiber, RunProgram(f) \/ BeginDone(f) \/ LeaveDone(f) PROVE Mutex'
  <2>1. PICK s : Moves(f, s) /\ ~s.quitting BY <1>0, <1>3, RunProgramDoes, BeginDoneDoes, LeaveDoneDoes
  <2> QED BY <2>1, FiberIsThread, MutexStep
<1>4. ASSUME NEW f \in Fiber, LockDone(f) PROVE Mutex'
  <2>1. MutexFree /\ \E s : Moves(f, s) BY <1>0, <1>4, LockDoneDoes
  <2> QED BY <2>1, FiberIsThread, MutexStep
<1>5. ASSUME NEW t \in Thread, Add(t) PROVE Mutex'
  <2>1. PICK s : Moves(t, s) /\ ~s.quitting BY <1>0, <1>5, AddDoes
  <2> QED BY <2>1, MutexStep
<1>6. ASSUME NEW t \in Thread, Schedule(t) \/ Push(t) \/ CancelNobody(t) \/ Cancel(t) PROVE Mutex'
  <2>1. PICK s : Moves(t, s) /\ ~s.quitting
    BY <1>0, <1>6, ScheduleDoes, PushDoes, CancelNobodyDoes, CancelDoes
  <2> QED BY <2>1, MutexStep
<1>7. ASSUME NEW t \in Thread, Wake(t) PROVE Mutex'
  <2>1. \A u \in Thread : thread'[u].quitting => thread[u].quitting BY <1>0, <1>7, WakeDoes
  <2> QED BY <2>1, FiberIsThread DEF Mutex
<1>8. ASSUME UNCHANGED vars PROVE Mutex' BY <1>8 DEF Mutex, vars
<1> QED BY <1>1, <1>2, <1>3, <1>4, <1>5, <1>6, <1>7, <1>8, FiberIsThread DEF Next, FiberStep, Signal

-----------------------------------------------------------------------------
(* Messages.                                                               *)

Carries(s, v) == s.at \in {"schedule", "take"} /\ s.v = v

\* A message is in the hands of the thread that made it or takes it, or its vertex
\* is scheduled.
Followed ==
  \A v \in Vertex :
    box[v] > 0 => v \in vertex_is_scheduled \/ \E t \in Thread : Carries(thread[t], v)

LEMMA FollowedStep ==
  ASSUME Followed, NEW t \in Thread, NEW s, Moves(t, s),
         \A v \in Vertex :
           \/ Carries(s, v) \/ v \in vertex_is_scheduled' \/ ~(box'[v] > 0)
           \/ /\ box[v] > 0
              /\ v \notin vertex_is_scheduled /\ ~Carries(thread[t], v)
  PROVE  Followed'
<1> SUFFICES ASSUME NEW v \in Vertex, box'[v] > 0, v \notin vertex_is_scheduled'
             PROVE  \E u \in Thread : Carries(thread'[u], v) BY DEF Followed, Carries
<1>1. thread'[t] = s /\ \A u \in Thread : u # t => thread'[u] = thread[u] BY DEF Moves
<1>2. CASE Carries(s, v) BY <1>1, <1>2
<1>3. CASE box[v] > 0 /\ v \notin vertex_is_scheduled /\ ~Carries(thread[t], v)
  BY <1>1, <1>3 DEF Followed
<1> QED BY <1>2, <1>3

LEMMA FollowedNext == Base /\ Followed /\ [Next]_vars => Followed'
<1> SUFFICES ASSUME Base, Followed, [Next]_vars PROVE Followed' OBVIOUS
<1>0. TypeOK /\ Fields /\ BoxBound BY DEF Base
\* A step that takes nothing out of the hands of a thread, or gives it what was scheduled.
<1>1. ASSUME NEW t \in Thread, NEW s, Moves(t, s), thread[t].at \notin {"schedule", "take"},
             UNCHANGED box,
             \A v \in Vertex : v \in vertex_is_scheduled /\ v \notin vertex_is_scheduled' => Carries(s, v)
      PROVE  Followed' BY <1>1, FollowedStep DEF Carries
<1>2. ASSUME NEW f \in Fiber, get_next(f) PROVE Followed'
  <2>0. f \in Thread BY FiberIsThread
  <2>1. CASE BeginVisits(f)
    <3>1. thread[f].at = "next" /\ \E s : Moves(f, s) BY <1>0, <2>1, BeginVisitsDoes DEF At
    <3> QED BY <1>1, <2>0, <2>1, <3>1 DEF BeginVisits, sched_vars
  <2>2. CASE Visit(f)
    <3>1. thread[f].at = "visit" /\ UNCHANGED box BY <2>2 DEF Visit, At
    <3>2. PICK s : /\ Moves(f, s)
                   /\ \/ UNCHANGED vertex_is_scheduled
                      \/ \E v : /\ vertex_is_scheduled' = vertex_is_scheduled \ {v}
                                /\ v \in vertex_is_scheduled => Carries(s, v)
      BY <1>0, <2>2, VisitDoes DEF Carries
    <3> QED BY <1>1, <2>0, <3>1, <3>2
  <2>3. CASE TakeOutQueue(f)
    <3>1. thread[f].at = "next" /\ \E s : Moves(f, s) BY <1>0, <2>3, TakeOutQueueDoes DEF At
    <3> QED BY <1>1, <2>0, <2>3, <3>1 DEF TakeOutQueue
  <2>4. CASE Steal(f)
    <3>1. thread[f].at = "steal" /\ \E s : Moves(f, s) BY <1>0, <2>4, StealDoes DEF At
    <3> QED BY <1>1, <2>0, <2>4, <3>1 DEF Steal
  <2>5. CASE PopOutQueue(f)
    <3>1. thread[f].at = "pop" /\ UNCHANGED box BY <2>5 DEF PopOutQueue, At
    <3>2. PICK s : /\ Moves(f, s)
                   /\ \/ UNCHANGED vertex_is_scheduled
                      \/ \E v : /\ vertex_is_scheduled' = vertex_is_scheduled \ {v}
                                /\ v \in vertex_is_scheduled => Carries(s, v)
      BY <1>0, <2>5, PopOutQueueDoes DEF Carries
    <3> QED BY <1>1, <2>0, <3>1, <3>2
  <2>6. CASE BeginSweep(f)
    <3>1. thread[f].at = "next" /\ \E s : Moves(f, s) BY <1>0, <2>6, BeginSweepDoes DEF At
    <3> QED BY <1>1, <2>0, <2>6, <3>1 DEF BeginSweep, sched_vars
  <2>7. CASE Sweep(f)
    <3>1. thread[f].at = "sweep" /\ UNCHANGED box BY <2>7 DEF Sweep, At
    <3>2. PICK s : /\ Moves(f, s)
                   /\ \/ UNCHANGED vertex_is_scheduled
                      \/ \E v : /\ vertex_is_scheduled' = vertex_is_scheduled \ {v}
                                /\ v \in vertex_is_scheduled => Carries(s, v)
      BY <1>0, <2>7, SweepDoes DEF Carries
    <3> QED BY <1>1, <2>0, <3>1, <3>2
  <2> QED BY <1>2, <2>1, <2>2, <2>3, <2>4, <2>5, <2>6, <2>7 DEF get_next
<1>3. ASSUME NEW f \in Fiber, TakeMessage(f) PROVE Followed'
  <2>0. f \in Thread /\ box \in [Vertex -> 0 .. MaxSignals] BY <1>0, FiberIsThread DEF TypeOK
  <2>1. PICK v \in Vertex : v = thread[f].v BY <1>0, <1>3, TakeMessageDoes
  <2>2. UNCHANGED vertex_is_scheduled /\ box' = [box EXCEPT ![v] = 0] /\ \E s : Moves(f, s)
    BY <1>0, <1>3, <2>1, TakeMessageDoes DEF TakeMessage, sched_vars
  <2>3. ASSUME NEW w \in Vertex
        PROVE  \/ w \in vertex_is_scheduled' \/ ~(box'[w] > 0)
               \/ box[w] > 0 /\ w \notin vertex_is_scheduled /\ ~Carries(thread[f], w)
    BY <2>0, <2>2, <2>1 DEF Carries
  <2> QED BY <2>0, <2>2, <2>3, FollowedStep
<1>4. ASSUME NEW f \in Fiber, RunProgram(f) \/ BeginDone(f) \/ LockDone(f) \/ LeaveDone(f)
      PROVE  Followed'
  <2>1. /\ thread[f].at \in {"run", "quit", "begin", "woken"}
        /\ \E s : Moves(f, s)
    BY <1>0, <1>4, RunProgramDoes, BeginDoneDoes, LockDoneDoes, LeaveDoneDoes DEF At
  <2>2. UNCHANGED <<box, vertex_is_scheduled>>
    BY <1>4 DEF RunProgram, BeginDone, LockDone, LeaveDone, sched_vars
  <2> QED BY <1>1, <2>1, <2>2, FiberIsThread
<1>5. ASSUME NEW t \in Thread, Add(t) PROVE Followed'
  <2>0. box \in [Vertex -> 0 .. MaxSignals] BY <1>0 DEF TypeOK
  <2>1. PICK v \in Vertex :
          /\ box' = [box EXCEPT ![v] = box[v] + 1]
          /\ \E s : Moves(t, s) /\ s.at = "schedule" /\ s.v = v BY <1>0, <1>5, AddDoes
  <2>2. PICK s : Moves(t, s) /\ s.at = "schedule" /\ s.v = v BY <2>1
  <2>3. UNCHANGED vertex_is_scheduled /\ thread[t].at \in {"idle", "run"} BY <1>5 DEF Add, sched_vars, At
  <2>4. ASSUME NEW w \in Vertex
        PROVE  \/ Carries(s, w) \/ w \in vertex_is_scheduled' \/ ~(box'[w] > 0)
               \/ box[w] > 0 /\ w \notin vertex_is_scheduled /\ ~Carries(thread[t], w)
    <3>1. CASE w = v BY <2>2, <3>1 DEF Carries
    <3>2. CASE w # v BY <2>0, <2>1, <2>3, <3>2 DEF Carries
    <3> QED BY <3>1, <3>2
  <2> QED BY <2>2, <2>4, FollowedStep
<1>6. ASSUME NEW t \in Thread, Schedule(t) PROVE Followed'
  <2>1. PICK v \in Vertex : v = thread[t].v BY <1>0, <1>6, ScheduleDoes
  <2>2. /\ vertex_is_scheduled' = vertex_is_scheduled \cup {v} /\ UNCHANGED box
        /\ \E s : Moves(t, s) BY <1>0, <1>6, <2>1, ScheduleDoes DEF Schedule
  <2>3. \A w \in Vertex :
           \/ w \in vertex_is_scheduled' \/ ~(box'[w] > 0)
           \/ box[w] > 0 /\ w \notin vertex_is_scheduled /\ ~Carries(thread[t], w)
    BY <2>1, <2>2 DEF Carries
  <2> QED BY <2>2, <2>3, FollowedStep
<1>7. ASSUME NEW t \in Thread, Push(t) \/ CancelNobody(t) \/ Cancel(t) PROVE Followed'
  <2>1. thread[t].at \in {"push", "cancel"} /\ \E s : Moves(t, s)
    BY <1>0, <1>7, PushDoes, CancelNobodyDoes, CancelDoes DEF At
  <2>2. UNCHANGED <<box, vertex_is_scheduled>> BY <1>7 DEF Push, CancelNobody, Cancel, sched_vars
  <2> QED BY <1>1, <2>1, <2>2
<1>8. ASSUME NEW t \in Thread, Wake(t) PROVE Followed'
  <2>1. \A u \in Thread : \A v : Carries(thread[u], v) => Carries(thread'[u], v)
    BY <1>0, <1>8, WakeDoes DEF Carries, At
  <2>2. UNCHANGED <<box, vertex_is_scheduled>> BY <1>8 DEF Wake, sched_vars
  <2> QED BY <2>1, <2>2 DEF Followed, Carries
<1>9. ASSUME UNCHANGED vars PROVE Followed' BY <1>9 DEF Followed, Carries, vars, sched_vars
<1> QED BY <1>2, <1>3, <1>4, <1>5, <1>6, <1>7, <1>8, <1>9, FiberIsThread DEF Next, FiberStep, Signal

-----------------------------------------------------------------------------
(* Nobody sleeps over a queue with something in it.                        *)

Signaller == \E t \in Thread : thread[t].at \in SignalPlaces

\* f will look once more before it sleeps, all over again.
Awake(f) == thread[f].at # "asleep" /\ ~thread[f].quitting

\* An out queue is looked at by the fibers of its cpu only.
Reaches(f, x) == x[1] = "out" => x[2] = CpuOf(f)

\* The queues that a loop over all of them, which began at start, has still to look at.
Ahead(start, i) == {(start + j) % NQueues : j \in i .. NQueues - 1}

\* In the critical section, f has still to look at x.
Scans(f, x) ==
  /\ thread[f].quitting
  /\ \/ thread[f].at \in {"next", "take"}
     \/ thread[f].at = "visit" /\ x[1] = "queue" /\ x[2] \in Ahead(thread[f].first, thread[f].i)
     \/ /\ thread[f].at = "steal"
        /\ x[1] = "queue" /\ x[2] \in Ahead(multi * CpuOf(f), thread[f].i)
     \/ thread[f].at = "pop" /\ out_queues[CpuOf(f)] # <<>>

WatchedAt(x) ==
  \/ Signaller
  \/ \E f \in Fiber : Reaches(f, x) /\ (Awake(f) \/ Scans(f, x))

QueuesWatched ==
  kind \in QueueKinds => \A v \in Vertex : \A x \in Holders(v) : x[1] # "push" => WatchedAt(x)

LEMMA AheadAll == ASSUME NEW start \in Queue, NEW q \in Queue PROVE q \in Ahead(start, 0)
BY Around DEF Ahead

LEMMA AheadStep ==
  ASSUME NEW start, NEW i \in Nat, i < NQueues, NEW q \in Ahead(start, i),
         q # (start + i) % NQueues
  PROVE  i # NQueues - 1 /\ q \in Ahead(start, i + 1)
<1>1. PICK j \in i .. NQueues - 1 : q = (start + j) % NQueues BY DEF Ahead
<1>2. j # i BY <1>1
<1>3. j \in i + 1 .. NQueues - 1 /\ i # NQueues - 1 BY <1>2, Numbers
<1> QED BY <1>1, <1>3 DEF Ahead

\* Whatever holds a vertex is within the reach of a fiber.
LEMMA SomeoneReaches == ASSUME NEW v, NEW x \in Holders(v) PROVE \E f \in Fiber : Reaches(f, x)
<1>1. CASE \E c \in Cpu : x = <<"out", c>> BY <1>1, EveryCpu DEF Reaches
<1>2. CASE ~ \E c \in Cpu : x = <<"out", c>> BY <1>2, HolderIs, Numbers DEF Fiber, Reaches
<1> QED BY <1>1, <1>2

LEMMA SignallerStays ==
  ASSUME NEW t \in Thread, NEW s, Moves(t, s), s.at \in SignalPlaces \/ thread[t].at \notin SignalPlaces,
         s.at \in SignalPlaces \/ Signaller
  PROVE  Signaller'
<1>1. thread'[t] = s /\ \A u \in Thread : u # t => thread'[u] = thread[u] BY DEF Moves
<1>2. CASE s.at \in SignalPlaces BY <1>1, <1>2 DEF Signaller
<1>3. CASE Signaller /\ thread[t].at \notin SignalPlaces BY <1>1, <1>3 DEF Signaller
<1> QED BY <1>2, <1>3

\* When all are awake everything is watched.
LEMMA WatchedByAll ==
  ASSUME \A f \in Fiber : Awake(f)', UNCHANGED <<kind, queues, out_queues, master_queue>>,
         \A v : Pushing(thread', v) = Pushing(thread, v)
  PROVE  QueuesWatched'
<1>1. \A v : Holders(v)' = Holders(v) BY HoldersSame
<1>2. ASSUME NEW v, NEW x \in Holders(v)' PROVE WatchedAt(x)' BY <1>1, <1>2, SomeoneReaches DEF WatchedAt
<1> QED BY <1>2 DEF QueuesWatched

\* While a signal is being made everything is watched.
LEMMA WatchedBySignaller ==
  ASSUME NEW t \in Thread, NEW s, Moves(t, s), s.at \in SignalPlaces
  PROVE  QueuesWatched'
<1>1. Signaller' BY SignallerStays
<1> QED BY <1>1 DEF QueuesWatched, WatchedAt

\* A fiber that has found something, or is not in the critical section, watches all that
\* it reaches.
Busy(f, s) ==
  \/ s.at # "asleep" /\ ~s.quitting
  \/ s.at \in {"next", "take"}
  \/ s.at = "pop" /\ out_queues'[CpuOf(f)] # <<>>

LEMMA WatchedByOne ==
  ASSUME Base, QueuesWatched, NEW f \in Fiber, NEW s, Moves(f, s), UNCHANGED kind,
         thread[f].at \notin SignalPlaces, Busy(f, s),
         \A d \in Cpu : d # CpuOf(f) => out_queues'[d] = out_queues[d]
  PROVE  QueuesWatched'
<1> SUFFICES ASSUME kind \in QueueKinds, NEW v \in Vertex, NEW x \in Holders(v)', x[1] # "push", ~Signaller'
             PROVE  \E g \in Fiber : Reaches(g, x) /\ (Awake(g)' \/ Scans(g, x)')
  BY DEF QueuesWatched, WatchedAt
<1>0. f \in Thread /\ CpuOf(f) \in Cpu /\ thread'[f] = s BY FiberIsThread, CpuOfType DEF Moves
<1>1. ~Signaller BY <1>0, SignallerStays
<1>2. CASE Reaches(f, x)
  <2>1. Awake(f)' \/ Scans(f, x)' BY <1>0 DEF Busy, Scans, Awake
  <2> QED BY <1>2, <2>1
<1>3. CASE ~Reaches(f, x)
  <2>1. PICK d \in Cpu : x = <<"out", d>> /\ d # CpuOf(f) /\ In(out_queues'[d], v)
    BY <1>3, HolderWillBe DEF Reaches
  <2>2. x \in Holders(v) BY <2>1, HolderIs
  <2>3. WatchedAt(x) BY <2>2 DEF QueuesWatched
  <2>4. PICK g \in Fiber : Reaches(g, x) /\ (Awake(g) \/ Scans(g, x)) BY <1>1, <2>3 DEF WatchedAt
  <2>5. CpuOf(g) = d /\ g # f BY <2>1, <2>4 DEF Reaches
  <2>6. thread'[g] = thread[g] BY <2>5, FiberIsThread DEF Moves
  <2>7. out_queues'[CpuOf(g)] = out_queues[CpuOf(g)] BY <2>1, <2>5
  <2>8. Awake(g) => Awake(g)' BY <2>6 DEF Awake
  <2>9. Scans(g, x) => Scans(g, x)' BY <2>6, <2>7 DEF Scans
  <2> QED BY <2>4, <2>8, <2>9
<1> QED BY <1>2, <1>3

\* A fiber that goes on looking in the critical section has still to look at whatever
\* it had to look at, and is not empty.
LEMMA WatchedByScan ==
  ASSUME Base, QueuesWatched, NEW f \in Fiber, NEW s, Moves(f, s),
         UNCHANGED <<kind, queues, out_queues, master_queue>>,
         thread[f].at \notin SignalPlaces, s.at # "push", thread[f].quitting,
         kind \in QueueKinds =>
           \A v \in Vertex : \A x \in Holders(v) :
              x[1] # "push" /\ Reaches(f, x) /\ Scans(f, x) => Scans(f, x)'
  PROVE  QueuesWatched'
<1> SUFFICES ASSUME kind \in QueueKinds, NEW v \in Vertex, NEW x \in Holders(v)', x[1] # "push", ~Signaller'
             PROVE  \E g \in Fiber : Reaches(g, x) /\ (Awake(g)' \/ Scans(g, x)')
  BY DEF QueuesWatched, WatchedAt
<1>0. f \in Thread BY FiberIsThread
<1>1. ~Signaller BY <1>0, SignallerStays
<1>2. thread[f].at # "push" BY DEF SignalPlaces
<1>3. Pushing(thread', v) = Pushing(thread, v) BY <1>0, <1>2, PushingSame
<1>4. x \in Holders(v) BY <1>3, HoldersSame
<1>5. WatchedAt(x) BY <1>4 DEF QueuesWatched
<1>6. PICK g \in Fiber : Reaches(g, x) /\ (Awake(g) \/ Scans(g, x)) BY <1>1, <1>5 DEF WatchedAt
<1>7. CASE g = f BY <1>6, <1>7, <1>4 DEF Awake
<1>8. CASE g # f BY <1>8, FiberIsThread, <1>6 DEF Moves, Awake, Scans
<1> QED BY <1>7, <1>8

\* What no vertex is in is not a holder.
LEMMA EmptyHoldsNothing ==
  ASSUME NEW v
  PROVE  /\ \A q \in Queue : queues[q] = <<>> => <<"queue", q>> \notin Holders(v)
         /\ \A c \in Cpu : out_queues[c] = <<>> => <<"out", c>> \notin Holders(v)
         /\ master_queue = <<>> => \A x \in Holders(v) : x[1] # "master"
<1>1. ASSUME NEW q \in Queue, queues[q] = <<>> PROVE <<"queue", q>> \notin Holders(v)
  BY <1>1, EmptyFacts, HolderIs
<1>2. ASSUME NEW c \in Cpu, out_queues[c] = <<>> PROVE <<"out", c>> \notin Holders(v)
  BY <1>2, EmptyFacts, HolderIs
<1>3. ASSUME master_queue = <<>>, NEW x \in Holders(v) PROVE x[1] # "master" BY <1>3, HolderIs
<1> QED BY <1>1, <1>2, <1>3

LEMMA HolderKinds ==
  ASSUME NEW v, NEW x \in Holders(v), x[1] # "push"
  PROVE  \/ \E q \in Queue : x = <<"queue", q>>
         \/ \E c \in Cpu : x = <<"out", c>>
         \/ x[1] = "master" BY HolderIs

LEMMA WatchBeginVisits ==
  ASSUME Base, QueueInv, QueuesWatched, NEW f \in Fiber, BeginVisits(f)
  PROVE  QueuesWatched'
<1>0. TypeOK /\ Fields /\ QueuesFit /\ f \in Thread BY FiberIsThread DEF Base, QueueInv
<1>1. UNCHANGED <<kind, sched_vars, box, signals>> BY DEF BeginVisits
<1>2. thread[f].at = "next" /\ kind \in {"fifo", "priority"}
  BY <1>0, BeginVisitsDoes DEF At, BeginVisits, QueueScheduler
<1>3. PICK s : Moves(f, s) /\ s.at = "visit" /\ s.i = 0 /\ s.quitting = thread[f].quitting
  BY <1>0, BeginVisitsDoes
<1>4. thread[f].at \notin SignalPlaces BY <1>2 DEF SignalPlaces
<1>5. CASE ~thread[f].quitting
  <2>1. Busy(f, s) BY <1>3, <1>5 DEF Busy
  <2> QED BY <1>1, <1>3, <1>4, <2>1, WatchedByOne DEF sched_vars
<1>6. CASE thread[f].quitting
  <2>1. thread'[f] = s /\ s.first \in Queue BY <1>0, <1>3 DEF Moves, ThreadState
  <2>2. ASSUME NEW v \in Vertex, NEW x \in Holders(v), x[1] # "push"
        PROVE  Scans(f, x)'
    <3>1. master_queue = <<>> /\ \A c \in Cpu : out_queues[c] = <<>> BY <1>0, <1>2 DEF QueuesFit
    <3>2. PICK q \in Queue : x = <<"queue", q>> BY <2>2, <3>1, HolderKinds, EmptyHoldsNothing
    <3>3. q \in Ahead(s.first, 0) BY <2>1, AheadAll
    <3> QED BY <1>3, <1>6, <2>1, <3>2, <3>3 DEF Scans
  <2>3. s.at # "push" BY <1>3
  <2> QED BY <1>1, <1>3, <1>4, <1>6, <2>2, <2>3, WatchedByScan DEF sched_vars
<1> QED BY <1>5, <1>6

LEMMA WatchVisit ==
  ASSUME Reliable, Base, QueueInv, QueuesWatched, NEW f \in Fiber, Visit(f)
  PROVE  QueuesWatched'
<1>0. /\ TypeOK /\ Fields /\ QueuesFit /\ AllOnce /\ Held /\ f \in Thread
      /\ queues \in [Queue -> EntrySeq] /\ kind \in Kinds BY FiberIsThread DEF Base, QueueInv, TypeOK
<1>1. UNCHANGED <<kind, master_queue, out_queues, next_index, box, signals>> BY DEF Visit
<1>2. thread[f].at = "visit" BY <1>0, VisitDoes DEF At
<1>3. /\ thread[f].at \notin SignalPlaces /\ kind \in {"fifo", "priority"} /\ kind \in QueueKinds
      /\ thread[f].i \in Nat /\ thread[f].i < NQueues
  BY <1>0, <1>2, ThreadFields DEF SignalPlaces, FieldsOf, QueueKinds
<1>4. PICK q \in Queue :
         /\ q = (thread[f].first + thread[f].i) % NQueues
         /\ \/ /\ Poppable(queues[q]) = {}
               /\ UNCHANGED <<vertex_is_scheduled, queues>>
               /\ \E s :
                    /\ Moves(f, s)
                    /\ \/ /\ thread[f].i = NQueues - 1 /\ ~s.quitting
                          /\ s.at = IF thread[f].quitting THEN "asleep" ELSE "quit"
                       \/ /\ thread[f].i # NQueues - 1 /\ s.at = "visit"
                          /\ s.i = thread[f].i + 1 /\ s.first = thread[f].first
                          /\ s.quitting = thread[f].quitting
            \/ \E i \in DOMAIN queues[q] :
                 /\ queues' = [queues EXCEPT ![q] = Remove(queues[q], i)]
                 /\ vertex_is_scheduled' = vertex_is_scheduled \ {queues[q][i].v}
                 /\ \E s : /\ Moves(f, s) /\ s.quitting = thread[f].quitting
                           /\ IF queues[q][i].v \in vertex_is_scheduled
                              THEN s.at = "take" /\ s.v = queues[q][i].v
                              ELSE s = thread[f] BY <1>0, VisitDoes
<1>5. ASSUME NEW s, Moves(f, s), Busy(f, s) PROVE QueuesWatched' BY <1>1, <1>3, <1>5, WatchedByOne
<1>6. CASE /\ Poppable(queues[q]) = {}
           /\ UNCHANGED <<vertex_is_scheduled, queues>>
           /\ \E s :
                /\ Moves(f, s)
                /\ \/ /\ thread[f].i = NQueues - 1 /\ ~s.quitting
                      /\ s.at = IF thread[f].quitting THEN "asleep" ELSE "quit"
                   \/ /\ thread[f].i # NQueues - 1 /\ s.at = "visit"
                      /\ s.i = thread[f].i + 1 /\ s.first = thread[f].first
                      /\ s.quitting = thread[f].quitting
  <2>1. PICK s : /\ Moves(f, s)
                 /\ \/ /\ thread[f].i = NQueues - 1 /\ ~s.quitting
                       /\ s.at = IF thread[f].quitting THEN "asleep" ELSE "quit"
                    \/ /\ thread[f].i # NQueues - 1 /\ s.at = "visit"
                       /\ s.i = thread[f].i + 1 /\ s.first = thread[f].first
                       /\ s.quitting = thread[f].quitting BY <1>6
  <2>2. CASE ~thread[f].quitting BY <2>1, <2>2, <1>5 DEF Busy
  <2>3. CASE thread[f].quitting
    <3>1. queues[q] = <<>> BY <1>0, <1>3, <1>6, SomethingToPop
    <3>2. ASSUME NEW v \in Vertex, NEW x \in Holders(v), x[1] # "push", Scans(f, x)
          PROVE  Scans(f, x)'
      <4>1. x[1] = "queue" /\ x[2] \in Ahead(thread[f].first, thread[f].i) BY <1>2, <3>2 DEF Scans
      <4>2. PICK p \in Queue : x = <<"queue", p>> BY <3>2, <4>1, HolderKinds
      <4>3. p # q BY <3>1, <3>2, <4>2, EmptyHoldsNothing
      <4>4. thread[f].i # NQueues - 1 /\ p \in Ahead(thread[f].first, thread[f].i + 1)
        BY <1>3, <1>4, <4>1, <4>2, <4>3, AheadStep
      <4>5. thread'[f] = s BY <1>0, <2>1 DEF Moves
      <4> QED BY <2>1, <2>3, <4>2, <4>4, <4>5 DEF Scans
    <3>3. s.at # "push" BY <2>1, <2>3
    <3> QED BY <1>1, <1>3, <1>6, <2>1, <2>3, <3>2, <3>3, WatchedByScan
  <2> QED BY <2>2, <2>3
<1>7. ASSUME NEW i \in DOMAIN queues[q], NEW s, Moves(f, s),
             IF queues[q][i].v \in vertex_is_scheduled
             THEN s.at = "take" /\ s.v = queues[q][i].v
             ELSE s = thread[f]
      PROVE  QueuesWatched'
  <2>1. queues[q][i].v \in Vertex BY <1>0, EntryMember
  <2>2. <<"queue", q>> \in Holders(queues[q][i].v) BY HolderIs DEF In
  <2>3. queues[q][i].v \in vertex_is_scheduled BY <1>0, <1>3, <2>1, <2>2 DEF Held, Kept
  <2>4. Busy(f, s) BY <1>7, <2>3 DEF Busy
  <2> QED BY <1>5, <1>7, <2>4
<1> QED BY <1>4, <1>6, <1>7

LEMMA WatchTake ==
  ASSUME Base, QueueInv, QueuesWatched, NEW f \in Fiber, TakeOutQueue(f)
  PROVE  QueuesWatched'
<1>0. /\ TypeOK /\ Fields /\ f \in Thread /\ CpuOf(f) \in Cpu
      /\ out_queues \in [Cpu -> EntrySeq] BY FiberIsThread, CpuOfType DEF Base, TypeOK
<1>1. UNCHANGED <<kind, vertex_is_scheduled, queues, next_index, box, signals>> BY DEF TakeOutQueue
<1>2. thread[f].at = "next" BY <1>0, TakeOutQueueDoes DEF At
<1>3. PICK s : /\ Moves(f, s) /\ s.i = 0 /\ s.quitting = thread[f].quitting
               /\ s.at = IF out_queues'[CpuOf(f)] = <<>> THEN "steal" ELSE "pop"
  BY <1>0, TakeOutQueueDoes
<1>4. thread[f].at \notin SignalPlaces BY <1>2 DEF SignalPlaces
<1>5. CASE ~thread[f].quitting \/ out_queues'[CpuOf(f)] # <<>>
  <2>1. Busy(f, s) BY <1>3, <1>5 DEF Busy
  <2>2. \A d \in Cpu : d # CpuOf(f) => out_queues'[d] = out_queues[d] BY <1>0, TakeOutQueueDoes
  <2> QED BY <1>1, <1>3, <1>4, <2>1, <2>2, WatchedByOne
<1>6. CASE thread[f].quitting /\ out_queues'[CpuOf(f)] = <<>>
  <2>1. master_queue = <<>> /\ UNCHANGED <<out_queues, master_queue>> BY <1>6, QueueInvTake
  <2>2. thread'[f] = s BY <1>0, <1>3 DEF Moves
  <2>3. ASSUME NEW v \in Vertex, NEW x \in Holders(v), x[1] # "push", Reaches(f, x)
        PROVE  Scans(f, x)'
    <3>1. x # <<"out", CpuOf(f)>> BY <1>0, <1>6, <2>1, <2>3, EmptyHoldsNothing
    <3>2. PICK q \in Queue : x = <<"queue", q>>
      BY <2>1, <2>3, <3>1, HolderKinds, EmptyHoldsNothing DEF Reaches
    <3>3. multi * CpuOf(f) \in Queue
      <4>1. 0 \in 0 .. multi - 1 BY Numbers
      <4>2. CpuOf(f) * multi + 0 \in Queue BY <1>0, <4>1, FirstQueue
      <4>3. CpuOf(f) \in Nat BY <1>0, Numbers
      <4>4. CpuOf(f) * multi + 0 = multi * CpuOf(f) BY <4>3, Numbers, Product
      <4> QED BY <4>2, <4>4
    <3>4. q \in Ahead(multi * CpuOf(f), 0) BY <3>3, AheadAll
    <3> QED BY <1>3, <1>6, <2>2, <3>2, <3>4 DEF Scans
  <2>4. s.at # "push" BY <1>3, <1>6
  <2> QED BY <1>1, <1>3, <1>4, <1>6, <2>1, <2>3, <2>4, WatchedByScan
<1> QED BY <1>5, <1>6

LEMMA WatchSteal ==
  ASSUME Base, QueueInv, OutLock, QueuesWatched, NEW f \in Fiber, Steal(f)
  PROVE  QueuesWatched'
<1>0. TypeOK /\ Fields /\ f \in Thread /\ CpuOf(f) \in Cpu BY FiberIsThread, CpuOfType DEF Base
<1>1. UNCHANGED <<kind, vertex_is_scheduled, master_queue, next_index, box, signals>> BY DEF Steal
<1>2. thread[f].at = "steal" BY <1>0, StealDoes DEF At
<1>3. thread[f].at \notin SignalPlaces /\ thread[f].i \in Nat /\ thread[f].i < NQueues
  BY <1>0, <1>2, ThreadFields DEF SignalPlaces, FieldsOf
<1>4. PICK q \in Queue :
         /\ q = (thread[f].i + multi * CpuOf(f)) % NQueues
         /\ \/ /\ out_queues'[CpuOf(f)] # <<>>
               /\ \A d \in Cpu : d # CpuOf(f) => out_queues'[d] = out_queues[d]
               /\ \E s : Moves(f, s) /\ s.at = "pop"
            \/ /\ queues[q] = <<>> /\ UNCHANGED <<out_queues, queues>>
               /\ \E s :
                    /\ Moves(f, s) /\ s.quitting = thread[f].quitting
                    /\ \/ thread[f].i = NQueues - 1 /\ s.at = "pop"
                       \/ thread[f].i # NQueues - 1 /\ s.at = "steal" /\ s.i = thread[f].i + 1
  BY QueueInvSteal
<1>5. ASSUME out_queues'[CpuOf(f)] # <<>>,
             \A d \in Cpu : d # CpuOf(f) => out_queues'[d] = out_queues[d],
             NEW s, Moves(f, s), s.at = "pop"
      PROVE  QueuesWatched'
  <2>1. Busy(f, s) BY <1>5 DEF Busy
  <2> QED BY <1>1, <1>3, <1>5, <2>1, WatchedByOne
<1>6. ASSUME queues[q] = <<>>, UNCHANGED <<out_queues, queues>>,
             NEW s, Moves(f, s), s.quitting = thread[f].quitting,
             \/ thread[f].i = NQueues - 1 /\ s.at = "pop"
             \/ thread[f].i # NQueues - 1 /\ s.at = "steal" /\ s.i = thread[f].i + 1
      PROVE  QueuesWatched'
  <2>1. CASE ~thread[f].quitting
    <3>1. Busy(f, s) BY <1>6, <2>1 DEF Busy
    <3> QED BY <1>1, <1>3, <1>6, <3>1, WatchedByOne
  <2>2. CASE thread[f].quitting
    <3>1. ASSUME NEW v \in Vertex, NEW x \in Holders(v), x[1] # "push", Scans(f, x)
          PROVE  Scans(f, x)'
      <4>1. x[1] = "queue" /\ x[2] \in Ahead(multi * CpuOf(f), thread[f].i) BY <1>2, <3>1 DEF Scans
      <4>2. PICK p \in Queue : x = <<"queue", p>> BY <3>1, <4>1, HolderKinds
      <4>3. p # q BY <1>6, <3>1, <4>2, EmptyHoldsNothing
      <4>4. q = (multi * CpuOf(f) + thread[f].i) % NQueues
        <5>1. CpuOf(f) \in Nat BY <1>0, Numbers
        <5>2. multi * CpuOf(f) \in Nat BY <5>1, Numbers, Product
        <5>3. thread[f].i + multi * CpuOf(f) = multi * CpuOf(f) + thread[f].i BY <1>3, <5>2
        <5> QED BY <1>4, <5>3
      <4>5. thread[f].i # NQueues - 1 /\ p \in Ahead(multi * CpuOf(f), thread[f].i + 1)
        BY <1>3, <4>1, <4>2, <4>3, <4>4, AheadStep
      <4>6. thread'[f] = s BY <1>0, <1>6 DEF Moves
      <4> QED BY <1>6, <2>2, <4>2, <4>5, <4>6 DEF Scans
    <3>2. s.at # "push" BY <1>6
    <3> QED BY <1>1, <1>3, <1>6, <2>2, <3>1, <3>2, WatchedByScan
  <2> QED BY <2>1, <2>2
<1> QED BY <1>4, <1>5, <1>6

LEMMA WatchPop ==
  ASSUME Base, QueueInv, QueuesWatched, NEW f \in Fiber, PopOutQueue(f)
  PROVE  QueuesWatched'
<1>0. /\ TypeOK /\ Fields /\ f \in Thread /\ CpuOf(f) \in Cpu /\ Held
      /\ out_queues \in [Cpu -> EntrySeq] BY FiberIsThread, CpuOfType DEF Base, TypeOK, QueueInv
<1>1. UNCHANGED <<kind, queues, master_queue, next_index, box, signals>> BY DEF PopOutQueue
<1>2. thread[f].at = "pop" /\ kind = "queued_fifo" BY <1>0, PopOutQueueDoes DEF At
<1>3. thread[f].at \notin SignalPlaces BY <1>2 DEF SignalPlaces
<1>4. CASE out_queues[CpuOf(f)] = <<>>
  <2>1. UNCHANGED <<out_queues, vertex_is_scheduled>> BY <1>0, <1>4, PopOutQueueDoes
  <2>2. PICK s : /\ Moves(f, s) /\ ~s.quitting
                 /\ s.at = IF thread[f].quitting THEN "asleep" ELSE "quit" BY <1>0, <1>4, PopOutQueueDoes
  <2>3. CASE ~thread[f].quitting
    <3>1. Busy(f, s) BY <2>2, <2>3 DEF Busy
    <3> QED BY <1>1, <1>3, <2>1, <2>2, <3>1, WatchedByOne
  <2>4. CASE thread[f].quitting
    <3>1. \A x : ~Scans(f, x) BY <1>2, <1>4 DEF Scans
    <3>2. s.at # "push" BY <2>2, <2>4
    <3> QED BY <1>1, <1>3, <2>1, <2>2, <2>4, <3>1, <3>2, WatchedByScan
  <2> QED BY <2>3, <2>4
<1>5. CASE out_queues[CpuOf(f)] # <<>>
  <2>1. PICK v : v = Head(out_queues[CpuOf(f)]).v OBVIOUS
  <2>2. v \in Vertex /\ In(out_queues[CpuOf(f)], v)
    <3>1. out_queues[CpuOf(f)] \in EntrySeq BY <1>0
    <3>2. /\ 1 \in DOMAIN out_queues[CpuOf(f)]
          /\ In(out_queues[CpuOf(f)], out_queues[CpuOf(f)][1].v)
          /\ v = out_queues[CpuOf(f)][1].v BY <1>5, <2>1, <3>1, EntryMember, FullFacts
    <3> QED BY <3>1, <3>2, EntryMember
  <2>3. <<"out", CpuOf(f)>> \in Holders(v) BY <1>0, <2>2, HolderIs
  <2>4. v \in vertex_is_scheduled BY <1>0, <1>2, <2>2, <2>3 DEF Held, Kept, QueueKinds
  <2>5. /\ \E s : Moves(f, s) /\ s.at = "take"
        /\ out_queues' = [out_queues EXCEPT ![CpuOf(f)] = Tail(out_queues[CpuOf(f)])]
    BY <1>0, <1>5, <2>1, <2>4, PopOutQueueDoes
  <2>6. PICK s : Moves(f, s) /\ Busy(f, s) BY <2>5 DEF Busy
  <2>7. \A d \in Cpu : d # CpuOf(f) => out_queues'[d] = out_queues[d] BY <1>0, <2>5
  <2> QED BY <1>1, <1>3, <2>6, <2>7, WatchedByOne
<1> QED BY <1>4, <1>5

LEMMA WatchNext ==
  Reliable /\ Base /\ QueueInv /\ OutLock /\ QueuesWatched /\ [Next]_vars => QueuesWatched'
<1> SUFFICES ASSUME Reliable, Base, QueueInv, OutLock, QueuesWatched, [Next]_vars
             PROVE  QueuesWatched' OBVIOUS
<1>0. TypeOK /\ Fields /\ BoxBound BY DEF Base
<1>1. ASSUME NEW f \in Fiber, get_next(f) PROVE QueuesWatched'
  <2>1. CASE BeginSweep(f) \/ Sweep(f)
    <3>1. kind \notin QueueKinds /\ kind' = kind
      BY <1>0, <2>1, BeginSweepDoes, SweepDoes DEF BeginSweep, Sweep, SweepKinds, QueueKinds
    <3> QED BY <3>1 DEF QueuesWatched
  <2> QED BY <1>1, <2>1, WatchBeginVisits, WatchVisit, WatchTake, WatchSteal, WatchPop DEF get_next
<1>2. ASSUME NEW f \in Fiber,
             TakeMessage(f) \/ RunProgram(f) \/ BeginDone(f) \/ LockDone(f) \/ LeaveDone(f)
      PROVE  QueuesWatched'
  <2>1. PICK s : /\ Moves(f, s)
                 /\ s.at = "next" \/ (s.at \in {"run", "begin"} /\ ~s.quitting)
    BY <1>0, <1>2, TakeMessageDoes, RunProgramDoes, BeginDoneDoes, LockDoneDoes, LeaveDoneDoes
  <2>2. Busy(f, s) BY <2>1 DEF Busy
  <2>3. UNCHANGED <<kind, out_queues>> /\ thread[f].at \notin SignalPlaces
    BY <1>2 DEF TakeMessage, RunProgram, BeginDone, LockDone, LeaveDone, sched_vars, At, SignalPlaces
  <2> QED BY <2>1, <2>2, <2>3, WatchedByOne
<1>3. ASSUME NEW t \in Thread, Add(t) \/ Schedule(t) \/ Push(t) \/ Cancel(t) PROVE QueuesWatched'
  <2>1. PICK s : Moves(t, s) /\ s.at \in SignalPlaces
    <3>1. Add(t) => \E s : Moves(t, s) /\ s.at = "schedule" BY <1>0, AddDoes
    <3>2. Schedule(t) => \E s : Moves(t, s) /\ s.at \in {"cancel", "push"} BY <1>0, ScheduleDoes
    <3>3. Push(t) => \E s : Moves(t, s) /\ s.at = "cancel" BY <1>0, PushDoes
    <3>4. Cancel(t) => \E s : Moves(t, s) /\ s.at = "wake" BY <1>0, CancelDoes
    <3> QED BY <1>3, <3>1, <3>2, <3>3, <3>4 DEF SignalPlaces
  <2> QED BY <2>1, WatchedBySignaller
<1>4. ASSUME NEW t \in Thread, CancelNobody(t) PROVE QueuesWatched'
  <2>1. PICK s : Moves(t, s) /\ s.at \in {"next", "idle"} /\ ~s.quitting BY <1>0, <1>4, CancelNobodyDoes
  <2>2. thread[t].at = "cancel" /\ \A f \in Fiber : ~thread[f].quitting /\ thread[f].at # "asleep"
    BY <1>0, <1>4, CancelNobodyDoes DEF At
  <2>3. \A f \in Fiber : Awake(f)' BY <2>1, FiberIsThread, <2>2 DEF Moves, Awake
  <2>4. \A v : Pushing(thread', v) = Pushing(thread, v) BY <2>1, <2>2, PushingSame
  <2> QED BY <1>4, <2>3, <2>4, WatchedByAll DEF CancelNobody, sched_vars
<1>5. ASSUME NEW t \in Thread, Wake(t) PROVE QueuesWatched'
  <2>1. /\ thread[t].at = "wake" /\ thread'[t].at \in {"next", "idle"} /\ ~thread'[t].quitting
        /\ MutexFree
        /\ \A u \in Thread : u # t =>
             IF thread[u].at = "asleep" THEN thread'[u].at = "woken" /\ ~thread'[u].quitting
             ELSE thread'[u] = thread[u] BY <1>0, <1>5, WakeDoes DEF At
  <2>2. \A f \in Fiber : Awake(f)' BY <2>1, FiberIsThread DEF Awake, MutexFree
  <2>3. \A v : Pushing(thread', v) = Pushing(thread, v) BY <2>1 DEF Pushing
  <2> QED BY <1>5, <2>2, <2>3, WatchedByAll DEF Wake, sched_vars
<1>6. ASSUME UNCHANGED vars PROVE QueuesWatched'
  <2>1. UNCHANGED <<kind, queues, master_queue, out_queues, thread>> BY <1>6 DEF vars, sched_vars
  <2>2. \A v : Holders(v)' = Holders(v) BY <2>1, HoldersSame
  <2>3. \A x : WatchedAt(x) => WatchedAt(x)' BY <2>1 DEF WatchedAt, Signaller, Awake, Scans
  <2> QED BY <2>1, <2>2, <2>3 DEF QueuesWatched
<1> QED BY <1>1, <1>2, <1>3, <1>4, <1>5, <1>6, FiberIsThread DEF Next, FiberStep, Signal

-----------------------------------------------------------------------------
(* Nobody sleeps over a vertex of the sweep.                               *)

\* The indices of cpu c are c + ncpus * k; k is the rank of the index.
Rank(i) == i \div ncpus

LEMMA RankOf ==
  ASSUME NEW c \in Cpu, NEW k \in Nat
  PROVE  /\ c + ncpus * k \in Nat /\ Rank(c + ncpus * k) = k
         /\ (c + ncpus * k) % ncpus = c
<1>0. ncpus \in Nat \ {0} /\ c \in Nat /\ c < ncpus BY Numbers
<1>1. PICK m \in Nat : m = ncpus * k BY <1>0, Product
<1>2. c + m \in Nat BY <1>0
<1>3. PICK d \in Nat : d = (c + m) \div ncpus BY <1>0, <1>2, Divide
<1>4. ncpus * d <= c + m /\ c + m < ncpus * d + ncpus /\ c + m = ncpus * d + ((c + m) % ncpus)
  BY <1>0, <1>2, <1>3, Divide, Modulo
<1>5. PICK n \in Nat : n = ncpus * d BY <1>0, Product
<1>6. ~(d + 1 <= k)
  <2> SUFFICES ASSUME d + 1 <= k PROVE FALSE OBVIOUS
  <2>1. ncpus * (d + 1) <= ncpus * k BY <1>0, Bigger
  <2>2. ncpus * (d + 1) = n + ncpus BY <1>0, <1>5
  <2> QED BY <1>0, <1>1, <1>4, <1>5, <2>1, <2>2
<1>7. ~(k + 1 <= d)
  <2> SUFFICES ASSUME k + 1 <= d PROVE FALSE OBVIOUS
  <2>1. ncpus * (k + 1) <= ncpus * d BY <1>0, Bigger
  <2>2. ncpus * (k + 1) = m + ncpus BY <1>0, <1>1
  <2> QED BY <1>0, <1>1, <1>4, <1>5, <2>1, <2>2
<1>8. d = k BY <1>6, <1>7
<1>9. (c + m) % ncpus = c
  <2>1. (c + m) % ncpus \in Nat BY <1>0, <1>2, Modulo
  <2>2. m = n BY <1>1, <1>5, <1>8
  <2>3. c + m = m + ((c + m) % ncpus) BY <1>4, <1>5, <2>2
  <2>4. PICK r \in Nat : r = (c + m) % ncpus BY <2>1
  <2> QED BY <1>0, <2>3, <2>4
<1> QED BY <1>1, <1>2, <1>3, <1>8, <1>9 DEF Rank

\* Every vertex has an index, of one of the cpus.
LEMMA IndexHasRank ==
  ASSUME NEW idx \in Nat
  PROVE  idx % ncpus \in Cpu /\ Rank(idx) \in Nat /\ idx = (idx % ncpus) + ncpus * Rank(idx)
<1>0. ncpus \in Nat \ {0} BY Numbers
<1>1. /\ idx \div ncpus \in Nat /\ idx % ncpus \in Nat /\ idx % ncpus < ncpus
      /\ idx = ncpus * (idx \div ncpus) + (idx % ncpus) BY <1>0, Divide, Modulo
<1>2. PICK d \in Nat, r \in Nat : d = idx \div ncpus /\ r = idx % ncpus BY <1>1
<1>3. PICK m \in Nat : m = ncpus * d BY <1>0, Product
<1>4. idx = r + m /\ r \in Cpu BY <1>0, <1>1, <1>2, <1>3, Numbers
<1> QED BY <1>2, <1>3, <1>4 DEF Rank

\* The last of the ranks of c.
LastRank(c) == (num_vertices - 1 - c) \div ncpus

LEMMA LastRankIs ==
  ASSUME NEW c \in Cpu, c < num_vertices
  PROVE  /\ LastRank(c) \in Nat /\ LastRank(c) < max_fails
         /\ \A k \in Nat : c + ncpus * k < num_vertices <=> k <= LastRank(c)
<1>0. ncpus \in Nat \ {0} /\ num_vertices \in Nat \ {0} /\ c \in Nat BY Numbers
<1>1. num_vertices - 1 - c \in Nat BY <1>0
<1>2. PICK l \in Nat : l = LastRank(c) BY <1>0, <1>1, Divide DEF LastRank
<1>3. ncpus * l <= num_vertices - 1 - c /\ num_vertices - 1 - c < ncpus * l + ncpus
  BY <1>0, <1>1, <1>2, Divide DEF LastRank
<1>4. PICK n \in Nat : n = ncpus * l BY <1>0, Product
<1>5. ASSUME NEW k \in Nat PROVE c + ncpus * k < num_vertices <=> k <= l
  <2>1. PICK m \in Nat : m = ncpus * k BY <1>0, Product
  <2>2. ASSUME k <= l PROVE c + m < num_vertices
    <3>1. ncpus * k <= ncpus * l BY <1>0, <2>2, Bigger
    <3> QED BY <1>0, <1>3, <1>4, <2>1, <3>1
  <2>3. ASSUME l + 1 <= k PROVE ~(c + m < num_vertices)
    <3>1. ncpus * (l + 1) <= ncpus * k BY <1>0, <2>3, Bigger
    <3>2. ncpus * (l + 1) = n + ncpus BY <1>0, <1>4
    <3> QED BY <1>0, <1>3, <1>4, <2>1, <3>1, <3>2
  <2> QED BY <2>1, <2>2, <2>3
<1>6. l < max_fails
  <2>1. PICK d \in Nat : d = num_vertices \div ncpus BY <1>0, Divide
  <2>2. num_vertices < ncpus * d + ncpus BY <1>0, <2>1, Divide
  <2>3. PICK m \in Nat : m = ncpus * d BY <1>0, Product
  <2>4. ~(d + 1 <= l)
    <3> SUFFICES ASSUME d + 1 <= l PROVE FALSE OBVIOUS
    <3>1. ncpus * (d + 1) <= ncpus * l BY <1>0, Bigger
    <3>2. ncpus * (d + 1) = m + ncpus BY <1>0, <2>3
    <3> QED BY <1>0, <1>3, <1>4, <2>2, <2>3, <3>1, <3>2
  <2> QED BY <2>1, <2>4 DEF max_fails
<1> QED BY <1>2, <1>5, <1>6

\* How many indices of c are drawn before the one of rank b, when the next has rank a.
Distance(c, a, b) == IF a <= b THEN b - a ELSE LastRank(c) - a + 1 + b

LEMMA DistanceBound ==
  ASSUME NEW c \in Cpu, c < num_vertices, NEW a \in 0 .. LastRank(c), NEW b \in 0 .. LastRank(c)
  PROVE  Distance(c, a, b) \in 0 .. LastRank(c) BY LastRankIs DEF Distance

LEMMA DistanceStep ==
  ASSUME NEW c \in Cpu, c < num_vertices, NEW a \in 0 .. LastRank(c), NEW b \in 0 .. LastRank(c),
         a # b
  PROVE  LET n == IF a = LastRank(c) THEN 0 ELSE a + 1 IN
         n \in 0 .. LastRank(c) /\ Distance(c, n, b) = Distance(c, a, b) - 1
<1>1. LastRank(c) \in Nat BY LastRankIs
<1>2. CASE a = LastRank(c) BY <1>1, <1>2 DEF Distance
<1>3. CASE a # LastRank(c) BY <1>1, <1>3 DEF Distance
<1> QED BY <1>2, <1>3

\* The index of a cpu is one of its own, or its first if it has no vertices.
OwnIndex(c, i) == \E k \in Nat : i = c + ncpus * k /\ (i < num_vertices \/ i = c)
IndexFits == kind = "sweep" => \A c \in Cpu : OwnIndex(c, next_index[c])

\* In the critical section, f has still to draw idx, and will look at it.
Draws(f, idx) ==
  /\ thread[f].quitting
  /\ \/ thread[f].at \in {"next", "take"}
     \/ /\ thread[f].at = "sweep"
        /\ Distance(CpuOf(f), Rank(next_index[CpuOf(f)]), Rank(idx)) + thread[f].i <= max_fails

IndexWatched(idx) ==
  \/ Signaller
  \/ \E f \in Fiber : CpuOf(f) = idx % ncpus /\ (Awake(f) \/ Draws(f, idx))

IndicesWatched ==
  kind = "sweep" =>
    \A idx \in Vertex : (idx * randomizer) % num_vertices \in vertex_is_scheduled => IndexWatched(idx)

SweepInv == IndexFits /\ IndicesWatched

\* What a draw does to the index.
LEMMA IncrementedIs ==
  ASSUME kind = "sweep", NEW c \in Cpu, NEW k \in Nat, NEW i, i = c + ncpus * k,
         i < num_vertices \/ i = c
  PROVE  /\ OwnIndex(c, Incremented(i, c))
         /\ i < num_vertices =>
              /\ c < num_vertices /\ k \in 0 .. LastRank(c) /\ Rank(i) = k
              /\ Rank(Incremented(i, c)) = IF k = LastRank(c) THEN 0 ELSE k + 1
<1>0. ncpus \in Nat \ {0} /\ num_vertices \in Nat \ {0} /\ c \in Nat /\ i \in Nat
  <2>1. c + ncpus * k \in Nat BY RankOf
  <2> QED BY <2>1, Numbers
<1>1. i + ncpus = c + ncpus * (k + 1) /\ k + 1 \in Nat BY <1>0, Product
<1>2. c = c + ncpus * 0 BY <1>0
<1>3. Incremented(i, c) = IF i + ncpus >= num_vertices THEN c ELSE i + ncpus BY DEF Incremented
<1>4. OwnIndex(c, Incremented(i, c))
  <2>1. CASE i + ncpus >= num_vertices BY <1>3, <2>1, <1>2 DEF OwnIndex
  <2>2. CASE i + ncpus < num_vertices
    <3>1. Incremented(i, c) = i + ncpus BY <1>0, <1>3, <2>2
    <3> QED BY <1>1, <2>2, <3>1 DEF OwnIndex
  <2> QED BY <1>0, <2>1, <2>2
<1>5. ASSUME i < num_vertices
      PROVE  /\ c < num_vertices /\ k \in 0 .. LastRank(c) /\ Rank(i) = k
             /\ Rank(Incremented(i, c)) = IF k = LastRank(c) THEN 0 ELSE k + 1
  <2>1. c < num_vertices BY <1>0, Product, <1>5
  <2>2. LastRank(c) \in Nat /\ k <= LastRank(c) BY <1>5, <2>1, LastRankIs
  <2>3. Rank(i) = k /\ Rank(c) = 0 /\ Rank(i + ncpus) = k + 1 BY RankOf, <1>1, <1>2
  <2>4. i + ncpus < num_vertices <=> k + 1 <= LastRank(c) BY <1>1, <2>1, LastRankIs
  <2>5. CASE k = LastRank(c)
    <3>1. Incremented(i, c) = c BY <1>0, <1>3, <2>2, <2>4, <2>5
    <3> QED BY <2>1, <2>2, <2>3, <2>5, <3>1
  <2>6. CASE k # LastRank(c)
    <3>1. Incremented(i, c) = i + ncpus BY <1>0, <1>3, <2>2, <2>4, <2>6
    <3> QED BY <2>1, <2>2, <2>3, <2>6, <3>1
  <2> QED BY <2>5, <2>6
<1> QED BY <1>4, <1>5

LEMMA IndexWatchedByAll ==
  ASSUME \A f \in Fiber : Awake(f)'
  PROVE  IndicesWatched'
<1> SUFFICES ASSUME NEW idx \in Vertex PROVE IndexWatched(idx)' BY DEF IndicesWatched
<1>0. idx \in Nat BY Numbers
<1>1. idx % ncpus \in Cpu BY <1>0, IndexHasRank
<1>2. PICK f \in Fiber : CpuOf(f) = idx % ncpus BY <1>1, EveryCpu
<1> QED BY <1>2 DEF IndexWatched

LEMMA IndexWatchedBySignaller ==
  ASSUME NEW t \in Thread, NEW s, Moves(t, s), s.at \in SignalPlaces
  PROVE  IndicesWatched'
<1>1. Signaller' BY SignallerStays
<1> QED BY <1>1 DEF IndicesWatched, IndexWatched

\* The other fibers watch what they watched; f must see to its own.
LEMMA IndexWatchedStep ==
  ASSUME Base, IndicesWatched, NEW f \in Fiber, NEW s, Moves(f, s), UNCHANGED kind,
         thread[f].at \notin SignalPlaces,
         vertex_is_scheduled' \subseteq vertex_is_scheduled,
         \A c \in Cpu : c # CpuOf(f) => next_index'[c] = next_index[c],
         kind = "sweep" =>
           \A idx \in Vertex :
             /\ CpuOf(f) = idx % ncpus
             /\ (idx * randomizer) % num_vertices \in vertex_is_scheduled'
             /\ \E g \in Fiber : CpuOf(g) = CpuOf(f) /\ (Awake(g) \/ Draws(g, idx))
             => \E g \in Fiber : CpuOf(g) = CpuOf(f) /\ (Awake(g)' \/ Draws(g, idx)')
  PROVE  IndicesWatched'
<1> SUFFICES ASSUME kind = "sweep", NEW idx \in Vertex,
                    (idx * randomizer) % num_vertices \in vertex_is_scheduled', ~Signaller'
             PROVE  \E g \in Fiber : CpuOf(g) = idx % ncpus /\ (Awake(g)' \/ Draws(g, idx)')
  BY DEF IndicesWatched, IndexWatched
<1>0. f \in Thread BY FiberIsThread
<1>1. ~Signaller BY <1>0, SignallerStays
<1>2. PICK g \in Fiber : CpuOf(g) = idx % ncpus /\ (Awake(g) \/ Draws(g, idx))
  BY <1>1 DEF IndicesWatched, IndexWatched
<1>3. CASE CpuOf(g) = CpuOf(f) BY <1>2, <1>3
<1>4. CASE CpuOf(g) # CpuOf(f)
  <2>1. thread'[g] = thread[g] BY <1>4, FiberIsThread DEF Moves
  <2>2. CpuOf(g) \in Cpu BY CpuOfType
  <2>3. next_index'[CpuOf(g)] = next_index[CpuOf(g)] BY <1>4, <2>2
  <2>4. Awake(g) => Awake(g)' BY <2>1 DEF Awake
  <2>5. Draws(g, idx) => Draws(g, idx)' BY <2>1, <2>3 DEF Draws
  <2> QED BY <1>2, <2>4, <2>5
<1> QED BY <1>3, <1>4

\* A fiber that is not in the critical section, or begins anew, watches all of its cpu.
LEMMA IndexWatchedByOne ==
  ASSUME Base, IndicesWatched, NEW f \in Fiber, NEW s, Moves(f, s), UNCHANGED kind,
         thread[f].at \notin SignalPlaces,
         vertex_is_scheduled' \subseteq vertex_is_scheduled,
         \A c \in Cpu : c # CpuOf(f) => next_index'[c] = next_index[c],
         (s.at # "asleep" /\ ~s.quitting) \/ s.at \in {"next", "take"}
  PROVE  IndicesWatched'
<1>1. thread'[f] = s BY FiberIsThread DEF Moves
<1>2. \A idx : Awake(f)' \/ Draws(f, idx)' BY <1>1 DEF Awake, Draws
<1> QED BY <1>2, IndexWatchedStep

\* Ranks of indices of one cpu.
LEMMA RanksOf ==
  ASSUME NEW c \in Cpu, c < num_vertices, NEW idx \in Vertex, idx % ncpus = c
  PROVE  /\ idx = c + ncpus * Rank(idx) /\ Rank(idx) \in 0 .. LastRank(c)
<1>1. idx \in Nat /\ idx < num_vertices BY Numbers
<1>2. Rank(idx) \in Nat /\ idx = c + ncpus * Rank(idx) BY <1>1, IndexHasRank
<1>3. Rank(idx) <= LastRank(c) /\ LastRank(c) \in Nat BY <1>1, <1>2, LastRankIs
<1> QED BY <1>2, <1>3

\* A cpu that has an index of a vertex has a first one.
LEMMA FirstOfCpu ==
  ASSUME NEW idx \in Vertex
  PROVE  idx % ncpus \in Cpu /\ idx % ncpus < num_vertices
<1>1. idx \in Nat /\ idx < num_vertices /\ num_vertices \in Nat BY Numbers
<1>2. /\ idx % ncpus \in Cpu /\ Rank(idx) \in Nat
      /\ idx = (idx % ncpus) + ncpus * Rank(idx) BY <1>1, IndexHasRank
<1>3. PICK m \in Nat : m = ncpus * Rank(idx) BY <1>2, Numbers, Product
<1>4. PICK r \in Nat : r = idx % ncpus BY <1>2, Numbers
<1>5. idx = r + m BY <1>2, <1>3, <1>4
<1>6. r < num_vertices BY <1>1, <1>5
<1> QED BY <1>2, <1>4, <1>6

LEMMA SweepInvBegin ==
  ASSUME Base, SweepInv, NEW f \in Fiber, BeginSweep(f)
  PROVE  SweepInv'
<1>0. TypeOK /\ Fields /\ f \in Thread /\ CpuOf(f) \in Cpu /\ IndexFits /\ IndicesWatched
  BY FiberIsThread, CpuOfType DEF Base, SweepInv
<1>1. UNCHANGED <<kind, sched_vars, box, signals>> BY DEF BeginSweep
<1>2. thread[f].at = "next" BY <1>0, BeginSweepDoes DEF At
<1>3. PICK s : Moves(f, s) /\ s.at = "sweep" /\ s.i = 0 /\ s.quitting = thread[f].quitting
  BY <1>0, BeginSweepDoes
<1>4. thread'[f] = s BY <1>0, <1>3 DEF Moves
<1>5. IndexFits' BY <1>0, <1>1 DEF IndexFits, sched_vars, OwnIndex
<1>6. ASSUME kind = "sweep", NEW idx \in Vertex, CpuOf(f) = idx % ncpus
      PROVE  Awake(f)' \/ Draws(f, idx)'
  <2>1. PICK c \in Cpu : c = CpuOf(f) /\ c < num_vertices BY <1>0, <1>6, FirstOfCpu
  <2>2. PICK k \in Nat : /\ next_index[c] = c + ncpus * k
                         /\ next_index[c] < num_vertices \/ next_index[c] = c
    BY <1>0, <1>6 DEF IndexFits, OwnIndex
  <2>3. next_index[c] < num_vertices BY <2>1, <2>2
  <2>4. Rank(next_index[c]) \in 0 .. LastRank(c) BY <1>6, <2>2, <2>3, IncrementedIs
  <2>5. Rank(idx) \in 0 .. LastRank(c) BY <1>6, <2>1, RanksOf
  <2>6. Distance(c, Rank(next_index[c]), Rank(idx)) <= max_fails
    <3>1. Distance(c, Rank(next_index[c]), Rank(idx)) \in 0 .. LastRank(c)
      BY <2>1, <2>4, <2>5, DistanceBound
    <3>2. LastRank(c) \in Nat /\ LastRank(c) < max_fails /\ max_fails \in Nat
      BY <2>1, LastRankIs, MaxFails
    <3> QED BY <3>1, <3>2
  <2>7. Distance(c, Rank(next_index[c]), Rank(idx)) + 0 <= max_fails
    <3>1. PICK n \in Int : n = Distance(c, Rank(next_index[c]), Rank(idx))
      <4>1. Distance(c, Rank(next_index[c]), Rank(idx)) \in 0 .. LastRank(c)
        BY <2>1, <2>4, <2>5, DistanceBound
      <4> QED BY <4>1
    <3>2. n + 0 <= max_fails BY <2>6, <3>1
    <3> QED BY <3>1, <3>2
  <2>8. next_index' = next_index BY <1>1 DEF sched_vars
  <2>9. s.quitting => Draws(f, idx)' BY <1>3, <1>4, <2>1, <2>7, <2>8 DEF Draws
  <2>10. ~s.quitting => Awake(f)' BY <1>3, <1>4 DEF Awake
  <2> QED BY <2>9, <2>10
<1>7. thread[f].at \notin SignalPlaces BY <1>2 DEF SignalPlaces
<1>8. UNCHANGED <<vertex_is_scheduled, next_index, kind>> BY <1>1 DEF sched_vars
<1>9. IndicesWatched' BY <1>0, <1>3, <1>6, <1>7, <1>8, IndexWatchedStep
<1> QED BY <1>5, <1>9 DEF SweepInv

LEMMA SweepInvSweep ==
  ASSUME Base, Mutex, SweepInv, NEW f \in Fiber, Sweep(f), kind = "sweep"
  PROVE  SweepInv'
<1>0. /\ TypeOK /\ Fields /\ f \in Thread /\ IndexFits /\ IndicesWatched
      /\ next_index \in [Cpu -> 0 .. num_vertices + ncpus] BY FiberIsThread DEF Base, SweepInv, TypeOK
<1>c. PICK c \in Cpu : c = CpuOf(f) /\ IndexOf(c) = c BY CpuOfType DEF IndexOf
<1>1. UNCHANGED <<kind, queues, master_queue, out_queues, box, signals>> BY DEF Sweep
<1>2. thread[f].at = "sweep" BY DEF Sweep, At
<1>3. PICK i \in Nat, v \in Vertex :
         /\ i = next_index[c] /\ v = (i * randomizer) % num_vertices
         /\ next_index' = [next_index EXCEPT ![c] = Incremented(i, c)]
         /\ \/ /\ thread[f].i > max_fails \/ i >= num_vertices
               /\ UNCHANGED vertex_is_scheduled
               /\ \E s : /\ Moves(f, s) /\ ~s.quitting
                         /\ s.at = IF thread[f].quitting THEN "asleep" ELSE "quit"
            \/ /\ thread[f].i <= max_fails /\ i < num_vertices
               /\ vertex_is_scheduled' = vertex_is_scheduled \ {v}
               /\ \E s : /\ Moves(f, s) /\ s.quitting = thread[f].quitting
                         /\ IF v \in vertex_is_scheduled THEN s.at = "take" /\ s.v = v
                            ELSE s.at = "sweep" /\ s.i = thread[f].i + 1 BY <1>0, <1>c, SweepDoes
<1>4. PICK k \in Nat : i = c + ncpus * k /\ (i < num_vertices \/ i = c)
  BY <1>0, <1>3 DEF IndexFits, OwnIndex
<1>5. /\ next_index'[c] = Incremented(i, c)
      /\ \A d \in Cpu : d # c => next_index'[d] = next_index[d] BY <1>0, <1>3
<1>6. IndexFits'
  <2>1. OwnIndex(c, next_index'[c]) BY <1>4, <1>5, IncrementedIs
  <2>2. \A d \in Cpu : OwnIndex(d, next_index'[d]) BY <1>0, <1>5, <2>1 DEF IndexFits
  <2> QED BY <1>1, <2>2 DEF IndexFits, OwnIndex
<1>7. PICK s : /\ Moves(f, s)
               /\ \/ /\ thread[f].i > max_fails \/ i >= num_vertices
                     /\ UNCHANGED vertex_is_scheduled
                     /\ ~s.quitting
                     /\ s.at = IF thread[f].quitting THEN "asleep" ELSE "quit"
                  \/ /\ thread[f].i <= max_fails /\ i < num_vertices
                     /\ vertex_is_scheduled' = vertex_is_scheduled \ {v}
                     /\ s.quitting = thread[f].quitting
                     /\ IF v \in vertex_is_scheduled THEN s.at = "take" /\ s.v = v
                        ELSE s.at = "sweep" /\ s.i = thread[f].i + 1 BY <1>3
<1>8. /\ thread[f].at \notin SignalPlaces /\ vertex_is_scheduled' \subseteq vertex_is_scheduled
      /\ \A d \in Cpu : d # CpuOf(f) => next_index'[d] = next_index[d]
      /\ UNCHANGED kind BY <1>c, <1>1, <1>2, <1>5, <1>7 DEF SignalPlaces
<1>9. CASE ~thread[f].quitting
  <2>1. s.at # "asleep" /\ ~s.quitting BY <1>7, <1>9
  <2>2. IndicesWatched' BY <1>0, <1>7, <1>8, <2>1, IndexWatchedByOne
  <2> QED BY <1>6, <2>2 DEF SweepInv
<1>10. CASE thread[f].quitting
  <2>1. ASSUME NEW idx \in Vertex, CpuOf(f) = idx % ncpus,
               (idx * randomizer) % num_vertices \in vertex_is_scheduled',
               NEW g \in Fiber, CpuOf(g) = CpuOf(f), Awake(g) \/ Draws(g, idx)
        PROVE  Awake(g)' \/ Draws(g, idx)'
    <3>0. g \in Thread BY FiberIsThread
    <3>1. CASE g # f
      <4>1. ~thread[g].quitting BY <1>10, <3>1 DEF Mutex
      <4>2. Awake(g) BY <2>1, <4>1 DEF Draws
      <4>3. thread'[g] = thread[g] BY <1>7, <3>0, <3>1 DEF Moves
      <4> QED BY <4>2, <4>3 DEF Awake
    <3>2. CASE g = f
      <4>1. Draws(f, idx) BY <1>10, <2>1, <3>2 DEF Awake
      <4>2. c < num_vertices BY <1>c, <2>1, FirstOfCpu
      <4>3. i < num_vertices BY <1>4, <4>2
      <4>4. /\ k \in 0 .. LastRank(c) /\ Rank(i) = k
            /\ Rank(next_index'[c]) = IF k = LastRank(c) THEN 0 ELSE k + 1
        BY <1>4, <1>5, <4>3, IncrementedIs
      <4>5. PICK b : b = Rank(idx) OBVIOUS
      <4>6. b \in 0 .. LastRank(c) /\ idx = c + ncpus * b BY <1>c, <2>1, <4>2, <4>5, RanksOf
      <4>7. Distance(c, k, b) \in 0 .. LastRank(c) /\ LastRank(c) \in Nat
        BY <4>2, <4>4, <4>6, DistanceBound, LastRankIs
      <4>8. Distance(c, k, b) + thread[f].i <= max_fails BY <1>2, <1>3, <1>c, <4>1, <4>4, <4>5 DEF Draws
      <4>9. thread[f].i \in Nat /\ max_fails \in Nat BY <1>0, ThreadFields, MaxFails
      <4>10. ~(thread[f].i > max_fails) /\ ~(i >= num_vertices)
        <5>1. PICK d \in Nat : d = Distance(c, k, b) BY <4>7
        <5>2. i \in Int /\ num_vertices \in Int BY Numbers
        <5> QED BY <4>3, <4>8, <4>9, <5>1, <5>2
      <4>11. /\ vertex_is_scheduled' = vertex_is_scheduled \ {v}
             /\ s.quitting
             /\ IF v \in vertex_is_scheduled THEN s.at = "take"
                ELSE s.at = "sweep" /\ s.i = thread[f].i + 1 BY <1>7, <1>10, <4>10
      <4>12. thread'[f] = s BY <1>0, <1>7 DEF Moves
      <4>13. CASE v \in vertex_is_scheduled BY <3>2, <4>11, <4>12, <4>13 DEF Draws
      <4>14. CASE v \notin vertex_is_scheduled
        <5>1. k # b
          <6> SUFFICES ASSUME k = b PROVE FALSE OBVIOUS
          <6>1. idx = i BY <1>4, <4>6
          <6> QED BY <1>3, <2>1, <4>11, <6>1
        <5>2. Distance(c, Rank(next_index'[c]), b) = Distance(c, k, b) - 1
          BY <4>2, <4>4, <4>6, <5>1, DistanceStep
        <5>3. Distance(c, Rank(next_index'[c]), b) + (thread[f].i + 1) <= max_fails
          <6>1. PICK n \in Int : n = Distance(c, k, b) BY <4>7
          <6>2. (n - 1) + (thread[f].i + 1) <= max_fails BY <4>8, <4>9, <6>1
          <6> QED BY <5>2, <6>1, <6>2
        <5> QED BY <1>c, <3>2, <4>5, <4>11, <4>12, <4>14, <5>3 DEF Draws
      <4> QED BY <4>13, <4>14
    <3> QED BY <3>1, <3>2
  <2>2. IndicesWatched' BY <1>0, <1>7, <1>8, <2>1, IndexWatchedStep
  <2> QED BY <1>6, <2>2 DEF SweepInv
<1> QED BY <1>9, <1>10

LEMMA SweepInvNext == Base /\ Mutex /\ SweepInv /\ [Next]_vars => SweepInv'
<1> SUFFICES ASSUME Base, Mutex, SweepInv, [Next]_vars PROVE SweepInv' OBVIOUS
<1>0. TypeOK /\ Fields /\ BoxBound /\ IndexFits /\ IndicesWatched BY DEF Base, SweepInv
<1>1. ASSUME UNCHANGED kind, kind # "sweep" PROVE SweepInv'
  BY <1>1 DEF SweepInv, IndexFits, IndicesWatched
<1>2. ASSUME UNCHANGED <<kind, next_index>> PROVE IndexFits' BY <1>0, <1>2 DEF IndexFits, OwnIndex
<1>3. ASSUME NEW f \in Fiber, get_next(f) PROVE SweepInv'
  <2>1. UNCHANGED kind
    BY <1>3 DEF get_next, BeginVisits, Visit, TakeOutQueue, Steal, PopOutQueue, BeginSweep, Sweep
  <2>2. CASE kind # "sweep" BY <1>1, <2>1, <2>2
  <2>3. CASE kind = "sweep"
    <3>1. ~(BeginVisits(f) \/ TakeOutQueue(f)) BY <2>3 DEF BeginVisits, QueueScheduler, TakeOutQueue
    <3>2. thread[f].at \notin {"visit", "steal", "pop"}
      BY <1>0, <2>3, ThreadFields, FiberIsThread DEF FieldsOf
    <3>3. ~(Visit(f) \/ Steal(f) \/ PopOutQueue(f)) BY <3>2 DEF Visit, Steal, PopOutQueue, At
    <3> QED BY <1>3, <2>3, <3>1, <3>3, SweepInvBegin, SweepInvSweep DEF get_next
  <2> QED BY <2>2, <2>3
<1>4. ASSUME NEW f \in Fiber,
             TakeMessage(f) \/ RunProgram(f) \/ BeginDone(f) \/ LockDone(f) \/ LeaveDone(f)
      PROVE  SweepInv'
  <2>1. PICK s : /\ Moves(f, s)
                 /\ s.at = "next" \/ (s.at \in {"run", "begin"} /\ ~s.quitting)
    BY <1>0, <1>4, TakeMessageDoes, RunProgramDoes, BeginDoneDoes, LockDoneDoes, LeaveDoneDoes
  <2>2. /\ UNCHANGED <<kind, vertex_is_scheduled, next_index>>
        /\ thread[f].at \notin SignalPlaces
    BY <1>4 DEF TakeMessage, RunProgram, BeginDone, LockDone, LeaveDone, sched_vars, At, SignalPlaces
  <2>3. IndicesWatched' BY <1>0, <2>1, <2>2, IndexWatchedByOne
  <2> QED BY <1>2, <2>2, <2>3 DEF SweepInv
<1>5. ASSUME NEW t \in Thread, Add(t) \/ Schedule(t) \/ Push(t) \/ Cancel(t) PROVE SweepInv'
  <2>1. PICK s : Moves(t, s) /\ s.at \in SignalPlaces
    <3>1. Add(t) => \E s : Moves(t, s) /\ s.at = "schedule" BY <1>0, AddDoes
    <3>2. Schedule(t) => \E s : Moves(t, s) /\ s.at \in {"cancel", "push"} BY <1>0, ScheduleDoes
    <3>3. Push(t) => \E s : Moves(t, s) /\ s.at = "cancel" BY <1>0, PushDoes
    <3>4. Cancel(t) => \E s : Moves(t, s) /\ s.at = "wake" BY <1>0, CancelDoes
    <3> QED BY <1>5, <3>1, <3>2, <3>3, <3>4 DEF SignalPlaces
  <2>2. IndicesWatched' BY <2>1, IndexWatchedBySignaller
  <2>3. UNCHANGED <<kind, next_index>> BY <1>5 DEF Add, Schedule, Push, Cancel, sched_vars
  <2> QED BY <1>2, <2>2, <2>3 DEF SweepInv
<1>6. ASSUME NEW t \in Thread, CancelNobody(t) \/ Wake(t) PROVE SweepInv'
  <2>1. \A f \in Fiber : Awake(f)'
    <3>1. CASE CancelNobody(t)
      <4>1. PICK s : Moves(t, s) /\ s.at \in {"next", "idle"} /\ ~s.quitting
        BY <1>0, <3>1, CancelNobodyDoes
      <4>2. \A f \in Fiber : ~thread[f].quitting /\ thread[f].at # "asleep"
        BY <1>0, <3>1, CancelNobodyDoes DEF At
      <4>3. \A f \in Fiber : thread'[f] = s \/ thread'[f] = thread[f] BY <4>1, FiberIsThread DEF Moves
      <4> QED BY <4>1, <4>2, <4>3 DEF Awake
    <3>2. CASE Wake(t)
      <4>1. /\ thread'[t].at \in {"next", "idle"} /\ ~thread'[t].quitting /\ MutexFree
            /\ \A u \in Thread : u # t =>
                 IF thread[u].at = "asleep" THEN thread'[u].at = "woken" /\ ~thread'[u].quitting
                 ELSE thread'[u] = thread[u] BY <1>0, <3>2, WakeDoes DEF At
      <4> QED BY <4>1, FiberIsThread DEF Awake, MutexFree
    <3> QED BY <1>6, <3>1, <3>2
  <2>2. UNCHANGED <<kind, next_index>> BY <1>6 DEF CancelNobody, Wake, sched_vars
  <2>3. IndicesWatched' BY <2>1, IndexWatchedByAll
  <2> QED BY <1>2, <2>2, <2>3 DEF SweepInv
<1>7. ASSUME UNCHANGED vars PROVE SweepInv'
  <2>1. UNCHANGED <<kind, next_index, vertex_is_scheduled, thread>> BY <1>7 DEF vars, sched_vars
  <2>2. \A idx : IndexWatched(idx) => IndexWatched(idx)'
    BY <2>1 DEF IndexWatched, Signaller, Awake, Draws
  <2>3. IndicesWatched' BY <1>0, <2>1, <2>2 DEF IndicesWatched
  <2> QED BY <1>2, <2>1, <2>3 DEF SweepInv
<1> QED BY <1>3, <1>4, <1>5, <1>6, <1>7, FiberIsThread DEF Next, FiberStep, Signal

-----------------------------------------------------------------------------
(* IdleMeansEmpty.                                                         *)

WatchInv == Mutex /\ Followed /\ QueuesWatched /\ SweepInv

LEMMA WatchInit == Init => WatchInv
<1> SUFFICES ASSUME Init PROVE WatchInv OBVIOUS
<1>1. \A t \in Thread : thread[t].at \in {"next", "idle"} /\ ~thread[t].quitting BY IdleFacts DEF Init
<1>2. Mutex BY <1>1, FiberIsThread DEF Mutex
<1>3. Followed BY DEF Followed, Init
<1>4. \A f \in Fiber : Awake(f) BY <1>1, FiberIsThread DEF Awake
<1>5. QueuesWatched BY <1>4, SomeoneReaches DEF WatchedAt, QueuesWatched
<1>6. IndexFits BY Numbers DEF IndexFits, Init, OwnIndex
<1>7. IndicesWatched BY DEF IndicesWatched, Init
<1> QED BY <1>2, <1>3, <1>5, <1>6, <1>7 DEF WatchInv, SweepInv

LEMMA IdleIsEmpty == Reliable /\ Base /\ QueueInv /\ WatchInv => IdleMeansEmpty
<1> SUFFICES ASSUME Reliable, Base, QueueInv, WatchInv,
                    \A t \in Thread : At(t, "asleep") \/ At(t, "idle")
             PROVE  vertex_is_scheduled = {} /\ \A v \in Vertex : box[v] = 0 BY DEF IdleMeansEmpty
<1>0. TypeOK /\ Fields /\ kind \in Kinds BY DEF Base, TypeOK
<1>1. \A t \in Thread : thread[t].at \in {"asleep", "idle"} BY DEF At
<1>2. ~Signaller BY <1>1 DEF Signaller, SignalPlaces
<1>3. \A f \in Fiber : ~Awake(f) /\ ~thread[f].quitting
  <2> SUFFICES ASSUME NEW f \in Fiber PROVE ~Awake(f) /\ ~thread[f].quitting OBVIOUS
  <2>1. f \in Thread /\ FieldsOf(f, thread[f]) BY FiberIsThread DEF Fields, Base
  <2>2. thread[f].at = "asleep" BY <1>1, <2>1 DEF FieldsOf
  <2> QED BY <2>1, <2>2 DEF FieldsOf, Awake, GetPlaces
<1>4. vertex_is_scheduled = {}
  <2> SUFFICES ASSUME NEW v \in vertex_is_scheduled PROVE FALSE OBVIOUS
  <2>0. v \in Vertex BY <1>0 DEF TypeOK
  <2>1. CASE kind \in QueueKinds
    <3>1. PICK x : x \in Holders(v) BY <2>0, <2>1 DEF QueueInv, Held, Kept
    <3>2. x[1] # "push" BY <1>1, <3>1, HolderIs DEF Pushing
    <3>3. WatchedAt(x) BY <2>0, <2>1, <3>1, <3>2 DEF WatchInv, QueuesWatched
    <3> QED BY <1>2, <1>3, <3>3 DEF WatchedAt, Scans
  <2>2. CASE kind = "sweep"
    <3>1. PICK idx \in Vertex : v = (idx * randomizer) % num_vertices BY <2>0, ConstantsAssumption
    <3>2. IndexWatched(idx) BY <2>2, <3>1 DEF WatchInv, SweepInv, IndicesWatched
    <3> QED BY <1>2, <1>3, <3>2 DEF IndexWatched, Draws
  <2>3. kind \in QueueKinds \/ kind = "sweep" BY <1>0, ConstantsAssumption DEF Reliable, QueueKinds
  <2> QED BY <2>1, <2>2, <2>3
<1>5. ASSUME NEW v \in Vertex PROVE box[v] = 0
  <2>1. \A t \in Thread : ~Carries(thread[t], v) BY <1>1 DEF Carries
  <2>2. ~(box[v] > 0) BY <1>4, <2>1 DEF WatchInv, Followed
  <2>3. box[v] \in Nat BY <1>0, Numbers DEF TypeOK
  <2> QED BY <2>2, <2>3
<1> QED BY <1>4, <1>5

\* When every fiber sleeps and no signal is being made, no vertex is scheduled and no
\* message is left, under every scheduler that gives all its vertices away: whoever fills a
\* queue has still to cancel the consensus, and a fiber that has begun to look in the
\* critical section has before it all that nobody else will look at.
THEOREM NobodySleepsOverWork == Reliable /\ Spec => []IdleMeansEmpty
<1>1. Reliable /\ Base /\ OutLock /\ QueueInv /\ WatchInv /\ [Next]_vars => WatchInv'
  BY MutexNext, FollowedNext, WatchNext, SweepInvNext DEF WatchInv
<1>2. Reliable /\ Base /\ QueueInv /\ WatchInv => IdleMeansEmpty BY IdleIsEmpty
<1>3. Reliable => []Reliable
  <2>1. Reliable => Reliable' BY DEF Reliable
  <2> QED BY <2>1, PTL
<1>4. Init => WatchInv BY WatchInit
<1> QED BY <1>1, <1>2, <1>3, <1>4, QueuesKept, PTL DEF Spec
=============================================================================
