----------------------------- MODULE DpiMtProofs -----------------------------
(***************************************************************************)
(* Proofs about DpiMt for every topology, capacity, hash function, capture *)
(* and rule set: its types, that it decides every packet as one fast path  *)
(* alone would, that its report is true, when it agrees with SimpleEngine, *)
(* and that it implements PacketService.                                   *)
(*                                                                         *)
(* A step leaves the packets where they are or takes the oldest packet of  *)
(* one place to the next place on its way.  As the packets of a flow share *)
(* their way and keep their order, a fast path is handed every flow as it  *)
(* is in the capture (Decisions), and the entry it has of a flow is the    *)
(* one a fast path alone has after the same packets (Entries).  The tables *)
(* of SimpleEngine and of a fast path alone agree on a flow as long as     *)
(* both look for its name (TablesAgree).                                   *)
(***************************************************************************)
EXTENDS DpiMt, InductionLemmas

-----------------------------------------------------------------------------
(* The topology                                                            *)

FlowOf(id) == input[id].flow

\* Where a packet can be at a stage.
PlaceOn(p, s) == CASE s = 1 -> LBQueue(LBOf(p))
                   [] s = 2 -> LB(LBOf(p))
                   [] s = 3 -> FPQueue(FPOf(p))
                   [] s = 4 -> FP(FPOf(p))
                   [] s = 5 -> OutQueue
                   [] OTHER -> File

\* What the names of the places stand for.
LEMMA PlaceFacts ==
    /\ \A l \in LBIds : /\ LB(l) \in Workers /\ LB(l) # Output /\ LB(l)[1] = 2
                        /\ InputOf(LB(l)) = LBQueue(l) /\ LBQueue(l)[1] = 1
    /\ \A f \in FPIds : /\ FP(f) \in Workers /\ FP(f) # Output /\ FP(f)[1] = 4
                        /\ InputOf(FP(f)) = FPQueue(f) /\ FPQueue(f)[1] = 3
    /\ Output \in Workers /\ InputOf(Output) = OutQueue
    /\ OutQueue[1] = 5 /\ Output[1] = 6 /\ File[1] = 7
    /\ \A w \in Workers : /\ InputOf(w) \in Queues
                          /\ w[1] \in {2, 4, 6} /\ InputOf(w)[1] = w[1] - 1
    /\ \A w \in Workers \ {Output} : w \in Places /\ w[1] \in {2, 4}
    /\ \A q \in Queues : q \in Places /\ q[1] \in {1, 3, 5}
    /\ File \in Places
    /\ \A p \in Places : /\ p \in Workers \ {Output} \/ p \in Queues \/ p = File
                         /\ p[1] \in {1, 2, 3, 4, 5, 7}
<1>1. \A l \in LBIds : /\ LB(l)[1] = 2 /\ LB(l) # Output
                       /\ InputOf(LB(l)) = LBQueue(l) /\ LBQueue(l)[1] = 1
  BY DEF LB, LBQueue, InputOf, Output
<1>2. \A f \in FPIds : /\ FP(f)[1] = 4 /\ FP(f) # Output
                       /\ InputOf(FP(f)) = FPQueue(f) /\ FPQueue(f)[1] = 3
  BY DEF FP, FPQueue, InputOf, Output
<1>3. /\ InputOf(Output) = OutQueue
      /\ OutQueue[1] = 5 /\ Output[1] = 6 /\ File[1] = 7
  BY DEF Output, OutQueue, InputOf, File
<1>4. \A w \in Workers : w[1] \in {2, 4, 6} /\ InputOf(w)[1] = w[1] - 1
  BY <1>1, <1>2, <1>3 DEF Workers
<1>5. \A w \in Workers \ {Output} : w[1] \in {2, 4}
  BY <1>1, <1>2 DEF Workers
<1>6. \A q \in Queues : q[1] \in {1, 3, 5}
  BY <1>4 DEF Queues
<1>. QED
  BY <1>1, <1>2, <1>3, <1>4, <1>5, <1>6 DEF Places, Queues, Workers

\* No place is of two kinds.
LEMMA PlacesApart ==
    /\ \A w \in Workers \ {Output}, q \in Queues : w # q
    /\ \A w \in Workers \ {Output} : w # File
    /\ \A q \in Queues : q # File
BY PlaceFacts

LEMMA CountTypes ==
    /\ NumLBs \in Nat \ {0} /\ NumFPs \in Nat \ {0}
    /\ NumWorkers \in Nat \ {0} /\ NumWorkers = NumLBs + NumFPs + 1
<1>1. NumLBs * FPsPerLB \in Nat /\ NumLBs * FPsPerLB # 0
  BY SizesAssumption
<1>. QED
  BY <1>1, SizesAssumption DEF NumFPs, NumWorkers

\* The hash of a flow names a load balancer and a fast path that exist, and
\* packets of one flow share them.
LEMMA RoutingType ==
    ASSUME NEW p, p.flow \in Flows
    PROVE  LBOf(p) \in LBIds /\ FPOf(p) \in FPIds
<1>. USE SizesAssumption
<1>1. Hash[p.flow] \in Nat
  BY HashAssumption
<1>2. LBOf(p) \in 0 .. NumLBs - 1
  BY <1>1 DEF LBOf
<1>3. Hash[p.flow] % FPsPerLB \in 0 .. FPsPerLB - 1
  BY <1>1
<1>4. ASSUME NEW a \in 0 .. NumLBs - 1, NEW b \in 0 .. FPsPerLB - 1
      PROVE  (a * FPsPerLB) + b \in 0 .. (NumLBs * FPsPerLB) - 1
  <2>1. NumLBs - a - 1 \in Nat /\ NumLBs = a + 1 + (NumLBs - a - 1)
    OBVIOUS
  <2>2. PICK k \in Nat : NumLBs = a + 1 + k
    BY <2>1
  <2>3. NumLBs * FPsPerLB = (a * FPsPerLB) + FPsPerLB + (k * FPsPerLB)
    BY <2>2
  <2>4. a * FPsPerLB \in Nat /\ k * FPsPerLB \in Nat
    OBVIOUS
  <2>. QED
    BY <2>3, <2>4
<1>. QED
  BY <1>2, <1>3, <1>4 DEF FPOf, LBIds, FPIds, NumFPs

LEMMA SameWay ==
    ASSUME NEW p, NEW q, p.flow = q.flow, NEW s
    PROVE  FPOf(p) = FPOf(q) /\ PlaceOn(p, s) = PlaceOn(q, s)
BY DEF PlaceOn, FPOf, LBOf

\* The workers are numbered along the way of the packets.
LEMMA WorkerOrder ==
    /\ \A i \in 0 .. NumWorkers - 1 : Worker(i) \in Workers
    /\ \A i, j \in 0 .. NumWorkers - 1 : Worker(i)[1] < Worker(j)[1] => i < j
    /\ \A w \in Workers : \E i \in 0 .. NumWorkers - 1 : w = Worker(i)
    /\ \A i \in 0 .. NumWorkers - 1 : Worker(i) = Output <=> i = NumWorkers - 1
<1>1. \A i \in 0 .. NumWorkers - 1 : Worker(i) \in Workers
  BY CountTypes DEF Worker, Workers, LBIds, FPIds
<1>2. \A i, j \in 0 .. NumWorkers - 1 : Worker(i)[1] < Worker(j)[1] => i < j
  BY CountTypes DEF Worker, LB, FP, Output
<1>3. ASSUME NEW l \in LBIds PROVE \E i \in 0 .. NumWorkers - 1 : LB(l) = Worker(i)
  BY CountTypes DEF Worker, LBIds
<1>4. ASSUME NEW f \in FPIds PROVE \E i \in 0 .. NumWorkers - 1 : FP(f) = Worker(i)
  <2>1. /\ f + NumLBs \in 0 .. NumWorkers - 1 /\ (f + NumLBs) - NumLBs = f
        /\ ~(f + NumLBs < NumLBs) /\ f + NumLBs < NumLBs + NumFPs
        /\ f + NumLBs >= NumLBs
    BY CountTypes DEF FPIds
  <2>2. Worker(f + NumLBs) = FP(f)
    BY <2>1 DEF Worker
  <2>. QED
    BY <2>1, <2>2
<1>5. \A i \in 0 .. NumWorkers - 1 : Worker(i) = Output <=> i = NumWorkers - 1
  BY CountTypes DEF Worker, LB, FP, Output
<1>6. NumWorkers - 1 \in 0 .. NumWorkers - 1
  BY CountTypes
<1>. QED
  BY <1>1, <1>2, <1>3, <1>4, <1>5, <1>6 DEF Workers

-----------------------------------------------------------------------------
(* The packets at a place                                                  *)

\* Packets of one flow are in the order of the capture.
Sorted(s) ==
    \A i, j \in DOMAIN s : i < j /\ FlowOf(s[i]) = FlowOf(s[j]) => s[i] < s[j]

LEMMA TakeFirst ==
    ASSUME NEW T, T \subseteq Nat, NEW s \in Seq(T), s # <<>>, Sorted(s)
    PROVE  /\ Head(s) \in Range(s) /\ Range(s) \subseteq T
           /\ \A x \in Range(s) : FlowOf(x) = FlowOf(Head(s)) => x = Head(s) \/ Head(s) < x
           /\ Tail(s) \in Seq(T) /\ Len(Tail(s)) = Len(s) - 1
           /\ Sorted(Tail(s)) /\ Range(Tail(s)) = Range(s) \ {Head(s)}
<1>. DEFINE t == Tail(s)
<1>1. /\ Head(s) = s[1] /\ t \in Seq(T) /\ Len(t) = Len(s) - 1
      /\ Len(s) \in Nat \ {0} /\ DOMAIN s = 1 .. Len(s) /\ DOMAIN t = 1 .. Len(s) - 1
      /\ \A i \in 1 .. Len(s) - 1 : t[i] = s[i + 1]
      /\ \A i \in 1 .. Len(s) : s[i] \in T
  OBVIOUS
<1>. HIDE DEF t
<1>2. Head(s) \in Range(s) /\ Range(s) \subseteq T
  BY <1>1 DEF Range
<1>3. \A i \in 1 .. Len(s) : FlowOf(s[i]) = FlowOf(s[1]) => i = 1 \/ s[1] < s[i]
  BY <1>1 DEF Sorted
<1>4. \A x \in Range(s) : FlowOf(x) = FlowOf(Head(s)) => x = Head(s) \/ Head(s) < x
  BY <1>1, <1>3 DEF Range
<1>5. Sorted(t)
  <2>1. SUFFICES ASSUME NEW i \in DOMAIN t, NEW j \in DOMAIN t, i < j,
                        FlowOf(t[i]) = FlowOf(t[j])
                 PROVE  t[i] < t[j]
    BY DEF Sorted
  <2>2. i + 1 \in DOMAIN s /\ j + 1 \in DOMAIN s /\ i + 1 < j + 1
    BY <1>1, <2>1
  <2>. QED
    BY <1>1, <2>1, <2>2 DEF Sorted
<1>6. Range(t) = Range(s) \ {Head(s)}
  <2>1. \A i \in 1 .. Len(s) - 1 : s[i + 1] # s[1]
    <3>1. \A i \in 1 .. Len(s) - 1 : i + 1 \in 1 .. Len(s) /\ i + 1 # 1
      BY <1>1
    <3>2. s[1] \in T
      BY <1>1, <1>2
    <3>3. \A n \in T : ~(n < n)
      OBVIOUS
    <3>. QED
      BY <1>3, <3>1, <3>2, <3>3
  <2>2. \A i \in 1 .. Len(s) : i # 1 => i - 1 \in 1 .. Len(s) - 1 /\ (i - 1) + 1 = i
    BY <1>1
  <2>3. ASSUME NEW x \in Range(t) PROVE x \in Range(s) /\ x # s[1]
    BY <1>1, <2>1 DEF Range
  <2>4. ASSUME NEW x \in Range(s), x # s[1] PROVE x \in Range(t)
    <3>1. PICK i \in 1 .. Len(s) : x = s[i]
      BY <1>1 DEF Range
    <3>2. i - 1 \in DOMAIN t /\ t[i - 1] = x
      BY <1>1, <2>2, <2>4, <3>1
    <3>. QED
      BY <3>2 DEF Range
  <2>. QED
    BY <1>1, <2>3, <2>4
<1>. QED
  BY <1>1, <1>2, <1>4, <1>5, <1>6 DEF t

LEMMA AddLast ==
    ASSUME NEW T, NEW s \in Seq(T), NEW e \in T, Sorted(s),
           \A x \in Range(s) : FlowOf(x) = FlowOf(e) => x < e
    PROVE  /\ Append(s, e) \in Seq(T) /\ Len(Append(s, e)) = Len(s) + 1
           /\ Sorted(Append(s, e)) /\ Range(Append(s, e)) = Range(s) \cup {e}
<1>. DEFINE b == Append(s, e)
<1>1. /\ b \in Seq(T) /\ Len(b) = Len(s) + 1
      /\ \A i \in 1 .. Len(s) : b[i] = s[i] /\ s[i] \in Range(s)
      /\ b[Len(s) + 1] = e
      /\ Len(s) \in Nat /\ DOMAIN s = 1 .. Len(s) /\ DOMAIN b = 1 .. Len(s) + 1
  BY AppendProperties DEF Range
<1>. HIDE DEF b
<1>2. Range(b) = Range(s) \cup {e}
  BY <1>1 DEF Range
<1>3. Sorted(b)
  BY <1>1 DEF Sorted
<1>. QED
  BY <1>1, <1>2, <1>3 DEF b

-----------------------------------------------------------------------------
(* What holds of the places, and how a packet's move keeps it              *)

\* A packet is where its flow has to pass.
OnRoute == \A p \in Places : \A id \in In(p) : p = PlaceOn(input[id], p[1])
\* Of two packets of a flow the earlier is ahead.
FlowOrder == /\ \A p \in Places : Sorted(pipe[p])
             /\ \A p, q \in Places : \A x \in In(p), y \in In(q) :
                  p[1] > q[1] /\ FlowOf(x) = FlowOf(y) => x < y
PlaceInv == /\ input \in Captures /\ total \in 0 .. Len(input)
            /\ pipe \in [Places -> Seq(1 .. total)]
            /\ OnRoute /\ FlowOrder

LEMMA InputFacts ==
    ASSUME input \in Captures
    PROVE  /\ Len(input) \in Nat /\ DOMAIN input = 1 .. Len(input)
           /\ \A id \in 1 .. Len(input) :
                /\ input[id] \in [flow : Flows, payload : Payloads]
                /\ FlowOf(id) = input[id].flow /\ FlowOf(id) \in Flows
<1>. DEFINE Packets == [flow : Flows, payload : Payloads]
<1>1. input \in Seq(Packets)
  BY CapturesAssumption
<1>. HIDE DEF Packets
<1>2. /\ Len(input) \in Nat /\ DOMAIN input = 1 .. Len(input)
      /\ \A id \in 1 .. Len(input) : input[id] \in Packets
  BY <1>1
<1>3. \A p \in Packets : p.flow \in Flows
  BY DEF Packets
<1>. QED
  BY <1>2, <1>3 DEF FlowOf, Packets

LEMMA PlaceTypes ==
    ASSUME PlaceInv
    PROVE  /\ total \in Nat /\ total <= Len(input) /\ 1 .. total \subseteq Nat
           /\ \A p \in Places : /\ p[1] \in Nat /\ pipe[p] \in Seq(1 .. total)
                                /\ In(p) = Range(pipe[p]) /\ In(p) \subseteq 1 .. total
                                /\ Len(pipe[p]) \in Nat
<1>1. Len(input) \in Nat
  BY InputFacts DEF PlaceInv
<1>2. total \in Nat /\ total <= Len(input)
  BY <1>1 DEF PlaceInv
<1>. DEFINE T == 1 .. total
<1>3. \A p \in Places : pipe[p] \in Seq(T)
  BY DEF PlaceInv
<1>4. 1 .. total \subseteq Nat
  BY <1>2
<1>5. \A p \in Places : In(p) = Range(pipe[p])
  BY DEF In, Range
<1>6. \A p \in Places : p[1] \in Nat
  BY PlaceFacts
<1>. HIDE DEF T
<1>7. \A p \in Places : Range(pipe[p]) \subseteq T /\ Len(pipe[p]) \in Nat
  BY <1>3 DEF Range
<1>. QED
  BY <1>2, <1>3, <1>4, <1>5, <1>6, <1>7 DEF T

LEMMA OnePlace ==
    ASSUME PlaceInv, NEW p \in Places, NEW q \in Places, NEW x \in In(p), NEW y \in In(q)
    PROVE  /\ x = y => p = q
           /\ FlowOf(x) = FlowOf(y) /\ p[1] = q[1] => p = q
<1>1. x \in Nat /\ y \in Nat /\ p[1] \in Nat /\ q[1] \in Nat
  BY PlaceTypes
<1>2. p = PlaceOn(input[x], p[1]) /\ q = PlaceOn(input[y], q[1])
  BY DEF PlaceInv, OnRoute
<1>3. FlowOf(x) = FlowOf(y) /\ p[1] = q[1] => p = q
  BY <1>2, SameWay DEF FlowOf
<1>4. ~(x < y) /\ ~(y < x) /\ FlowOf(x) = FlowOf(y) => ~(p[1] > q[1]) /\ ~(q[1] > p[1])
  BY DEF PlaceInv, FlowOrder
<1>. QED
  BY <1>1, <1>3, <1>4

\* The oldest packet at a place.
LEMMA OldestFacts ==
    ASSUME PlaceInv, NEW a \in Places, pipe[a] # <<>>
    PROVE  /\ Oldest(a) \in In(a) /\ Oldest(a) \in 1 .. total
           /\ \A x \in In(a) : FlowOf(x) = FlowOf(Oldest(a)) => x = Oldest(a) \/ Oldest(a) < x
           /\ \A p \in Places : Oldest(a) \in In(p) => p = a
           /\ Tail(pipe[a]) \in Seq(1 .. total) /\ Len(Tail(pipe[a])) = Len(pipe[a]) - 1
           /\ Sorted(Tail(pipe[a])) /\ Range(Tail(pipe[a])) = In(a) \ {Oldest(a)}
<1>. DEFINE T == 1 .. total
<1>1. T \subseteq Nat /\ pipe[a] \in Seq(T) /\ In(a) = Range(pipe[a])
  BY PlaceTypes
<1>2. Sorted(pipe[a])
  BY DEF PlaceInv, FlowOrder
<1>. HIDE DEF T
<1>. DEFINE s == pipe[a]
<1>5. /\ Head(s) \in Range(s) /\ Range(s) \subseteq T
      /\ \A x \in Range(s) : FlowOf(x) = FlowOf(Head(s)) => x = Head(s) \/ Head(s) < x
      /\ Tail(s) \in Seq(T) /\ Len(Tail(s)) = Len(s) - 1
      /\ Sorted(Tail(s)) /\ Range(Tail(s)) = Range(s) \ {Head(s)}
  <2>1. s \in Seq(T) /\ s # <<>> /\ Sorted(s)
    BY <1>1, <1>2
  <2>. HIDE DEF s
  <2>. QED
    BY <1>1, <2>1, TakeFirst
<1>3. /\ Oldest(a) \in In(a) /\ Oldest(a) \in T
      /\ \A x \in In(a) : FlowOf(x) = FlowOf(Oldest(a)) => x = Oldest(a) \/ Oldest(a) < x
      /\ Tail(pipe[a]) \in Seq(T) /\ Len(Tail(pipe[a])) = Len(pipe[a]) - 1
      /\ Sorted(Tail(pipe[a])) /\ Range(Tail(pipe[a])) = In(a) \ {Oldest(a)}
  BY <1>1, <1>5 DEF Oldest
<1>4. \A p \in Places : Oldest(a) \in In(p) => p = a
  BY <1>3, OnePlace
<1>. QED
  BY <1>3, <1>4 DEF T

\* What a move does to the packets at each place, and what a removal does.
LEMMA MovedFacts ==
    ASSUME PlaceInv, NEW a \in Places, NEW b \in Places, a[1] < b[1], pipe[a] # <<>>,
           pipe' = Moved(a, b), UNCHANGED <<input, total>>
    PROVE  /\ pipe' \in [Places -> Seq(1 .. total)]
           /\ Len(pipe'[a]) = Len(pipe[a]) - 1 /\ Len(pipe'[b]) = Len(pipe[b]) + 1
           /\ In(a)' = In(a) \ {Oldest(a)} /\ In(b)' = In(b) \cup {Oldest(a)}
           /\ \A p \in Places : p # a /\ p # b => pipe'[p] = pipe[p] /\ In(p)' = In(p)
           /\ \A p \in Places : Sorted(pipe[p])'
<1>. DEFINE T == 1 .. total  h == Oldest(a)
<1>1. /\ h \in In(a) /\ h \in T
      /\ Tail(pipe[a]) \in Seq(T) /\ Len(Tail(pipe[a])) = Len(pipe[a]) - 1
      /\ Sorted(Tail(pipe[a])) /\ Range(Tail(pipe[a])) = In(a) \ {h}
  BY OldestFacts
<1>2. /\ pipe \in [Places -> Seq(T)] /\ pipe[b] \in Seq(T) /\ In(b) = Range(pipe[b])
      /\ a[1] \in Nat /\ b[1] \in Nat
  BY PlaceTypes DEF PlaceInv
<1>3. Sorted(pipe[b]) /\ \A p \in Places : Sorted(pipe[p])
  BY DEF PlaceInv, FlowOrder
<1>4. \A x \in In(b) : FlowOf(x) = FlowOf(h) => x < h
  BY <1>1, <1>2 DEF PlaceInv, FlowOrder
<1>5. pipe' = [pipe EXCEPT ![a] = Tail(@), ![b] = Append(@, h)] /\ a # b
  BY <1>2 DEF Moved, Oldest
<1>. HIDE DEF T, h
<1>6. /\ Append(pipe[b], h) \in Seq(T) /\ Len(Append(pipe[b], h)) = Len(pipe[b]) + 1
      /\ Sorted(Append(pipe[b], h)) /\ Range(Append(pipe[b], h)) = In(b) \cup {h}
  BY <1>1, <1>2, <1>3, <1>4, AddLast
<1>7. /\ pipe'[a] = Tail(pipe[a]) /\ pipe'[b] = Append(pipe[b], h)
      /\ \A p \in Places : p # a /\ p # b => pipe'[p] = pipe[p]
      /\ pipe' \in [Places -> Seq(T)]
  BY <1>1, <1>2, <1>5, <1>6
<1>8. \A s : Sorted(s) => Sorted(s)'
  BY DEF Sorted, FlowOf
<1>9. \A p \in Places : Sorted(pipe'[p])
  BY <1>1, <1>3, <1>6, <1>7
<1>10. \A p \in Places : Sorted(pipe[p])'
  BY <1>9 DEF Sorted, FlowOf
<1>11. \A p : In(p)' = Range(pipe'[p])
  BY DEF In, Range
<1>12. \A p \in Places : p # a /\ p # b => In(p)' = In(p)
  BY <1>7 DEF In
<1>. QED
  BY <1>1, <1>6, <1>7, <1>10, <1>11, <1>12 DEF T, h

LEMMA RemovedFacts ==
    ASSUME PlaceInv, NEW a \in Places, pipe[a] # <<>>,
           pipe' = Removed(a), UNCHANGED <<input, total>>
    PROVE  /\ pipe' \in [Places -> Seq(1 .. total)]
           /\ Len(pipe'[a]) = Len(pipe[a]) - 1
           /\ In(a)' = In(a) \ {Oldest(a)}
           /\ \A p \in Places : p # a => pipe'[p] = pipe[p] /\ In(p)' = In(p)
           /\ \A p \in Places : Sorted(pipe[p])'
<1>. DEFINE T == 1 .. total  h == Oldest(a)
<1>1. /\ Tail(pipe[a]) \in Seq(T) /\ Len(Tail(pipe[a])) = Len(pipe[a]) - 1
      /\ Sorted(Tail(pipe[a])) /\ Range(Tail(pipe[a])) = In(a) \ {h}
  BY OldestFacts
<1>2. pipe \in [Places -> Seq(T)] /\ pipe' = [pipe EXCEPT ![a] = Tail(@)]
  BY DEF Removed, PlaceInv
<1>3. \A p \in Places : Sorted(pipe[p])
  BY DEF PlaceInv, FlowOrder
<1>. HIDE DEF T, h
<1>4. /\ pipe'[a] = Tail(pipe[a]) /\ pipe' \in [Places -> Seq(T)]
      /\ \A p \in Places : p # a => pipe'[p] = pipe[p]
  BY <1>1, <1>2
<1>5. \A p \in Places : Sorted(pipe'[p])
  BY <1>1, <1>3, <1>4
<1>6. \A p \in Places : Sorted(pipe[p])'
  BY <1>5 DEF Sorted, FlowOf
<1>7. \A p : In(p)' = Range(pipe'[p])
  BY DEF In, Range
<1>8. \A p \in Places : p # a => In(p)' = In(p)
  BY <1>4 DEF In
<1>. QED
  BY <1>1, <1>4, <1>6, <1>7, <1>8 DEF T, h

\* The oldest packet of a goes to b, the next place on its way; or it leaves; or
\* the next packet of the capture enters at q; or all packets stay.
NextStage(s) == IF s = 5 THEN 7 ELSE s + 1
Advance(a, b) == /\ pipe[a] # <<>> /\ pipe' = Moved(a, b) /\ total' = total
                 /\ b[1] = NextStage(a[1]) /\ b = PlaceOn(input[Oldest(a)], b[1])
Leave(a) == pipe[a] # <<>> /\ pipe' = Removed(a) /\ total' = total
Enter(q) == /\ total < Len(input) /\ total' = total + 1
            /\ q = PlaceOn(input[total + 1], 1)
            /\ pipe' = [pipe EXCEPT ![q] = Append(@, total + 1)]
Stay == UNCHANGED <<pipe, total>>

LEMMA NoStageBetween ==
    ASSUME NEW a \in Places, NEW b \in Places, b[1] = NextStage(a[1])
    PROVE  a[1] < b[1] /\ \A p \in Places : p[1] <= a[1] \/ p[1] >= b[1]
BY PlaceFacts DEF NextStage

\* Where packets are after a move.
LEMMA AdvancePlaces ==
    ASSUME PlaceInv, NEW a \in Places, NEW b \in Places, Advance(a, b), input' = input
    PROVE  \A p \in Places : \A id :
             id \in In(p)' <=> \/ id = Oldest(a) /\ p = b
                               \/ id # Oldest(a) /\ id \in In(p)
<1>1. a[1] < b[1] /\ a[1] \in Nat
  BY NoStageBetween, PlaceTypes DEF Advance
<1>2. /\ In(a)' = In(a) \ {Oldest(a)} /\ In(b)' = In(b) \cup {Oldest(a)}
      /\ \A p \in Places : p # a /\ p # b => In(p)' = In(p)
  BY <1>1, MovedFacts DEF Advance
<1>3. \A p \in Places : Oldest(a) \in In(p) => p = a
  BY OldestFacts DEF Advance
<1>4. a # b
  BY <1>1
<1>. QED
  BY <1>2, <1>3, <1>4

LEMMA LeavePlaces ==
    ASSUME PlaceInv, NEW a \in Places, Leave(a), input' = input
    PROVE  \A p \in Places : \A id :
             id \in In(p)' <=> id # Oldest(a) /\ id \in In(p)
<1>1. /\ In(a)' = In(a) \ {Oldest(a)}
      /\ \A p \in Places : p # a => In(p)' = In(p)
  BY RemovedFacts DEF Leave
<1>2. \A p \in Places : Oldest(a) \in In(p) => p = a
  BY OldestFacts DEF Leave
<1>. QED
  BY <1>1, <1>2

LEMMA AdvanceKeepsOrder ==
    ASSUME PlaceInv, NEW a \in Places, NEW b \in Places, Advance(a, b), input' = input
    PROVE  PlaceInv'
<1>. DEFINE h == Oldest(a)
<1>1. /\ a[1] < b[1] /\ b = PlaceOn(input[h], b[1]) /\ total' = total
      /\ \A p \in Places : p[1] <= a[1] \/ p[1] >= b[1]
      /\ \A p \in Places : p[1] \in Nat
  BY NoStageBetween, PlaceTypes DEF Advance
<1>2. /\ pipe' \in [Places -> Seq(1 .. total)]
      /\ \A p \in Places : Sorted(pipe[p])'
  BY <1>1, MovedFacts DEF Advance
<1>3. /\ h \in In(a)
      /\ \A x \in In(a) : FlowOf(x) = FlowOf(h) => x = h \/ h < x
      /\ \A p \in Places : h \in In(p) => p = a
  BY OldestFacts DEF Advance
<1>5. \A p \in Places : \A x \in In(p)' : \/ x = h /\ p = b
                                          \/ x # h /\ x \in In(p)
  BY AdvancePlaces
<1>. HIDE DEF h
<1>6. \A x : FlowOf(x)' = FlowOf(x)
  BY DEF FlowOf
<1>7. OnRoute'
  <2>1. SUFFICES ASSUME NEW p \in Places, NEW x \in In(p)'
                 PROVE  p = PlaceOn(input[x], p[1])
    BY DEF OnRoute, PlaceOn, LBOf, FPOf
  <2>. QED
    BY <1>1, <1>5, <2>1 DEF PlaceInv, OnRoute
<1>8. FlowOrder'
  <2>1. SUFFICES ASSUME NEW p \in Places, NEW q \in Places,
                        NEW x \in In(p)', NEW y \in In(q)',
                        p[1] > q[1], FlowOf(x) = FlowOf(y)
                 PROVE  x < y
    BY <1>2, <1>6 DEF FlowOrder
  <2>2. CASE x = h /\ p = b
    <3>1. y # h /\ y \in In(q)
      BY <1>1, <1>5, <2>1, <2>2
    <3>2. CASE q[1] = a[1]
      BY <1>3, <2>1, <2>2, <3>1, <3>2, OnePlace
    <3>3. CASE q[1] < a[1]
      BY <1>1, <1>3, <2>1, <2>2, <3>1, <3>3 DEF PlaceInv, FlowOrder
    <3>. QED
      BY <1>1, <2>1, <2>2, <3>2, <3>3
  <2>3. CASE x # h /\ x \in In(p) /\ y = h /\ q = b
    <3>1. p[1] > a[1]
      BY <1>1, <2>1, <2>3
    <3>. QED
      BY <1>3, <2>1, <2>3, <3>1 DEF PlaceInv, FlowOrder
  <2>4. CASE x # h /\ x \in In(p) /\ y # h /\ y \in In(q)
    BY <2>1, <2>4 DEF PlaceInv, FlowOrder
  <2>. QED
    BY <1>5, <2>1, <2>2, <2>3, <2>4
<1>. QED
  BY <1>1, <1>2, <1>7, <1>8 DEF PlaceInv

LEMMA LeaveKeepsOrder ==
    ASSUME PlaceInv, NEW a \in Places, Leave(a), input' = input
    PROVE  PlaceInv'
<1>1. /\ pipe' \in [Places -> Seq(1 .. total)] /\ total' = total
      /\ In(a)' = In(a) \ {Oldest(a)}
      /\ \A p \in Places : p # a => In(p)' = In(p)
      /\ \A p \in Places : Sorted(pipe[p])'
  BY RemovedFacts DEF Leave
<1>2. \A p \in Places : \A x \in In(p)' : x \in In(p)
  BY <1>1
<1>3. OnRoute'
  <2>1. SUFFICES ASSUME NEW p \in Places, NEW x \in In(p)'
                 PROVE  p = PlaceOn(input[x], p[1])
    BY DEF OnRoute, PlaceOn, LBOf, FPOf
  <2>. QED
    BY <1>2, <2>1 DEF PlaceInv, OnRoute
<1>4. FlowOrder'
  <2>1. SUFFICES ASSUME NEW p \in Places, NEW q \in Places,
                        NEW x \in In(p)', NEW y \in In(q)',
                        p[1] > q[1], FlowOf(x) = FlowOf(y)
                 PROVE  x < y
    BY <1>1 DEF FlowOrder, FlowOf
  <2>. QED
    BY <1>2, <2>1 DEF PlaceInv, FlowOrder
<1>. QED
  BY <1>1, <1>3, <1>4 DEF PlaceInv

LEMMA EnterFacts ==
    ASSUME PlaceInv, NEW q \in Places, Enter(q), input' = input
    PROVE  /\ total' = total + 1 /\ total' \in 0 .. Len(input)
           /\ pipe' \in [Places -> Seq(1 .. total')]
           /\ Len(pipe'[q]) = Len(pipe[q]) + 1 /\ In(q)' = In(q) \cup {total + 1}
           /\ \A p \in Places : p # q => pipe'[p] = pipe[p] /\ In(p)' = In(p)
           /\ \A p \in Places : Sorted(pipe[p])'
<1>. DEFINE T == 1 .. total'  h == total + 1
<1>1. /\ total' = total + 1 /\ total \in Nat /\ total' \in 0 .. Len(input)
      /\ h \in T /\ 1 .. total \subseteq T
      /\ \A p \in Places : In(p) = Range(pipe[p]) /\ In(p) \subseteq 1 .. total
  BY PlaceTypes, InputFacts DEF Enter, PlaceInv
<1>2. \A p \in Places : pipe[p] \in Seq(T)
  <2>1. \A p \in Places : pipe[p] \in Seq(1 .. total)
    BY PlaceTypes
  <2>2. \A S, U : S \subseteq U => \A s \in Seq(S) : s \in Seq(U)
    OBVIOUS
  <2>. QED
    BY <1>1, <2>1, <2>2
<1>3. \A p \in Places : Sorted(pipe[p])
  BY DEF PlaceInv, FlowOrder
<1>4. \A x \in In(q) : x < h
  BY <1>1
<1>5. pipe' = [pipe EXCEPT ![q] = Append(@, h)] /\ pipe = [p \in Places |-> pipe[p]]
  BY DEF Enter, PlaceInv
<1>. HIDE DEF T, h
<1>6. /\ Append(pipe[q], h) \in Seq(T) /\ Len(Append(pipe[q], h)) = Len(pipe[q]) + 1
      /\ Sorted(Append(pipe[q], h)) /\ Range(Append(pipe[q], h)) = In(q) \cup {h}
  BY <1>1, <1>2, <1>3, <1>4, AddLast
<1>7. /\ pipe'[q] = Append(pipe[q], h)
      /\ \A p \in Places : p # q => pipe'[p] = pipe[p]
  BY <1>5
<1>8. pipe' \in [Places -> Seq(T)]
  BY <1>2, <1>5, <1>6
<1>9. \A p \in Places : Sorted(pipe'[p])
  BY <1>3, <1>6, <1>7
<1>10. \A p \in Places : Sorted(pipe[p])'
  BY <1>9 DEF Sorted, FlowOf
<1>11. In(q)' = Range(pipe'[q]) /\ \A p \in Places : p # q => In(p)' = In(p)
  BY <1>7 DEF In, Range
<1>. QED
  BY <1>1, <1>6, <1>7, <1>8, <1>10, <1>11 DEF T, h

LEMMA EnterKeepsOrder ==
    ASSUME PlaceInv, NEW q \in Places, Enter(q), q[1] = 1, input' = input
    PROVE  PlaceInv'
<1>. DEFINE h == total + 1
<1>1. /\ total' \in 0 .. Len(input)
      /\ pipe' \in [Places -> Seq(1 .. total')]
      /\ In(q)' = In(q) \cup {h}
      /\ \A p \in Places : p # q => In(p)' = In(p)
      /\ \A p \in Places : Sorted(pipe[p])'
  BY EnterFacts
<1>2. \A p \in Places : p[1] \in Nat /\ p[1] >= 1 /\ \A x \in In(p) : x < h /\ x # h
  <2>1. \A p \in Places : p[1] \in Nat /\ p[1] >= 1
    BY PlaceFacts
  <2>2. total \in Nat /\ \A p \in Places : In(p) \subseteq 1 .. total
    BY PlaceTypes
  <2>3. \A x \in 1 .. total : x < h /\ x # h
    BY <2>2
  <2>. QED
    BY <2>1, <2>2, <2>3
<1>3. q = PlaceOn(input[h], q[1])
  BY DEF Enter
<1>. HIDE DEF h
<1>4. \A p \in Places : \A x \in In(p)' : \/ x = h /\ p = q
                                          \/ x # h /\ x \in In(p)
  BY <1>1, <1>2
<1>5. OnRoute'
  <2>1. SUFFICES ASSUME NEW p \in Places, NEW x \in In(p)'
                 PROVE  p = PlaceOn(input[x], p[1])
    BY DEF OnRoute, PlaceOn, LBOf, FPOf
  <2>. QED
    BY <1>3, <1>4, <2>1 DEF PlaceInv, OnRoute
<1>6. FlowOrder'
  <2>1. SUFFICES ASSUME NEW p \in Places, NEW r \in Places,
                        NEW x \in In(p)', NEW y \in In(r)',
                        p[1] > r[1], FlowOf(x) = FlowOf(y)
                 PROVE  x < y
    BY <1>1 DEF FlowOrder, FlowOf
  <2>2. x \in In(p)
    BY <1>2, <1>4, <2>1
  <2>. QED
    BY <1>2, <1>4, <2>1, <2>2 DEF PlaceInv, FlowOrder
<1>. QED
  BY <1>1, <1>5, <1>6 DEF PlaceInv

LEMMA StayKeepsOrder == PlaceInv /\ Stay /\ input' = input => PlaceInv'
BY DEF PlaceInv, Stay, OnRoute, FlowOrder, Sorted, In, FlowOf, PlaceOn, LBOf, FPOf

-----------------------------------------------------------------------------
(* The stop sequence, and the steps seen from the pipe                     *)

\* Workers are stopped one after the other: those before the main thread's
\* position have ended, and no queue behind it is shut down.
StopInv ==
    /\ step = "read" => at = 0 /\ shut = {} /\ \A w \in Workers : running[w]
    /\ \A i \in 0 .. at - 1 : Worker(i) \in ended
    /\ step = "done" => at = NumWorkers - 1 /\ Worker(at) \in ended
    /\ \A w \in Workers : InputOf(w) \in shut \/ ~running[w] \/ w \in ended =>
         \E i \in 0 .. at : w = Worker(i) /\ (step = "stop" => i < at)
    /\ \A w \in ended : ~running[w]
    /\ Output \in ended => pipe[OutQueue] = <<>>

\* While a worker has not ended, those behind it run and their queues are open.
LEMMA BehindRuns ==
    ASSUME TypeOK, StopInv, NEW w \in Workers, w \notin ended,
           NEW v \in Workers, w[1] < v[1]
    PROVE  InputOf(v) \notin shut /\ running[v] /\ v \notin ended
<1>1. SUFFICES ASSUME InputOf(v) \in shut \/ ~running[v] \/ v \in ended PROVE FALSE
  OBVIOUS
<1>2. PICK i \in 0 .. at : v = Worker(i)
  BY <1>1 DEF StopInv
<1>3. PICK k \in 0 .. NumWorkers - 1 : w = Worker(k)
  BY WorkerOrder
<1>4. at \in 0 .. NumWorkers - 1 /\ NumWorkers \in Nat
  BY CountTypes DEF TypeOK
<1>5. k < i
  BY <1>2, <1>3, <1>4, WorkerOrder
<1>6. k \in 0 .. at - 1
  BY <1>2, <1>4, <1>5
<1>. QED
  BY <1>3, <1>6 DEF StopInv

\* A packet in the hands of a worker says that the worker has not ended.
LEMMA HandsFull ==
    ASSUME TypeOK, PlaceInv, NEW w \in Workers \ {Output}, pipe[w] # <<>>
    PROVE  w \notin ended
<1>1. w \in Places
  BY PlaceFacts
<1>2. pipe[w] \in Seq(1 .. total)
  BY <1>1, PlaceTypes
<1>3. Len(pipe[w]) # 0 /\ Len(pipe[w]) \in Nat
  BY <1>2
<1>. QED
  BY <1>3 DEF TypeOK

\* A pop takes a packet to the next place of its flow.
LEMMA PopAdvances ==
    ASSUME PlaceInv, NEW w \in Workers \ {Output}, pipe[InputOf(w)] # <<>>,
           pipe' = Moved(InputOf(w), w), total' = total
    PROVE  Advance(InputOf(w), w)
<1>. DEFINE q == InputOf(w)  p == input[Oldest(q)]
<1>1. q \in Places /\ q[1] = w[1] - 1 /\ w[1] \in {2, 4}
  BY PlaceFacts
<1>2. q = PlaceOn(p, q[1])
  BY <1>1, OldestFacts DEF PlaceInv, OnRoute
<1>3. w = PlaceOn(p, w[1])
  <2>. HIDE DEF p
  <2>1. ASSUME NEW l \in LBIds, w = LB(l) PROVE w = PlaceOn(p, w[1])
    <3>1. LBQueue(l) = LBQueue(LBOf(p))
      BY <1>2, <2>1, PlaceFacts DEF PlaceOn
    <3>. QED
      BY <2>1, <3>1, PlaceFacts DEF PlaceOn, LB, LBQueue
  <2>2. ASSUME NEW f \in FPIds, w = FP(f) PROVE w = PlaceOn(p, w[1])
    <3>1. FPQueue(f) = FPQueue(FPOf(p))
      BY <1>2, <2>2, PlaceFacts DEF PlaceOn
    <3>. QED
      BY <2>2, <3>1, PlaceFacts DEF PlaceOn, FP, FPQueue
  <2>. QED
    BY <2>1, <2>2 DEF Workers
<1>. QED
  BY <1>1, <1>3 DEF Advance, NextStage

\* A step does one of four things to the pipe; only a fast path's turn changes
\* what is counted.
PipeStep ==
    /\ UNCHANGED <<rules, input>>
    /\ \/ Stay /\ UNCHANGED flowVars
       \/ \E q \in Places : Enter(q) /\ q[1] = 1 /\ UNCHANGED flowVars
       \/ \E a, b \in Places : Advance(a, b) /\ a[1] # 3 /\ UNCHANGED flowVars
       \/ \E f \in FPIds : /\ FPProcess(f)
                           /\ Advance(FPQueue(f), FP(f)) \/ Leave(FPQueue(f))

LEMMA ReadPacketEnters ==
    ASSUME TypeOK, PlaceInv, StopInv, ReadPacket
    PROVE  LET q == LBQueue(LBOf(input[total + 1]))
           IN q \in Queues /\ q[1] = 1 /\ Enter(q) /\ Len(pipe[q]) < Capacity
<1>. DEFINE p == input[total + 1]  q == LBQueue(LBOf(p))
<1>1. total + 1 \in 1 .. Len(input)
  BY PlaceTypes, InputFacts DEF ReadPacket, PlaceInv
<1>2. p.flow \in Flows
  BY <1>1, InputFacts DEF PlaceInv
<1>3. LBOf(p) \in LBIds
  BY <1>2, RoutingType
<1>4. q \in Queues /\ q[1] = 1
  BY <1>3, PlaceFacts
<1>5. q = PlaceOn(p, 1)
  BY DEF PlaceOn
<1>6. Len(pipe[q]) < Capacity
  BY DEF ReadPacket, Room, StopInv
<1>. QED
  BY <1>4, <1>5, <1>6 DEF Enter, ReadPacket

LEMMA LBPushAdvances ==
    ASSUME TypeOK, PlaceInv, StopInv, NEW l \in LBIds, LBPush(l)
    PROVE  LET q == FPQueue(FPOf(input[Oldest(LB(l))]))
           IN q \in Queues /\ q[1] = 3 /\ Advance(LB(l), q) /\ Len(pipe[q]) < Capacity
<1>. DEFINE p == input[Oldest(LB(l))]  q == FPQueue(FPOf(p))
<1>1. /\ LB(l) \in Workers \ {Output} /\ LB(l) \in Places /\ LB(l)[1] = 2
      /\ pipe[LB(l)] # <<>>
  BY PlaceFacts DEF LBPush
<1>2. LB(l) \notin ended
  BY <1>1, HandsFull
<1>3. p.flow \in Flows
  BY <1>1, OldestFacts, PlaceTypes, InputFacts DEF PlaceInv
<1>4. FPOf(p) \in FPIds
  BY <1>3, RoutingType
<1>5. /\ q \in Queues /\ q[1] = 3 /\ q = InputOf(FP(FPOf(p)))
      /\ FP(FPOf(p)) \in Workers /\ FP(FPOf(p))[1] = 4
  BY <1>4, PlaceFacts
<1>6. q \notin shut
  BY <1>1, <1>2, <1>5, BehindRuns
<1>7. Len(pipe[q]) < Capacity /\ pipe' = Moved(LB(l), q)
  BY <1>6 DEF LBPush, Room, Pushed
<1>8. q = PlaceOn(p, q[1])
  BY <1>5 DEF PlaceOn
<1>. QED
  BY <1>1, <1>5, <1>7, <1>8 DEF Advance, NextStage, LBPush

LEMMA FPPushAdvances ==
    ASSUME TypeOK, PlaceInv, StopInv, NEW f \in FPIds, FPPush(f)
    PROVE  Advance(FP(f), OutQueue) /\ Len(pipe[OutQueue]) < Capacity /\ Output \notin ended
<1>1. /\ FP(f) \in Workers \ {Output} /\ FP(f) \in Places /\ FP(f)[1] = 4
      /\ pipe[FP(f)] # <<>>
  BY PlaceFacts DEF FPPush
<1>2. FP(f) \notin ended
  BY <1>1, HandsFull
<1>3. OutQueue \notin shut /\ Output \notin ended
  BY <1>1, <1>2, BehindRuns, PlaceFacts
<1>4. Len(pipe[OutQueue]) < Capacity /\ pipe' = Moved(FP(f), OutQueue)
  BY <1>3 DEF FPPush, Room, Pushed
<1>5. OutQueue[1] = 5 /\ OutQueue = PlaceOn(input[Oldest(FP(f))], 5)
  BY PlaceFacts DEF PlaceOn
<1>. QED
  BY <1>1, <1>3, <1>4, <1>5 DEF Advance, NextStage, FPPush

LEMMA OutputWriteAdvances ==
    ASSUME OutputWrite
    PROVE  Advance(OutQueue, File)
<1>1. OutQueue[1] = 5 /\ File[1] = 7 /\ File = PlaceOn(input[Oldest(OutQueue)], 7)
  BY PlaceFacts DEF PlaceOn
<1>. QED
  BY <1>1 DEF Advance, NextStage, OutputWrite

LEMMA FPProcessMoves ==
    ASSUME PlaceInv, NEW f \in FPIds, FPProcess(f)
    PROVE  /\ Advance(FPQueue(f), FP(f)) \/ Leave(FPQueue(f))
           /\ pipe' = Moved(FPQueue(f), FP(f)) \/ pipe' = Removed(FPQueue(f))
           /\ pipe[FPQueue(f)] # <<>> /\ pipe[FP(f)] = <<>> /\ running[FP(f)]
           /\ FPQueue(f) \in Queues /\ FP(f) \in Workers \ {Output}
<1>1. FP(f) \in Workers \ {Output} /\ InputOf(FP(f)) = FPQueue(f) /\ FPQueue(f) \in Queues
  BY PlaceFacts
<1>2. /\ pipe[FPQueue(f)] # <<>> /\ pipe[FP(f)] = <<>> /\ running[FP(f)] /\ total' = total
      /\ pipe' = Moved(FPQueue(f), FP(f)) \/ pipe' = Removed(FPQueue(f))
  BY <1>1 DEF FPProcess, CanPop
<1>3. CASE pipe' = Moved(FPQueue(f), FP(f))
  BY <1>1, <1>2, <1>3, PopAdvances
<1>4. CASE pipe' = Removed(FPQueue(f))
  BY <1>1, <1>2, <1>4 DEF Leave
<1>. QED
  BY <1>1, <1>2, <1>3, <1>4

LEMMA NextPipe ==
    ASSUME TypeOK, PlaceInv, StopInv, [Next]_vars
    PROVE  PipeStep
<1>. USE DEF PipeStep
<1>1. ASSUME UNCHANGED <<rules, input, pipe, total, flowVars>> PROVE PipeStep
  BY <1>1 DEF Stay
<1>2. ASSUME NEW l \in LBIds, LBNext(l) PROVE PipeStep
  <2>1. /\ LB(l) \in Workers \ {Output} /\ LB(l) \in Places /\ LB(l)[1] = 2
        /\ InputOf(LB(l)) = LBQueue(l) /\ LBQueue(l) \in Places /\ LBQueue(l)[1] = 1
    BY PlaceFacts
  <2>2. CASE LBPop(l)
    <3>1. Advance(LBQueue(l), LB(l))
      BY <2>1, <2>2, PopAdvances DEF LBPop, CanPop
    <3>. QED
      BY <2>1, <2>2, <3>1 DEF LBPop
  <2>3. CASE LBPush(l)
    <3>1. \E q \in Places : Advance(LB(l), q)
      BY <2>3, LBPushAdvances, PlaceFacts
    <3>. QED
      BY <2>1, <2>3, <3>1 DEF LBPush
  <2>4. CASE End(LB(l))
    BY <1>1, <2>4 DEF End
  <2>. QED
    BY <1>2, <2>2, <2>3, <2>4 DEF LBNext
<1>3. ASSUME NEW f \in FPIds, FPNext(f) PROVE PipeStep
  <2>1. CASE FPProcess(f)
    <3>1. UNCHANGED <<rules, input>>
      BY <2>1 DEF FPProcess
    <3>. QED
      BY <2>1, <3>1, FPProcessMoves
  <2>2. CASE FPPush(f)
    <3>1. Advance(FP(f), OutQueue)
      BY <2>2, FPPushAdvances
    <3>2. FP(f) \in Places /\ FP(f)[1] = 4 /\ OutQueue \in Places
      BY PlaceFacts
    <3>. QED
      BY <2>2, <3>1, <3>2 DEF FPPush
  <2>3. CASE End(FP(f))
    BY <1>1, <2>3 DEF End
  <2>. QED
    BY <1>3, <2>1, <2>2, <2>3 DEF FPNext
<1>4. CASE OutputNext
  <2>1. CASE OutputWrite
    <3>1. OutQueue \in Places /\ File \in Places /\ OutQueue[1] = 5
      BY PlaceFacts
    <3>. QED
      BY <2>1, <3>1, OutputWriteAdvances DEF OutputWrite
  <2>2. CASE End(Output)
    BY <1>1, <2>2 DEF End
  <2>. QED
    BY <1>4, <2>1, <2>2 DEF OutputNext
<1>5. CASE MainNext
  <2>1. CASE ReadPacket
    <3>1. \E q \in Places : Enter(q) /\ q[1] = 1
      BY <2>1, ReadPacketEnters, PlaceFacts
    <3>. QED
      BY <2>1, <3>1 DEF ReadPacket
  <2>2. CASE EndOfCapture \/ Stop \/ Join
    BY <1>1, <2>2 DEF EndOfCapture, Stop, Join
  <2>. QED
    BY <1>5, <2>1, <2>2 DEF MainNext
<1>6. CASE UNCHANGED vars
  BY <1>1, <1>6 DEF vars, flowVars
<1>. QED
  BY <1>2, <1>3, <1>4, <1>5, <1>6 DEF Next, PopNothing, Returned

LEMMA NextPlace ==
    ASSUME TypeOK, PlaceInv, StopInv, [Next]_vars
    PROVE  PlaceInv'
<1>1. PipeStep
  BY NextPipe
<1>2. \A f \in FPIds : FPQueue(f) \in Places /\ FP(f) \in Places
  BY PlaceFacts
<1>. QED
  BY <1>1, <1>2, AdvanceKeepsOrder, LeaveKeepsOrder, EnterKeepsOrder, StayKeepsOrder
  DEF PipeStep

-----------------------------------------------------------------------------
(* Type correctness                                                        *)

\* The type invariant in two parts: how full the places are, and the rest.
Fill == /\ \A q \in Queues : Len(pipe[q]) <= Capacity
        /\ \A w \in Workers \ {Output} : Len(pipe[w]) <= IF w \in ended THEN 0 ELSE 1
Control == /\ rules \in RuleSets
           /\ running \in [Workers -> BOOLEAN]
           /\ ended \subseteq Workers /\ shut \subseteq Queues
           /\ step \in {"read", "stop", "join", "done"} /\ at \in 0 .. NumWorkers - 1
           /\ dropped \subseteq 1 .. total /\ forwarded \subseteq 1 .. total

LEMMA TypeParts == PlaceInv => (TypeOK <=> Fill /\ Control)
BY DEF TypeOK, Fill, Control, PlaceInv

\* A move fills no place too much that had room.
LEMMA MoveKeepsFill ==
    ASSUME TypeOK, PlaceInv, NEW a \in Places, NEW b \in Places, Advance(a, b),
           UNCHANGED <<input, ended>>,
           b \in Queues => Len(pipe[b]) < Capacity,
           b \in Workers => b \notin ended /\ Len(pipe[b]) = 0
    PROVE  Fill'
<1>1. /\ Len(pipe'[a]) = Len(pipe[a]) - 1 /\ Len(pipe'[b]) = Len(pipe[b]) + 1
      /\ \A p \in Places : p # a /\ p # b => pipe'[p] = pipe[p]
  BY NoStageBetween, MovedFacts DEF Advance
<1>2. /\ \A p \in Places : Len(pipe[p]) \in Nat
      /\ Capacity \in Nat
      /\ \A w \in Workers \ {Output} : w \in Places /\ w \notin Queues
      /\ \A q \in Queues : q \in Places
  BY PlaceTypes, SizesAssumption, PlaceFacts, PlacesApart
<1>3. \A q \in Queues : Len(pipe'[q]) <= Capacity
  <2>1. SUFFICES ASSUME NEW q \in Queues PROVE Len(pipe'[q]) <= Capacity
    OBVIOUS
  <2>2. Len(pipe[q]) <= Capacity /\ Len(pipe[q]) \in Nat
    BY <1>2 DEF TypeOK
  <2>. QED
    BY <1>1, <1>2, <2>2
<1>4. \A w \in Workers \ {Output} : Len(pipe'[w]) <= IF w \in ended THEN 0 ELSE 1
  <2>1. SUFFICES ASSUME NEW w \in Workers \ {Output}
                 PROVE  Len(pipe'[w]) <= IF w \in ended THEN 0 ELSE 1
    OBVIOUS
  <2>2. Len(pipe[w]) <= (IF w \in ended THEN 0 ELSE 1) /\ Len(pipe[w]) \in Nat
    BY <1>2 DEF TypeOK
  <2>. QED
    BY <1>1, <1>2, <2>2
<1>. QED
  BY <1>3, <1>4 DEF Fill

LEMMA LeaveKeepsFill ==
    ASSUME TypeOK, PlaceInv, NEW a \in Places, Leave(a), UNCHANGED <<input, ended>>
    PROVE  Fill'
<1>1. /\ Len(pipe'[a]) = Len(pipe[a]) - 1
      /\ \A p \in Places : p # a => pipe'[p] = pipe[p]
  BY RemovedFacts DEF Leave
<1>2. /\ \A p \in Places : Len(pipe[p]) \in Nat
      /\ Capacity \in Nat
      /\ \A w \in Workers \ {Output} : w \in Places
      /\ \A q \in Queues : q \in Places
  BY PlaceTypes, SizesAssumption, PlaceFacts
<1>3. \A q \in Queues : Len(pipe'[q]) <= Capacity
  <2>1. SUFFICES ASSUME NEW q \in Queues PROVE Len(pipe'[q]) <= Capacity
    OBVIOUS
  <2>2. Len(pipe[q]) <= Capacity /\ Len(pipe[q]) \in Nat
    BY <1>2 DEF TypeOK
  <2>. QED
    BY <1>1, <1>2, <2>2
<1>4. \A w \in Workers \ {Output} : Len(pipe'[w]) <= IF w \in ended THEN 0 ELSE 1
  <2>1. SUFFICES ASSUME NEW w \in Workers \ {Output}
                 PROVE  Len(pipe'[w]) <= IF w \in ended THEN 0 ELSE 1
    OBVIOUS
  <2>2. Len(pipe[w]) <= (IF w \in ended THEN 0 ELSE 1) /\ Len(pipe[w]) \in Nat
    BY <1>2 DEF TypeOK
  <2>. QED
    BY <1>1, <1>2, <2>2
<1>. QED
  BY <1>3, <1>4 DEF Fill

LEMMA EnterKeepsFill ==
    ASSUME TypeOK, PlaceInv, NEW q \in Queues, Enter(q), Len(pipe[q]) < Capacity,
           UNCHANGED <<input, ended>>
    PROVE  Fill'
<1>1. q \in Places
  BY PlaceFacts
<1>2. /\ Len(pipe'[q]) = Len(pipe[q]) + 1
      /\ \A p \in Places : p # q => pipe'[p] = pipe[p]
  BY <1>1, EnterFacts
<1>3. /\ Len(pipe[q]) \in Nat /\ Capacity \in Nat
      /\ \A w \in Workers \ {Output} : w \in Places /\ w # q
      /\ \A r \in Queues : r \in Places
  BY <1>1, PlaceTypes, SizesAssumption, PlaceFacts, PlacesApart
<1>. QED
  BY <1>2, <1>3 DEF TypeOK, Fill

\* A turn of a fast path puts a packet into its hands, or drops it.
LEMMA FPProcessKeepsFill ==
    ASSUME TypeOK, PlaceInv, StopInv, NEW f \in FPIds, FPProcess(f)
    PROVE  Fill'
<1>1. /\ Advance(FPQueue(f), FP(f)) \/ Leave(FPQueue(f))
      /\ pipe[FP(f)] = <<>> /\ running[FP(f)] /\ UNCHANGED <<input, ended>>
      /\ FPQueue(f) \in Queues /\ FP(f) \in Workers \ {Output}
  BY FPProcessMoves DEF FPProcess
<1>2. FPQueue(f) \in Places /\ FP(f) \in Places /\ FP(f) \notin Queues
  BY <1>1, PlaceFacts, PlacesApart
<1>3. FP(f) \notin ended
  BY <1>1 DEF StopInv
<1>. QED
  BY <1>1, <1>2, <1>3, MoveKeepsFill, LeaveKeepsFill

\* The variables of the main thread and of the workers' loops keep their types.
LEMMA NextControl ==
    ASSUME TypeOK, PlaceInv, StopInv, [Next]_vars
    PROVE  Control'
<1>1. total \in Nat /\ total' \in {total, total + 1}
  BY PlaceTypes, NextPipe DEF PipeStep, Stay, Enter, Advance, Leave
<1>2. 1 .. total \subseteq 1 .. total'
  BY <1>1
<1>3. UNCHANGED <<rules>>
  BY NextPipe DEF PipeStep
<1>4. /\ dropped' \subseteq 1 .. total' /\ forwarded' \subseteq 1 .. total'
  <2>1. dropped \subseteq 1 .. total /\ forwarded \subseteq 1 .. total
    BY DEF TypeOK
  <2>2. CASE UNCHANGED <<dropped, forwarded>>
    BY <1>2, <2>1, <2>2
  <2>3. ASSUME NEW f \in FPIds, FPProcess(f)
        PROVE  dropped' \subseteq 1 .. total' /\ forwarded' \subseteq 1 .. total'
    <3>1. Oldest(FPQueue(f)) \in 1 .. total
      BY <2>3, FPProcessMoves, OldestFacts, PlaceFacts
    <3>2. dropped' \subseteq 1 .. total /\ forwarded' \subseteq 1 .. total
      BY <2>1, <2>3, <3>1 DEF FPProcess
    <3>. QED
      BY <1>2, <3>2
  <2>. QED
    BY <2>2, <2>3, NextPipe DEF PipeStep, flowVars
<1>. DEFINE Loops == /\ running \in [Workers -> BOOLEAN]
                     /\ ended \subseteq Workers /\ shut \subseteq Queues
                     /\ step \in {"read", "stop", "join", "done"}
                     /\ at \in 0 .. NumWorkers - 1
<1>5. Loops'
  <2>1. Loops
    BY DEF TypeOK
  <2>2. ASSUME UNCHANGED <<running, ended, shut, step, at>> PROVE Loops'
    BY <2>1, <2>2
  <2>3. ASSUME NEW w \in Workers, End(w) PROVE Loops'
    BY <2>1, <2>3 DEF End
  <2>4. CASE EndOfCapture
    BY <2>1, <2>4 DEF EndOfCapture
  <2>5. CASE Stop
    <3>1. Worker(at) \in Workers /\ InputOf(Worker(at)) \in Queues
      BY <2>1, WorkerOrder, PlaceFacts
    <3>. QED
      BY <2>1, <2>5, <3>1 DEF Stop
  <2>6. CASE Join
    BY <2>1, <2>6, CountTypes DEF Join
  <2>7. ASSUME NEW l \in LBIds, LBNext(l) PROVE Loops'
    <3>1. CASE End(LB(l))
      BY <2>3, <3>1, PlaceFacts
    <3>2. CASE LBPop(l) \/ LBPush(l)
      BY <2>2, <3>2 DEF LBPop, LBPush
    <3>. HIDE DEF Loops
    <3>. QED
      BY <2>7, <3>1, <3>2 DEF LBNext
  <2>8. ASSUME NEW f \in FPIds, FPNext(f) PROVE Loops'
    <3>1. CASE End(FP(f))
      BY <2>3, <3>1, PlaceFacts
    <3>2. CASE FPProcess(f) \/ FPPush(f)
      BY <2>2, <3>2 DEF FPProcess, FPPush
    <3>. HIDE DEF Loops
    <3>. QED
      BY <2>8, <3>1, <3>2 DEF FPNext
  <2>9. CASE OutputNext
    <3>1. CASE End(Output)
      BY <2>3, <3>1, PlaceFacts
    <3>2. CASE OutputWrite
      BY <2>2, <3>2 DEF OutputWrite
    <3>. HIDE DEF Loops
    <3>. QED
      BY <2>9, <3>1, <3>2 DEF OutputNext
  <2>10. CASE ReadPacket
    BY <2>2, <2>10 DEF ReadPacket
  <2>11. CASE UNCHANGED vars
    BY <2>2, <2>11 DEF vars
  <2>. HIDE DEF Loops
  <2>. QED
    BY <2>4, <2>5, <2>6, <2>7, <2>8, <2>9, <2>10, <2>11
    DEF Next, MainNext, PopNothing, Returned
<1>. QED
  BY <1>3, <1>4, <1>5 DEF Control, TypeOK

LEMMA NextFill ==
    ASSUME TypeOK, PlaceInv, StopInv, [Next]_vars
    PROVE  Fill'
<1>1. ASSUME UNCHANGED pipe, ended \subseteq ended',
             \A w \in ended' \ ended : w \in Workers /\ (w # Output => pipe[w] = <<>>)
      PROVE  Fill'
  <2>1. \A w \in Workers \ {Output} : Len(pipe[w]) <= IF w \in ended' THEN 0 ELSE 1
    <3>1. \A w \in Workers \ {Output} : pipe[w] = <<>> => Len(pipe[w]) = 0
      OBVIOUS
    <3>. QED
      BY <1>1, <3>1 DEF TypeOK
  <2>. QED
    BY <1>1, <2>1 DEF TypeOK, Fill
<1>2. ASSUME NEW w \in Workers, End(w) PROVE Fill'
  <2>1. w # Output => pipe[w] = <<>>
    BY <1>2 DEF End, Leaves
  <2>. QED
    BY <1>1, <1>2, <2>1 DEF End
<1>3. ASSUME NEW l \in LBIds, LBNext(l) PROVE Fill'
  <2>1. /\ LB(l) \in Workers \ {Output} /\ LB(l) \in Places /\ LB(l) \notin Queues
        /\ InputOf(LB(l)) = LBQueue(l) /\ LBQueue(l) \in Places
    BY PlaceFacts, PlacesApart
  <2>2. CASE LBPop(l)
    <3>1. Advance(LBQueue(l), LB(l))
      BY <2>1, <2>2, PopAdvances DEF LBPop, CanPop
    <3>2. LB(l) \notin ended /\ Len(pipe[LB(l)]) = 0
      BY <2>2 DEF LBPop, CanPop, StopInv
    <3>. QED
      BY <2>1, <2>2, <3>1, <3>2, MoveKeepsFill DEF LBPop
  <2>3. CASE LBPush(l)
    <3>1. PICK q \in Queues : Advance(LB(l), q) /\ Len(pipe[q]) < Capacity
      BY <2>3, LBPushAdvances
    <3>2. q \in Places /\ UNCHANGED <<input, ended>>
      BY <2>3, PlaceFacts DEF LBPush
    <3>3. q \notin Workers
      BY PlaceFacts
    <3>. QED
      BY <2>1, <3>1, <3>2, <3>3, MoveKeepsFill
  <2>. QED
    BY <1>2, <1>3, <2>1, <2>2, <2>3 DEF LBNext
<1>4. ASSUME NEW f \in FPIds, FPNext(f) PROVE Fill'
  <2>1. FP(f) \in Workers \ {Output} /\ FP(f) \in Places
    BY PlaceFacts
  <2>2. CASE FPPush(f)
    <3>1. Advance(FP(f), OutQueue) /\ Len(pipe[OutQueue]) < Capacity
      BY <2>2, FPPushAdvances
    <3>2. OutQueue \in Places /\ OutQueue \notin Workers
      BY PlaceFacts
    <3>. QED
      BY <2>1, <2>2, <3>1, <3>2, MoveKeepsFill DEF FPPush
  <2>. QED
    BY <1>2, <1>4, <2>1, <2>2, FPProcessKeepsFill DEF FPNext
<1>5. CASE OutputNext
  <2>1. CASE OutputWrite
    <3>1. /\ OutQueue \in Places /\ File \in Places
          /\ File \notin Queues /\ File \notin Workers
      BY PlaceFacts
    <3>. QED
      BY <2>1, <3>1, OutputWriteAdvances, MoveKeepsFill DEF OutputWrite
  <2>. QED
    BY <1>2, <1>5, <2>1, PlaceFacts DEF OutputNext
<1>6. CASE MainNext
  <2>1. CASE ReadPacket
    <3>1. \E q \in Queues : Enter(q) /\ Len(pipe[q]) < Capacity
      BY <2>1, ReadPacketEnters
    <3>. QED
      BY <2>1, <3>1, EnterKeepsFill DEF ReadPacket
  <2>2. CASE EndOfCapture \/ Stop \/ Join
    BY <1>1, <2>2 DEF EndOfCapture, Stop, Join
  <2>. QED
    BY <1>6, <2>1, <2>2 DEF MainNext
<1>7. CASE UNCHANGED vars
  BY <1>1, <1>7 DEF vars
<1>. QED
  BY <1>3, <1>4, <1>5, <1>6, <1>7 DEF Next, PopNothing, Returned

LEMMA NextTypes ==
    ASSUME TypeOK, PlaceInv, StopInv, [Next]_vars
    PROVE  TypeOK'
BY NextControl, NextFill, NextPlace DEF TypeOK, Fill, Control, PlaceInv

\* The stop sequence goes on in order.
LEMMA InputOfApart ==
    \A v, w \in Workers : InputOf(v) = InputOf(w) => v = w
BY DEF Workers, InputOf, LB, FP, Output

LEMMA NextStop ==
    ASSUME TypeOK, PlaceInv, StopInv, [Next]_vars
    PROVE  StopInv'
<1>1. ASSUME UNCHANGED <<running, ended, shut, step, at>>,
             Output \in ended => pipe'[OutQueue] = pipe[OutQueue]
      PROVE  StopInv'
  BY <1>1 DEF StopInv
<1>2. at \in 0 .. NumWorkers - 1 /\ at \in Nat /\ NumWorkers \in Nat
  BY CountTypes DEF TypeOK
<1>3. ASSUME NEW w \in Workers, End(w) PROVE StopInv'
  <2>1. /\ ended' = ended \cup {w} /\ ~running[w]
        /\ UNCHANGED <<pipe, running, shut, step, at>>
        /\ w = Output => pipe[OutQueue] = <<>>
    BY <1>3 DEF End, Leaves
  <2>. QED
    BY <2>1 DEF StopInv
<1>4. CASE EndOfCapture
  BY <1>2, <1>4 DEF EndOfCapture, StopInv
<1>5. CASE Stop
  <2>1. /\ running' = [running EXCEPT ![Worker(at)] = FALSE]
        /\ shut' = shut \cup {InputOf(Worker(at))} /\ step = "stop" /\ step' = "join"
        /\ UNCHANGED <<pipe, ended, at>>
    BY <1>5 DEF Stop
  <2>2. Worker(at) \in Workers
    BY <1>2, WorkerOrder
  <2>3. \A w \in Workers : InputOf(w) \in shut' \/ ~running'[w] \/ w \in ended' =>
          \E i \in 0 .. at' : w = Worker(i)
    <3>1. SUFFICES ASSUME NEW w \in Workers,
                          InputOf(w) \in shut' \/ ~running'[w] \/ w \in ended'
                   PROVE  \E i \in 0 .. at' : w = Worker(i)
      OBVIOUS
    <3>2. CASE w = Worker(at)
      BY <1>2, <2>1, <3>2
    <3>3. CASE w # Worker(at)
      <4>1. InputOf(w) \in shut \/ ~running[w] \/ w \in ended
        BY <2>1, <2>2, <3>1, <3>3, InputOfApart DEF TypeOK
      <4>. QED
        BY <2>1, <4>1 DEF StopInv
    <3>. QED
      BY <3>2, <3>3
  <2>4. \A w \in ended' : ~running'[w]
    BY <2>1 DEF StopInv, TypeOK
  <2>. QED
    BY <2>1, <2>3, <2>4 DEF StopInv
<1>6. CASE Join
  <2>1. /\ step = "join" /\ Worker(at) \in ended
        /\ UNCHANGED <<pipe, running, ended, shut>>
        /\ \/ at < NumWorkers - 1 /\ step' = "stop" /\ at' = at + 1
           \/ at = NumWorkers - 1 /\ step' = "done" /\ at' = at
    BY <1>2, <1>6 DEF Join
  <2>2. \A i \in 0 .. at' - 1 : i \in 0 .. at - 1 \/ i = at
    BY <1>2, <2>1
  <2>3. \A i \in 0 .. at' - 1 : Worker(i) \in ended'
    BY <2>1, <2>2 DEF StopInv
  <2>4. \A i \in 0 .. at : i \in 0 .. at' /\ (step' = "stop" => i < at')
    BY <1>2, <2>1
  <2>. QED
    BY <2>1, <2>3, <2>4 DEF StopInv
<1>7. ASSUME NEW l \in LBIds, LBPop(l) \/ LBPush(l) PROVE StopInv'
  <2>1. LB(l) \in Places /\ LB(l) # OutQueue /\ OutQueue \in Places
    BY PlaceFacts
  <2>2. CASE LBPop(l)
    <3>1. LBQueue(l) # OutQueue
      BY PlaceFacts
    <3>. QED
      BY <1>1, <2>1, <2>2, <3>1 DEF LBPop, Moved, PlaceInv
  <2>3. CASE LBPush(l)
    <3>1. PICK q \in Queues : /\ q[1] = 3 /\ pipe' = Moved(LB(l), q)
      BY <2>3, LBPushAdvances DEF Advance
    <3>2. q # OutQueue
      BY <3>1, PlaceFacts
    <3>. QED
      BY <1>1, <2>1, <2>3, <3>1, <3>2 DEF LBPush, Moved, PlaceInv
  <2>. QED
    BY <1>7, <2>2, <2>3
<1>8. ASSUME NEW f \in FPIds, FPProcess(f) PROVE StopInv'
  <2>1. /\ FP(f) # OutQueue /\ FPQueue(f) # OutQueue /\ OutQueue \in Places
        /\ pipe' = Moved(FPQueue(f), FP(f)) \/ pipe' = Removed(FPQueue(f))
    BY <1>8, PlaceFacts, FPProcessMoves
  <2>2. pipe'[OutQueue] = pipe[OutQueue]
    BY <2>1 DEF Moved, Removed, PlaceInv
  <2>. QED
    BY <1>1, <1>8, <2>2 DEF FPProcess
<1>9. ASSUME NEW f \in FPIds, FPPush(f) PROVE StopInv'
  BY <1>1, <1>9, FPPushAdvances DEF FPPush
<1>10. CASE OutputWrite
  BY <1>1, <1>10 DEF OutputWrite
<1>11. CASE ReadPacket
  <2>1. Output \notin ended /\ UNCHANGED <<running, ended, shut, step, at>>
    BY <1>11, PlaceFacts DEF ReadPacket, StopInv
  <2>. QED
    BY <1>1, <2>1
<1>12. CASE UNCHANGED vars
  BY <1>1, <1>12 DEF vars
<1>. QED
  BY <1>3, <1>4, <1>5, <1>6, <1>7, <1>8, <1>9, <1>10, <1>11, <1>12, PlaceFacts
  DEF Next, LBNext, FPNext, OutputNext, MainNext, PopNothing, Returned

LEMMA InitControl == Init => TypeOK /\ PlaceInv /\ StopInv
<1>. SUFFICES ASSUME Init PROVE TypeOK /\ PlaceInv /\ StopInv
  OBVIOUS
<1>1. Len(input) \in Nat
  BY InputFacts DEF Init
<1>2. \A p \in Places : pipe[p] = <<>> /\ In(p) = {}
  BY DEF Init, In
<1>3. PlaceInv
  <2>1. pipe \in [Places -> Seq(1 .. total)]
    BY DEF Init
  <2>2. OnRoute
    BY <1>2 DEF OnRoute
  <2>3. FlowOrder
    BY <1>2 DEF FlowOrder, Sorted
  <2>. QED
    BY <1>1, <2>1, <2>2, <2>3 DEF Init, PlaceInv
<1>4. TypeOK
  <2>1. Fill
    BY <1>2, SizesAssumption, PlaceFacts DEF Fill, Init
  <2>2. Control
    BY CountTypes DEF Control, Init
  <2>. QED
    BY <1>3, <2>1, <2>2, TypeParts
<1>5. StopInv
  BY DEF Init, StopInv
<1>. QED
  BY <1>3, <1>4, <1>5

\* No queue is filled beyond its capacity, a worker has at most one packet in its
\* hands and none when it has ended, no packet is invented, and the main thread
\* stops workers that exist.
THEOREM TypeCorrect == Spec => []TypeOK
<1>1. TypeOK /\ PlaceInv /\ StopInv /\ [Next]_vars => (TypeOK /\ PlaceInv /\ StopInv)'
  BY NextTypes, NextPlace, NextStop
<1>. QED
  BY <1>1, InitControl, PTL DEF Spec

-----------------------------------------------------------------------------
(* Which packets are decided                                               *)

\* Packets that have not come to a fast path, and those that have passed it.
Undecided == {id \in 1 .. total : \E p \in Places : p[1] <= 3 /\ id \in In(p)}
Passed == {id \in 1 .. total : \E p \in Places : p[1] >= 4 /\ id \in In(p)}

\* The counters tell them apart, and each flow is decided in the order of the
\* capture.
Decisions ==
    /\ Undecided = (1 .. total) \ Counted
    /\ Passed = forwarded
    /\ dropped \cap forwarded = {}
    /\ \A id \in Counted : \A e \in 1 .. id : FlowOf(e) = FlowOf(id) => e \in Counted

\* One turn of a fast path: the entry that the packet leaves behind.
NewEntryAt(f) == LET id == Oldest(FPQueue(f))
                 IN Decided(rules, flows[f][FlowOf(id)], input[id])
FPDrops(f) == /\ Leave(FPQueue(f)) /\ NewEntryAt(f).blocked
              /\ dropped' = dropped \cup {Oldest(FPQueue(f))} /\ forwarded' = forwarded
FPForwards(f) == /\ Advance(FPQueue(f), FP(f)) /\ ~NewEntryAt(f).blocked
                 /\ forwarded' = forwarded \cup {Oldest(FPQueue(f))} /\ dropped' = dropped

LEMMA FPProcessDecides ==
    ASSUME PlaceInv, NEW f \in FPIds, FPProcess(f)
    PROVE  /\ FPDrops(f) \/ FPForwards(f)
           /\ flows' = [flows EXCEPT ![f][FlowOf(Oldest(FPQueue(f)))] = NewEntryAt(f)]
           /\ RecordApp(NewEntryAt(f))
           /\ UNCHANGED <<rules, input, total>>
<1>1. FP(f) \in Workers \ {Output} /\ InputOf(FP(f)) = FPQueue(f)
  BY PlaceFacts
<1>2. pipe[FPQueue(f)] # <<>> /\ UNCHANGED <<rules, input, total>>
  BY <1>1 DEF FPProcess, CanPop
<1>3. /\ flows' = [flows EXCEPT ![f][FlowOf(Oldest(FPQueue(f)))] = NewEntryAt(f)]
      /\ RecordApp(NewEntryAt(f))
      /\ \/ /\ NewEntryAt(f).blocked
            /\ dropped' = dropped \cup {Oldest(FPQueue(f))}
            /\ pipe' = Removed(FPQueue(f))
            /\ UNCHANGED forwarded
         \/ /\ ~NewEntryAt(f).blocked
            /\ forwarded' = forwarded \cup {Oldest(FPQueue(f))}
            /\ pipe' = Moved(FPQueue(f), FP(f))
            /\ UNCHANGED dropped
  BY DEF FPProcess, NewEntryAt, FlowOf
<1>4. CASE pipe' = Removed(FPQueue(f)) /\ NewEntryAt(f).blocked
  BY <1>2, <1>3, <1>4 DEF Leave, FPDrops
<1>5. CASE pipe' = Moved(FPQueue(f), FP(f)) /\ ~NewEntryAt(f).blocked
  BY <1>1, <1>2, <1>3, <1>5, PopAdvances DEF FPForwards
<1>. QED
  BY <1>2, <1>3, <1>4, <1>5

\* The packet a fast path takes comes after all earlier packets of its flow.
LEMMA FPTakesInTurn ==
    ASSUME TypeOK, PlaceInv, Decisions, NEW f \in FPIds, pipe[FPQueue(f)] # <<>>
    PROVE  /\ Oldest(FPQueue(f)) \in (1 .. total) \ Counted
           /\ \A e \in 1 .. Oldest(FPQueue(f)) :
                FlowOf(e) = FlowOf(Oldest(FPQueue(f))) =>
                  e \in Counted \/ e = Oldest(FPQueue(f))
           /\ \A e \in Counted : FlowOf(e) = FlowOf(Oldest(FPQueue(f))) =>
                e < Oldest(FPQueue(f))
<1>. DEFINE a == FPQueue(f)  h == Oldest(a)
<1>1. a \in Places /\ a[1] = 3 /\ total \in Nat
  BY PlaceFacts, PlaceTypes
<1>2. /\ h \in In(a) /\ h \in 1 .. total
      /\ \A x \in In(a) : FlowOf(x) = FlowOf(h) => x = h \/ h < x
  BY <1>1, OldestFacts
<1>3. h \in (1 .. total) \ Counted
  BY <1>1, <1>2 DEF Decisions, Undecided
<1>. HIDE DEF h, a
<1>4. ASSUME NEW e \in 1 .. h, FlowOf(e) = FlowOf(h), e \notin Counted PROVE e = h
  <2>1. e \in 1 .. total
    BY <1>1, <1>2
  <2>2. PICK p \in Places : p[1] <= 3 /\ e \in In(p)
    BY <1>4, <2>1 DEF Decisions, Undecided
  <2>3. p[1] \in Nat
    BY PlaceTypes
  <2>4. CASE p[1] = 3
    <3>1. e \in In(a)
      BY <1>1, <1>2, <1>4, <2>2, <2>4, OnePlace
    <3>. QED
      BY <1>2, <1>4, <3>1
  <2>5. CASE p[1] < 3
    <3>1. h < e
      BY <1>1, <1>2, <1>4, <2>2, <2>5 DEF PlaceInv, FlowOrder
    <3>. QED
      BY <1>2, <2>1, <3>1
  <2>. QED
    BY <2>2, <2>3, <2>4, <2>5
<1>5. ASSUME NEW e \in Counted, FlowOf(e) = FlowOf(h) PROVE e < h
  <2>1. e \in 1 .. total
    BY DEF TypeOK, Counted
  <2>2. h \in 1 .. e => h \in Counted
    BY <1>5 DEF Decisions
  <2>. QED
    BY <1>2, <1>3, <2>1, <2>2
<1>. QED
  BY <1>3, <1>4, <1>5 DEF h, a

LEMMA MoveKeepsDecisions ==
    ASSUME PlaceInv, Decisions, NEW a \in Places, NEW b \in Places, Advance(a, b), a[1] # 3,
           UNCHANGED <<input, dropped, forwarded>>
    PROVE  Decisions'
<1>. DEFINE h == Oldest(a)
<1>1. \A p \in Places : \A id :
        id \in In(p)' <=> \/ id = h /\ p = b
                          \/ id # h /\ id \in In(p)
  BY AdvancePlaces
<1>2. total' = total /\ h \in 1 .. total /\ h \in In(a)
      /\ \A p \in Places : h \in In(p) => p = a
  BY OldestFacts DEF Advance
<1>3. /\ a[1] <= 3 => b[1] <= 3
      /\ a[1] >= 4 => b[1] >= 4
      /\ a[1] <= 3 <=> ~(a[1] >= 4)
      /\ b[1] <= 3 <=> ~(b[1] >= 4)
  BY PlaceFacts DEF Advance, NextStage
<1>. HIDE DEF h
<1>4. Undecided' = Undecided
  BY <1>1, <1>2, <1>3 DEF Undecided
<1>5. Passed' = Passed
  BY <1>1, <1>2, <1>3 DEF Passed
<1>. QED
  BY <1>2, <1>4, <1>5 DEF Decisions, Counted, FlowOf

LEMMA EnterKeepsDecisions ==
    ASSUME TypeOK, PlaceInv, Decisions, NEW q \in Places, Enter(q), q[1] = 1,
           UNCHANGED <<input, dropped, forwarded>>
    PROVE  Decisions'
<1>. DEFINE h == total + 1
<1>1. /\ total' = h /\ In(q)' = In(q) \cup {h}
      /\ \A p \in Places : p # q => In(p)' = In(p)
  BY EnterFacts
<1>2. /\ total \in Nat /\ 1 .. h = (1 .. total) \cup {h} /\ h \notin 1 .. total
      /\ \A p \in Places : In(p) \subseteq 1 .. total
  BY PlaceTypes
<1>3. Counted \subseteq 1 .. total
  BY DEF TypeOK, Counted
<1>4. 1 <= 3 /\ ~(1 >= 4)
  OBVIOUS
<1>. HIDE DEF h
<1>5. Undecided' = Undecided \cup {h}
  BY <1>1, <1>2, <1>4 DEF Undecided
<1>6. Passed' = Passed
  BY <1>1, <1>2, <1>4 DEF Passed
<1>7. Counted' = Counted
  BY DEF Counted
<1>8. Undecided' = (1 .. total') \ Counted'
  BY <1>1, <1>2, <1>3, <1>5, <1>7 DEF Decisions
<1>. QED
  BY <1>6, <1>7, <1>8 DEF Decisions, FlowOf

LEMMA TurnKeepsDecisions ==
    ASSUME TypeOK, PlaceInv, Decisions, NEW f \in FPIds, FPProcess(f)
    PROVE  /\ Decisions'
           /\ Counted' = Counted \cup {Oldest(FPQueue(f))}
<1>. DEFINE a == FPQueue(f)  h == Oldest(a)
<1>1. /\ a \in Places /\ FP(f) \in Places /\ a[1] = 3 /\ FP(f)[1] = 4
      /\ UNCHANGED <<input, total>> /\ pipe[a] # <<>>
  BY PlaceFacts, FPProcessDecides, FPProcessMoves
<1>2. /\ h \in 1 .. total /\ h \notin Counted
      /\ \A e \in 1 .. h : FlowOf(e) = FlowOf(h) => e \in Counted \/ e = h
  BY <1>1, FPTakesInTurn
<1>3. h \in In(a) /\ \A p \in Places : h \in In(p) => p = a
  BY <1>1, OldestFacts
<1>4. 3 <= 3 /\ ~(3 >= 4) /\ ~(4 <= 3) /\ 4 >= 4
  OBVIOUS
<1>5. CASE FPDrops(f)
  <2>1. \A p \in Places : \A id : id \in In(p)' <=> id # h /\ id \in In(p)
    BY <1>1, <1>5, LeavePlaces DEF FPDrops
  <2>2. dropped' = dropped \cup {h} /\ forwarded' = forwarded
    BY <1>5 DEF FPDrops
  <2>. HIDE DEF h, a
  <2>3. Undecided' = Undecided \ {h}
    BY <1>1, <2>1 DEF Undecided
  <2>4. Passed' = Passed
    BY <1>1, <1>3, <1>4, <2>1 DEF Passed
  <2>5. Counted' = Counted \cup {h}
    BY <2>2 DEF Counted
  <2>6. Undecided' = (1 .. total') \ Counted'
    BY <1>1, <2>3, <2>5 DEF Decisions
  <2>7. dropped' \cap forwarded' = {}
    BY <1>2, <2>2 DEF Decisions, Counted
  <2>8. \A id \in Counted' : \A e \in 1 .. id : FlowOf(e)' = FlowOf(id)' => e \in Counted'
    BY <1>1, <1>2, <2>5 DEF Decisions, FlowOf
  <2>. QED
    BY <2>2, <2>4, <2>5, <2>6, <2>7, <2>8 DEF Decisions, h, a
<1>6. CASE FPForwards(f)
  <2>1. \A p \in Places : \A id :
          id \in In(p)' <=> \/ id = h /\ p = FP(f)
                            \/ id # h /\ id \in In(p)
    BY <1>1, <1>6, AdvancePlaces DEF FPForwards
  <2>2. forwarded' = forwarded \cup {h} /\ dropped' = dropped
    BY <1>6 DEF FPForwards
  <2>. HIDE DEF h, a
  <2>3. Undecided' = Undecided \ {h}
    BY <1>1, <1>4, <2>1 DEF Undecided
  <2>4. Passed' = Passed \cup {h}
    BY <1>1, <1>2, <1>3, <1>4, <2>1 DEF Passed
  <2>5. Counted' = Counted \cup {h}
    BY <2>2 DEF Counted
  <2>6. Undecided' = (1 .. total') \ Counted'
    BY <1>1, <2>3, <2>5 DEF Decisions
  <2>7. dropped' \cap forwarded' = {}
    BY <1>2, <2>2 DEF Decisions, Counted
  <2>8. \A id \in Counted' : \A e \in 1 .. id : FlowOf(e)' = FlowOf(id)' => e \in Counted'
    BY <1>1, <1>2, <2>5 DEF Decisions, FlowOf
  <2>. QED
    BY <2>2, <2>4, <2>5, <2>6, <2>7, <2>8 DEF Decisions, h, a
<1>. QED
  BY <1>5, <1>6, FPProcessDecides

LEMMA NextDecisions ==
    ASSUME TypeOK, PlaceInv, StopInv, Decisions, [Next]_vars
    PROVE  Decisions'
<1>1. PipeStep
  BY NextPipe
<1>2. UNCHANGED input
  BY <1>1 DEF PipeStep
<1>3. CASE Stay /\ UNCHANGED flowVars
  BY <1>2, <1>3 DEF Stay, flowVars, Decisions, Undecided, Passed, Counted, In, FlowOf
<1>4. ASSUME NEW q \in Places, Enter(q), q[1] = 1, UNCHANGED flowVars
      PROVE  Decisions'
  BY <1>2, <1>4, EnterKeepsDecisions DEF flowVars
<1>5. ASSUME NEW a \in Places, NEW b \in Places, Advance(a, b), a[1] # 3, UNCHANGED flowVars
      PROVE  Decisions'
  BY <1>2, <1>5, MoveKeepsDecisions DEF flowVars
<1>6. ASSUME NEW f \in FPIds, FPProcess(f) PROVE Decisions'
  BY <1>6, TurnKeepsDecisions
<1>. QED
  BY <1>1, <1>3, <1>4, <1>5, <1>6 DEF PipeStep

-----------------------------------------------------------------------------
(* The tables of one fast path alone, and of SimpleEngine                  *)

Seen(c) == {c[i].flow : i \in DOMAIN c}
\* Which of the two programs it is: "alone" or "simple".
NewOf(w) == IF w = "alone" THEN NewEntry ELSE Simple!NewFlow
TurnOf(w, r, e, p) == IF w = "alone" THEN Decided(r, e, p) ELSE Simple!Processed(r, e, p)
TableStep(w, r, c, n, f) ==
    IF n = 0 THEN [t \in Seen(c) |-> NewOf(w)]
    ELSE [f[n - 1] EXCEPT ![c[n].flow] = TurnOf(w, r, @, c[n])]
IsTable(w, r, c, m, f) == f = [n \in 0 .. m |-> TableStep(w, r, c, n, f)]

\* The table after each number of packets of the capture.
TableOf(w) == CHOOSE f : IsTable(w, rules, input, Len(input), f)
Table == TableOf("alone")
SimpleTable == TableOf("simple")

LEMMA TableExists ==
    ASSUME NEW w, NEW r, NEW c, NEW m \in Nat
    PROVE  \E f : IsTable(w, r, c, m, f)
<1>. DEFINE Good == {n \in Nat : \E f : IsTable(w, r, c, n, f)}
<1>1. 0 \in Good
  <2>. DEFINE f == [i \in 0 .. 0 |-> TableStep(w, r, c, 0, <<>>)]
  <2>1. \A g : TableStep(w, r, c, 0, g) = TableStep(w, r, c, 0, <<>>)
    BY DEF TableStep
  <2>2. IsTable(w, r, c, 0, f)
    <3>1. \A i \in 0 .. 0 : i = 0
      OBVIOUS
    <3>2. \A i \in 0 .. 0 : TableStep(w, r, c, i, f) = TableStep(w, r, c, 0, <<>>)
      BY <2>1, <3>1
    <3>. QED
      BY <3>2 DEF IsTable
  <2>. QED
    BY <2>2
<1>2. ASSUME NEW n \in Nat, n \in Good PROVE n + 1 \in Good
  <2>1. PICK f : IsTable(w, r, c, n, f)
    BY <1>2
  <2>. DEFINE g == [i \in 0 .. n + 1 |-> IF i = n + 1 THEN TableStep(w, r, c, n + 1, f) ELSE f[i]]
  <2>2. \A i \in 0 .. n : g[i] = f[i] /\ f[i] = TableStep(w, r, c, i, f)
    BY <2>1 DEF IsTable
  <2>3. ASSUME NEW i \in 0 .. n + 1 PROVE g[i] = TableStep(w, r, c, i, g)
    <3>1. i # 0 => i - 1 \in 0 .. n
      OBVIOUS
    <3>2. TableStep(w, r, c, i, g) = TableStep(w, r, c, i, f)
      <4>1. i # 0 => g[i - 1] = f[i - 1]
        BY <2>2, <3>1
      <4>. HIDE DEF g
      <4>. QED
        BY <4>1 DEF TableStep
    <3>3. CASE i = n + 1
      BY <3>2, <3>3
    <3>4. CASE i \in 0 .. n
      BY <2>2, <3>2, <3>4
    <3>. QED
      BY <3>3, <3>4
  <2>4. g = [i \in 0 .. n + 1 |-> g[i]]
    OBVIOUS
  <2>. HIDE DEF g
  <2>5. IsTable(w, r, c, n + 1, g)
    BY <2>3, <2>4 DEF IsTable
  <2>. QED
    BY <2>5
<1>. HIDE DEF Good
<1>3. \A n \in Nat : n \in Good
  BY <1>1, <1>2, NatSetInduction
<1>. QED
  BY <1>3 DEF Good

LEMMA TableIsTable ==
    ASSUME input \in Captures, NEW w
    PROVE  IsTable(w, rules, input, Len(input), TableOf(w))
<1>1. Len(input) \in Nat
  BY InputFacts
<1>. QED
  BY <1>1, TableExists DEF TableOf

\* What is said of a packet is the entry of its flow after it.
LEMMA ExpectedIsTable ==
    ASSUME input \in Captures, rules \in RuleSets
    PROVE  \A n \in DOMAIN input : /\ Expected[n] = Table[n][FlowOf(n)]
                                   /\ InSimple[n] = SimpleTable[n][FlowOf(n)]
<1>1. \A w : IsTable(w, rules, input, Len(input), TableOf(w))
  BY TableIsTable
<1>2. Expected = [n \in DOMAIN input |-> Table[n][input[n].flow]]
  <2>1. Expected = Alone(rules, input)
    BY DEF Expected, AloneOn
  <2>2. Alone(rules, input) = [n \in DOMAIN input |-> Table[n][input[n].flow]]
    BY DEF Alone, Table, TableOf, IsTable, TableStep, NewOf, TurnOf, Seen
  <2>. QED
    BY <2>1, <2>2
<1>3. InSimple = [n \in DOMAIN input |-> SimpleTable[n][input[n].flow]]
  <2>1. InSimple = Simple!Outcomes(rules, input)
    BY DEF InSimple, SimpleOn
  <2>2. Simple!Outcomes(rules, input) = [n \in DOMAIN input |-> SimpleTable[n][input[n].flow]]
    BY DEF Simple!Outcomes, SimpleTable, TableOf, IsTable, TableStep, NewOf, TurnOf, Seen
  <2>. QED
    BY <2>1, <2>2
<1>. QED
  BY <1>2, <1>3 DEF FlowOf

\* The entry of a flow changes with the packets of that flow only.
LEMMA TableFacts ==
    ASSUME input \in Captures, rules \in RuleSets, NEW w
    PROVE  /\ \A t \in Seen(input) : TableOf(w)[0][t] = NewOf(w)
           /\ \A n \in DOMAIN input :
                /\ TableOf(w)[n][FlowOf(n)] =
                     TurnOf(w, rules, TableOf(w)[n - 1][FlowOf(n)], input[n])
                /\ \A t \in Seen(input) : t # FlowOf(n) => TableOf(w)[n][t] = TableOf(w)[n - 1][t]
<1>1. /\ Len(input) \in Nat /\ DOMAIN input = 1 .. Len(input)
      /\ \A n \in DOMAIN input : FlowOf(n) = input[n].flow /\ FlowOf(n) \in Seen(input)
  BY InputFacts DEF FlowOf, Seen
<1>2. \A n \in 0 .. Len(input) : TableOf(w)[n] = TableStep(w, rules, input, n, TableOf(w))
  BY TableIsTable DEF IsTable
<1>3. TableOf(w)[0] = [t \in Seen(input) |-> NewOf(w)]
  <2>1. TableOf(w)[0] = TableStep(w, rules, input, 0, TableOf(w))
    BY <1>1, <1>2
  <2>. QED
    BY <2>1 DEF TableStep
<1>4. ASSUME NEW n \in DOMAIN input
      PROVE  TableOf(w)[n] = [TableOf(w)[n - 1] EXCEPT ![FlowOf(n)] =
                           TurnOf(w, rules, TableOf(w)[n - 1][FlowOf(n)], input[n])]
  <2>1. TableOf(w)[n] = TableStep(w, rules, input, n, TableOf(w)) /\ n # 0
    BY <1>1, <1>2
  <2>. QED
    BY <2>1 DEF TableStep, FlowOf
<1>. DEFINE Good == {n \in Nat : n <= Len(input) =>
                       TableOf(w)[n] = [t \in Seen(input) |-> TableOf(w)[n][t]]}
<1>5. 0 \in Good
  BY <1>3
<1>6. ASSUME NEW n \in Nat, n \in Good PROVE n + 1 \in Good
  <2>1. SUFFICES ASSUME n + 1 <= Len(input)
                 PROVE  TableOf(w)[n + 1] = [t \in Seen(input) |-> TableOf(w)[n + 1][t]]
    OBVIOUS
  <2>2. TableOf(w)[n] = [t \in Seen(input) |-> TableOf(w)[n][t]] /\ n + 1 \in DOMAIN input
        /\ (n + 1) - 1 = n
    BY <1>1, <1>6, <2>1
  <2>3. \E e : TableOf(w)[n + 1] = [TableOf(w)[n] EXCEPT ![FlowOf(n + 1)] = e]
    BY <1>4, <2>2
  <2>. QED
    BY <2>2, <2>3
<1>. HIDE DEF Good
<1>7. \A n \in Nat : n \in Good
  BY <1>5, <1>6, NatSetInduction
<1>8. \A n \in 0 .. Len(input) : TableOf(w)[n] = [t \in Seen(input) |-> TableOf(w)[n][t]]
  BY <1>1, <1>7 DEF Good
<1>9. ASSUME NEW n \in DOMAIN input
      PROVE  /\ TableOf(w)[n][FlowOf(n)] =
                  TurnOf(w, rules, TableOf(w)[n - 1][FlowOf(n)], input[n])
             /\ \A t \in Seen(input) : t # FlowOf(n) => TableOf(w)[n][t] = TableOf(w)[n - 1][t]
  <2>1. n - 1 \in 0 .. Len(input)
    BY <1>1
  <2>2. TableOf(w)[n - 1] = [t \in Seen(input) |-> TableOf(w)[n - 1][t]]
    BY <1>8, <2>1
  <2>. QED
    BY <1>1, <1>4, <2>2
<1>. QED
  BY <1>3, <1>9

LEMMA TableSteady ==
    ASSUME input \in Captures, rules \in RuleSets, NEW t \in Seen(input),
           NEW m \in 0 .. Len(input), NEW n \in m .. Len(input),
           \A id \in m + 1 .. n : FlowOf(id) # t
    PROVE  Table[n][t] = Table[m][t]
<1>1. Len(input) \in Nat /\ DOMAIN input = 1 .. Len(input)
  BY InputFacts
<1>. DEFINE Good == {k \in Nat : m + k <= n => Table[m + k][t] = Table[m][t]}
<1>2. 0 \in Good
  BY <1>1
<1>3. ASSUME NEW k \in Nat, k \in Good PROVE k + 1 \in Good
  <2>1. SUFFICES ASSUME m + (k + 1) <= n PROVE Table[m + (k + 1)][t] = Table[m][t]
    OBVIOUS
  <2>2. /\ m + (k + 1) \in DOMAIN input /\ m + (k + 1) \in m + 1 .. n
        /\ (m + (k + 1)) - 1 = m + k /\ m + k <= n
    BY <1>1, <2>1
  <2>. QED
    BY <1>3, <2>2, TableFacts DEF Table
<1>. HIDE DEF Good
<1>4. \A k \in Nat : k \in Good
  BY <1>2, <1>3, NatSetInduction
<1>5. n - m \in Nat /\ m + (n - m) = n /\ n <= n
  BY <1>1
<1>. QED
  BY <1>4, <1>5 DEF Good

-----------------------------------------------------------------------------
(* The shape of an entry, and when the two programs classify alike         *)

Packets == [flow : Flows, payload : Payloads]
Apps == {"UNKNOWN", "DNS", "HTTPS", "HTTP"} \cup {AppOf[n] : n \in Names}
Entry == [app : Apps, sni : Names \cup {""}, blocked : BOOLEAN, classified : BOOLEAN]

\* What an entry of a flow t can say: nothing yet, or what the port says; the
\* name; DNS; that the name was empty, which only this engine takes for good.
Guessed(t, e) == /\ ~e.classified /\ e.sni = ""
                 /\ \/ e.app = "UNKNOWN"
                    \/ ~IsDNS(t) /\ e.app # "UNKNOWN" /\ e.app = ByPort(t, "UNKNOWN")
Known(e) == e.classified /\ e.sni \in Names \ {""} /\ e.app = AppOf[e.sni]
DNSKnown(e) == e.classified /\ e.sni = "" /\ e.app = "DNS"
EmptyKnown(e) == e.classified /\ e.sni = "" /\ e.app = "UNKNOWN"
CommonShape(t, e) == Guessed(t, e) \/ Known(e) \/ DNSKnown(e)
Shape(t, e) == CommonShape(t, e) \/ EmptyKnown(e)

\* What SimpleEngine keeps of it.
Plain(e) == [app |-> e.app, sni |-> e.sni, blocked |-> e.blocked]

LEMMA PayloadFacts ==
    ASSUME NEW p \in Packets
    PROVE  /\ p.payload[1] \in {"hello", "host"} => p.payload[2] \in Names
           /\ p.flow \in Flows
           /\ \A n \in Names : AppOf[n] \in Apps /\ (AppOf[n] = "UNKNOWN" <=> n = "")
<1>1. p.payload \in Payloads /\ p.flow \in Flows
  BY DEF Packets
<1>2. p.payload[1] \in {"hello", "host"} => p.payload[2] \in Names
  <2>1. CASE p.payload = <<"other", "">>
    <3>. DEFINE x == <<"other", "">>
    <3>0. x[1] = "other"
      OBVIOUS
    <3>. HIDE DEF x
    <3>1. p.payload[1] = "other"
      <4>1. p.payload = x
        BY <2>1 DEF x
      <4>. QED
        BY <3>0, <4>1
    <3>2. "other" # "hello" /\ "other" # "host"
      OBVIOUS
    <3>. QED
      BY <3>1, <3>2
  <2>2. CASE p.payload \in {"hello", "host"} \X Names
    BY <2>2
  <2>. QED
    BY <1>1, <2>1, <2>2 DEF Payloads
<1>. QED
  BY <1>1, <1>2, AppsAssumption DEF Apps

LEMMA SameClassification ==
    ASSUME NEW p \in Packets, NEW e \in Entry, CommonShape(p.flow, e), LooksAlike(p)
    PROVE  LET c == IF e.classified THEN e ELSE ClassifyFlow(e, p)
           IN /\ c \in Entry /\ CommonShape(p.flow, c) /\ c.blocked = e.blocked
              /\ Simple!Classified(Plain(e), p) = Plain(c)
<1>. DEFINE t == p.flow  n == p.payload[2]  s == Plain(e)
            c == IF e.classified THEN e ELSE ClassifyFlow(e, p)
            Tried == Simple!TryName(Simple!TryName(s, p, "hello", 443, "HTTPS"),
                                    p, "host", 80, "HTTP")
<1>1. /\ p.payload[1] \in {"hello", "host"} => n \in Names
      /\ \A m \in Names : AppOf[m] \in Apps /\ (AppOf[m] = "UNKNOWN" <=> m = "")
      /\ CarriesName(p) => t.protocol = "TCP" /\ n # ""
  BY PayloadFacts DEF LooksAlike
<1>2. /\ s.app = e.app /\ s.sni = e.sni /\ s.blocked = e.blocked
      /\ s = [app |-> s.app, sni |-> s.sni, blocked |-> s.blocked]
  BY DEF Plain
<1>e. e.blocked \in BOOLEAN
  BY DEF Entry
<1>c. Simple!Classified(s, p) = IF Tried.app = "UNKNOWN"
                                THEN [Tried EXCEPT !.app = Simple!ByPort(t)] ELSE Tried
  BY DEF Simple!Classified
<1>3. ASSUME Tried = s
      PROVE  Simple!Classified(s, p) =
               IF e.app = "UNKNOWN"
               THEN [app |-> Simple!ByPort(t), sni |-> e.sni, blocked |-> e.blocked]
               ELSE s
  <2>. HIDE DEF Tried, s
  <2>. QED
    BY <1>2, <1>3, <1>c
<1>4. ASSUME e.sni # "" \/ e.app \notin {"UNKNOWN", "HTTPS", "HTTP"}
      PROVE  Tried = s
  BY <1>2, <1>4 DEF Simple!TryName
<1>5. CASE Known(e)
  <2>1. e.sni # "" /\ e.app # "UNKNOWN" /\ e.classified
    BY <1>1, <1>5 DEF Known
  <2>. QED
    BY <1>3, <1>4, <2>1
<1>6. CASE DNSKnown(e)
  BY <1>3, <1>4, <1>6 DEF DNSKnown
<1>7. CASE Guessed(t, e) /\ CarriesName(p)
  <2>1. ~e.classified /\ e.sni = "" /\ n \in Names /\ n # "" /\ AppOf[n] # "UNKNOWN"
        /\ AppOf[n] \in Apps /\ t.protocol = "TCP"
    BY <1>1, <1>7 DEF Guessed, CarriesName
  <2>2. c = Named(e, n)
    BY <1>7, <2>1 DEF ClassifyFlow
  <2>3. /\ c = [app |-> AppOf[n], sni |-> n, blocked |-> e.blocked, classified |-> TRUE]
    BY <2>2 DEF Named, Entry
  <2>4. c \in Entry /\ Known(c) /\ c.blocked = e.blocked
    <3>. HIDE DEF c
    <3>. QED
      BY <1>e, <2>1, <2>3 DEF Entry, Known
  <2>. DEFINE r == [app |-> AppOf[n], sni |-> n, blocked |-> e.blocked]
  <2>r. [s EXCEPT !.sni = n, !.app = AppOf[n]] = r
    <3>1. s = [app |-> e.app, sni |-> e.sni, blocked |-> e.blocked]
      BY DEF Plain
    <3>. DEFINE u == [s EXCEPT !.sni = n]
    <3>. HIDE DEF s
    <3>2. u = [app |-> e.app, sni |-> n, blocked |-> e.blocked]
      BY <3>1
    <3>. HIDE DEF u
    <3>3. [u EXCEPT !.app = AppOf[n]] = r
      BY <3>2
    <3>. QED
      BY <3>3 DEF u
  <2>5. Tried = r
    <3>1. CASE p.payload[1] = "hello" /\ t.dst_port = 443
      <4>1. e.app \in {"UNKNOWN", "HTTPS"}
        <5>1. ByPort(t, "UNKNOWN") = "HTTPS"
          BY <3>1 DEF ByPort
        <5>. QED
          BY <1>7, <5>1 DEF Guessed
      <4>2. Simple!TryName(s, p, "hello", 443, "HTTPS") = r
        <5>1. s.app \in {"UNKNOWN", "HTTPS"} /\ s.sni = ""
          BY <1>2, <2>1, <4>1
        <5>. HIDE DEF s
        <5>2. Simple!TryName(s, p, "hello", 443, "HTTPS") = [s EXCEPT !.sni = n, !.app = AppOf[n]]
          BY <2>1, <3>1, <5>1 DEF Simple!TryName
        <5>. QED
          BY <2>r, <5>2
      <4>3. Simple!TryName(r, p, "host", 80, "HTTP") = r
        BY <2>1 DEF Simple!TryName
      <4>. QED
        BY <4>2, <4>3
    <3>2. CASE p.payload[1] = "host" /\ t.dst_port = 80
      <4>1. e.app \in {"UNKNOWN", "HTTP"}
        <5>1. ByPort(t, "UNKNOWN") = "HTTP"
          BY <3>2 DEF ByPort
        <5>. QED
          BY <1>7, <5>1 DEF Guessed
      <4>2. Simple!TryName(s, p, "hello", 443, "HTTPS") = s
        BY <3>2 DEF Simple!TryName
      <4>3. Simple!TryName(s, p, "host", 80, "HTTP") = r
        <5>1. s.app \in {"UNKNOWN", "HTTP"} /\ s.sni = ""
          BY <1>2, <2>1, <4>1
        <5>. HIDE DEF s
        <5>2. Simple!TryName(s, p, "host", 80, "HTTP") = [s EXCEPT !.sni = n, !.app = AppOf[n]]
          BY <2>1, <3>2, <5>1 DEF Simple!TryName
        <5>. QED
          BY <2>r, <5>2
      <4>. QED
        BY <4>2, <4>3
    <3>. QED
      BY <1>7, <3>1, <3>2 DEF CarriesName
  <2>6. Simple!Classified(s, p) = r
    <3>. HIDE DEF Tried, s
    <3>. QED
      BY <1>c, <2>1, <2>5
  <2>7. Plain(c) = r
    <3>. HIDE DEF c
    <3>. QED
      BY <2>3 DEF Plain
  <2>. QED
    BY <2>4, <2>6, <2>7 DEF CommonShape
<1>8. CASE Guessed(t, e) /\ ~CarriesName(p)
  <2>1. ~e.classified /\ e.sni = ""
    BY <1>8 DEF Guessed
  <2>2. Tried = s
    BY <1>2, <1>8 DEF Simple!TryName, CarriesName
  <2>3. CASE IsDNS(t)
    <3>1. e.app = "UNKNOWN"
      BY <1>8, <2>3 DEF Guessed
    <3>2. c = [app |-> "DNS", sni |-> "", blocked |-> e.blocked, classified |-> TRUE]
      BY <1>8, <2>1, <2>3 DEF ClassifyFlow, Entry
    <3>3. c \in Entry /\ DNSKnown(c) /\ c.blocked = e.blocked
      <4>. HIDE DEF c
      <4>. QED
        BY <1>e, <3>2 DEF Entry, Apps, DNSKnown
    <3>4. Simple!ByPort(t) = "DNS"
      BY <2>3 DEF Simple!ByPort, IsDNS
    <3>5. Simple!Classified(s, p) = [app |-> "DNS", sni |-> "", blocked |-> e.blocked]
      BY <1>3, <2>1, <2>2, <3>1, <3>4
    <3>6. Plain(c) = [app |-> "DNS", sni |-> "", blocked |-> e.blocked]
      <4>. HIDE DEF c
      <4>. QED
        BY <3>2 DEF Plain
    <3>. QED
      BY <3>3, <3>5, <3>6 DEF CommonShape
  <2>4. CASE ~IsDNS(t)
    <3>. DEFINE a == ByPort(t, "UNKNOWN")
    <3>1. ByPort(t, e.app) = a /\ (e.app = "UNKNOWN" \/ e.app = a)
      <4>1. CASE e.app = "UNKNOWN"
        BY <4>1
      <4>2. CASE e.app # "UNKNOWN" /\ e.app = ByPort(t, "UNKNOWN")
        BY <4>2 DEF ByPort
      <4>. QED
        BY <1>8, <4>1, <4>2 DEF Guessed
    <3>2. c = [app |-> a, sni |-> "", blocked |-> e.blocked, classified |-> FALSE]
      <4>1. c = [e EXCEPT !.app = ByPort(t, @)]
        BY <1>8, <2>1, <2>4 DEF ClassifyFlow
      <4>. HIDE DEF c
      <4>. QED
        BY <2>1, <3>1, <4>1 DEF Entry
    <3>3. a \in {"UNKNOWN", "HTTPS", "HTTP"} /\ a \in Apps
      BY DEF ByPort, Apps
    <3>4. c \in Entry /\ Guessed(t, c) /\ c.blocked = e.blocked
      <4>. HIDE DEF a, c
      <4>. QED
        BY <2>4, <3>2, <3>3 DEF Entry, Guessed, a
    <3>5. Simple!ByPort(t) = a
      BY <2>4 DEF Simple!ByPort, ByPort, IsDNS
    <3>6. Simple!Classified(s, p) = [app |-> a, sni |-> "", blocked |-> e.blocked]
      <4>. HIDE DEF a
      <4>1. Simple!Classified(s, p) = IF e.app = "UNKNOWN"
              THEN [app |-> Simple!ByPort(t), sni |-> e.sni, blocked |-> e.blocked]
              ELSE s
        BY <1>3, <2>2
      <4>. QED
        BY <1>2, <2>1, <3>1, <3>5, <4>1
    <3>7. Plain(c) = [app |-> a, sni |-> "", blocked |-> e.blocked]
      <4>. HIDE DEF a, c
      <4>. QED
        BY <3>2 DEF Plain
    <3>. QED
      BY <3>4, <3>6, <3>7 DEF CommonShape
  <2>. QED
    BY <2>3, <2>4
<1>. QED
  BY <1>5, <1>6, <1>7, <1>8 DEF CommonShape

\* What an entry says has one of the shapes, whatever the packet.
LEMMA DecisionShape ==
    ASSUME NEW p \in Packets, NEW e \in Entry, Shape(p.flow, e), NEW r
    PROVE  Decided(r, e, p) \in Entry /\ Shape(p.flow, Decided(r, e, p))
<1>. DEFINE t == p.flow  n == p.payload[2]
            c == IF e.classified THEN e ELSE ClassifyFlow(e, p)
            d == Decided(r, e, p)  b == c.blocked \/ IsBlocked(r, t, c)
<1>1. /\ p.payload[1] \in {"hello", "host"} => n \in Names
      /\ \A m \in Names : AppOf[m] \in Apps /\ (AppOf[m] = "UNKNOWN" <=> m = "")
  BY PayloadFacts
<1>2. c \in Entry /\ Shape(t, c)
  <2>1. CASE e.classified
    BY <2>1
  <2>2. CASE ~e.classified /\ CarriesName(p)
    <3>1. n \in Names /\ AppOf[n] \in Apps /\ (AppOf[n] = "UNKNOWN" <=> n = "")
      BY <1>1, <2>2 DEF CarriesName
    <3>2. c = [app |-> AppOf[n], sni |-> n, blocked |-> e.blocked, classified |-> TRUE]
      BY <2>2 DEF ClassifyFlow, Named, Entry
    <3>3. e.blocked \in BOOLEAN
      BY DEF Entry
    <3>. HIDE DEF c, n
    <3>4. c \in Entry
      BY <3>1, <3>2, <3>3 DEF Entry
    <3>5. Known(c) \/ EmptyKnown(c)
      BY <3>1, <3>2 DEF Known, EmptyKnown
    <3>. QED
      BY <3>4, <3>5 DEF Shape, CommonShape
  <2>3. CASE ~e.classified /\ ~CarriesName(p)
    <3>1. Guessed(t, e)
      BY <2>3 DEF Shape, CommonShape, Known, DNSKnown, EmptyKnown
    <3>2. LooksAlike(p) /\ CommonShape(t, e)
      BY <2>3, <3>1 DEF LooksAlike, CommonShape
    <3>. QED
      BY <3>2, SameClassification DEF Shape
  <2>. QED
    BY <2>1, <2>2, <2>3
<1>3. d = [c EXCEPT !.blocked = b]
  BY DEF Decided
<1>4. c.blocked \in BOOLEAN
  <2>. HIDE DEF c
  <2>. QED
    BY <1>2 DEF Entry
<1>5. b \in BOOLEAN
  BY <1>4 DEF IsBlocked
<1>. HIDE DEF b, c, d
<1>6. d \in Entry /\ d.app = c.app /\ d.sni = c.sni /\ d.classified = c.classified
  BY <1>2, <1>3, <1>5 DEF Entry
<1>7. Shape(t, d)
  BY <1>2, <1>6 DEF Shape, CommonShape, Guessed, Known, DNSKnown, EmptyKnown
<1>. QED
  BY <1>6, <1>7 DEF d

LEMMA SameDecision ==
    ASSUME NEW p \in Packets, NEW e \in Entry, CommonShape(p.flow, e), LooksAlike(p),
           NEW r
    PROVE  /\ Decided(r, e, p) \in Entry /\ CommonShape(p.flow, Decided(r, e, p))
           /\ Simple!Processed(r, Plain(e), p) = Plain(Decided(r, e, p))
<1>. DEFINE c == IF e.classified THEN e ELSE ClassifyFlow(e, p)
            d == Decided(r, e, p)  b == c.blocked \/ IsBlocked(r, p.flow, c)
<1>1. /\ c \in Entry /\ CommonShape(p.flow, c)
      /\ Simple!Classified(Plain(e), p) = Plain(c)
  BY SameClassification
<1>2. d = [c EXCEPT !.blocked = b]
  BY DEF Decided
<1>3. b \in BOOLEAN
  BY DEF IsBlocked
<1>4. IsBlocked(r, p.flow, c) <=> Simple!IsBlocked(r, p.flow, Plain(c))
  <2>. HIDE DEF c
  <2>1. Plain(c).app = c.app /\ Plain(c).sni = c.sni
    BY DEF Plain
  <2>2. \A x, y : Finds(x, y) <=> Simple!Finds(x, y)
    BY DEF Finds, Simple!Finds
  <2>. QED
    BY <2>1, <2>2 DEF IsBlocked, Simple!IsBlocked
<1>5. Simple!Processed(r, Plain(e), p) =
        [Plain(c) EXCEPT !.blocked = Plain(c).blocked \/ Simple!IsBlocked(r, p.flow, Plain(c))]
  BY <1>1 DEF Simple!Processed
<1>. HIDE DEF c
<1>6. (Plain(c).blocked \/ Simple!IsBlocked(r, p.flow, Plain(c))) = b
  BY <1>4 DEF Plain, b
<1>. HIDE DEF b, d
<1>7. d \in Entry /\ d.app = c.app /\ d.sni = c.sni /\ d.classified = c.classified
      /\ d.blocked = b
  BY <1>1, <1>2, <1>3 DEF Entry
<1>8. CommonShape(p.flow, d)
  BY <1>1, <1>7 DEF CommonShape, Guessed, Known, DNSKnown
<1>9. [Plain(c) EXCEPT !.blocked = b] = Plain(d)
  BY <1>7 DEF Plain
<1>. QED
  BY <1>5, <1>6, <1>7, <1>8, <1>9 DEF d

\* As long as a flow has packets that both programs treat alike, they know the
\* same of it.
AlikeTo(t, n) == \A id \in 1 .. n : FlowOf(id) = t => LooksAlike(input[id])

LEMMA TablesAgree ==
    ASSUME input \in Captures, rules \in RuleSets,
           NEW n \in 0 .. Len(input), NEW t \in Seen(input), AlikeTo(t, n)
    PROVE  /\ Table[n][t] \in Entry /\ CommonShape(t, Table[n][t])
           /\ SimpleTable[n][t] = Plain(Table[n][t])
<1>. DEFINE Agree(k) == /\ Table[k][t] \in Entry /\ CommonShape(t, Table[k][t])
                        /\ SimpleTable[k][t] = Plain(Table[k][t])
            Good == {k \in Nat : k <= n => Agree(k)}
<1>1. Len(input) \in Nat /\ DOMAIN input = 1 .. Len(input)
  BY InputFacts
<1>2. /\ Table[0][t] = NewEntry /\ SimpleTable[0][t] = Simple!NewFlow
      /\ NewEntry \in Entry /\ Plain(NewEntry) = Simple!NewFlow /\ CommonShape(t, NewEntry)
  <2>1. Table[0][t] = NewEntry /\ SimpleTable[0][t] = Simple!NewFlow
    BY TableFacts DEF Table, SimpleTable, NewOf
  <2>2. NewEntry \in Entry /\ Plain(NewEntry) = Simple!NewFlow /\ CommonShape(t, NewEntry)
    BY DEF NewEntry, Entry, Apps, Plain, Simple!NewFlow, CommonShape, Guessed
  <2>. QED
    BY <2>1, <2>2
<1>3. 0 \in Good
  BY <1>2
<1>4. ASSUME NEW k \in Nat, k \in Good PROVE k + 1 \in Good
  <2>1. SUFFICES ASSUME k + 1 <= n PROVE Agree(k + 1)
    OBVIOUS
  <2>2. Agree(k) /\ k + 1 \in DOMAIN input /\ k + 1 \in 1 .. n /\ (k + 1) - 1 = k
    BY <1>1, <1>4, <2>1
  <2>. DEFINE m == k + 1
  <2>. HIDE DEF Agree, m
  <2>3. m \in DOMAIN input /\ m \in 1 .. n /\ m - 1 = k
    BY <2>2 DEF m
  <2>4. CASE FlowOf(m) # t
    <3>1. Table[m][t] = Table[k][t] /\ SimpleTable[m][t] = SimpleTable[k][t]
      BY <2>3, <2>4, TableFacts DEF Table, SimpleTable
    <3>. QED
      BY <2>2, <3>1 DEF Agree, m
  <2>5. CASE FlowOf(m) = t
    <3>. DEFINE e == Table[k][t]  p == input[m]
    <3>1. /\ Table[m][t] = Decided(rules, Table[k][t], input[m])
          /\ SimpleTable[m][t] = Simple!Processed(rules, SimpleTable[k][t], input[m])
      BY <2>3, <2>5, TableFacts DEF Table, SimpleTable, TurnOf
    <3>2. p \in Packets /\ p.flow = t /\ LooksAlike(p)
      BY <2>3, <2>5, InputFacts DEF Packets, AlikeTo, FlowOf
    <3>3. e \in Entry /\ CommonShape(t, e) /\ SimpleTable[k][t] = Plain(e)
      BY <2>2 DEF Agree
    <3>. HIDE DEF e, p
    <3>4. /\ Decided(rules, e, p) \in Entry /\ CommonShape(t, Decided(rules, e, p))
          /\ Simple!Processed(rules, Plain(e), p) = Plain(Decided(rules, e, p))
      BY <3>2, <3>3, SameDecision
    <3>5. Table[m][t] = Decided(rules, e, p) /\ SimpleTable[m][t] = Plain(Table[m][t])
      BY <3>1, <3>3, <3>4 DEF e, p
    <3>. QED
      BY <3>4, <3>5 DEF Agree, m
  <2>. QED
    BY <2>4, <2>5 DEF m
<1>. HIDE DEF Good, Agree
<1>5. \A k \in Nat : k \in Good
  BY <1>3, <1>4, NatSetInduction
<1>6. n \in Nat /\ n <= n
  BY <1>1
<1>7. Agree(n)
  BY <1>5, <1>6 DEF Good
<1>. QED
  BY <1>7 DEF Agree

-----------------------------------------------------------------------------
(* What the fast paths know of the flows                                   *)

\* The packets of flow t up to number n are counted, and no others of it.
CountedTo(t, n) == \A id \in DOMAIN input : FlowOf(id) = t => (id \in Counted <=> id <= n)
\* The entry of the flow of packet m, at the fast path its packets go to.
EntryOf(m) == flows[FPOf(input[m])][FlowOf(m)]

\* It is the one that one fast path alone has after as many packets of the flow.
Entries ==
    /\ flows \in [FPIds -> [Flows -> Entry]]
    /\ \A m \in DOMAIN input : \A n \in 0 .. Len(input) :
         CountedTo(FlowOf(m), n) => /\ Shape(FlowOf(m), EntryOf(m))
                                    /\ Table[n][FlowOf(m)] = EntryOf(m)

\* The entry a fast path makes of the packet in turn is what is expected of it.
LEMMA TurnDecidesAlike ==
    ASSUME TypeOK, PlaceInv, Decisions, Entries, NEW f \in FPIds, FPProcess(f)
    PROVE  LET h == Oldest(FPQueue(f))
           IN /\ h \in DOMAIN input /\ FPOf(input[h]) = f
              /\ NewEntryAt(f) \in Entry /\ Shape(FlowOf(h), NewEntryAt(f))
              /\ Table[h][FlowOf(h)] = NewEntryAt(f)
<1>. DEFINE a == FPQueue(f)  h == Oldest(a)  t == FlowOf(h)
<1>1. /\ pipe[a] # <<>> /\ a \in Places /\ a[1] = 3
  BY FPProcessMoves, PlaceFacts
<1>2. /\ h \in In(a) /\ h \in 1 .. total
  BY <1>1, OldestFacts
<1>3. /\ Len(input) \in Nat /\ DOMAIN input = 1 .. Len(input) /\ total \in 0 .. Len(input)
      /\ input \in Captures /\ rules \in RuleSets
  BY InputFacts DEF PlaceInv, TypeOK
<1>4. h \in DOMAIN input
  BY <1>2, <1>3
<1>5. input[h] \in Packets /\ input[h].flow = t /\ t \in Flows
  BY <1>3, <1>4, InputFacts DEF Packets
<1>6. FPOf(input[h]) = f
  <2>. HIDE DEF h
  <2>1. a = PlaceOn(input[h], 3)
    BY <1>1, <1>2 DEF PlaceInv, OnRoute
  <2>2. FPQueue(f) = FPQueue(FPOf(input[h]))
    BY <2>1 DEF PlaceOn
  <2>. QED
    BY <2>2 DEF FPQueue
<1>7. CountedTo(t, h - 1) /\ h - 1 \in 0 .. Len(input)
  <2>1. /\ h \notin Counted
        /\ \A e \in 1 .. h : FlowOf(e) = t => e \in Counted \/ e = h
        /\ \A e \in Counted : FlowOf(e) = t => e < h
    BY <1>1, FPTakesInTurn
  <2>. HIDE DEF h
  <2>2. \A id \in DOMAIN input : /\ id <= h - 1 <=> id < h
                                 /\ id < h => id \in 1 .. h
                                 /\ id < h => id # h
    BY <1>3, <1>4
  <2>. QED
    BY <1>3, <1>4, <2>1, <2>2 DEF CountedTo
<1>. DEFINE e == flows[f][t]
<1>8. Shape(t, e) /\ Table[h - 1][t] = e /\ e \in Entry
  BY <1>4, <1>5, <1>6, <1>7 DEF Entries, EntryOf
<1>9. NewEntryAt(f) = Decided(rules, e, input[h])
  BY DEF NewEntryAt
<1>. HIDE DEF e, h
<1>10. NewEntryAt(f) \in Entry /\ Shape(t, NewEntryAt(f))
  BY <1>5, <1>8, <1>9, DecisionShape
<1>11. Table[h][t] = Decided(rules, Table[h - 1][t], input[h])
  BY <1>3, <1>4, TableFacts DEF Table, TurnOf
<1>. QED
  BY <1>4, <1>6, <1>8, <1>9, <1>10, <1>11 DEF h

LEMMA NextEntries ==
    ASSUME TypeOK, PlaceInv, StopInv, Decisions, Entries, [Next]_vars
    PROVE  Entries'
<1>1. PipeStep
  BY NextPipe
<1>2. UNCHANGED <<rules, input>> /\ Table' = Table
      /\ \A m : FlowOf(m)' = FlowOf(m) /\ FPOf(input[m])' = FPOf(input[m])
  BY <1>1 DEF PipeStep, Table, TableOf, FlowOf
<1>3. CASE UNCHANGED flowVars
  <2>1. Counted' = Counted /\ flows' = flows
    BY <1>3 DEF flowVars, Counted
  <2>. QED
    BY <1>2, <2>1 DEF Entries, CountedTo, EntryOf, FlowOf
<1>4. ASSUME NEW f \in FPIds, FPProcess(f) PROVE Entries'
  <2>. DEFINE h == Oldest(FPQueue(f))  t == FlowOf(h)  e == NewEntryAt(f)
  <2>1. /\ h \in DOMAIN input /\ FPOf(input[h]) = f
        /\ e \in Entry /\ Shape(t, e) /\ Table[h][t] = e
    BY <1>4, TurnDecidesAlike
  <2>2. flows' = [flows EXCEPT ![f][t] = e] /\ Counted' = Counted \cup {h}
    BY <1>4, FPProcessDecides, TurnKeepsDecisions
  <2>3. h \notin Counted /\ \A x \in Counted : FlowOf(x) = t => x < h
    BY <1>4, FPTakesInTurn, FPProcessMoves
  <2>4. /\ Len(input) \in Nat /\ DOMAIN input = 1 .. Len(input)
        /\ input \in Captures /\ rules \in RuleSets
        /\ t \in Flows /\ t \in Seen(input)
    BY <2>1, InputFacts DEF PlaceInv, TypeOK, Seen, FlowOf
  <2>. HIDE DEF e, h
  <2>5. flows' \in [FPIds -> [Flows -> Entry]]
    BY <2>1, <2>2, <2>4 DEF Entries
  <2>6. ASSUME NEW m \in DOMAIN input, NEW n \in 0 .. Len(input), CountedTo(FlowOf(m), n)'
        PROVE  Shape(FlowOf(m), EntryOf(m)') /\ Table[n][FlowOf(m)] = EntryOf(m)'
    <3>1. FlowOf(m) \in Flows /\ FPOf(input[m]) \in FPIds
      BY <2>4, InputFacts, RoutingType
    <3>2. EntryOf(m)' = flows'[FPOf(input[m])][FlowOf(m)]
      BY <1>2 DEF EntryOf, FlowOf
    <3>3. \A id \in DOMAIN input : FlowOf(id) = FlowOf(m) =>
            (id \in Counted \cup {h} <=> id <= n)
      BY <1>2, <2>2, <2>6 DEF CountedTo, FlowOf
    <3>4. CASE FlowOf(m) # t
      <4>1. EntryOf(m)' = EntryOf(m)
        BY <2>2, <3>1, <3>2, <3>4 DEF Entries, EntryOf
      <4>2. CountedTo(FlowOf(m), n)
        BY <3>3, <3>4 DEF CountedTo
      <4>. QED
        BY <4>1, <4>2 DEF Entries
    <3>5. CASE FlowOf(m) = t
      <4>1. FPOf(input[m]) = f
        BY <2>1, <3>5, SameWay DEF FlowOf
      <4>2. EntryOf(m)' = e
        BY <2>2, <2>4, <3>2, <3>5, <4>1 DEF Entries
      <4>3. h <= n
        BY <2>1, <3>3, <3>5
      <4>4. \A id \in h + 1 .. n : FlowOf(id) # t
        <5>1. \A id \in h + 1 .. n : id \in DOMAIN input /\ ~(id < h) /\ id # h /\ id <= n
          BY <2>1, <2>4
        <5>. QED
          BY <2>3, <3>3, <3>5, <5>1
      <4>5. h \in 0 .. Len(input) /\ n \in h .. Len(input)
        BY <2>1, <2>4, <4>3
      <4>6. Table[n][t] = Table[h][t]
        BY <2>4, <4>4, <4>5, TableSteady
      <4>. QED
        BY <2>1, <3>5, <4>2, <4>6
    <3>. QED
      BY <3>4, <3>5
  <2>7. \A m : Shape(FlowOf(m), EntryOf(m)') <=> Shape(FlowOf(m), EntryOf(m))'
    BY <1>2 DEF Shape, CommonShape, Guessed, Known, DNSKnown, EmptyKnown, FlowOf, EntryOf
  <2>. QED
    BY <1>2, <2>5, <2>6, <2>7 DEF Entries
<1>. QED
  BY <1>1, <1>3, <1>4 DEF PipeStep

LEMMA InitEntries == Init => Decisions /\ Entries
<1>. SUFFICES ASSUME Init PROVE Decisions /\ Entries
  OBVIOUS
<1>1. /\ input \in Captures /\ rules \in RuleSets
      /\ Len(input) \in Nat /\ DOMAIN input = 1 .. Len(input) /\ Counted = {}
  BY InputFacts DEF Init, Counted
<1>2. \A p \in Places : In(p) = {}
  BY DEF Init, In
<1>3. Decisions
  <2>1. total = 0 /\ dropped = {} /\ forwarded = {} /\ 1 .. total = {}
    BY DEF Init
  <2>. QED
    BY <1>1, <1>2, <2>1 DEF Decisions, Undecided, Passed
<1>4. NewEntry \in Entry /\ \A t : Shape(t, NewEntry)
  BY DEF NewEntry, Entry, Apps, Shape, CommonShape, Guessed
<1>5. flows \in [FPIds -> [Flows -> Entry]]
  BY <1>4 DEF Init
<1>6. ASSUME NEW m \in DOMAIN input, NEW n \in 0 .. Len(input), CountedTo(FlowOf(m), n)
      PROVE  Shape(FlowOf(m), EntryOf(m)) /\ Table[n][FlowOf(m)] = EntryOf(m)
  <2>1. FlowOf(m) \in Flows /\ FPOf(input[m]) \in FPIds /\ FlowOf(m) \in Seen(input)
    BY <1>1, InputFacts, RoutingType DEF Seen, FlowOf
  <2>2. EntryOf(m) = NewEntry
    BY <2>1 DEF Init, EntryOf
  <2>3. \A id \in 0 + 1 .. n : FlowOf(id) # FlowOf(m)
    <3>1. \A id \in 0 + 1 .. n : id \in DOMAIN input /\ id <= n
      BY <1>1
    <3>. QED
      BY <1>1, <1>6, <3>1 DEF CountedTo
  <2>4. 0 \in 0 .. Len(input) /\ n \in 0 .. Len(input)
    BY <1>1
  <2>5. Table[n][FlowOf(m)] = Table[0][FlowOf(m)]
    BY <1>1, <2>1, <2>3, <2>4, TableSteady
  <2>6. Table[0][FlowOf(m)] = NewEntry
    BY <1>1, <2>1, TableFacts DEF Table, NewOf
  <2>. QED
    BY <1>4, <2>2, <2>5, <2>6
<1>. QED
  BY <1>3, <1>5, <1>6 DEF Entries

-----------------------------------------------------------------------------
(* The same verdicts                                                       *)

Verdicts == \A id \in Counted : Expected[id].blocked <=> id \in dropped

\* What a turn does to the counters, in the words of one fast path alone.
LEMMA TurnCounts ==
    ASSUME TypeOK, PlaceInv, Decisions, Entries, NEW f \in FPIds, FPProcess(f)
    PROVE  \E h \in DOMAIN input : \E e \in Entry :
             /\ h \notin Counted /\ Counted' = Counted \cup {h}
             /\ Expected[h] = e /\ Shape(FlowOf(h), e)
             /\ RecordApp(e)
             /\ e.blocked <=> h \in dropped'
             /\ \A id \in Counted : id \in dropped' <=> id \in dropped
<1>. DEFINE h == Oldest(FPQueue(f))  e == NewEntryAt(f)
<1>1. /\ h \in DOMAIN input /\ e \in Entry /\ Shape(FlowOf(h), e)
      /\ Table[h][FlowOf(h)] = e
  BY TurnDecidesAlike
<1>2. Expected[h] = e
  BY <1>1, ExpectedIsTable DEF TypeOK
<1>3. RecordApp(e)
  BY FPProcessDecides
<1>4. Counted' = Counted \cup {h} /\ h \notin Counted
  BY TurnKeepsDecisions, FPTakesInTurn, FPProcessMoves
<1>5. \/ e.blocked /\ dropped' = dropped \cup {h}
      \/ ~e.blocked /\ dropped' = dropped
  BY FPProcessDecides DEF FPDrops, FPForwards
<1>. HIDE DEF h, e
<1>6. e.blocked <=> h \in dropped'
  BY <1>4, <1>5 DEF Counted
<1>7. \A id \in Counted : id \in dropped' <=> id \in dropped
  BY <1>4, <1>5
<1>. QED
  BY <1>1, <1>2, <1>3, <1>4, <1>6, <1>7

LEMMA NextVerdicts ==
    ASSUME TypeOK, PlaceInv, StopInv, Decisions, Entries, Verdicts, [Next]_vars
    PROVE  Verdicts'
<1>1. PipeStep
  BY NextPipe
<1>2. Expected' = Expected
  BY <1>1 DEF PipeStep, Expected
<1>3. CASE UNCHANGED flowVars
  BY <1>2, <1>3 DEF flowVars, Verdicts, Counted
<1>4. ASSUME NEW f \in FPIds, FPProcess(f) PROVE Verdicts'
  <2>1. PICK h \in DOMAIN input, e \in Entry :
          /\ Counted' = Counted \cup {h}
          /\ Expected[h] = e
          /\ e.blocked <=> h \in dropped'
          /\ \A id \in Counted : id \in dropped' <=> id \in dropped
    BY <1>4, TurnCounts
  <2>2. Expected[h].blocked <=> h \in dropped'
    BY <2>1
  <2>. QED
    BY <1>2, <2>1, <2>2 DEF Verdicts
<1>. QED
  BY <1>1, <1>3, <1>4 DEF PipeStep

-----------------------------------------------------------------------------
(* The report                                                              *)

AppsReported == stats.app_counts =
    [a \in {Expected[id].app : id \in Counted} |->
       Cardinality({id \in Counted : Expected[id].app = a})]
NamesReported == stats.detected_snis =
    [n \in {Expected[id].sni : id \in Counted} \ {""} |-> AppOf[n]]

\* One more packet counted under its application.
LEMMA BagAddCounts ==
    ASSUME NEW S, IsFiniteSet(S), NEW h, h \notin S, NEW g, NEW B,
           B = [a \in {g[id] : id \in S} |-> Cardinality({id \in S : g[id] = a})]
    PROVE  LET T == S \cup {h}
           IN BagAdd(B, g[h]) =
                [a \in {g[id] : id \in T} |-> Cardinality({id \in T : g[id] = a})]
<1>. DEFINE T == S \cup {h}  Of(a) == {id \in S : g[id] = a}
            Now(a) == {id \in T : g[id] = a}
<1>1. \A a : IsFiniteSet(Of(a)) /\ Cardinality(Of(a)) \in Nat
  <2>1. \A a : Of(a) \in SUBSET S
    OBVIOUS
  <2>. HIDE DEF Of
  <2>. QED
    BY <2>1, FS_Subset, FS_CardinalityType
<1>2. \A a : a # g[h] => Now(a) = Of(a)
  OBVIOUS
<1>3. Now(g[h]) = Of(g[h]) \cup {h} /\ h \notin Of(g[h])
  OBVIOUS
<1>4. g[h] \notin {g[id] : id \in S} => Of(g[h]) = {}
  OBVIOUS
<1>5. {g[id] : id \in T} = {g[id] : id \in S} \cup {g[h]}
  OBVIOUS
<1>6. DOMAIN B = {g[id] : id \in S} /\ \A a \in DOMAIN B : B[a] = Cardinality(Of(a))
  OBVIOUS
<1>. DEFINE D == {g[id] : id \in S}
<1>. HIDE DEF Of, Now, T, D
<1>7. Cardinality(Now(g[h])) = Cardinality(Of(g[h])) + 1
  BY <1>1, <1>3, FS_AddElement
<1>8. g[h] \notin D => Cardinality(Now(g[h])) = 1
  BY <1>1, <1>4, <1>7, FS_EmptySet DEF D
<1>9. DOMAIN B = D /\ \A a \in D : B[a] = Cardinality(Of(a))
  BY <1>6 DEF D
<1>10. BagAdd(B, g[h]) = [a \in D \cup {g[h]} |-> Cardinality(Now(a))]
  <2>1. CASE g[h] \in D
    <3>1. D \cup {g[h]} = D
      BY <2>1
    <3>2. BagAdd(B, g[h]) = [a \in D |-> IF a = g[h] THEN B[a] + 1 ELSE B[a]]
      BY <1>9, <2>1 DEF BagAdd
    <3>3. \A a \in D : (IF a = g[h] THEN B[a] + 1 ELSE B[a]) = Cardinality(Now(a))
      BY <1>2, <1>7, <1>9, <2>1
    <3>4. BagAdd(B, g[h]) = [a \in D |-> Cardinality(Now(a))]
      <4>. DEFINE V(a) == IF a = g[h] THEN B[a] + 1 ELSE B[a]
      <4>1. BagAdd(B, g[h]) = [a \in D |-> V(a)]
        BY <3>2
      <4>2. \A a \in D : V(a) = Cardinality(Now(a))
        BY <3>3
      <4>. HIDE DEF V
      <4>. QED
        BY <4>1, <4>2
    <3>. QED
      BY <3>1, <3>4
  <2>2. CASE g[h] \notin D
    <3>. DEFINE V(a) == IF a = g[h] THEN 1 ELSE B[a]
    <3>1. BagAdd(B, g[h]) = [a \in D \cup {g[h]} |-> V(a)]
      BY <1>9, <2>2 DEF BagAdd
    <3>2. \A a \in D \cup {g[h]} : V(a) = Cardinality(Now(a))
      BY <1>2, <1>8, <1>9, <2>2
    <3>. HIDE DEF V
    <3>. QED
      BY <3>1, <3>2
  <2>. QED
    BY <2>1, <2>2
<1>. QED
  BY <1>5, <1>10 DEF D, T, Now

LEMMA NextReported ==
    ASSUME TypeOK, PlaceInv, StopInv, Decisions, Entries, AppsReported, NamesReported,
           [Next]_vars
    PROVE  AppsReported' /\ NamesReported'
<1>1. PipeStep
  BY NextPipe
<1>2. Expected' = Expected
  BY <1>1 DEF PipeStep, Expected
<1>3. CASE UNCHANGED flowVars
  <2>1. stats' = stats /\ Counted' = Counted
    BY <1>3 DEF flowVars, Counted
  <2>. DEFINE X == Expected
            Counts(x, s) == [a \in {x[id].app : id \in s} |->
                               Cardinality({id \in s : x[id].app = a})]
            SNINames(x, s) == [n \in {x[id].sni : id \in s} \ {""} |-> AppOf[n]]
  <2>2. AppsReported'
    <3>1. stats.app_counts = Counts(X, Counted)
      BY DEF AppsReported
    <3>2. AppsReported' <=> stats'.app_counts = Counts(X', Counted')
      BY DEF AppsReported
    <3>. HIDE DEF X, Counts
    <3>3. X' = X
      BY <1>2 DEF X
    <3>. QED
      BY <2>1, <3>1, <3>2, <3>3
  <2>3. NamesReported'
    <3>1. stats.detected_snis = SNINames(X, Counted)
      BY DEF NamesReported
    <3>2. NamesReported' <=> stats'.detected_snis = SNINames(X', Counted')
      BY DEF NamesReported
    <3>. HIDE DEF X, SNINames
    <3>3. X' = X
      BY <1>2 DEF X
    <3>. QED
      BY <2>1, <3>1, <3>2, <3>3
  <2>. QED
    BY <2>2, <2>3
<1>4. ASSUME NEW f \in FPIds, FPProcess(f) PROVE AppsReported' /\ NamesReported'
  <2>1. PICK h \in DOMAIN input, e \in Entry :
          /\ h \notin Counted /\ Counted' = Counted \cup {h}
          /\ Expected[h] = e /\ Shape(FlowOf(h), e)
          /\ RecordApp(e)
    BY <1>4, TurnCounts
  <2>2. Expected[h].app = e.app /\ Expected[h].sni = e.sni
    BY <2>1
  <2>3. IsFiniteSet(Counted)
    <3>1. Counted \in SUBSET (1 .. total) /\ total \in Int
      BY PlaceTypes DEF TypeOK, Counted
    <3>2. IsFiniteSet(1 .. total)
      BY <3>1, FS_Interval
    <3>. QED
      BY <3>1, <3>2, FS_Subset
  <2>4. stats' = [app_counts |-> BagAdd(stats.app_counts, e.app), detected_snis |-> SNIs(e)]
    BY <2>1 DEF RecordApp
  <2>. DEFINE S == Counted  T == S \cup {h}  X == Expected
  <2>5. AppsReported'
    <3>. DEFINE g == [id \in T |-> X[id].app]
    <3>1. \A id \in T : g[id] = X[id].app
      OBVIOUS
    <3>2. {X[id].app : id \in S} = {g[id] : id \in S}
          /\ \A a : {id \in S : X[id].app = a} = {id \in S : g[id] = a}
      OBVIOUS
    <3>3. {X[id].app : id \in T} = {g[id] : id \in T}
          /\ \A a : {id \in T : X[id].app = a} = {id \in T : g[id] = a}
      OBVIOUS
    <3>4. stats.app_counts =
            [a \in {X[id].app : id \in S} |-> Cardinality({id \in S : X[id].app = a})]
      BY DEF AppsReported
    <3>. HIDE DEF g, S, X
    <3>5. stats.app_counts =
            [a \in {g[id] : id \in S} |-> Cardinality({id \in S : g[id] = a})]
      BY <3>2, <3>4
    <3>6. g[h] = e.app /\ h \notin S /\ IsFiniteSet(S)
      BY <2>1, <2>2, <2>3, <3>1 DEF S, X
    <3>7. BagAdd(stats.app_counts, e.app) =
            [a \in {g[id] : id \in T} |-> Cardinality({id \in T : g[id] = a})]
      BY <3>5, <3>6, BagAddCounts
    <3>8. BagAdd(stats.app_counts, e.app) =
            [a \in {X[id].app : id \in T} |-> Cardinality({id \in T : X[id].app = a})]
      BY <3>3, <3>7
    <3>. QED
      BY <1>2, <2>1, <2>4, <3>8 DEF AppsReported, S, X
  <2>6. NamesReported'
    <3>. DEFINE D == {X[id].sni : id \in S} \ {""}
    <3>1. stats.detected_snis = [n \in D |-> AppOf[n]]
      BY DEF NamesReported
    <3>2. SNIs(e) = [n \in {X[id].sni : id \in T} \ {""} |-> AppOf[n]]
      <4>1. {X[id].sni : id \in T} = {X[id].sni : id \in S} \cup {e.sni}
        BY <2>2
      <4>2. CASE e.sni = ""
        <5>1. {X[id].sni : id \in T} \ {""} = D
          BY <4>1, <4>2
        <5>. QED
          BY <3>1, <4>2, <5>1 DEF SNIs
      <4>3. CASE e.sni # ""
        <5>1. e.app = AppOf[e.sni]
          BY <2>1, <4>3 DEF Shape, CommonShape, Guessed, Known, DNSKnown, EmptyKnown
        <5>2. {X[id].sni : id \in T} \ {""} = D \cup {e.sni}
          BY <4>1, <4>3
        <5>. HIDE DEF D, T, X
        <5>3. DOMAIN stats.detected_snis = D
          BY <3>1
        <5>4. SNIs(e) = [n \in D \cup {e.sni} |->
                           IF n = e.sni THEN e.app ELSE stats.detected_snis[n]]
          BY <4>3, <5>3 DEF SNIs
        <5>5. \A n \in D \cup {e.sni} :
                (IF n = e.sni THEN e.app ELSE stats.detected_snis[n]) = AppOf[n]
          BY <3>1, <5>1
        <5>. QED
          BY <5>2, <5>4, <5>5
      <4>. QED
        BY <4>2, <4>3
    <3>3. stats'.detected_snis = [n \in {X[id].sni : id \in T} \ {""} |-> AppOf[n]]
      BY <2>4, <3>2
    <3>. HIDE DEF D, X, T
    <3>4. X' = X /\ Counted' = T
      BY <1>2, <2>1 DEF X, T, S
    <3>5. NamesReported' <=> stats'.detected_snis =
            [n \in {X'[id].sni : id \in Counted'} \ {""} |-> AppOf[n]]
      BY DEF NamesReported, X
    <3>. QED
      BY <3>3, <3>4, <3>5
  <2>. QED
    BY <2>5, <2>6
<1>. QED
  BY <1>1, <1>3, <1>4 DEF PipeStep

\* When all have ended nothing is on the way.
LEMMA DoneIsWritten ==
    ASSUME TypeOK, PlaceInv, StopInv, Decisions, step = "done"
    PROVE  forwarded = In(File)
<1>1. \A w \in Workers : w \in ended
  <2>1. /\ \A i \in 0 .. at - 1 : Worker(i) \in ended
        /\ at = NumWorkers - 1 /\ Worker(at) \in ended
    BY DEF StopInv
  <2>2. \A i \in 0 .. NumWorkers - 1 : i \in 0 .. at - 1 \/ i = at
    BY <2>1, CountTypes
  <2>. QED
    BY <2>1, <2>2, WorkerOrder
<1>2. ASSUME NEW p \in Places, p[1] >= 4, p # File PROVE In(p) = {}
  <2>1. pipe[p] = <<>>
    <3>1. CASE p \in Workers \ {Output}
      BY <1>1, <3>1, HandsFull
    <3>2. CASE p \in Queues
      <4>1. p = OutQueue
        <5>1. PICK w \in Workers : p = InputOf(w)
          BY <3>2 DEF Queues
        <5>2. w = Output
          BY <1>2, <5>1, PlaceFacts
        <5>. QED
          BY <5>1, <5>2, PlaceFacts
      <4>. QED
        BY <1>1, <4>1, PlaceFacts DEF StopInv
    <3>. QED
      BY <1>2, <3>1, <3>2, PlaceFacts
  <2>. QED
    BY <2>1 DEF In
<1>3. File \in Places /\ File[1] = 7 /\ 7 >= 4 /\ In(File) \subseteq 1 .. total
  BY PlaceFacts, PlaceTypes
<1>4. Passed = In(File)
  BY <1>2, <1>3 DEF Passed
<1>. QED
  BY <1>4 DEF Decisions

-----------------------------------------------------------------------------
(* The invariant, and the theorems                                         *)

MtInv == /\ TypeOK /\ PlaceInv /\ StopInv
         /\ Decisions /\ Entries
         /\ Verdicts /\ AppsReported /\ NamesReported

LEMMA InitMtInv == Init => MtInv
<1>. SUFFICES ASSUME Init PROVE MtInv
  OBVIOUS
<1>1. Counted = {}
  BY DEF Init, Counted
<1>2. Verdicts
  BY <1>1 DEF Verdicts
<1>3. AppsReported
  BY <1>1 DEF AppsReported, Init
<1>4. NamesReported
  BY <1>1 DEF NamesReported, Init
<1>. QED
  BY <1>2, <1>3, <1>4, InitControl, InitEntries DEF MtInv

LEMMA NextMtInv == MtInv /\ [Next]_vars => MtInv'
BY NextTypes, NextPlace, NextStop, NextDecisions, NextEntries, NextVerdicts, NextReported
DEF MtInv

\* For every capture, whatever the threads do, a packet is dropped or forwarded as
\* by one fast path that takes the capture in its order, and what is never decided
\* is the end of a flow.
THEOREM SameVerdictsCorrect == Spec => []SameVerdicts
<1>1. Spec => []MtInv
  BY InitMtInv, NextMtInv, PTL DEF Spec
<1>2. MtInv => SameVerdicts
  <2>. SUFFICES ASSUME MtInv PROVE SameVerdicts
    OBVIOUS
  <2>1. \A id \in dropped : Expected[id].blocked
    BY DEF MtInv, Verdicts, Counted
  <2>2. \A id \in forwarded : ~Expected[id].blocked
    BY DEF MtInv, Verdicts, Counted, Decisions
  <2>3. \A id \in Counted : \A e \in 1 .. id : input[e].flow = input[id].flow => e \in Counted
    BY DEF MtInv, Decisions, FlowOf
  <2>. QED
    BY <2>1, <2>2, <2>3 DEF SameVerdicts
<1>. QED
  BY <1>1, <1>2, PTL

\* As long as a flow carries a name in TCP only, and never an empty one, its packets
\* get the verdict, the application and the name that main_working.cpp gives them.
THEOREM AgreesWithSimpleCorrect == Spec => []AgreesWithSimple
<1>1. Spec => []MtInv
  BY InitMtInv, NextMtInv, PTL DEF Spec
<1>2. MtInv => AgreesWithSimple
  <2>. SUFFICES ASSUME MtInv, NEW id \in Counted,
                       \A e \in 1 .. id : input[e].flow = input[id].flow =>
                                             LooksAlike(input[e])
                PROVE  /\ id \in dropped <=> InSimple[id].blocked
                       /\ Expected[id].app = InSimple[id].app
                       /\ Expected[id].sni = InSimple[id].sni
    BY DEF AgreesWithSimple
  <2>1. total \in 0 .. Len(input) /\ id \in 1 .. total
    BY DEF MtInv, TypeOK, Counted
  <2>2. /\ input \in Captures /\ rules \in RuleSets
        /\ Len(input) \in Nat /\ DOMAIN input = 1 .. Len(input)
    BY InputFacts DEF MtInv, TypeOK
  <2>3. id \in DOMAIN input
    BY <2>1, <2>2
  <2>4. id \in 0 .. Len(input) /\ FlowOf(id) \in Seen(input) /\ AlikeTo(FlowOf(id), id)
    BY <2>2, <2>3 DEF FlowOf, Seen, AlikeTo
  <2>5. InSimple[id] = Plain(Expected[id])
    BY <2>2, <2>3, <2>4, TablesAgree, ExpectedIsTable
  <2>6. id \in dropped <=> Expected[id].blocked
    BY DEF MtInv, Verdicts
  <2>. QED
    BY <2>5, <2>6 DEF Plain
<1>. QED
  BY <1>1, <1>2, PTL

\* For every capture, when process() returns, the packets that were counted as
\* forwarded are those of the output file, and the applications and names of the
\* report are those that one fast path alone finds in the packets that were decided.
THEOREM ReportTrueCorrect == Spec => []ReportTrue
<1>1. Spec => []MtInv
  BY InitMtInv, NextMtInv, PTL DEF Spec
<1>2. MtInv => ReportTrue
  BY DoneIsWritten DEF MtInv, ReportTrue, AppsReported, NamesReported
<1>. QED
  BY <1>1, <1>2, PTL

-----------------------------------------------------------------------------
(* The refinement: three steps show, the reading of a packet, the drop of  *)
(* a fast path and the write of the output thread                          *)

LEMMA InputMapped ==
    ASSUME input \in Captures
    PROVE  LET mapped == [i \in DOMAIN input |-> input[i].flow]
           IN /\ Len(mapped) = Len(input)
              /\ \A i \in DOMAIN input : mapped[i] = FlowOf(i)
<1>1. Len(input) \in Nat /\ DOMAIN input = 1 .. Len(input)
  BY InputFacts
<1>. QED
  BY <1>1 DEF FlowOf

LEMMA EnterAccepts ==
    ASSUME MtInv, NEW q \in Places, Enter(q), q[1] = 1, UNCHANGED <<input, dropped>>
    PROVE  Service!Accept
<1>1. q # File /\ File \in Places
  BY PlaceFacts
<1>2. pipe'[File] = pipe[File]
  BY <1>1, EnterFacts DEF MtInv
<1>3. total < Len(input) /\ total' = total + 1
  BY DEF Enter
<1>4. total < Len([i \in DOMAIN input |-> input[i].flow])
  BY <1>3, InputMapped DEF MtInv, PlaceInv
<1>. QED
  BY <1>2, <1>3, <1>4 DEF Service!Accept

LEMMA DropDiscards ==
    ASSUME MtInv, NEW f \in FPIds, FPProcess(f), FPDrops(f)
    PROVE  Service!Discard(Oldest(FPQueue(f))) /\ Oldest(FPQueue(f)) \in Service!Pending
<1>. DEFINE a == FPQueue(f)  h == Oldest(a)
<1>1. /\ a \in Places /\ File \in Places /\ a # File /\ pipe[a] # <<>>
  BY FPProcessMoves, PlaceFacts DEF MtInv
<1>2. h \in (1 .. total) \ Counted
  BY <1>1, FPTakesInTurn DEF MtInv
<1>3. h \notin In(File)
  BY <1>1, OldestFacts DEF MtInv
<1>4. /\ UNCHANGED <<input, total>> /\ pipe' = Removed(a) /\ dropped' = dropped \cup {h}
  BY FPProcessDecides DEF FPDrops, Leave, MtInv
<1>5. pipe'[File] = pipe[File]
  BY <1>1, <1>4 DEF Removed, MtInv, PlaceInv
<1>. HIDE DEF a, h
<1>6. h \in Service!Pending
  BY <1>2, <1>3 DEF Service!Pending, Service!Written, In, Counted
<1>. QED
  BY <1>4, <1>5, <1>6 DEF Service!Discard, h, a

\* A packet that is read and not dropped is somewhere.
LEMMA EveryPacketPlaced ==
    ASSUME MtInv, NEW e \in 1 .. total, e \notin dropped
    PROVE  \E p \in Places : e \in In(p)
<1>1. e \in Undecided \/ e \in Passed
  BY DEF MtInv, Decisions, Counted
<1>. QED
  BY <1>1 DEF Undecided, Passed

LEMMA WriteDelivers ==
    ASSUME MtInv, NEW a \in Places, Advance(a, File), UNCHANGED <<input, dropped>>
    PROVE  Service!Deliver(Oldest(a)) /\ Oldest(a) \in Service!Pending
<1>. DEFINE h == Oldest(a)
<1>1. /\ a[1] = 5 /\ File[1] = 7 /\ a # File /\ File \in Places /\ pipe[a] # <<>>
      /\ pipe' = Moved(a, File) /\ total' = total
  BY PlaceFacts DEF Advance, NextStage
<1>2. /\ h \in In(a) /\ h \in 1 .. total
      /\ \A x \in In(a) : FlowOf(x) = FlowOf(h) => x = h \/ h < x
      /\ \A p \in Places : h \in In(p) => p = a
  BY <1>1, OldestFacts DEF MtInv
<1>3. h \notin dropped /\ h \notin In(File)
  <2>1. 5 >= 4
    OBVIOUS
  <2>2. h \in Passed
    BY <1>1, <1>2, <2>1 DEF Passed
  <2>. QED
    BY <1>1, <1>2, <2>2 DEF MtInv, Decisions
<1>4. pipe'[File] = Append(pipe[File], h)
  BY <1>1 DEF Moved, Oldest, MtInv, PlaceInv
<1>. DEFINE mapped == [i \in DOMAIN input |-> input[i].flow]
<1>5. \A e \in 1 .. total : mapped[e] = FlowOf(e)
  <2>1. \A e \in 1 .. total : e \in DOMAIN input
    BY InputFacts DEF MtInv, PlaceInv
  <2>. QED
    BY <2>1, InputMapped DEF MtInv, PlaceInv
<1>. HIDE DEF h, mapped
<1>6. Service!Pending = (1 .. total) \ (dropped \cup In(File))
  BY DEF Service!Pending, Service!Written, In
<1>7. h \in Service!Pending
  BY <1>2, <1>3, <1>6
<1>8. ASSUME NEW e \in Service!Pending, mapped[e] = mapped[h] PROVE h <= e
  <2>1. e \in 1 .. total /\ e \notin dropped /\ e \notin In(File) /\ FlowOf(e) = FlowOf(h)
    BY <1>2, <1>5, <1>6, <1>8
  <2>2. PICK p \in Places : e \in In(p)
    BY <2>1, EveryPacketPlaced
  <2>3. p[1] \in {1, 2, 3, 4, 5} /\ (p[1] = 5 \/ 5 > p[1])
    <3>1. p # File /\ p[1] \in {1, 2, 3, 4, 5, 7}
      BY <2>1, <2>2, PlaceFacts
    <3>2. p[1] # 7
      BY <3>1, PlaceFacts
    <3>. QED
      BY <3>1, <3>2
  <2>4. h \in Nat /\ e \in Nat
    BY <1>2, <2>1, PlaceTypes DEF MtInv
  <2>5. CASE p[1] = 5
    <3>1. p = a
      BY <1>1, <1>2, <2>1, <2>2, <2>5, OnePlace DEF MtInv
    <3>. QED
      BY <1>2, <2>1, <2>2, <2>4, <3>1
  <2>6. CASE 5 > p[1]
    <3>1. h < e
      BY <1>1, <1>2, <2>1, <2>2, <2>6 DEF MtInv, PlaceInv, FlowOrder
    <3>. QED
      BY <2>4, <3>1
  <2>. QED
    BY <2>3, <2>5, <2>6
<1>9. mapped' = mapped
  BY DEF mapped
<1>10. Service!Deliver(h)
  BY <1>1, <1>4, <1>7, <1>8, <1>9 DEF Service!Deliver, mapped
<1>. QED
  BY <1>7, <1>10 DEF h

LEMMA StepRefines ==
    ASSUME MtInv, [Next]_vars
    PROVE  Service!Next \/ UNCHANGED Service!vars
<1>1. PipeStep /\ UNCHANGED input /\ File \in Places
  BY NextPipe, PlaceFacts DEF MtInv, PipeStep
<1>2. ASSUME UNCHANGED <<dropped, total>>, pipe'[File] = pipe[File]
      PROVE  UNCHANGED Service!vars
  BY <1>1, <1>2 DEF Service!vars
<1>3. CASE Stay /\ UNCHANGED flowVars
  BY <1>2, <1>3 DEF Stay, flowVars
<1>4. ASSUME NEW q \in Places, Enter(q), q[1] = 1, UNCHANGED flowVars
      PROVE  Service!Next
  BY <1>1, <1>4, EnterAccepts DEF flowVars, Service!Next
<1>5. ASSUME NEW a \in Places, NEW b \in Places, Advance(a, b), a[1] # 3, UNCHANGED flowVars
      PROVE  Service!Next \/ UNCHANGED Service!vars
  <2>1. CASE b = File
    BY <1>1, <1>5, <2>1, WriteDelivers DEF flowVars, Service!Next
  <2>2. CASE b # File
    <3>1. a # File
      BY <1>5, PlaceFacts DEF Advance, NextStage
    <3>2. pipe'[File] = pipe[File]
      BY <1>1, <1>5, <2>2, <3>1 DEF Advance, Moved, MtInv, PlaceInv
    <3>. QED
      BY <1>2, <1>5, <3>2 DEF Advance, flowVars
  <2>. QED
    BY <2>1, <2>2
<1>6. ASSUME NEW f \in FPIds, FPProcess(f)
      PROVE  Service!Next \/ UNCHANGED Service!vars
  <2>1. CASE FPDrops(f)
    BY <1>6, <2>1, DropDiscards DEF Service!Next
  <2>2. CASE FPForwards(f)
    <3>1. FPQueue(f) # File /\ FP(f) # File
      BY PlaceFacts
    <3>2. /\ pipe' = Moved(FPQueue(f), FP(f)) /\ total' = total /\ dropped' = dropped
      BY <2>2 DEF FPForwards, Advance
    <3>3. pipe'[File] = pipe[File]
      BY <1>1, <3>1, <3>2 DEF Moved, MtInv, PlaceInv
    <3>. QED
      BY <1>2, <3>2, <3>3
  <2>. QED
    BY <1>6, <2>1, <2>2, FPProcessDecides DEF MtInv
<1>. QED
  BY <1>1, <1>3, <1>4, <1>5, <1>6 DEF PipeStep

\* The file and the counters behave as PacketService says: no packet is both
\* dropped and written, none twice, and each flow is in the file in the order of
\* the capture.
THEOREM MtImplementsService == Spec => ImplementsService
<1>1. Init => Service!Init
  BY PlaceFacts DEF Init, Service!Init
<1>2. Spec => []MtInv
  BY InitMtInv, NextMtInv, PTL DEF Spec
<1>3. MtInv /\ [Next]_vars => [Service!Next]_(Service!vars)
  BY StepRefines
<1>. QED
  BY <1>1, <1>2, <1>3, PTL DEF Spec, Service!Spec, ImplementsService

=============================================================================
