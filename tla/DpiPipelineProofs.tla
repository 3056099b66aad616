------------------------- MODULE DpiPipelineProofs -------------------------
(***************************************************************************)
(* Proofs about DpiPipeline for every topology, capacity, hash function    *)
(* and capture: its types, that packets of one flow keep their order, that *)
(* no packet vanishes, that the pipeline implements PacketService, and     *)
(* what is true when processFile returns.                                  *)
(*                                                                         *)
(* Almost every step either leaves the packets where they are or moves the *)
(* oldest packet of one place to the next place on the route of its flow   *)
(* (PipeStep).  That no step loses a packet is because a thread that can   *)
(* still push or write never finds the next queue shut down, or the file   *)
(* closed (StopInv).                                                       *)
(*                                                                         *)
(* What the reports say at the end - that what is counted as forwarded is  *)
(* in the file, how much the drain loop may lose, that the counters of the *)
(* threads agree - is about how far the packets have come.  Ahead(s) are   *)
(* those that are still at stage s or before it; a packet only ever leaves *)
(* these sets, and each counter counts the packets that have left one.     *)
(***************************************************************************)
EXTENDS DpiPipeline, SequenceTheorems, FiniteSetTheorems, TLAPS

-----------------------------------------------------------------------------
(* The topology                                                            *)

\* An LB's fast paths are fast paths: both hash levels stay in range.
LEMMA RoutingType ==
    ASSUME NEW t \in Tuples
    PROVE  /\ LBOf(t) \in LBIds
           /\ FPOf(t) \in FPIds
<1>. USE TopologyAssumption, InputAssumption
<1>1. Hash[t] \in Nat
  OBVIOUS
<1>2. LBOf(t) \in 0 .. NumLBs - 1
  BY <1>1 DEF LBOf
<1>3. Hash[t] % FPsPerLB \in 0 .. FPsPerLB - 1
  BY <1>1
<1>4. ASSUME NEW a \in 0 .. NumLBs - 1, NEW b \in 0 .. FPsPerLB - 1
      PROVE  (a * FPsPerLB) + b \in 0 .. (NumLBs * FPsPerLB) - 1
  <2>1. PICK k \in Nat : NumLBs = a + 1 + k
    <3>1. NumLBs - a - 1 \in Nat
      OBVIOUS
    <3>2. NumLBs = a + 1 + (NumLBs - a - 1)
      OBVIOUS
    <3>. QED BY <3>1, <3>2
  <2>2. NumLBs * FPsPerLB = (a * FPsPerLB) + FPsPerLB + (k * FPsPerLB)
    BY <2>1
  <2>3. a * FPsPerLB \in Nat /\ k * FPsPerLB \in Nat
    OBVIOUS
  <2>. QED BY <2>2, <2>3
<1>. QED
  BY <1>2, <1>3, <1>4 DEF FPOf, LBIds, FPIds, NumFPs

\* What the names of the places stand for.
LEMMA PlaceFacts ==
    /\ Reader \in Threads /\ Reader \notin Workers
    /\ Output \in Workers /\ InputOf(Output) = OutQueue
    /\ \A l \in LBIds : LB(l) \in Workers /\ InputOf(LB(l)) = LBQueue(l)
    /\ \A f \in FPIds : FP(f) \in Workers /\ InputOf(FP(f)) = FPQueue(f)
    /\ \A w \in Workers : /\ w \in Threads
                          /\ InputOf(w) \in Queues
                          /\ w[1] \in {3, 5, 7} /\ InputOf(w)[1] = w[1] - 1
    /\ \A t \in Threads : t \in Places /\ t[1] \in {1, 3, 5, 7}
    /\ \A q \in Queues : q \in Places /\ q[1] \in {2, 4, 6}
    /\ File \in Places /\ File[1] = 8
    /\ \A p \in Places : p \in Threads \/ p \in Queues \/ p = File
<1>1. \A w \in Workers : w[1] \in {3, 5, 7} /\ InputOf(w)[1] = w[1] - 1
  BY DEF Workers, LBs, FPs, LB, FP, Output, InputOf
<1>2. \A l \in LBIds : InputOf(LB(l)) = LBQueue(l)
  BY DEF LB, LBQueue, InputOf
<1>3. \A f \in FPIds : InputOf(FP(f)) = FPQueue(f)
  BY DEF FP, FPQueue, InputOf
<1>4. InputOf(Output) = OutQueue
  BY DEF Output, OutQueue, InputOf
<1>5. Reader[1] = 1 /\ File[1] = 8
  BY DEF Reader, File
<1>6. \A q \in Queues : q[1] \in {2, 4, 6}
  BY <1>1 DEF Queues
<1>. QED
  BY <1>1, <1>2, <1>3, <1>4, <1>5, <1>6
  DEF Places, Threads, Workers, Queues, LBs, FPs

\* No place is both a thread and a queue, or one of these and the file.
LEMMA PlacesApart ==
    /\ \A t \in Threads, q \in Queues : t # q
    /\ \A t \in Threads : t # File
    /\ \A q \in Queues : q # File
BY PlaceFacts

LEMMA Stages ==
    \A p \in Places : /\ p[1] \in Nat /\ p[1] \in 1 .. 8
                      /\ p # File => p[1] \in 1 .. 7
BY PlaceFacts

-----------------------------------------------------------------------------
(* Moving packets                                                          *)

\* Taking the first element of a sequence, and adding a last one.
LEMMA TakeFirst ==
    ASSUME NEW S, NEW s \in Seq(S), s # <<>>
    PROVE  /\ Head(s) = s[1] /\ Head(s) \in S
           /\ Tail(s) \in Seq(S) /\ Len(Tail(s)) = Len(s) - 1
           /\ \A i \in 1 .. Len(s) - 1 : Tail(s)[i] = s[i + 1]
OBVIOUS

LEMMA AddLast ==
    ASSUME NEW S, NEW s \in Seq(S), NEW e \in S
    PROVE  /\ Append(s, e) \in Seq(S) /\ Len(Append(s, e)) = Len(s) + 1
           /\ \A i \in 1 .. Len(s) : Append(s, e)[i] = s[i]
           /\ Append(s, e)[Len(s) + 1] = e
OBVIOUS

LEMMA SeqOfLarger ==
    ASSUME NEW S, NEW T, S \subseteq T, NEW s \in Seq(S)
    PROVE  s \in Seq(T)
OBVIOUS

\* What Moved does to the packets at each place.
LEMMA MovedFacts ==
    ASSUME pipe \in [Places -> Seq(1 .. total)],
           NEW a \in Places, NEW b \in Places, a # b, pipe[a] # <<>>
    PROVE  /\ Head(pipe[a]) = pipe[a][1] /\ Head(pipe[a]) \in 1 .. total
           /\ Moved(a, b) \in [Places -> Seq(1 .. total)]
           /\ Len(Moved(a, b)[a]) = Len(pipe[a]) - 1
           /\ Len(Moved(a, b)[b]) = Len(pipe[b]) + 1
           /\ \A i \in 1 .. Len(pipe[a]) - 1 :
                Moved(a, b)[a][i] = pipe[a][i + 1]
           /\ \A i \in 1 .. Len(pipe[b]) : Moved(a, b)[b][i] = pipe[b][i]
           /\ Moved(a, b)[b][Len(pipe[b]) + 1] = pipe[a][1]
           /\ \A p \in Places : p # a /\ p # b => Moved(a, b)[p] = pipe[p]
<1>. DEFINE S == 1 .. total
<1>1. pipe \in [Places -> Seq(S)] /\ pipe[a] \in Seq(S) /\ pipe[b] \in Seq(S)
  OBVIOUS
<1>. HIDE DEF S
<1>2. /\ Head(pipe[a]) = pipe[a][1] /\ Head(pipe[a]) \in S
      /\ Tail(pipe[a]) \in Seq(S) /\ Len(Tail(pipe[a])) = Len(pipe[a]) - 1
      /\ \A i \in 1 .. Len(pipe[a]) - 1 : Tail(pipe[a])[i] = pipe[a][i + 1]
  BY <1>1, TakeFirst
<1>3. /\ Append(pipe[b], Head(pipe[a])) \in Seq(S)
      /\ Len(Append(pipe[b], Head(pipe[a]))) = Len(pipe[b]) + 1
      /\ \A i \in 1 .. Len(pipe[b]) :
           Append(pipe[b], Head(pipe[a]))[i] = pipe[b][i]
      /\ Append(pipe[b], Head(pipe[a]))[Len(pipe[b]) + 1] = Head(pipe[a])
  BY <1>1, <1>2, AddLast
<1>4. /\ Moved(a, b)[a] = Tail(pipe[a])
      /\ Moved(a, b)[b] = Append(pipe[b], Head(pipe[a]))
      /\ \A p \in Places : p # a /\ p # b => Moved(a, b)[p] = pipe[p]
  BY <1>1 DEF Moved
<1>5. Moved(a, b) \in [Places -> Seq(S)]
  BY <1>1, <1>2, <1>3 DEF Moved
<1>. QED
  BY <1>2, <1>3, <1>4, <1>5 DEF S

\* What Removed does to the packets at each place.
LEMMA RemovedFacts ==
    ASSUME pipe \in [Places -> Seq(1 .. total)],
           NEW a \in Places, pipe[a] # <<>>
    PROVE  /\ Head(pipe[a]) = pipe[a][1] /\ Head(pipe[a]) \in 1 .. total
           /\ Removed(a) \in [Places -> Seq(1 .. total)]
           /\ Len(Removed(a)[a]) = Len(pipe[a]) - 1
           /\ \A i \in 1 .. Len(pipe[a]) - 1 : Removed(a)[a][i] = pipe[a][i + 1]
           /\ \A p \in Places : p # a => Removed(a)[p] = pipe[p]
<1>. DEFINE S == 1 .. total
<1>1. pipe \in [Places -> Seq(S)] /\ pipe[a] \in Seq(S)
  OBVIOUS
<1>. HIDE DEF S
<1>2. /\ Head(pipe[a]) = pipe[a][1] /\ Head(pipe[a]) \in S
      /\ Tail(pipe[a]) \in Seq(S) /\ Len(Tail(pipe[a])) = Len(pipe[a]) - 1
      /\ \A i \in 1 .. Len(pipe[a]) - 1 : Tail(pipe[a])[i] = pipe[a][i + 1]
  BY <1>1, TakeFirst
<1>3. /\ Removed(a)[a] = Tail(pipe[a])
      /\ Removed(a) \in [Places -> Seq(S)]
      /\ \A p \in Places : p # a => Removed(a)[p] = pipe[p]
  BY <1>1, <1>2 DEF Removed
<1>. QED
  BY <1>2, <1>3 DEF S

-----------------------------------------------------------------------------
(* Type correctness                                                        *)

\* A thread holds a packet exactly in the steps between taking it and passing
\* it on; that is what makes Held meaningful where it is used.
Holding == {"process", "push", "write"}
HandInv == \A t \in Threads : Len(pipe[t]) = IF pc[t] \in Holding THEN 1 ELSE 0

\* TypeOK in two parts: where the packets are, and the rest.
PipeType == /\ input \in Seq(Tuples)
            /\ total \in 0 .. Len(input)
            /\ pipe \in [Places -> Seq(1 .. total)]
            /\ \A q \in Queues : Len(pipe[q]) <= Capacity
Steps == {"open", "read", "check", "empty?", "pop", "process", "push", "write",
          "exit"}
MainType == /\ step \in {"wait", "poll", "stop", "join", "done"}
            /\ at \in 0 .. NumWorkers - 1
            /\ drained \in BOOLEAN
ControlType == /\ pc \in [Threads -> Steps]
               /\ running \in [Workers -> BOOLEAN]
               /\ shut \subseteq Queues
               /\ MainType
               /\ header \in BOOLEAN
               /\ fileOpen \in BOOLEAN
               /\ dropped \subseteq 1 .. total
               /\ forwarded \subseteq 1 .. total
               /\ stats \in Count
TypeInv == PipeType /\ ControlType /\ HandInv

LEMMA TypeInvImpliesTypeOK == TypeInv => TypeOK
<1>. SUFFICES ASSUME TypeInv PROVE TypeOK
  OBVIOUS
<1>1. \A t \in Threads : Len(pipe[t]) <= 1
  BY DEF TypeInv, HandInv
<1>. QED
  BY <1>1 DEF TypeInv, PipeType, ControlType, MainType, Steps, TypeOK

LEMMA HeldFacts ==
    ASSUME PipeType, HandInv, NEW t \in Threads, pc[t] \in Holding
    PROVE  /\ pipe[t] # <<>> /\ Len(pipe[t]) = 1
           /\ Held(t) \in 1 .. total
           /\ Held(t) = pipe[t][1]
           /\ input[Held(t)] \in Tuples
<1>1. pipe[t] \in Seq(1 .. total) /\ Len(pipe[t]) = 1
  BY PlaceFacts DEF PipeType, HandInv
<1>. QED
  BY <1>1 DEF PipeType, Held

LEMMA PushType ==
    ASSUME PipeType, HandInv, pc \in [Threads -> Steps],
           NEW t \in Threads, NEW q \in Queues, NEW next \in Steps \ Holding,
           pc[t] \in Holding, Push(t, q), Goto(t, next),
           UNCHANGED <<input, total>>
    PROVE  PipeType' /\ HandInv'
<1>1. pipe \in [Places -> Seq(1 .. total)]
  BY DEF PipeType
<1>2. t \in Places /\ q \in Places /\ t # q /\ pipe[t] # <<>> /\ Len(pipe[t]) = 1
  BY PlaceFacts, PlacesApart, HeldFacts
<1>3. CASE q \in shut
  <2>1. pipe' = Removed(t)
    BY <1>3 DEF Push
  <2>2. /\ \A p \in Places : p # t => pipe'[p] = pipe[p]
        /\ pipe' \in [Places -> Seq(1 .. total)] /\ Len(pipe'[t]) = 0
    BY <1>1, <1>2, <2>1, RemovedFacts
  <2>3. PipeType'
    BY <2>2, PlaceFacts, PlacesApart DEF PipeType
  <2>4. HandInv'
    BY <2>2, PlaceFacts DEF HandInv, Goto
  <2>. QED
    BY <2>3, <2>4
<1>4. CASE q \notin shut
  <2>1. pipe' = Moved(t, q) /\ Len(pipe[q]) < Capacity
    BY <1>4 DEF Push
  <2>2. /\ \A p \in Places : p # t /\ p # q => pipe'[p] = pipe[p]
        /\ pipe' \in [Places -> Seq(1 .. total)]
        /\ Len(pipe'[t]) = Len(pipe[t]) - 1 /\ Len(pipe'[q]) = Len(pipe[q]) + 1
    BY <1>1, <1>2, <2>1, MovedFacts
  <2>3. Len(pipe'[q]) <= Capacity
    BY <1>1, <1>2, <2>1, <2>2, TopologyAssumption
  <2>4. \A r \in Queues : Len(pipe'[r]) <= Capacity
    BY <2>2, <2>3, PlaceFacts, PlacesApart DEF PipeType
  <2>5. \A s \in Threads : s # t => pipe'[s] = pipe[s]
    BY <2>2, PlaceFacts, PlacesApart
  <2>6. HandInv'
    BY <1>2, <2>2, <2>5 DEF HandInv, Goto
  <2>. QED
    BY <2>2, <2>4, <2>6 DEF PipeType
<1>. QED
  BY <1>3, <1>4

LEMMA PopType ==
    ASSUME PipeType, HandInv, pc \in [Threads -> Steps],
           NEW w \in Workers, NEW next \in Holding,
           pc[w] = "pop", Pop(w), Goto(w, next), UNCHANGED <<input, total>>
    PROVE  PipeType' /\ HandInv'
<1>. DEFINE q == InputOf(w)
<1>1. pipe \in [Places -> Seq(1 .. total)]
  BY DEF PipeType
<1>2. /\ w \in Threads /\ q \in Queues
      /\ w \in Places /\ q \in Places /\ w # q
  BY PlaceFacts, PlacesApart
<1>3. pipe' = Moved(q, w) /\ pipe[q] # <<>>
  BY DEF Pop
<1>4. Len(pipe[w]) = 0
  BY <1>2 DEF HandInv, Holding
<1>. HIDE DEF q
<1>5. /\ \A p \in Places : p # w /\ p # q => pipe'[p] = pipe[p]
      /\ pipe' \in [Places -> Seq(1 .. total)]
      /\ Len(pipe'[w]) = Len(pipe[w]) + 1
      /\ Len(pipe'[q]) = Len(pipe[q]) - 1
  BY <1>1, <1>2, <1>3, MovedFacts
<1>6. Len(pipe'[q]) <= Len(pipe[q])
  BY <1>1, <1>2, <1>5
<1>7. \A r \in Queues : r = q \/ pipe'[r] = pipe[r]
  BY <1>2, <1>5, PlaceFacts, PlacesApart
<1>8. \A r \in Queues : Len(pipe'[r]) <= Capacity
  <2>1. SUFFICES ASSUME NEW r \in Queues PROVE Len(pipe'[r]) <= Capacity
    OBVIOUS
  <2>2. r \in Places
    BY PlaceFacts
  <2>3. Len(pipe[r]) \in Nat /\ Len(pipe'[r]) \in Nat
    BY <1>1, <1>5, <2>2
  <2>4. Len(pipe[r]) <= Capacity
    BY DEF PipeType
  <2>. QED
    BY <1>6, <1>7, <2>3, <2>4, TopologyAssumption
<1>9. \A s \in Threads : s # w => pipe'[s] = pipe[s]
  BY <1>2, <1>5, PlaceFacts, PlacesApart
<1>10. Len(pipe'[w]) = 1
  BY <1>4, <1>5
<1>11. HandInv'
  BY <1>2, <1>9, <1>10 DEF HandInv, Goto
<1>. QED
  BY <1>5, <1>8, <1>11 DEF PipeType

\* A step that moves no packet, and puts no thread in or out of a step in which
\* it holds one.
LEMMA StayType ==
    ASSUME PipeType, HandInv, pc \in [Threads -> Steps],
           NEW t \in Threads, NEW next \in Steps, Goto(t, next),
           pc[t] \in Holding <=> next \in Holding,
           UNCHANGED <<input, total, pipe>>
    PROVE  PipeType' /\ HandInv'
BY DEF PipeType, HandInv, Goto

\* The numbers of workers, and the position of the main thread among them.
LEMMA CountTypes ==
    /\ NumLBs \in Nat \ {0} /\ NumFPs \in Nat \ {0}
    /\ NumWorkers \in Nat \ {0} /\ NumWorkers = NumLBs + NumFPs + 1
<1>1. NumLBs * FPsPerLB \in Nat /\ NumLBs * FPsPerLB # 0
  BY TopologyAssumption
<1>. QED
  BY <1>1, TopologyAssumption DEF NumFPs, NumWorkers

LEMMA WorkerType == \A i \in 0 .. NumWorkers - 1 : Worker(i) \in Workers
BY CountTypes DEF Worker, Workers, LBs, FPs, LBIds, FPIds

\* The main thread moves no packet.
LEMMA MainNextType == TypeInv /\ MainNext => TypeInv'
<1>. SUFFICES ASSUME TypeInv, MainNext PROVE TypeInv'
  OBVIOUS
<1>1. UNCHANGED <<input, total, pipe, pc, header, dropped, forwarded, stats>>
  BY DEF MainNext, WaitForCompletion, PollQueue, PollOutput, StopWorker,
         JoinWorker
<1>2. PipeType' /\ HandInv'
  BY <1>1 DEF TypeInv, PipeType, HandInv
<1>3. MainType'
  <2>1. MainType
    BY DEF TypeInv, ControlType
  <2>2. CASE WaitForCompletion
    BY <2>1, <2>2 DEF WaitForCompletion, MainType
  <2>3. CASE PollQueue
    <3>1. PICK e \in BOOLEAN : at' = AfterSeen(at, e)
      BY <2>3 DEF PollQueue
    <3>2. AfterSeen(at, e) \in 0 .. NumWorkers - 1
      BY <2>1, <2>3, CountTypes DEF PollQueue, AfterSeen, MainType
    <3>. QED
      BY <2>1, <2>3, <3>1, <3>2 DEF PollQueue, SeenDrained, MainType
  <2>4. CASE PollOutput
    BY <2>1, <2>4, CountTypes DEF PollOutput, MainType
  <2>5. CASE StopWorker
    BY <2>1, <2>5 DEF StopWorker, MainType
  <2>6. CASE JoinWorker
    BY <2>1, <2>6, CountTypes DEF JoinWorker, MainType
  <2>. QED
    BY <2>2, <2>3, <2>4, <2>5, <2>6 DEF MainNext
<1>4. running' \in [Workers -> BOOLEAN] /\ fileOpen' \in BOOLEAN
  BY DEF TypeInv, ControlType, MainNext, WaitForCompletion, PollQueue,
         PollOutput, StopWorker, JoinWorker
<1>5. InputOf(Worker(at)) \in Queues
  BY WorkerType, PlaceFacts DEF TypeInv, ControlType, MainType
<1>6. shut' \subseteq Queues
  BY <1>5 DEF TypeInv, ControlType, MainNext, WaitForCompletion, PollQueue,
              PollOutput, StopWorker, JoinWorker
<1>. QED
  BY <1>1, <1>2, <1>3, <1>4, <1>6 DEF TypeInv, ControlType

\* A step of a thread changes its own program counter, never the main thread's
\* variables, and the counters it updates stay counters.
LEMMA ReaderNextType == TypeInv /\ ReaderNext => TypeInv'
<1>. SUFFICES ASSUME TypeInv, ReaderNext PROVE TypeInv'
  OBVIOUS
<1>. USE DEF TypeInv
<1>1. Reader \in Threads /\ Reader \in Places
  BY PlaceFacts
<1>2. UNCHANGED <<running, shut, mainVars, fileOpen, dropped, forwarded, stats>>
  BY DEF ReaderNext, OpenInput, ReadPacket, ReaderPush
<1>3. CASE OpenInput
  <2>1. PipeType' /\ HandInv'
    BY <1>1, <1>3, StayType DEF OpenInput, ControlType, Steps, Holding
  <2>2. ControlType'
    BY <1>2, <1>3 DEF OpenInput, ControlType, MainType, mainVars, Goto, Steps
  <2>. QED
    BY <2>1, <2>2
<1>4. CASE ReadPacket
  <2>1. CASE total < Len(input)
    <3>1. /\ total' = total + 1 /\ input' = input /\ header' = header
          /\ pipe' = [pipe EXCEPT ![Reader] = <<total + 1>>]
          /\ Goto(Reader, "push")
      BY <1>4, <2>1 DEF ReadPacket
    <3>2. total \in Nat /\ total' \in 0 .. Len(input)
      BY <2>1, <3>1 DEF PipeType
    <3>3. \A p \in Places : pipe[p] \in Seq(1 .. total')
      <4>1. \A p \in Places : pipe[p] \in Seq(1 .. total)
        BY DEF PipeType
      <4>2. 1 .. total \subseteq 1 .. total'
        BY <3>1, <3>2
      <4>. QED
        BY <4>1, <4>2, SeqOfLarger
    <3>4. /\ pipe' \in [Places -> Seq(1 .. total')]
          /\ pipe'[Reader] = <<total + 1>>
          /\ \A p \in Places : p # Reader => pipe'[p] = pipe[p]
      <4>1. <<total + 1>> \in Seq(1 .. total')
        BY <3>1, <3>2
      <4>. QED
        BY <1>1, <3>1, <3>3, <4>1 DEF PipeType
    <3>5. PipeType'
      BY <1>1, <3>1, <3>2, <3>4, PlaceFacts, PlacesApart DEF PipeType
    <3>6. HandInv'
      BY <1>1, <3>1, <3>4, PlaceFacts DEF HandInv, Goto, Holding, ControlType
    <3>7. ControlType'
      BY <1>1, <1>2, <3>1, <3>2
      DEF ControlType, MainType, mainVars, Goto, Steps, Count
    <3>. QED
      BY <3>5, <3>6, <3>7
  <2>2. CASE ~(total < Len(input))
    <3>1. /\ UNCHANGED <<input, total, pipe, header>> /\ Goto(Reader, "exit")
          /\ pc[Reader] = "read"
      BY <1>4, <2>2 DEF ReadPacket
    <3>2. PipeType' /\ HandInv'
      BY <1>1, <3>1, StayType DEF ControlType, Steps, Holding
    <3>3. ControlType'
      BY <1>2, <3>1 DEF ControlType, MainType, mainVars, Goto, Steps
    <3>. QED
      BY <3>2, <3>3
  <2>. QED
    BY <2>1, <2>2
<1>5. CASE ReaderPush
  <2>1. LBQueue(LBOf(input[Held(Reader)])) \in Queues
    BY <1>1, <1>5, HeldFacts, RoutingType, PlaceFacts DEF ReaderPush, Holding
  <2>2. PipeType' /\ HandInv'
    BY <1>1, <1>5, <2>1, PushType DEF ReaderPush, ControlType, Steps, Holding
  <2>3. ControlType'
    BY <1>2, <1>5 DEF ReaderPush, ControlType, MainType, mainVars, Goto, Steps
  <2>. QED
    BY <2>2, <2>3
<1>. QED
  BY <1>3, <1>4, <1>5 DEF ReaderNext

\* The steps that all workers share: the loop test and an empty-handed pop.
LEMMA IdleType ==
    ASSUME TypeInv, NEW w \in Workers, CheckRunning(w) \/ PopNothing(w)
    PROVE  TypeInv'
<1>1. w \in Threads
  BY PlaceFacts
<1>2. PICK next \in {"pop", "exit", "check"} :
         /\ Goto(w, next) /\ pc[w] \in {"check", "pop"}
         /\ UNCHANGED <<input, total, pipe, running, shut, mainVars, header,
                        fileOpen, dropped, forwarded, stats>>
  BY DEF CheckRunning, PopNothing
<1>3. PipeType' /\ HandInv'
  BY <1>1, <1>2, StayType DEF TypeInv, ControlType, Steps, Holding
<1>4. ControlType'
  BY <1>1, <1>2 DEF TypeInv, ControlType, MainType, mainVars, Goto, Steps
<1>. QED
  BY <1>3, <1>4 DEF TypeInv

LEMMA LBNextType ==
    ASSUME TypeInv, NEW l \in LBIds, LBNext(l)
    PROVE  TypeInv'
<1>. USE DEF TypeInv
<1>1. LB(l) \in Workers /\ LB(l) \in Threads
  BY PlaceFacts
<1>2. CASE CheckRunning(LB(l)) \/ PopNothing(LB(l))
  BY <1>1, <1>2, IdleType
<1>3. CASE LBPop(l)
  <2>1. PipeType' /\ HandInv'
    BY <1>1, <1>3, PopType DEF LBPop, ControlType, Holding
  <2>2. stats' \in Count
    BY <1>3 DEF LBPop, ControlType, Count
  <2>3. ControlType'
    BY <1>1, <1>3, <2>2 DEF LBPop, ControlType, MainType, mainVars, Goto, Steps
  <2>. QED
    BY <2>1, <2>3
<1>4. CASE LBPush(l)
  <2>1. FPQueue(FPOf(input[Held(LB(l))])) \in Queues
    BY <1>1, <1>4, HeldFacts, RoutingType, PlaceFacts DEF LBPush, Holding
  <2>2. PipeType' /\ HandInv'
    BY <1>1, <1>4, <2>1, PushType DEF LBPush, ControlType, Steps, Holding
  <2>3. stats' \in Count
    BY <1>4 DEF LBPush, ControlType, Count
  <2>4. ControlType'
    BY <1>1, <1>4, <2>3 DEF LBPush, ControlType, MainType, mainVars, Goto, Steps
  <2>. QED
    BY <2>2, <2>4
<1>. QED
  BY <1>2, <1>3, <1>4 DEF LBNext

LEMMA FPNextType ==
    ASSUME TypeInv, NEW f \in FPIds, FPNext(f)
    PROVE  TypeInv'
<1>. USE DEF TypeInv
<1>1. FP(f) \in Workers /\ FP(f) \in Threads /\ FP(f) \in Places
  BY PlaceFacts
<1>2. CASE CheckRunning(FP(f)) \/ PopNothing(FP(f))
  BY <1>1, <1>2, IdleType
<1>3. CASE FPPop(f)
  <2>1. PipeType' /\ HandInv'
    BY <1>1, <1>3, PopType DEF FPPop, ControlType, Holding
  <2>2. stats' \in Count
    BY <1>3 DEF FPPop, ControlType, Count
  <2>3. ControlType'
    BY <1>1, <1>3, <2>2 DEF FPPop, ControlType, MainType, mainVars, Goto, Steps
  <2>. QED
    BY <2>1, <2>3
<1>4. CASE FPDrop(f)
  <2>1. /\ Held(FP(f)) \in 1 .. total
        /\ pipe[FP(f)] # <<>> /\ Len(pipe[FP(f)]) = 1
    BY <1>1, <1>4, HeldFacts DEF FPDrop, Holding
  <2>2. pipe \in [Places -> Seq(1 .. total)]
    BY DEF PipeType
  <2>3. /\ pipe' \in [Places -> Seq(1 .. total)] /\ Len(pipe'[FP(f)]) = 0
        /\ \A p \in Places : p # FP(f) => pipe'[p] = pipe[p]
    BY <1>1, <1>4, <2>1, <2>2, RemovedFacts DEF FPDrop
  <2>4. PipeType'
    BY <1>1, <1>4, <2>3, PlaceFacts, PlacesApart DEF FPDrop, PipeType
  <2>5. HandInv'
    <3>1. pc' = [pc EXCEPT ![FP(f)] = "check"] /\ pc \in [Threads -> Steps]
      BY <1>4 DEF FPDrop, Goto, ControlType
    <3>2. pc'[FP(f)] \notin Holding /\ \A t \in Threads : t # FP(f) => pc'[t] = pc[t]
      BY <1>1, <3>1 DEF Holding
    <3>3. \A t \in Threads : t # FP(f) => pipe'[t] = pipe[t]
      BY <2>3, PlaceFacts
    <3>. QED
      BY <2>3, <3>2, <3>3 DEF HandInv
  <2>6. stats' \in Count
    BY <1>4 DEF FPDrop, ControlType, Count
  <2>7. ControlType'
    BY <1>1, <1>4, <2>1, <2>6
    DEF FPDrop, ControlType, MainType, mainVars, Goto, Steps
  <2>. QED
    BY <2>4, <2>5, <2>7
<1>5. CASE FPForward(f)
  <2>1. Held(FP(f)) \in 1 .. total
    BY <1>1, <1>5, HeldFacts DEF FPForward, Holding
  <2>2. PipeType' /\ HandInv'
    BY <1>1, <1>5, StayType DEF FPForward, ControlType, Steps, Holding
  <2>3. ControlType'
    BY <1>1, <1>5, <2>1
    DEF FPForward, ControlType, MainType, mainVars, Goto, Steps
  <2>. QED
    BY <2>2, <2>3
<1>6. CASE FPPush(f)
  <2>1. OutQueue \in Queues
    BY PlaceFacts
  <2>2. PipeType' /\ HandInv'
    BY <1>1, <1>6, <2>1, PushType DEF FPPush, ControlType, Steps, Holding
  <2>3. stats' \in Count
    BY <1>6 DEF FPPush, ControlType, Count
  <2>4. ControlType'
    BY <1>1, <1>6, <2>3 DEF FPPush, ControlType, MainType, mainVars, Goto, Steps
  <2>. QED
    BY <2>2, <2>4
<1>. QED
  BY <1>2, <1>3, <1>4, <1>5, <1>6 DEF FPNext

LEMMA OutputNextType ==
    ASSUME TypeInv, OutputNext
    PROVE  TypeInv'
<1>. USE DEF TypeInv
<1>1. /\ Output \in Workers /\ Output \in Threads /\ Output \in Places
      /\ File \in Places /\ Output # File
  BY PlaceFacts, PlacesApart
<1>2. CASE PopNothing(Output)
  BY <1>1, <1>2, IdleType
<1>3. CASE OutputCheck
  <2>1. PICK next \in {"pop", "exit", "empty?"} :
           Goto(Output, next) /\ pc[Output] \in {"check", "empty?"}
    BY <1>3 DEF OutputCheck
  <2>2. UNCHANGED <<input, total, pipe, running, shut, mainVars, header,
                    fileOpen, dropped, forwarded, stats>>
    BY <1>3 DEF OutputCheck
  <2>3. PipeType' /\ HandInv'
    BY <1>1, <2>1, <2>2, StayType DEF ControlType, Steps, Holding
  <2>4. ControlType'
    BY <2>1, <2>2 DEF ControlType, MainType, mainVars, Goto, Steps
  <2>. QED
    BY <2>3, <2>4
<1>4. CASE OutputPop
  <2>1. PipeType' /\ HandInv'
    BY <1>1, <1>4, PopType DEF OutputPop, ControlType, Holding
  <2>2. ControlType'
    BY <1>1, <1>4 DEF OutputPop, ControlType, MainType, mainVars, Goto, Steps
  <2>. QED
    BY <2>1, <2>2
<1>5. CASE OutputWrite
  <2>1. pipe[Output] # <<>> /\ Len(pipe[Output]) = 1
    BY <1>1, <1>5, HeldFacts DEF OutputWrite, Holding
  <2>2. pipe \in [Places -> Seq(1 .. total)]
    BY DEF PipeType
  <2>3. /\ pipe' \in [Places -> Seq(1 .. total)] /\ Len(pipe'[Output]) = 0
        /\ \A p \in Places : p # Output /\ p # File => pipe'[p] = pipe[p]
    <3>1. CASE fileOpen
      <4>1. pipe' = Moved(Output, File)
        BY <1>5, <3>1 DEF OutputWrite
      <4>2. /\ pipe' \in [Places -> Seq(1 .. total)]
            /\ Len(pipe'[Output]) = Len(pipe[Output]) - 1
            /\ \A p \in Places : p # Output /\ p # File => pipe'[p] = pipe[p]
        BY <1>1, <2>1, <2>2, <4>1, MovedFacts
      <4>. QED
        BY <2>1, <4>2
    <3>2. CASE ~fileOpen
      <4>1. pipe' = Removed(Output)
        BY <1>5, <3>2 DEF OutputWrite
      <4>2. /\ pipe' \in [Places -> Seq(1 .. total)]
            /\ Len(pipe'[Output]) = Len(pipe[Output]) - 1
            /\ \A p \in Places : p # Output => pipe'[p] = pipe[p]
        BY <1>1, <2>1, <2>2, <4>1, RemovedFacts
      <4>. QED
        BY <2>1, <4>2
    <3>. QED
      BY <3>1, <3>2
  <2>4. PipeType'
    BY <1>1, <1>5, <2>3, PlaceFacts, PlacesApart DEF OutputWrite, PipeType
  <2>5. HandInv'
    <3>1. \A t \in Threads : t # Output => pipe'[t] = pipe[t]
      BY <2>3, PlaceFacts, PlacesApart
    <3>2. pc' = [pc EXCEPT ![Output] = "check"]
      BY <1>5 DEF OutputWrite, Goto
    <3>. QED
      BY <1>1, <2>3, <3>1, <3>2 DEF HandInv, Holding, ControlType
  <2>6. ControlType'
    BY <1>1, <1>5 DEF OutputWrite, ControlType, MainType, mainVars, Goto, Steps
  <2>. QED
    BY <2>4, <2>5, <2>6
<1>. QED
  BY <1>2, <1>3, <1>4, <1>5 DEF OutputNext

LEMMA InitType == Init => TypeInv
<1>. SUFFICES ASSUME Init PROVE TypeInv
  OBVIOUS
<1>1. PipeType
  BY InputAssumption, TopologyAssumption, PlaceFacts DEF Init, PipeType
<1>2. HandInv
  BY PlaceFacts DEF Init, HandInv, Holding
<1>3. ControlType
  <2>1. stats \in Count
    BY DEF Init, Count
  <2>2. MainType
    BY CountTypes DEF Init, MainType
  <2>3. pc \in [Threads -> Steps] /\ running \in [Workers -> BOOLEAN]
    BY DEF Init, Steps
  <2>. QED
    BY <2>1, <2>2, <2>3 DEF Init, ControlType
<1>. QED
  BY <1>1, <1>2, <1>3 DEF TypeInv

LEMMA NextType == TypeInv /\ [Next]_vars => TypeInv'
<1>. SUFFICES ASSUME TypeInv, [Next]_vars PROVE TypeInv'
  OBVIOUS
<1>1. CASE ReaderNext
  BY <1>1, ReaderNextType
<1>2. ASSUME NEW l \in LBIds, LBNext(l) PROVE TypeInv'
  BY <1>2, LBNextType
<1>3. ASSUME NEW f \in FPIds, FPNext(f) PROVE TypeInv'
  BY <1>3, FPNextType
<1>4. CASE OutputNext
  BY <1>4, OutputNextType
<1>5. CASE MainNext
  BY <1>5, MainNextType
<1>6. CASE UNCHANGED vars
  BY <1>6 DEF vars, mainVars, TypeInv, PipeType, ControlType, MainType, HandInv
<1>. QED
  BY <1>1, <1>2, <1>3, <1>4, <1>5, <1>6 DEF Next, Returned

\* Every variable keeps its type: no queue exceeds its capacity, no thread
\* holds more than one packet, and no packet is invented.
THEOREM TypeCorrect == Spec => []TypeOK
<1>1. Spec => []TypeInv
  BY InitType, NextType, PTL DEF Spec
<1>. QED
  BY <1>1, TypeInvImpliesTypeOK, PTL

-----------------------------------------------------------------------------
(* The stop sequence                                                       *)

\* Workers are stopped downstream: those before the main thread's position have
\* ended, and only their queues, and at a join its own, are shut down.
StopInv ==
    /\ step # "wait" => pc[Reader] = "exit"
    /\ step \in {"wait", "poll"} => shut = {}
    /\ step \in {"stop", "join", "done"} =>
         \A i \in 0 .. at - 1 : pc[Worker(i)] = "exit"
    /\ step = "done" => pc[Output] = "exit"
    /\ \A q \in shut : \E i \in 0 .. at :
         q = InputOf(Worker(i)) /\ (step = "stop" => i < at)
    /\ fileOpen \/ step = "done"

\* The workers are numbered along the pipeline.
LEMMA WorkerOrder ==
    /\ \A i, j \in 0 .. NumWorkers - 1 : Worker(i)[1] < Worker(j)[1] => i < j
    /\ \A w \in Workers : \E i \in 0 .. NumWorkers - 1 : w = Worker(i)
    /\ Worker(NumWorkers - 1) = Output
<1>1. \A i, j \in 0 .. NumWorkers - 1 : Worker(i)[1] < Worker(j)[1] => i < j
  BY CountTypes DEF Worker, LB, FP, Output
<1>2. ASSUME NEW l \in LBIds PROVE \E i \in 0 .. NumWorkers - 1 : LB(l) = Worker(i)
  BY CountTypes DEF Worker, LBIds
<1>3. ASSUME NEW f \in FPIds PROVE \E i \in 0 .. NumWorkers - 1 : FP(f) = Worker(i)
  <2>1. /\ f + NumLBs \in 0 .. NumWorkers - 1 /\ (f + NumLBs) - NumLBs = f
        /\ ~(f + NumLBs < NumLBs) /\ f + NumLBs < NumLBs + NumFPs
        /\ f + NumLBs >= NumLBs
    BY CountTypes DEF FPIds
  <2>2. Worker(f + NumLBs) = FP(f)
    BY <2>1 DEF Worker
  <2>. QED
    BY <2>1, <2>2
<1>4. Worker(NumWorkers - 1) = Output /\ NumWorkers - 1 \in 0 .. NumWorkers - 1
  BY CountTypes DEF Worker
<1>. QED
  BY <1>1, <1>2, <1>3, <1>4 DEF Workers, LBs, FPs

\* A thread that has not ended finds the queue after it open ...
LEMMA NextQueueOpen ==
    ASSUME TypeInv, StopInv, NEW t \in Threads, NEW q \in Queues,
           q[1] = t[1] + 1, pc[t] # "exit"
    PROVE  q \notin shut
<1>. SUFFICES ASSUME q \in shut PROVE FALSE
  OBVIOUS
<1>1. PICK i \in 0 .. at : q = InputOf(Worker(i)) /\ (step = "stop" => i < at)
  BY DEF StopInv
<1>2. step \in {"stop", "join", "done"} /\ pc[Reader] = "exit" /\ at \in Nat
      /\ at \in 0 .. NumWorkers - 1
  BY DEF StopInv, TypeInv, ControlType, MainType
<1>3. i \in 0 .. NumWorkers - 1
  BY <1>2, CountTypes
<1>4. Worker(i) \in Workers /\ Worker(i)[1] \in {3, 5, 7}
      /\ q[1] = Worker(i)[1] - 1
  BY <1>1, <1>3, WorkerType, PlaceFacts
<1>5. t \in Workers
  BY <1>2 DEF Threads
<1>6. PICK k \in 0 .. NumWorkers - 1 : t = Worker(k)
  BY <1>5, WorkerOrder
<1>7. Worker(k)[1] < Worker(i)[1]
  BY <1>4, <1>5, <1>6, PlaceFacts
<1>8. k < i
  BY <1>3, <1>6, <1>7, WorkerOrder
<1>9. k \in 0 .. at - 1
  BY <1>1, <1>2, <1>6, <1>8
<1>. QED
  BY <1>2, <1>6, <1>9 DEF StopInv

\* ... and no step restarts a thread that has ended.
LEMMA ExitIsFinal ==
    ASSUME TypeInv, [Next]_vars, NEW t \in Threads, pc[t] = "exit"
    PROVE  pc'[t] = "exit"
<1>1. pc \in [Threads -> Steps]
  BY DEF TypeInv, ControlType
<1>2. CASE ReaderNext
  BY <1>1, <1>2
  DEF ReaderNext, OpenInput, ReadPacket, ReaderPush, Goto
<1>3. ASSUME NEW l \in LBIds, LBNext(l) PROVE pc'[t] = "exit"
  BY <1>1, <1>3 DEF LBNext, CheckRunning, PopNothing, LBPop, LBPush, Goto
<1>4. ASSUME NEW f \in FPIds, FPNext(f) PROVE pc'[t] = "exit"
  BY <1>1, <1>4
  DEF FPNext, CheckRunning, PopNothing, FPPop, FPDrop, FPForward, FPPush, Goto
<1>5. CASE OutputNext
  BY <1>1, <1>5
  DEF OutputNext, OutputCheck, PopNothing, OutputPop, OutputWrite, Goto
<1>6. CASE MainNext
  BY <1>6 DEF MainNext, WaitForCompletion, PollQueue, PollOutput, StopWorker,
              JoinWorker
<1>7. CASE UNCHANGED vars
  BY <1>7 DEF vars
<1>. QED
  BY <1>2, <1>3, <1>4, <1>5, <1>6, <1>7 DEF Next, Returned

LEMMA StopInit == Init => StopInv
BY DEF Init, StopInv

LEMMA StopNext == TypeInv /\ StopInv /\ [Next]_vars => StopInv'
<1>. SUFFICES ASSUME TypeInv, StopInv, [Next]_vars PROVE StopInv'
  OBVIOUS
<1>1. \A t \in Threads : pc[t] = "exit" => pc'[t] = "exit"
  BY ExitIsFinal
<1>2. /\ at \in 0 .. NumWorkers - 1 /\ at \in Nat
      /\ Reader \in Threads /\ Output \in Threads
      /\ \A i \in 0 .. NumWorkers - 1 : Worker(i) \in Threads
      /\ \A i \in 0 .. at : i \in 0 .. NumWorkers - 1
  BY WorkerType, PlaceFacts, CountTypes DEF TypeInv, ControlType, MainType
<1>3. CASE WaitForCompletion
  BY <1>1, <1>2, <1>3 DEF WaitForCompletion, StopInv
<1>4. CASE PollQueue
  BY <1>1, <1>2, <1>4 DEF PollQueue, StopInv
<1>5. CASE PollOutput
  BY <1>1, <1>2, <1>5 DEF PollOutput, StopInv
<1>6. CASE StopWorker
  BY <1>1, <1>2, <1>6 DEF StopWorker, StopInv
<1>7. CASE JoinWorker
  <2>1. CASE at < NumWorkers - 1
    <3>1. /\ step = "join" /\ step' = "stop" /\ at' = at + 1
          /\ pc[Worker(at)] = "exit" /\ UNCHANGED <<pc, shut, fileOpen>>
      BY <1>2, <1>7, <2>1, CountTypes DEF JoinWorker
    <3>2. \A i \in 0 .. at' - 1 : pc'[Worker(i)] = "exit"
      <4>1. \A i \in 0 .. at' - 1 : i \in 0 .. at - 1 \/ i = at
        BY <1>2, <3>1
      <4>. QED
        BY <3>1, <4>1 DEF StopInv
    <3>3. \A q \in shut' : \E i \in 0 .. at' : q = InputOf(Worker(i)) /\ i < at'
      BY <1>2, <3>1 DEF StopInv
    <3>. QED
      BY <3>1, <3>2, <3>3 DEF StopInv
  <2>2. CASE at = NumWorkers - 1
    <3>1. /\ step = "join" /\ step' = "done"
          /\ pc[Output] = "exit" /\ UNCHANGED <<pc, shut, at>>
      BY <1>2, <1>7, <2>2, CountTypes, WorkerOrder DEF JoinWorker
    <3>. QED
      BY <1>2, <3>1 DEF StopInv
  <2>. QED
    BY <1>7, <2>1, <2>2 DEF JoinWorker
<1>8. CASE UNCHANGED <<shut, mainVars, fileOpen>>
  BY <1>1, <1>2, <1>8 DEF mainVars, StopInv
<1>9. CASE ReaderNext \/ OutputNext \/ UNCHANGED vars
  BY <1>8, <1>9
  DEF ReaderNext, OpenInput, ReadPacket, ReaderPush, OutputNext, OutputCheck,
      PopNothing, OutputPop, OutputWrite, vars
<1>10. ASSUME NEW l \in LBIds, LBNext(l) PROVE StopInv'
  BY <1>8, <1>10 DEF LBNext, CheckRunning, PopNothing, LBPop, LBPush
<1>11. ASSUME NEW f \in FPIds, FPNext(f) PROVE StopInv'
  BY <1>8, <1>11
  DEF FPNext, CheckRunning, PopNothing, FPPop, FPDrop, FPForward, FPPush
<1>. QED
  BY <1>3, <1>4, <1>5, <1>6, <1>7, <1>9, <1>10, <1>11
  DEF Next, MainNext, Returned

-----------------------------------------------------------------------------
(* Every step moves at most one packet, along the route of its flow        *)

\* The place of a flow's packets at each stage.
PlaceOn(t, stage) == CASE stage = 2 -> LBQueue(LBOf(t))
                       [] stage = 3 -> LB(LBOf(t))
                       [] stage = 4 -> FPQueue(FPOf(t))
                       [] stage = 5 -> FP(FPOf(t))
                       [] OTHER -> <<stage, 0>>

\* Every packet is on the route of its flow.
OnRoute == \A p \in Places : \A i \in DOMAIN pipe[p] :
             p = PlaceOn(input[pipe[p][i]], p[1])

Stay == UNCHANGED <<total, pipe, dropped>>
Enter == /\ total' = total + 1
         /\ pipe[Reader] = <<>>
         /\ pipe' = [pipe EXCEPT ![Reader] = <<total + 1>>]
         /\ dropped' = dropped
Leave(a) == /\ pipe[a] # <<>> /\ a # File
            /\ dropped' = dropped \cup {Head(pipe[a])}
            /\ pipe' = Removed(a) /\ total' = total
Advance(a, b) == /\ pipe[a] # <<>> /\ a # b
                 /\ b[1] = a[1] + 1
                 /\ b = PlaceOn(input[Head(pipe[a])], b[1])
                 /\ pipe' = Moved(a, b) /\ UNCHANGED <<total, dropped>>
PipeStep == /\ input' = input
            /\ \/ Stay
               \/ Enter
               \/ \E a \in Places : Leave(a)
               \/ \E a, b \in Places : Advance(a, b)

\* A push that is on the route is an Advance ...
LEMMA PushAdvances ==
    ASSUME TypeInv, StopInv, NEW t \in Threads, NEW q \in Queues,
           pc[t] \in Holding, q[1] = t[1] + 1,
           q = PlaceOn(input[Held(t)], q[1]), Push(t, q),
           UNCHANGED <<total, dropped>>
    PROVE  Advance(t, q)
<1>1. q \notin shut
  BY NextQueueOpen DEF Holding
<1>2. pipe' = Moved(t, q)
  BY <1>1 DEF Push
<1>3. pipe[t] # <<>>
  BY HeldFacts DEF TypeInv
<1>. QED
  BY <1>2, <1>3, PlacesApart DEF Advance, Held

\* ... and so is a pop.
LEMMA PopAdvances ==
    ASSUME TypeInv, OnRoute, NEW w \in Workers, Pop(w),
           UNCHANGED <<total, dropped>>
    PROVE  Advance(InputOf(w), w)
<1>. DEFINE q == InputOf(w)
<1>1. /\ w \in Threads /\ w \in Places /\ q \in Queues /\ q \in Places
      /\ q # w /\ w[1] = q[1] + 1
  BY PlaceFacts, PlacesApart
<1>2. pipe[q] # <<>> /\ pipe' = Moved(q, w)
  BY DEF Pop
<1>3. pipe[q] \in Seq(1 .. total) /\ input \in Seq(Tuples) /\ total <= Len(input)
  BY <1>1 DEF TypeInv, PipeType
<1>4. Head(pipe[q]) = pipe[q][1] /\ 1 \in DOMAIN pipe[q]
  BY <1>2, <1>3
<1>5. q = PlaceOn(input[Head(pipe[q])], q[1])
  BY <1>1, <1>4 DEF OnRoute
<1>6. w = PlaceOn(input[Head(pipe[q])], w[1])
  <2>. DEFINE t == input[Head(pipe[q])]
  <2>. HIDE DEF t
  <2>1. ASSUME NEW l \in LBIds, w = LB(l) PROVE w = PlaceOn(t, w[1])
    BY <1>5, <2>1, PlaceFacts DEF LB, LBQueue, PlaceOn, t
  <2>2. ASSUME NEW f \in FPIds, w = FP(f) PROVE w = PlaceOn(t, w[1])
    BY <1>5, <2>2, PlaceFacts DEF FP, FPQueue, PlaceOn, t
  <2>3. CASE w = Output
    BY <2>3 DEF Output, PlaceOn
  <2>. QED
    BY <2>1, <2>2, <2>3 DEF Workers, LBs, FPs, t
<1>. QED
  BY <1>1, <1>2, <1>6 DEF Advance

LEMMA NextPipe ==
    ASSUME TypeInv, StopInv, OnRoute, [Next]_vars
    PROVE  PipeStep
<1>. USE DEF PipeStep
<1>1. CASE ReaderNext
  <2>1. UNCHANGED <<input, dropped>>
    BY <1>1 DEF ReaderNext, OpenInput, ReadPacket, ReaderPush
  <2>2. CASE OpenInput
    BY <2>1, <2>2 DEF OpenInput, Stay
  <2>3. CASE ReadPacket
    <3>1. pc[Reader] = "read" /\ Reader \in Threads /\ Reader \in Places
      BY <2>3, PlaceFacts DEF ReadPacket
    <3>2. Len(pipe[Reader]) = 0 /\ pipe[Reader] \in Seq(1 .. total)
      BY <3>1 DEF TypeInv, PipeType, HandInv, Holding
    <3>3. pipe[Reader] = <<>>
      BY <3>2
    <3>. QED
      BY <2>1, <2>3, <3>3 DEF ReadPacket, Enter, Stay
  <2>4. CASE ReaderPush
    <3>. DEFINE t == input[Held(Reader)]  q == LBQueue(LBOf(t))
    <3>1. /\ Reader \in Threads /\ pc[Reader] \in Holding
          /\ Push(Reader, q) /\ UNCHANGED <<total, dropped>>
      BY <2>4, PlaceFacts DEF ReaderPush, Holding
    <3>2. t \in Tuples
      BY <3>1, HeldFacts DEF TypeInv
    <3>3. q \in Queues /\ q = PlaceOn(t, q[1]) /\ q[1] = Reader[1] + 1
      BY <3>2, RoutingType, PlaceFacts DEF LBQueue, PlaceOn, Reader
    <3>4. Advance(Reader, q)
      BY <3>1, <3>3, PushAdvances
    <3>. QED
      BY <2>1, <3>1, <3>3, <3>4, PlaceFacts
  <2>. QED
    BY <1>1, <2>2, <2>3, <2>4 DEF ReaderNext
<1>2. ASSUME NEW w \in Workers, Pop(w), UNCHANGED <<input, total, dropped>>
      PROVE  PipeStep
  <2>1. Advance(InputOf(w), w)
    BY <1>2, PopAdvances
  <2>. QED
    BY <1>2, <2>1, PlaceFacts
<1>3. ASSUME UNCHANGED <<input, total, dropped, pipe>> PROVE PipeStep
  BY <1>3 DEF Stay
<1>4. ASSUME NEW l \in LBIds, LBNext(l) PROVE PipeStep
  <2>1. LB(l) \in Workers /\ LB(l) \in Threads
    BY PlaceFacts
  <2>2. CASE CheckRunning(LB(l)) \/ PopNothing(LB(l))
    BY <1>3, <2>2 DEF CheckRunning, PopNothing
  <2>3. CASE LBPop(l)
    BY <1>2, <2>1, <2>3 DEF LBPop
  <2>4. CASE LBPush(l)
    <3>. DEFINE t == input[Held(LB(l))]  q == FPQueue(FPOf(t))
    <3>1. /\ pc[LB(l)] \in Holding /\ Push(LB(l), q)
          /\ UNCHANGED <<input, total, dropped>>
      BY <2>4 DEF LBPush, Holding
    <3>2. t \in Tuples
      BY <2>1, <3>1, HeldFacts DEF TypeInv
    <3>3. q \in Queues /\ q = PlaceOn(t, q[1]) /\ q[1] = LB(l)[1] + 1
      BY <3>2, RoutingType, PlaceFacts DEF FPQueue, PlaceOn, LB
    <3>4. Advance(LB(l), q)
      BY <2>1, <3>1, <3>3, PushAdvances
    <3>. QED
      BY <2>1, <3>1, <3>3, <3>4, PlaceFacts
  <2>. QED
    BY <1>4, <2>2, <2>3, <2>4 DEF LBNext
<1>5. ASSUME NEW f \in FPIds, FPNext(f) PROVE PipeStep
  <2>1. FP(f) \in Workers /\ FP(f) \in Threads
    BY PlaceFacts
  <2>2. CASE CheckRunning(FP(f)) \/ PopNothing(FP(f)) \/ FPForward(f)
    BY <1>3, <2>2 DEF CheckRunning, PopNothing, FPForward
  <2>3. CASE FPPop(f)
    BY <1>2, <2>1, <2>3 DEF FPPop
  <2>4. CASE FPDrop(f)
    <3>1. pipe[FP(f)] # <<>>
      BY <2>1, <2>4, HeldFacts DEF TypeInv, FPDrop, Holding
    <3>2. Leave(FP(f))
      BY <2>1, <2>4, <3>1, PlacesApart DEF FPDrop, Leave, Held
    <3>. QED
      BY <2>1, <2>4, <3>2, PlaceFacts DEF FPDrop
  <2>5. CASE FPPush(f)
    <3>1. /\ pc[FP(f)] \in Holding /\ Push(FP(f), OutQueue)
          /\ UNCHANGED <<input, total, dropped>>
      BY <2>5 DEF FPPush, Holding
    <3>2. /\ OutQueue \in Queues /\ OutQueue[1] = FP(f)[1] + 1
          /\ OutQueue = PlaceOn(input[Held(FP(f))], OutQueue[1])
      BY PlaceFacts DEF OutQueue, PlaceOn, FP
    <3>3. Advance(FP(f), OutQueue)
      BY <2>1, <3>1, <3>2, PushAdvances
    <3>. QED
      BY <2>1, <3>1, <3>2, <3>3, PlaceFacts
  <2>. QED
    BY <1>5, <2>2, <2>3, <2>4, <2>5 DEF FPNext
<1>6. CASE OutputNext
  <2>1. Output \in Workers /\ Output \in Threads /\ Output \in Places
    BY PlaceFacts
  <2>2. CASE OutputCheck \/ PopNothing(Output)
    BY <1>3, <2>2 DEF OutputCheck, PopNothing
  <2>3. CASE OutputPop
    BY <1>2, <2>1, <2>3 DEF OutputPop
  <2>4. CASE OutputWrite
    <3>1. pc[Output] = "write" /\ UNCHANGED <<input, total, dropped>>
      BY <2>4 DEF OutputWrite
    <3>2. fileOpen
      BY <3>1 DEF StopInv
    <3>3. pipe[Output] # <<>> /\ pipe' = Moved(Output, File)
      BY <2>1, <2>4, <3>1, <3>2, HeldFacts DEF TypeInv, OutputWrite, Holding
    <3>4. Advance(Output, File)
      BY <3>1, <3>3 DEF Advance, Output, File, PlaceOn
    <3>. QED
      BY <2>1, <3>1, <3>4, PlaceFacts
  <2>. QED
    BY <1>6, <2>2, <2>3, <2>4 DEF OutputNext
<1>7. CASE MainNext \/ UNCHANGED vars
  BY <1>3, <1>7 DEF MainNext, WaitForCompletion, PollQueue, PollOutput,
                    StopWorker, JoinWorker, vars
<1>. QED
  BY <1>1, <1>4, <1>5, <1>6, <1>7 DEF Next, Returned

-----------------------------------------------------------------------------
(* Where the packets at a place were before a step                         *)

LEMMA AtPlace ==
    ASSUME PipeType, NEW p \in Places, NEW i \in DOMAIN pipe[p]
    PROVE  i \in Nat \ {0} /\ pipe[p][i] \in 1 .. total /\ pipe[p][i] \in Nat
<1>. DEFINE S == 1 .. total
<1>1. pipe[p] \in Seq(S)
  BY DEF PipeType
<1>. HIDE DEF S
<1>2. i \in Nat \ {0} /\ pipe[p][i] \in S
  BY <1>1
<1>. QED
  BY <1>2 DEF S, PipeType

LEMMA FirstAtPlace ==
    ASSUME PipeType, NEW p \in Places, pipe[p] # <<>>
    PROVE  1 \in DOMAIN pipe[p] /\ Head(pipe[p]) = pipe[p][1]
<1>. DEFINE S == 1 .. total
<1>1. pipe[p] \in Seq(S)
  BY DEF PipeType
<1>. HIDE DEF S
<1>. QED
  BY <1>1

\* Packet i of place p was packet j of place r.
WasAt(p, i, r, j) == /\ r \in Places /\ j \in DOMAIN pipe[r]
                     /\ pipe'[p][i] = pipe[r][j]

\* After an Advance: the one that moved was first at a, the others at a were
\* one place further back, and the rest did not move.
LEMMA AdvanceOrigin ==
    ASSUME PipeType, NEW a \in Places, NEW b \in Places, Advance(a, b),
           NEW p \in Places, NEW i \in DOMAIN pipe'[p]
    PROVE  /\ i \in Nat \ {0}
           /\ \/ p = b /\ i = Len(pipe[b]) + 1 /\ WasAt(p, i, a, 1)
              \/ p = a /\ WasAt(p, i, a, i + 1)
              \/ p # a /\ i \in DOMAIN pipe[p] /\ WasAt(p, i, p, i)
<1>1. pipe \in [Places -> Seq(1 .. total)]
  BY DEF PipeType
<1>2. pipe[a] # <<>> /\ a # b /\ pipe' = Moved(a, b)
  BY DEF Advance
<1>3. /\ pipe' \in [Places -> Seq(1 .. total)]
      /\ Len(pipe'[a]) = Len(pipe[a]) - 1
      /\ Len(pipe'[b]) = Len(pipe[b]) + 1
      /\ \A j \in 1 .. Len(pipe[a]) - 1 : pipe'[a][j] = pipe[a][j + 1]
      /\ \A j \in 1 .. Len(pipe[b]) : pipe'[b][j] = pipe[b][j]
      /\ pipe'[b][Len(pipe[b]) + 1] = pipe[a][1]
      /\ \A r \in Places : r # a /\ r # b => pipe'[r] = pipe[r]
  BY <1>1, <1>2, MovedFacts
<1>4. \A r \in Places : /\ Len(pipe[r]) \in Nat /\ Len(pipe'[r]) \in Nat
                        /\ DOMAIN pipe[r] = 1 .. Len(pipe[r])
                        /\ DOMAIN pipe'[r] = 1 .. Len(pipe'[r])
  BY <1>1, <1>3
<1>5. Len(pipe[a]) # 0
  BY <1>1, <1>2
<1>6. i \in 1 .. Len(pipe'[p])
  BY <1>4
<1>7. CASE p = a
  BY <1>3, <1>4, <1>6, <1>7 DEF WasAt
<1>8. CASE p = b
  <2>1. CASE i = Len(pipe[b]) + 1
    BY <1>2, <1>3, <1>4, <1>5, <1>8, <2>1 DEF WasAt
  <2>2. CASE i # Len(pipe[b]) + 1
    <3>1. i \in 1 .. Len(pipe[b])
      BY <1>3, <1>4, <1>6, <1>8, <2>2
    <3>2. pipe'[b][i] = pipe[b][i] /\ i \in DOMAIN pipe[b]
      BY <1>3, <1>4, <3>1
    <3>. QED
      BY <1>2, <1>8, <3>1, <3>2 DEF WasAt
  <2>. QED
    BY <2>1, <2>2
<1>9. CASE p # a /\ p # b
  BY <1>3, <1>4, <1>6, <1>9 DEF WasAt
<1>. QED
  BY <1>7, <1>8, <1>9

\* After a Leave the others at a are one place further forward.
LEMMA LeaveOrigin ==
    ASSUME PipeType, NEW a \in Places, Leave(a),
           NEW p \in Places, NEW i \in DOMAIN pipe'[p]
    PROVE  /\ i \in Nat \ {0}
           /\ \/ p = a /\ WasAt(p, i, a, i + 1)
              \/ p # a /\ WasAt(p, i, p, i)
<1>1. pipe \in [Places -> Seq(1 .. total)]
  BY DEF PipeType
<1>2. pipe[a] # <<>> /\ pipe' = Removed(a)
  BY DEF Leave
<1>3. /\ pipe' \in [Places -> Seq(1 .. total)]
      /\ Len(pipe'[a]) = Len(pipe[a]) - 1
      /\ \A j \in 1 .. Len(pipe[a]) - 1 : pipe'[a][j] = pipe[a][j + 1]
      /\ \A r \in Places : r # a => pipe'[r] = pipe[r]
  BY <1>1, <1>2, RemovedFacts
<1>4. \A r \in Places : /\ Len(pipe[r]) \in Nat /\ Len(pipe'[r]) \in Nat
                        /\ DOMAIN pipe[r] = 1 .. Len(pipe[r])
                        /\ DOMAIN pipe'[r] = 1 .. Len(pipe'[r])
  BY <1>1, <1>3
<1>5. i \in 1 .. Len(pipe'[p])
  BY <1>4
<1>6. CASE p = a
  BY <1>3, <1>4, <1>5, <1>6 DEF WasAt
<1>7. CASE p # a
  BY <1>3, <1>4, <1>5, <1>7 DEF WasAt
<1>. QED
  BY <1>6, <1>7

\* After an Enter the reader has one packet, and the rest did not move.
LEMMA EnterOrigin ==
    ASSUME PipeType, Enter, NEW p \in Places, NEW i \in DOMAIN pipe'[p]
    PROVE  /\ i \in Nat \ {0}
           /\ \/ p = Reader /\ i = 1 /\ pipe'[p][i] = total + 1
              \/ p # Reader /\ WasAt(p, i, p, i)
<1>1. pipe \in [Places -> Seq(1 .. total)] /\ pipe[Reader] = <<>>
  BY DEF PipeType, Enter
<1>2. Reader \in Places
  BY PlaceFacts
<1>3. /\ pipe'[Reader] = <<total + 1>>
      /\ \A r \in Places : r # Reader => pipe'[r] = pipe[r]
  BY <1>1, <1>2 DEF Enter
<1>4. CASE p = Reader
  BY <1>3, <1>4
<1>5. CASE p # Reader
  <2>1. pipe[p] \in Seq(1 .. total) /\ pipe'[p] = pipe[p]
    BY <1>1, <1>3, <1>5
  <2>2. i \in Nat \ {0}
    BY <2>1
  <2>. QED
    BY <1>5, <2>1, <2>2 DEF WasAt
<1>. QED
  BY <1>4, <1>5

-----------------------------------------------------------------------------
(* Order                                                                   *)

\* A packet further down its route than another of its flow, or ahead of it in
\* the same queue, was so before an Advance, or is the one that moved.
LEMMA AdvanceOrder ==
    ASSUME TypeInv, OnRoute, FlowOrder, input' = input,
           NEW a \in Places, NEW b \in Places, Advance(a, b)
    PROVE  OnRoute' /\ FlowOrder'
<1>1. /\ PipeType /\ pipe[a] # <<>> /\ a # b /\ b[1] = a[1] + 1
      /\ b = PlaceOn(input[Head(pipe[a])], b[1])
  BY DEF TypeInv, Advance
<1>2. \A p \in Places : p[1] \in Nat
  BY PlaceFacts
<1>3. /\ \A p \in Places : pipe[p] \in Seq(1 .. total)
      /\ Head(pipe[a]) = pipe[a][1] /\ 1 \in DOMAIN pipe[a]
  BY <1>1 DEF PipeType
<1>4. \A p \in Places : \A i \in DOMAIN pipe[p] : i \in 1 .. Len(pipe[p])
  BY <1>3
<1>5. \A p, q \in Places : \A i \in DOMAIN pipe[p], j \in DOMAIN pipe[q] :
         input[pipe[p][i]] = input[pipe[q][j]] /\ p[1] = q[1] => p = q
  BY DEF OnRoute
<1>6. OnRoute'
  <2>1. SUFFICES ASSUME NEW p \in Places, NEW i \in DOMAIN pipe'[p]
                 PROVE  p = PlaceOn(input[pipe'[p][i]], p[1])
    BY DEF OnRoute, PlaceOn, LBOf, FPOf, LBQueue, LB, FPQueue, FP
  <2>2. CASE p = b /\ i = Len(pipe[b]) + 1 /\ WasAt(p, i, a, 1)
    BY <1>1, <1>3, <2>2 DEF WasAt
  <2>3. CASE p = a /\ WasAt(p, i, a, i + 1)
    BY <2>3 DEF WasAt, OnRoute
  <2>4. CASE WasAt(p, i, p, i)
    BY <2>4 DEF WasAt, OnRoute
  <2>. QED
    BY <1>1, <2>2, <2>3, <2>4, AdvanceOrigin
<1>7. FlowOrder'
  <2>1. SUFFICES ASSUME NEW p \in Places, NEW i \in DOMAIN pipe'[p],
                        NEW q \in Places, NEW j \in DOMAIN pipe'[q],
                        input[pipe'[p][i]] = input[pipe'[q][j]],
                        p[1] > q[1] \/ (p[1] = q[1] /\ i < j)
                 PROVE  pipe'[p][i] < pipe'[q][j]
    BY DEF FlowOrder
  <2>2. i \in Nat \ {0} /\ j \in Nat \ {0}
    BY <1>1, AdvanceOrigin
  <2>3. ASSUME NEW r \in Places, NEW k, WasAt(p, i, r, k),
               NEW s \in Places, NEW m, WasAt(q, j, s, m),
               r[1] > s[1] \/ (r[1] = s[1] /\ k < m)
        PROVE  pipe'[p][i] < pipe'[q][j]
    BY <2>1, <2>3 DEF WasAt, FlowOrder
  <2>4. CASE p = b /\ i = Len(pipe[b]) + 1 /\ WasAt(p, i, a, 1)
    <3>1. CASE q = b /\ j = Len(pipe[b]) + 1 /\ WasAt(q, j, a, 1)
      BY <2>1, <2>4, <3>1, <1>2
    <3>2. CASE q = a /\ WasAt(q, j, a, j + 1)
      BY <2>2, <2>3, <2>4, <3>2
    <3>3. CASE q # a /\ j \in DOMAIN pipe[q] /\ WasAt(q, j, q, j)
      <4>1. q[1] < b[1]
        <5>1. SUFFICES ASSUME q[1] = b[1] PROVE FALSE
          BY <1>2, <2>1, <2>4
        <5>2. q = b
          BY <1>1, <1>3, <2>1, <2>4, <3>3, <5>1 DEF WasAt, OnRoute
        <5>. QED
          BY <1>2, <1>4, <2>1, <2>2, <2>4, <3>3, <5>2
      <4>2. q[1] # a[1]
        BY <1>5, <2>1, <2>4, <3>3 DEF WasAt
      <4>3. q[1] < a[1]
        BY <1>1, <1>2, <4>1, <4>2
      <4>. QED
        BY <2>3, <2>4, <3>3, <4>3
    <3>. QED
      BY <1>1, <3>1, <3>2, <3>3, AdvanceOrigin
  <2>5. CASE p = a /\ WasAt(p, i, a, i + 1)
    <3>1. CASE q = b /\ j = Len(pipe[b]) + 1 /\ WasAt(q, j, a, 1)
      BY <1>1, <1>2, <2>1, <2>5, <3>1
    <3>2. CASE q = a /\ WasAt(q, j, a, j + 1)
      BY <1>2, <2>1, <2>2, <2>3, <2>5, <3>2
    <3>3. CASE q # a /\ j \in DOMAIN pipe[q] /\ WasAt(q, j, q, j)
      <4>1. q[1] # a[1]
        BY <1>5, <2>1, <2>5, <3>3 DEF WasAt
      <4>. QED
        BY <1>2, <2>1, <2>3, <2>5, <3>3, <4>1
    <3>. QED
      BY <1>1, <3>1, <3>2, <3>3, AdvanceOrigin
  <2>6. CASE p # a /\ i \in DOMAIN pipe[p] /\ WasAt(p, i, p, i)
    <3>1. CASE q = b /\ j = Len(pipe[b]) + 1 /\ WasAt(q, j, a, 1)
      <4>1. p[1] > a[1]
        BY <1>1, <1>2, <2>1, <3>1
      <4>. QED
        BY <2>3, <2>6, <3>1, <4>1
    <3>2. CASE q = a /\ WasAt(q, j, a, j + 1)
      <4>1. p[1] # a[1]
        BY <1>5, <2>1, <2>6, <3>2 DEF WasAt
      <4>. QED
        BY <1>2, <2>1, <2>3, <2>6, <3>2, <4>1
    <3>3. CASE q # a /\ j \in DOMAIN pipe[q] /\ WasAt(q, j, q, j)
      BY <2>1, <2>3, <2>6, <3>3
    <3>. QED
      BY <1>1, <3>1, <3>2, <3>3, AdvanceOrigin
  <2>. QED
    BY <1>1, <2>4, <2>5, <2>6, AdvanceOrigin
<1>. QED
  BY <1>6, <1>7

LEMMA LeaveOrder ==
    ASSUME TypeInv, OnRoute, FlowOrder, input' = input,
           NEW a \in Places, Leave(a)
    PROVE  OnRoute' /\ FlowOrder'
<1>1. PipeType
  BY DEF TypeInv
<1>2. OnRoute'
  BY <1>1, LeaveOrigin
  DEF WasAt, OnRoute, PlaceOn, LBOf, FPOf, LBQueue, LB, FPQueue, FP
<1>3. FlowOrder'
  <2>1. SUFFICES ASSUME NEW p \in Places, NEW i \in DOMAIN pipe'[p],
                        NEW q \in Places, NEW j \in DOMAIN pipe'[q],
                        input[pipe'[p][i]] = input[pipe'[q][j]],
                        p[1] > q[1] \/ (p[1] = q[1] /\ i < j)
                 PROVE  pipe'[p][i] < pipe'[q][j]
    BY DEF FlowOrder
  <2>2. p[1] \in Nat /\ q[1] \in Nat /\ i \in Nat /\ j \in Nat
    BY <1>1, PlaceFacts, LeaveOrigin
  <2>3. PICK k \in {i, i + 1} : WasAt(p, i, p, k) /\ k = IF p = a THEN i + 1 ELSE i
    BY <1>1, LeaveOrigin
  <2>4. PICK m \in {j, j + 1} : WasAt(q, j, q, m) /\ m = IF q = a THEN j + 1 ELSE j
    BY <1>1, LeaveOrigin
  <2>5. p[1] = q[1] => p = q
    BY <2>1, <2>3, <2>4 DEF WasAt, OnRoute
  <2>6. p[1] > q[1] \/ (p[1] = q[1] /\ k < m)
    BY <2>1, <2>2, <2>3, <2>4, <2>5
  <2>. QED
    BY <2>1, <2>3, <2>4, <2>6 DEF WasAt, FlowOrder
<1>. QED
  BY <1>2, <1>3

LEMMA EnterOrder ==
    ASSUME TypeInv, OnRoute, FlowOrder, input' = input, Enter
    PROVE  OnRoute' /\ FlowOrder'
<1>1. PipeType /\ total \in Nat
  BY DEF TypeInv, PipeType
<1>2. Reader = <<1, 0>> /\ \A p \in Places : p[1] >= 1 /\ p[1] \in Nat
  BY PlaceFacts DEF Reader
<1>3. OnRoute'
  BY <1>1, <1>2, EnterOrigin
  DEF WasAt, OnRoute, PlaceOn, LBOf, FPOf, LBQueue, LB, FPQueue, FP
<1>4. FlowOrder'
  <2>1. SUFFICES ASSUME NEW p \in Places, NEW i \in DOMAIN pipe'[p],
                        NEW q \in Places, NEW j \in DOMAIN pipe'[q],
                        input[pipe'[p][i]] = input[pipe'[q][j]],
                        p[1] > q[1] \/ (p[1] = q[1] /\ i < j)
                 PROVE  pipe'[p][i] < pipe'[q][j]
    BY DEF FlowOrder
  <2>2. p = q \/ p[1] # q[1]
    BY <1>3, <2>1 DEF OnRoute
  <2>3. i \in Nat /\ j \in Nat
    BY <1>1, EnterOrigin
  <2>4. CASE p = Reader
    <3>1. q = Reader /\ i < j
      BY <1>2, <2>1, <2>2, <2>4
    <3>2. i = 1 /\ j = 1
      BY <1>1, <2>4, <3>1, EnterOrigin
    <3>. QED
      BY <3>1, <3>2
  <2>5. CASE p # Reader
    <3>1. WasAt(p, i, p, i)
      BY <1>1, <2>5, EnterOrigin
    <3>2. pipe'[p][i] \in 1 .. total
      BY <1>1, <3>1 DEF WasAt, PipeType
    <3>3. CASE q = Reader
      BY <1>1, <3>2, <3>3, EnterOrigin
    <3>4. CASE q # Reader
      <4>1. WasAt(q, j, q, j)
        BY <1>1, <3>4, EnterOrigin
      <4>. QED
        BY <2>1, <3>1, <4>1 DEF WasAt, FlowOrder
    <3>. QED
      BY <3>3, <3>4
  <2>. QED
    BY <2>4, <2>5
<1>. QED
  BY <1>3, <1>4

-----------------------------------------------------------------------------
(* The inductive invariant                                                 *)

PipelineInv == TypeInv /\ StopInv /\ OnRoute /\ FlowOrder

LEMMA InitPipelineInv == Init => PipelineInv
<1>. SUFFICES ASSUME Init PROVE PipelineInv
  OBVIOUS
<1>1. \A p \in Places : DOMAIN pipe[p] = {}
  BY DEF Init
<1>. QED
  BY <1>1, InitType, StopInit DEF PipelineInv, OnRoute, FlowOrder

LEMMA NextPipelineInv == PipelineInv /\ [Next]_vars => PipelineInv'
<1>. SUFFICES ASSUME PipelineInv, [Next]_vars PROVE PipelineInv'
  OBVIOUS
<1>. USE DEF PipelineInv
<1>1. TypeInv' /\ StopInv'
  BY NextType, StopNext
<1>2. PipeStep
  BY NextPipe
<1>3. CASE Stay
  <2>1. pipe' = pipe /\ input' = input
    BY <1>2, <1>3 DEF PipeStep, Stay
  <2>2. OnRoute'
    BY <2>1 DEF OnRoute, PlaceOn, LBOf, FPOf, LBQueue, LB, FPQueue, FP
  <2>3. FlowOrder'
    BY <2>1 DEF FlowOrder
  <2>. QED
    BY <1>1, <2>2, <2>3
<1>4. CASE Enter
  BY <1>1, <1>2, <1>4, EnterOrder DEF PipeStep
<1>5. ASSUME NEW a \in Places, Leave(a) PROVE PipelineInv'
  BY <1>1, <1>2, <1>5, LeaveOrder DEF PipeStep
<1>6. ASSUME NEW a \in Places, NEW b \in Places, Advance(a, b)
      PROVE  PipelineInv'
  BY <1>1, <1>2, <1>6, AdvanceOrder DEF PipeStep
<1>. QED
  BY <1>2, <1>3, <1>4, <1>5, <1>6 DEF PipeStep

\* The packets of one flow keep the order of the capture at every place of the
\* pipeline, in the output file in particular, and no packet is duplicated.
THEOREM FlowOrderCorrect == Spec => []FlowOrder
<1>1. Spec => []PipelineInv
  BY InitPipelineInv, NextPipelineInv, PTL DEF Spec
<1>2. PipelineInv => FlowOrder
  BY DEF PipelineInv
<1>. QED
  BY <1>1, <1>2, PTL

-----------------------------------------------------------------------------
(* No packet vanishes                                                      *)

LEMMA NextKeepsPackets ==
    PipelineInv /\ NothingVanishes /\ [Next]_vars => NothingVanishes'
<1>. SUFFICES ASSUME PipelineInv, NothingVanishes, [Next]_vars,
                     NEW id \in 1 .. total'
              PROVE  id \in dropped' \/ \E p \in Places : id \in In(p)'
  BY DEF NothingVanishes
<1>1. PipeStep /\ PipeType /\ PipeType'
  BY NextPipe, NextType DEF PipelineInv, TypeInv
<1>2. \A p \in Places : /\ pipe[p] \in Seq(1 .. total)
                        /\ pipe'[p] \in Seq(1 .. total')
                        /\ DOMAIN pipe[p] = 1 .. Len(pipe[p])
                        /\ DOMAIN pipe'[p] = 1 .. Len(pipe'[p])
                        /\ Len(pipe[p]) \in Nat /\ Len(pipe'[p]) \in Nat
  BY <1>1 DEF PipeType
<1>3. ASSUME id \in dropped PROVE id \in dropped'
  BY <1>1, <1>3 DEF PipeStep, Stay, Enter, Leave, Advance
<1>4. ASSUME NEW p \in Places, NEW i \in DOMAIN pipe'[p], id = pipe'[p][i]
      PROVE  \E q \in Places : id \in In(q)'
  BY <1>4 DEF In
<1>5. ASSUME NEW p \in Places, NEW i \in DOMAIN pipe[p], id = pipe[p][i]
      PROVE  id \in dropped' \/ \E q \in Places : id \in In(q)'
  <2>1. CASE Stay
    BY <1>4, <1>5, <2>1 DEF Stay
  <2>2. CASE Enter
    <3>1. pipe[Reader] = <<>> /\ p # Reader
      BY <1>2, <1>5, <2>2 DEF Enter
    <3>2. pipe'[p] = pipe[p]
      BY <1>1, <2>2, <3>1 DEF Enter, PipeType
    <3>. QED
      BY <1>4, <1>5, <3>2
  <2>3. ASSUME NEW a \in Places, Leave(a)
        PROVE  id \in dropped' \/ \E q \in Places : id \in In(q)'
    <3>1. /\ pipe' = Removed(a) /\ pipe[a] # <<>> /\ Head(pipe[a]) \in dropped'
          /\ pipe \in [Places -> Seq(1 .. total)]
      BY <1>1, <2>3 DEF Leave, PipeType
    <3>2. /\ Head(pipe[a]) = pipe[a][1]
          /\ Len(pipe'[a]) = Len(pipe[a]) - 1
          /\ \A k \in 1 .. Len(pipe[a]) - 1 : pipe'[a][k] = pipe[a][k + 1]
          /\ \A q \in Places : q # a => pipe'[q] = pipe[q]
      BY <3>1, RemovedFacts
    <3>3. CASE p # a
      BY <1>4, <1>5, <3>2, <3>3
    <3>4. CASE p = a /\ i = 1
      BY <1>5, <3>1, <3>2, <3>4
    <3>5. CASE p = a /\ i # 1
      <4>1. i \in 1 .. Len(pipe[a]) /\ Len(pipe[a]) \in Nat
        BY <1>2, <1>5, <3>5
      <4>2. i - 1 \in 1 .. Len(pipe[a]) - 1 /\ (i - 1) + 1 = i
        BY <3>5, <4>1
      <4>3. pipe'[a][i - 1] = pipe[a][i]
        BY <3>2, <4>2
      <4>4. i - 1 \in DOMAIN pipe'[a]
        BY <1>2, <3>2, <4>2
      <4>. QED
        BY <1>4, <1>5, <3>5, <4>3, <4>4
    <3>. QED
      BY <3>3, <3>4, <3>5
  <2>4. ASSUME NEW a \in Places, NEW b \in Places, Advance(a, b)
        PROVE  \E q \in Places : id \in In(q)'
    <3>1. /\ pipe' = Moved(a, b) /\ pipe[a] # <<>> /\ a # b
          /\ pipe \in [Places -> Seq(1 .. total)]
      BY <1>1, <2>4 DEF Advance, PipeType
    <3>2. /\ Len(pipe'[a]) = Len(pipe[a]) - 1
          /\ Len(pipe'[b]) = Len(pipe[b]) + 1
          /\ \A k \in 1 .. Len(pipe[a]) - 1 : pipe'[a][k] = pipe[a][k + 1]
          /\ \A k \in 1 .. Len(pipe[b]) : pipe'[b][k] = pipe[b][k]
          /\ pipe'[b][Len(pipe[b]) + 1] = pipe[a][1]
          /\ \A q \in Places : q # a /\ q # b => pipe'[q] = pipe[q]
      <4>1. /\ Len(Moved(a, b)[a]) = Len(pipe[a]) - 1
            /\ Len(Moved(a, b)[b]) = Len(pipe[b]) + 1
            /\ \A k \in 1 .. Len(pipe[a]) - 1 : Moved(a, b)[a][k] = pipe[a][k + 1]
            /\ \A k \in 1 .. Len(pipe[b]) : Moved(a, b)[b][k] = pipe[b][k]
            /\ Moved(a, b)[b][Len(pipe[b]) + 1] = pipe[a][1]
            /\ \A q \in Places : q # a /\ q # b => Moved(a, b)[q] = pipe[q]
        BY <3>1, MovedFacts
      <4>. QED
        BY <3>1, <4>1
    <3>3. CASE p # a /\ p # b
      BY <1>4, <1>5, <3>2, <3>3
    <3>4. CASE p = b
      <4>1. i \in 1 .. Len(pipe[b]) /\ b \in Places
        BY <1>2, <1>5, <3>4
      <4>2. pipe'[b][i] = pipe[b][i]
        BY <3>2, <4>1
      <4>3. i \in DOMAIN pipe'[b]
        BY <1>2, <3>2, <4>1
      <4>. QED
        BY <1>4, <1>5, <3>4, <4>2, <4>3
    <3>5. CASE p = a /\ i = 1
      <4>1. Len(pipe[b]) + 1 \in DOMAIN pipe'[b]
        BY <1>2, <3>2
      <4>. QED
        BY <1>4, <1>5, <3>2, <3>5, <4>1
    <3>6. CASE p = a /\ i # 1
      <4>1. i \in 1 .. Len(pipe[a]) /\ Len(pipe[a]) \in Nat
        BY <1>2, <1>5, <3>6
      <4>2. i - 1 \in 1 .. Len(pipe[a]) - 1 /\ (i - 1) + 1 = i
        BY <3>6, <4>1
      <4>3. pipe'[a][i - 1] = pipe[a][i]
        BY <3>2, <4>2
      <4>4. i - 1 \in DOMAIN pipe'[a]
        BY <1>2, <3>2, <4>2
      <4>. QED
        BY <1>4, <1>5, <3>6, <4>3, <4>4
    <3>. QED
      BY <3>3, <3>4, <3>5, <3>6
  <2>. QED
    BY <1>1, <2>1, <2>2, <2>3, <2>4 DEF PipeStep
<1>6. CASE id \in 1 .. total
  BY <1>3, <1>5, <1>6 DEF NothingVanishes, In
<1>7. CASE id \notin 1 .. total
  <2>1. Enter /\ total \in Nat
    BY <1>1, <1>7 DEF PipeStep, Stay, Leave, Advance, PipeType
  <2>2. id = total + 1 /\ Reader \in Places
    BY <1>7, <2>1, PlaceFacts DEF Enter
  <2>3. pipe'[Reader] = <<total + 1>>
    BY <1>1, <2>1, <2>2 DEF Enter, PipeType
  <2>. QED
    BY <1>4, <2>2, <2>3
<1>. QED
  BY <1>6, <1>7

\* Every packet the reader has accepted is dropped by a rule or is somewhere in
\* the pipeline: stop() never makes a push or a write lose one.
THEOREM NothingVanishesCorrect == Spec => []NothingVanishes
<1>1. Init => NothingVanishes
  BY DEF Init, NothingVanishes
<1>2. Spec => [](PipelineInv /\ NothingVanishes)
  BY <1>1, InitPipelineInv, NextPipelineInv, NextKeepsPackets, PTL DEF Spec
<1>. QED
  BY <1>2, PTL

-----------------------------------------------------------------------------
(* The refinement: of all steps only three show, the reader's acceptance   *)
(* of a packet, a fast path's drop, and the output thread's write, and     *)
(* each is one the service allows.                                         *)

\* A packet that was dropped is nowhere in the pipeline.
DroppedIsGone == \A p \in Places : In(p) \cap dropped = {}
RefinementInv == PipelineInv /\ NothingVanishes /\ DroppedIsGone

\* No packet is in two places, or twice in one.
LEMMA OnePlace ==
    ASSUME PipelineInv,
           NEW p \in Places, NEW i \in DOMAIN pipe[p],
           NEW q \in Places, NEW j \in DOMAIN pipe[q],
           pipe[p][i] = pipe[q][j]
    PROVE  p = q /\ i = j
<1>1. p[1] \in Nat /\ q[1] \in Nat
  BY Stages
<1>2. i \in Nat /\ j \in Nat /\ pipe[p][i] \in Nat
  BY AtPlace DEF PipelineInv, TypeInv
<1>3. p[1] = q[1] => p = q
  BY DEF PipelineInv, OnRoute
<1>4. ~(p[1] > q[1] \/ (p[1] = q[1] /\ i < j))
  BY <1>2 DEF PipelineInv, FlowOrder
<1>5. ~(q[1] > p[1] \/ (q[1] = p[1] /\ j < i))
  BY <1>2 DEF PipelineInv, FlowOrder
<1>. QED
  BY <1>1, <1>2, <1>3, <1>4, <1>5

LEMMA NextDroppedIsGone ==
    PipelineInv /\ DroppedIsGone /\ [Next]_vars => DroppedIsGone'
<1>. SUFFICES ASSUME PipelineInv, DroppedIsGone, [Next]_vars,
                     NEW p \in Places, NEW i \in DOMAIN pipe'[p]
              PROVE  pipe'[p][i] \notin dropped'
  BY DEF DroppedIsGone, In
<1>1. PipeStep /\ PipeType /\ TypeInv
  BY NextPipe DEF PipelineInv, TypeInv
<1>2. ASSUME NEW r \in Places, NEW k \in DOMAIN pipe[r]
      PROVE  pipe[r][k] \notin dropped
  BY DEF DroppedIsGone, In
<1>3. CASE Stay
  BY <1>2, <1>3 DEF Stay
<1>4. CASE Enter
  <2>1. dropped' = dropped /\ total + 1 \notin dropped
    BY <1>1, <1>4 DEF Enter, TypeInv, ControlType, PipeType
  <2>. QED
    BY <1>1, <1>2, <1>4, <2>1, EnterOrigin DEF WasAt
<1>5. ASSUME NEW a \in Places, Leave(a) PROVE pipe'[p][i] \notin dropped'
  <2>1. /\ dropped' = dropped \cup {Head(pipe[a])}
        /\ pipe[a] # <<>> /\ pipe[a] \in Seq(1 .. total)
    BY <1>1, <1>5 DEF Leave, PipeType
  <2>2. Head(pipe[a]) = pipe[a][1] /\ 1 \in DOMAIN pipe[a]
    BY <2>1
  <2>3. i \in Nat \ {0}
    BY <1>1, <1>5, LeaveOrigin
  <2>4. PICK k \in DOMAIN pipe[p] : pipe'[p][i] = pipe[p][k] /\ (p = a => k # 1)
    BY <1>1, <1>5, <2>3, LeaveOrigin DEF WasAt
  <2>5. pipe[p][k] # pipe[a][1]
    BY <2>2, <2>4, OnePlace
  <2>. QED
    BY <1>2, <2>1, <2>2, <2>4, <2>5
<1>6. ASSUME NEW a \in Places, NEW b \in Places, Advance(a, b)
      PROVE  pipe'[p][i] \notin dropped'
  <2>1. dropped' = dropped
    BY <1>6 DEF Advance
  <2>. QED
    BY <1>1, <1>2, <1>6, <2>1, AdvanceOrigin DEF WasAt
<1>. QED
  BY <1>1, <1>3, <1>4, <1>5, <1>6 DEF PipeStep

LEMMA InitRefinementInv == Init => RefinementInv
<1>. SUFFICES ASSUME Init PROVE RefinementInv
  OBVIOUS
<1>1. NothingVanishes /\ DroppedIsGone
  BY DEF Init, NothingVanishes, DroppedIsGone
<1>. QED
  BY <1>1, InitPipelineInv DEF RefinementInv

LEMMA NextRefinementInv == RefinementInv /\ [Next]_vars => RefinementInv'
BY NextPipelineInv, NextKeepsPackets, NextDroppedIsGone DEF RefinementInv

-----------------------------------------------------------------------------
(* Steps of the service                                                    *)

\* A drop of a packet a thread holds, or of any other that has not left, is the
\* service's Discard.
LEMMA LeaveIsDiscard ==
    ASSUME RefinementInv, input' = input, NEW a \in Places, Leave(a)
    PROVE  Service!Next
<1>. DEFINE id == Head(pipe[a])
<1>1. /\ pipe \in [Places -> Seq(1 .. total)] /\ pipe[a] # <<>>
      /\ pipe' = Removed(a) /\ dropped' = dropped \cup {id} /\ total' = total
      /\ a # File
  BY DEF RefinementInv, PipelineInv, TypeInv, PipeType, Leave
<1>2. pipe'[File] = pipe[File]
  BY <1>1, RemovedFacts, PlaceFacts
<1>3. id = pipe[a][1] /\ 1 \in DOMAIN pipe[a] /\ id \in 1 .. total
  BY <1>1, FirstAtPlace, AtPlace DEF RefinementInv, PipelineInv, TypeInv
<1>4. id \notin dropped
  BY <1>3 DEF RefinementInv, DroppedIsGone, In
<1>5. id \notin Service!Written
  BY <1>1, <1>3, OnePlace, PlaceFacts DEF RefinementInv, Service!Written
<1>6. id \in Service!Pending
  BY <1>3, <1>4, <1>5 DEF Service!Pending
<1>7. Service!Discard(id)
  BY <1>1, <1>2, <1>6 DEF Service!Discard
<1>. QED
  BY <1>6, <1>7 DEF Service!Next

\* A write is the service's Deliver: an earlier packet of the flow that was not
\* dropped is further down than the one written, so in the file.
LEMMA WriteIsDeliver ==
    ASSUME RefinementInv, input' = input, NEW a \in Places, Advance(a, File)
    PROVE  Service!Next
<1>. DEFINE id == Head(pipe[a])
<1>1. /\ pipe \in [Places -> Seq(1 .. total)] /\ pipe[a] # <<>> /\ a # File
      /\ pipe' = Moved(a, File) /\ dropped' = dropped /\ total' = total
      /\ File \in Places /\ File[1] = 8 /\ File[1] = a[1] + 1
  BY PlaceFacts DEF RefinementInv, PipelineInv, TypeInv, PipeType, Advance
<1>2. pipe'[File] = Append(pipe[File], id)
  BY <1>1 DEF Moved
<1>3. id = pipe[a][1] /\ 1 \in DOMAIN pipe[a] /\ id \in 1 .. total
  BY <1>1, FirstAtPlace, AtPlace DEF RefinementInv, PipelineInv, TypeInv
<1>4. id \notin dropped
  BY <1>3 DEF RefinementInv, DroppedIsGone, In
<1>5. id \notin Service!Written
  BY <1>1, <1>3, OnePlace DEF RefinementInv, Service!Written
<1>6. id \in Service!Pending
  BY <1>3, <1>4, <1>5 DEF Service!Pending
<1>7. ASSUME NEW e \in Service!Pending, input[e] = input[id] PROVE id <= e
  <2>1. e \in 1 .. total /\ e \notin dropped /\ e \notin In(File)
    BY <1>7 DEF Service!Pending, Service!Written, In
  <2>2. PICK p \in Places : e \in In(p)
    BY <2>1 DEF RefinementInv, NothingVanishes
  <2>3. PICK i \in DOMAIN pipe[p] : e = pipe[p][i]
    BY <2>2 DEF In
  <2>4. i \in Nat \ {0}
    BY <2>3, AtPlace DEF RefinementInv, PipelineInv, TypeInv
  <2>5. p[1] \in 1 .. 7 /\ a[1] = 7
    <3>1. p # File
      BY <2>1, <2>2
    <3>2. p[1] \in 1 .. 7
      BY <3>1, Stages
    <3>3. a[1] \in Nat
      BY Stages
    <3>. QED
      BY <1>1, <3>2, <3>3
  <2>6. CASE p[1] = 7 /\ i = 1
    <3>1. p = a
      BY <1>3, <1>7, <2>3, <2>5, <2>6
      DEF RefinementInv, PipelineInv, OnRoute
    <3>. QED
      BY <1>3, <2>1, <2>3, <2>6, <3>1
  <2>7. CASE a[1] > p[1] \/ (a[1] = p[1] /\ 1 < i)
    <3>1. id < e
      BY <1>3, <1>7, <2>3, <2>7 DEF RefinementInv, PipelineInv, FlowOrder
    <3>. QED
      BY <1>3, <2>1, <3>1
  <2>. QED
    BY <2>4, <2>5, <2>6, <2>7
<1>8. Service!Deliver(id)
  BY <1>1, <1>2, <1>6, <1>7 DEF Service!Deliver
<1>. QED
  BY <1>6, <1>8 DEF Service!Next

LEMMA StepRefines ==
    RefinementInv /\ [Next]_vars => [Service!Next]_(Service!vars)
<1>. SUFFICES ASSUME RefinementInv, [Next]_vars
              PROVE  Service!Next \/ UNCHANGED Service!vars
  OBVIOUS
<1>1. /\ PipeStep /\ TypeInv' /\ input' = input
      /\ pipe \in [Places -> Seq(1 .. total)]
      /\ File \in Places /\ Reader \in Places /\ Reader # File
  BY NextPipe, NextType, PlaceFacts, PlacesApart
  DEF RefinementInv, PipelineInv, TypeInv, PipeType, PipeStep
<1>2. CASE Stay
  BY <1>1, <1>2 DEF Stay, Service!vars
<1>3. CASE Enter
  <2>1. pipe'[File] = pipe[File]
    BY <1>1, <1>3 DEF Enter
  <2>2. total < Len(input)
    BY <1>1, <1>3 DEF Enter, TypeInv, PipeType, RefinementInv, PipelineInv
  <2>. QED
    BY <1>1, <1>3, <2>1, <2>2 DEF Enter, Service!Accept, Service!Next
<1>4. ASSUME NEW a \in Places, Leave(a) PROVE Service!Next
  BY <1>1, <1>4, LeaveIsDiscard
<1>5. ASSUME NEW a \in Places, NEW b \in Places, Advance(a, b)
      PROVE  Service!Next \/ UNCHANGED Service!vars
  <2>1. CASE b = File
    BY <1>1, <1>5, <2>1, WriteIsDeliver
  <2>2. CASE b # File
    <3>1. b[1] = a[1] + 1 /\ b[1] \in 1 .. 7
      BY <1>5, <2>2, PlaceFacts DEF Advance
    <3>2. a # File
      BY <3>1, PlaceFacts
    <3>3. pipe'[File] = pipe[File]
      BY <1>1, <1>5, <2>2, <3>2, MovedFacts DEF Advance
    <3>. QED
      BY <1>1, <1>5, <3>3 DEF Advance, Service!vars
  <2>. QED
    BY <2>1, <2>2
<1>. QED
  BY <1>1, <1>2, <1>3, <1>4, <1>5 DEF PipeStep

\* The multi-threaded engine implements the sequential service: whatever the
\* threads do, each packet is dropped or written at most once, and the packets
\* of a flow are written in the order of the capture.
THEOREM PipelineImplementsService == Spec => ImplementsService
<1>1. Init => Service!Init
  BY PlaceFacts DEF Init, Service!Init
<1>2. Spec => []RefinementInv
  BY InitRefinementInv, NextRefinementInv, PTL DEF Spec
<1>. QED
  BY <1>1, <1>2, StepRefines, PTL DEF Spec, Service!Spec, ImplementsService

-----------------------------------------------------------------------------
(* How far the packets have come                                           *)

Ahead(s) == {id \in 1 .. total : \E p \in Places : p[1] <= s /\ id \in In(p)}
Past(s) == (1 .. total) \ Ahead(s)

-----------------------------------------------------------------------------
(* Which packets are at a place after a step                               *)

LEMMA AtIn ==
    ASSUME PipeType, NEW p \in Places, NEW id \in In(p)
    PROVE  id \in 1 .. total /\ \E i \in DOMAIN pipe[p] : i \in Nat \ {0} /\ id = pipe[p][i]
<1>1. PICK i \in DOMAIN pipe[p] : id = pipe[p][i]
  BY DEF In
<1>. QED
  BY <1>1, AtPlace

\* A packet that is neither dropped nor new is at the place where it was, unless
\* it is the one that moved.
LEMMA AdvancePlaces ==
    ASSUME RefinementInv, [Next]_vars,
           NEW a \in Places, NEW b \in Places, Advance(a, b),
           NEW p \in Places, NEW id
    PROVE  id \in In(p)' <=> \/ id = Head(pipe[a]) /\ p = b
                             \/ id # Head(pipe[a]) /\ id \in In(p)
<1>. DEFINE h == Head(pipe[a])
<1>1. /\ PipelineInv /\ PipeType /\ NothingVanishes /\ DroppedIsGone
      /\ PipeType' /\ NothingVanishes'
  BY NextRefinementInv DEF RefinementInv, PipelineInv, TypeInv
<1>2. /\ pipe[a] # <<>> /\ a # b /\ pipe' = Moved(a, b)
      /\ total' = total /\ dropped' = dropped
  BY DEF Advance
<1>3. h = pipe[a][1] /\ 1 \in DOMAIN pipe[a]
  BY <1>1, <1>2, FirstAtPlace
<1>. HIDE DEF h
<1>4. ASSUME NEW q \in Places, NEW i \in DOMAIN pipe'[q]
      PROVE  \/ pipe'[q][i] = h /\ q = b
             \/ pipe'[q][i] # h /\ pipe'[q][i] \in In(q)
  <2>1. i \in Nat \ {0}
    BY <1>1, AdvanceOrigin
  <2>2. CASE q = b /\ i = Len(pipe[b]) + 1 /\ WasAt(q, i, a, 1)
    BY <1>3, <2>2 DEF WasAt
  <2>3. CASE q = a /\ WasAt(q, i, a, i + 1)
    BY <1>1, <1>3, <2>1, <2>3, OnePlace DEF WasAt, In
  <2>4. CASE q # a /\ WasAt(q, i, q, i)
    BY <1>1, <1>3, <2>4, OnePlace DEF WasAt, In
  <2>. QED
    BY <1>1, <2>2, <2>3, <2>4, AdvanceOrigin
<1>5. ASSUME id \in In(p)'
      PROVE  (id = h /\ p = b) \/ (id # h /\ id \in In(p))
  BY <1>4, <1>5 DEF In
<1>6. h \in In(b)'
  <2>1. /\ pipe'[b][Len(pipe[b]) + 1] = pipe[a][1]
        /\ Len(pipe'[b]) = Len(pipe[b]) + 1
        /\ pipe[b] \in Seq(1 .. total) /\ pipe'[b] \in Seq(1 .. total')
    BY <1>1, <1>2, MovedFacts DEF PipeType
  <2>2. Len(pipe[b]) + 1 \in DOMAIN pipe'[b]
    BY <2>1
  <2>. QED
    BY <1>3, <2>1, <2>2 DEF In
<1>7. ASSUME id # h, id \in In(p) PROVE id \in In(p)'
  <2>1. id \in 1 .. total /\ id \notin dropped
    BY <1>1, <1>7, AtIn DEF DroppedIsGone
  <2>2. PICK q \in Places : id \in In(q)'
    BY <1>1, <1>2, <2>1 DEF NothingVanishes
  <2>3. id \in In(q)
    BY <1>4, <1>7, <2>2 DEF In
  <2>4. q = p
    BY <1>1, <1>7, <2>3, OnePlace DEF In
  <2>. QED
    BY <2>2, <2>4
<1>. QED
  BY <1>5, <1>6, <1>7 DEF h

LEMMA LeavePlaces ==
    ASSUME RefinementInv, [Next]_vars, NEW a \in Places, Leave(a),
           NEW p \in Places, NEW id
    PROVE  id \in In(p)' <=> id # Head(pipe[a]) /\ id \in In(p)
<1>. DEFINE h == Head(pipe[a])
<1>1. /\ PipelineInv /\ PipeType /\ NothingVanishes /\ DroppedIsGone
      /\ PipeType' /\ NothingVanishes'
  BY NextRefinementInv DEF RefinementInv, PipelineInv, TypeInv
<1>2. /\ pipe[a] # <<>> /\ pipe' = Removed(a)
      /\ total' = total /\ dropped' = dropped \cup {h}
  BY DEF Leave
<1>3. h = pipe[a][1] /\ 1 \in DOMAIN pipe[a]
  BY <1>1, <1>2, FirstAtPlace
<1>. HIDE DEF h
<1>4. ASSUME NEW q \in Places, NEW i \in DOMAIN pipe'[q]
      PROVE  pipe'[q][i] # h /\ pipe'[q][i] \in In(q)
  <2>1. i \in Nat \ {0}
    BY <1>1, LeaveOrigin
  <2>2. CASE q = a /\ WasAt(q, i, a, i + 1)
    BY <1>1, <1>3, <2>1, <2>2, OnePlace DEF WasAt, In
  <2>3. CASE q # a /\ WasAt(q, i, q, i)
    BY <1>1, <1>3, <2>3, OnePlace DEF WasAt, In
  <2>. QED
    BY <1>1, <2>2, <2>3, LeaveOrigin
<1>5. ASSUME id \in In(p)' PROVE id # h /\ id \in In(p)
  BY <1>4, <1>5 DEF In
<1>6. ASSUME id # h, id \in In(p) PROVE id \in In(p)'
  <2>1. id \in 1 .. total /\ id \notin dropped
    BY <1>1, <1>6, AtIn DEF DroppedIsGone
  <2>2. PICK q \in Places : id \in In(q)'
    BY <1>1, <1>2, <1>6, <2>1 DEF NothingVanishes
  <2>3. id \in In(q)
    BY <1>4, <2>2 DEF In
  <2>4. q = p
    BY <1>1, <1>6, <2>3, OnePlace DEF In
  <2>. QED
    BY <2>2, <2>4
<1>. QED
  BY <1>5, <1>6 DEF h

LEMMA EnterPlaces ==
    ASSUME PipeType, Enter, NEW p \in Places, NEW id
    PROVE  id \in In(p)' <=> (id = total + 1 /\ p = Reader) \/ id \in In(p)
<1>1. /\ pipe \in [Places -> Seq(1 .. total)] /\ Reader \in Places
      /\ pipe[Reader] = <<>>
  BY PlaceFacts DEF PipeType, Enter
<1>2. /\ pipe'[Reader] = <<total + 1>>
      /\ \A r \in Places : r # Reader => pipe'[r] = pipe[r]
  BY <1>1 DEF Enter
<1>3. In(Reader)' = {total + 1} /\ In(Reader) = {}
  BY <1>1, <1>2 DEF In
<1>4. p # Reader => In(p)' = In(p)
  BY <1>2 DEF In
<1>. QED
  BY <1>3, <1>4

-----------------------------------------------------------------------------
(* How far the packets have come                                           *)

\* The first packet of a place is at its stage, and nowhere else.
LEMMA HeadAhead ==
    ASSUME RefinementInv, NEW a \in Places, pipe[a] # <<>>
    PROVE  LET h == Head(pipe[a])
           IN /\ h \in 1 .. total /\ h \in In(a) /\ h \notin dropped
              /\ \A p \in Places : h \in In(p) => p = a
              /\ \A s \in Int : h \in Ahead(s) <=> a[1] <= s
<1>. DEFINE h == Head(pipe[a])
<1>1. PipelineInv /\ PipeType /\ DroppedIsGone
  BY DEF RefinementInv, PipelineInv, TypeInv
<1>2. h = pipe[a][1] /\ 1 \in DOMAIN pipe[a] /\ h \in 1 .. total
  BY <1>1, FirstAtPlace, AtPlace
<1>. HIDE DEF h
<1>3. h \in In(a) /\ h \notin dropped
  BY <1>1, <1>2 DEF In, DroppedIsGone
<1>4. \A p \in Places : h \in In(p) => p = a
  BY <1>1, <1>2, OnePlace DEF In
<1>5. \A s \in Int : h \in Ahead(s) <=> a[1] <= s
  BY <1>2, <1>3, <1>4 DEF Ahead
<1>. QED
  BY <1>2, <1>3, <1>4, <1>5 DEF h

\* A step forward takes the packet out of the stages up to its own, and leaves
\* the others where they were.
LEMMA AdvanceAhead ==
    ASSUME RefinementInv, [Next]_vars,
           NEW a \in Places, NEW b \in Places, Advance(a, b), NEW s \in Int
    PROVE  /\ Ahead(s)' = IF a[1] = s THEN Ahead(s) \ {Head(pipe[a])} ELSE Ahead(s)
           /\ Past(s)' = IF a[1] = s THEN Past(s) \cup {Head(pipe[a])} ELSE Past(s)
<1>. DEFINE h == Head(pipe[a])
<1>1. /\ pipe[a] # <<>> /\ b[1] = a[1] + 1 /\ total' = total
      /\ a[1] \in Int /\ b[1] \in Int
  BY Stages DEF Advance
<1>2. \A p \in Places : \A id :
        id \in In(p)' <=> \/ id = h /\ p = b
                          \/ id # h /\ id \in In(p)
  BY AdvancePlaces
<1>3. /\ h \in 1 .. total /\ h \in In(a)
      /\ \A p \in Places : h \in In(p) => p = a
      /\ h \in Ahead(s) <=> a[1] <= s
  BY <1>1, HeadAhead
<1>. HIDE DEF h
<1>4. ASSUME NEW id \in 1 .. total
      PROVE  id \in Ahead(s)' <=> IF id = h THEN b[1] <= s ELSE id \in Ahead(s)
  BY <1>1, <1>2, <1>3 DEF Ahead
<1>5. \A id \in Ahead(s)' \cup Ahead(s) : id \in 1 .. total
  BY <1>1 DEF Ahead
<1>6. Ahead(s)' = IF a[1] = s THEN Ahead(s) \ {h} ELSE Ahead(s)
  <2>1. b[1] <= s <=> a[1] <= s /\ a[1] # s
    BY <1>1
  <2>2. ASSUME NEW id \in 1 .. total
        PROVE  id \in Ahead(s)' <=> id \in Ahead(s) /\ ~(id = h /\ a[1] = s)
    BY <1>3, <1>4, <2>1
  <2>. HIDE DEF Ahead
  <2>. QED
    BY <1>5, <2>2
<1>7. Past(s)' = IF a[1] = s THEN Past(s) \cup {h} ELSE Past(s)
  BY <1>1, <1>3, <1>6 DEF Past
<1>. QED
  BY <1>6, <1>7 DEF h

LEMMA LeaveAhead ==
    ASSUME RefinementInv, [Next]_vars, NEW a \in Places, Leave(a), NEW s \in Int
    PROVE  /\ Ahead(s)' = Ahead(s) \ {Head(pipe[a])}
           /\ Past(s)' = IF a[1] <= s THEN Past(s) \cup {Head(pipe[a])} ELSE Past(s)
<1>. DEFINE h == Head(pipe[a])
<1>1. pipe[a] # <<>> /\ total' = total
  BY DEF Leave
<1>2. \A p \in Places : \A id : id \in In(p)' <=> id # h /\ id \in In(p)
  BY LeavePlaces
<1>3. h \in 1 .. total /\ (h \in Ahead(s) <=> a[1] <= s)
  BY <1>1, HeadAhead
<1>. HIDE DEF h
<1>4. Ahead(s)' = Ahead(s) \ {h}
  BY <1>1, <1>2 DEF Ahead
<1>. QED
  BY <1>1, <1>3, <1>4 DEF Past, h

LEMMA EnterAhead ==
    ASSUME RefinementInv, Enter, NEW s \in Int
    PROVE  /\ Ahead(s)' = IF 1 <= s THEN Ahead(s) \cup {total + 1} ELSE Ahead(s)
           /\ 1 <= s => Past(s)' = Past(s)
<1>1. PipeType /\ total \in Nat /\ total' = total + 1
  BY DEF RefinementInv, PipelineInv, TypeInv, PipeType, Enter
<1>2. \A p \in Places : \A id :
        id \in In(p)' <=> (id = total + 1 /\ p = Reader) \/ id \in In(p)
  BY <1>1, EnterPlaces
<1>3. Reader \in Places /\ Reader[1] = 1
  BY PlaceFacts DEF Reader
<1>4. \A p \in Places : \A id \in In(p) : id \in 1 .. total
  BY <1>1, AtIn
<1>5. Ahead(s)' = IF 1 <= s THEN Ahead(s) \cup {total + 1} ELSE Ahead(s)
  BY <1>1, <1>2, <1>3, <1>4 DEF Ahead
<1>. QED
  BY <1>1, <1>5 DEF Past

-----------------------------------------------------------------------------
(* The counters                                                            *)

\* The packets that fast path f has taken from its queue.
Processed(f) == {id \in Past(4) : FPOf(input[id]) = f}

\* Each counter of the load balancers and the fast paths is the number of the
\* packets that have passed its stage.
StatsInv ==
    /\ stats.received = Cardinality(Past(2))
    /\ stats.dispatched = Cardinality(Past(3))
    /\ \A f \in FPIds : stats.processed[f]
                          = Cardinality(Processed(f))
    /\ stats.fpDropped = Cardinality(dropped)
    /\ stats.fpForwarded = Cardinality(Past(5) \ dropped)

\* The packets a fast path has counted as forwarded and not yet handed on.
InPush == {id \in 1 .. total :
             \E f \in FPIds : pc[FP(f)] = "push" /\ id \in In(FP(f))}
\* What handleOutput counted as forwarded went past the fast paths, or is about to.
ForwardedInv == forwarded = (Past(5) \ dropped) \cup InPush

\* What a step does to the packets and to the counters, together.
Counted == \/ /\ Stay \/ Enter
              /\ UNCHANGED stats
           \/ \E f \in FPIds :
                Leave(FP(f)) /\ stats' = [stats EXCEPT !.fpDropped = @ + 1]
           \/ \E l \in LBIds :
                \/ Advance(Reader, LBQueue(l)) /\ UNCHANGED stats
                \/ /\ Advance(LBQueue(l), LB(l))
                   /\ stats' = [stats EXCEPT !.received = @ + 1]
                \/ \E f \in FPIds :
                     /\ Advance(LB(l), FPQueue(f))
                     /\ stats' = [stats EXCEPT !.dispatched = @ + 1]
           \/ \E f \in FPIds :
                \/ /\ Advance(FPQueue(f), FP(f))
                   /\ stats' = [stats EXCEPT !.processed[f] = @ + 1]
                \/ /\ Advance(FP(f), OutQueue)
                   /\ stats' = [stats EXCEPT !.fpForwarded = @ + 1]
           \/ /\ Advance(OutQueue, Output) \/ Advance(Output, File)
              /\ UNCHANGED stats

\* The pushes and the pops, by the thread that makes them.
LEMMA PushMoves ==
    ASSUME PipelineInv
    PROVE  /\ ReaderPush => \E l \in LBIds : Advance(Reader, LBQueue(l))
           /\ \A l \in LBIds :
                LBPush(l) => \E f \in FPIds : Advance(LB(l), FPQueue(f))
           /\ \A f \in FPIds : FPPush(f) => Advance(FP(f), OutQueue)
<1>. USE DEF PipelineInv, TypeInv
<1>1. ASSUME ReaderPush PROVE \E l \in LBIds : Advance(Reader, LBQueue(l))
  <2>. DEFINE t == input[Held(Reader)]  q == LBQueue(LBOf(t))
  <2>1. /\ Reader \in Threads /\ pc[Reader] \in Holding
        /\ Push(Reader, q) /\ UNCHANGED <<total, dropped>>
    BY <1>1, PlaceFacts DEF ReaderPush, Holding
  <2>2. t \in Tuples
    BY <2>1, HeldFacts
  <2>3. LBOf(t) \in LBIds /\ q \in Queues /\ q = PlaceOn(t, q[1]) /\ q[1] = Reader[1] + 1
    BY <2>2, RoutingType, PlaceFacts DEF LBQueue, PlaceOn, Reader
  <2>4. Advance(Reader, q)
    BY <2>1, <2>3, PushAdvances
  <2>. QED
    BY <2>3, <2>4
<1>2. ASSUME NEW l \in LBIds, LBPush(l)
      PROVE  \E f \in FPIds : Advance(LB(l), FPQueue(f))
  <2>. DEFINE t == input[Held(LB(l))]  q == FPQueue(FPOf(t))
  <2>1. /\ LB(l) \in Threads /\ pc[LB(l)] \in Holding /\ Push(LB(l), q)
        /\ UNCHANGED <<total, dropped>>
    BY <1>2, PlaceFacts DEF LBPush, Holding
  <2>2. t \in Tuples
    BY <2>1, HeldFacts
  <2>3. FPOf(t) \in FPIds /\ q \in Queues /\ q = PlaceOn(t, q[1]) /\ q[1] = LB(l)[1] + 1
    BY <2>2, RoutingType, PlaceFacts DEF FPQueue, PlaceOn, LB
  <2>4. Advance(LB(l), q)
    BY <2>1, <2>3, PushAdvances
  <2>. QED
    BY <2>3, <2>4
<1>3. ASSUME NEW f \in FPIds, FPPush(f) PROVE Advance(FP(f), OutQueue)
  <2>1. /\ FP(f) \in Threads /\ pc[FP(f)] \in Holding /\ Push(FP(f), OutQueue)
        /\ UNCHANGED <<total, dropped>>
    BY <1>3, PlaceFacts DEF FPPush, Holding
  <2>2. /\ OutQueue \in Queues /\ OutQueue[1] = FP(f)[1] + 1
        /\ OutQueue = PlaceOn(input[Held(FP(f))], OutQueue[1])
    BY PlaceFacts DEF OutQueue, PlaceOn, FP
  <2>. QED
    BY <2>1, <2>2, PushAdvances
<1>. QED
  BY <1>1, <1>2, <1>3

LEMMA NextCounted == PipelineInv /\ [Next]_vars => Counted
<1>. SUFFICES ASSUME PipelineInv, [Next]_vars PROVE Counted
  OBVIOUS
<1>. USE DEF Counted, PipelineInv
<1>1. CASE UNCHANGED <<total, pipe, dropped, stats>>
  BY <1>1 DEF Stay
<1>2. CASE ReaderNext
  <2>1. UNCHANGED stats
    BY <1>2 DEF ReaderNext, OpenInput, ReadPacket, ReaderPush
  <2>2. CASE OpenInput
    BY <1>1, <2>2 DEF OpenInput
  <2>3. CASE ReadPacket
    <3>1. pc[Reader] = "read" /\ Reader \in Threads /\ Reader \in Places
      BY <2>3, PlaceFacts DEF ReadPacket
    <3>2. Len(pipe[Reader]) = 0 /\ pipe[Reader] \in Seq(1 .. total)
      BY <3>1 DEF TypeInv, PipeType, HandInv, Holding
    <3>3. pipe[Reader] = <<>>
      BY <3>2
    <3>. QED
      BY <2>1, <2>3, <3>3 DEF ReadPacket, Enter, Stay
  <2>4. CASE ReaderPush
    BY <2>1, <2>4, PushMoves
  <2>. QED
    BY <1>2, <2>2, <2>3, <2>4 DEF ReaderNext
<1>3. ASSUME NEW l \in LBIds, LBNext(l) PROVE Counted
  <2>1. CASE CheckRunning(LB(l)) \/ PopNothing(LB(l))
    BY <1>1, <2>1 DEF CheckRunning, PopNothing
  <2>2. CASE LBPop(l)
    <3>1. Advance(InputOf(LB(l)), LB(l))
      BY <2>2, PopAdvances, PlaceFacts DEF LBPop
    <3>. QED
      BY <2>2, <3>1, PlaceFacts DEF LBPop
  <2>3. CASE LBPush(l)
    BY <2>3, PushMoves DEF LBPush
  <2>. QED
    BY <1>3, <2>1, <2>2, <2>3 DEF LBNext
<1>4. ASSUME NEW f \in FPIds, FPNext(f) PROVE Counted
  <2>1. CASE CheckRunning(FP(f)) \/ PopNothing(FP(f)) \/ FPForward(f)
    BY <1>1, <2>1 DEF CheckRunning, PopNothing, FPForward
  <2>2. CASE FPPop(f)
    <3>1. Advance(InputOf(FP(f)), FP(f))
      BY <2>2, PopAdvances, PlaceFacts DEF FPPop
    <3>. QED
      BY <2>2, <3>1, PlaceFacts DEF FPPop
  <2>3. CASE FPDrop(f)
    <3>1. FP(f) \in Threads /\ pipe[FP(f)] # <<>>
      BY <2>3, PlaceFacts, HeldFacts DEF TypeInv, FPDrop, Holding
    <3>2. Leave(FP(f))
      BY <2>3, <3>1, PlacesApart DEF FPDrop, Leave, Held
    <3>. QED
      BY <2>3, <3>2 DEF FPDrop
  <2>4. CASE FPPush(f)
    BY <2>4, PushMoves DEF FPPush
  <2>. QED
    BY <1>4, <2>1, <2>2, <2>3, <2>4 DEF FPNext
<1>5. CASE OutputNext
  <2>1. UNCHANGED <<stats, total, dropped>>
    BY <1>5 DEF OutputNext, OutputCheck, PopNothing, OutputPop, OutputWrite
  <2>2. CASE OutputCheck \/ PopNothing(Output)
    BY <1>1, <2>1, <2>2 DEF OutputCheck, PopNothing
  <2>3. CASE OutputPop
    <3>1. Advance(InputOf(Output), Output)
      BY <2>1, <2>3, PopAdvances, PlaceFacts DEF OutputPop
    <3>. QED
      BY <2>1, <3>1, PlaceFacts
  <2>4. CASE OutputWrite
    <3>1. pc[Output] = "write" /\ Output \in Threads
      BY <2>4, PlaceFacts DEF OutputWrite
    <3>2. fileOpen
      BY <3>1 DEF StopInv
    <3>3. pipe[Output] # <<>> /\ pipe' = Moved(Output, File)
      BY <2>4, <3>1, <3>2, HeldFacts DEF TypeInv, OutputWrite, Holding
    <3>4. Advance(Output, File)
      BY <2>1, <3>3 DEF Advance, Output, File, PlaceOn
    <3>. QED
      BY <2>1, <3>4
  <2>. QED
    BY <1>5, <2>2, <2>3, <2>4 DEF OutputNext
<1>6. CASE MainNext \/ UNCHANGED vars
  BY <1>1, <1>6 DEF MainNext, WaitForCompletion, PollQueue, PollOutput,
                    StopWorker, JoinWorker, vars
<1>. QED
  BY <1>2, <1>3, <1>4, <1>5, <1>6 DEF Next, Returned

\* Adding one packet to a set of packets.
LEMMA OneMore ==
    ASSUME total \in Nat, NEW S \in SUBSET (1 .. total), NEW h, h \notin S
    PROVE  /\ IsFiniteSet(S) /\ Cardinality(S) \in Nat
           /\ Cardinality(S \cup {h}) = Cardinality(S) + 1
<1>1. IsFiniteSet(1 .. total)
  BY FS_Interval
<1>2. IsFiniteSet(S)
  BY <1>1, FS_Subset
<1>. QED
  BY <1>2, FS_AddElement, FS_CardinalityType

\* An Advance moves one packet past its stage; a fast path takes its own packets.
LEMMA AdvancePast ==
    ASSUME RefinementInv, [Next]_vars, input' = input,
           NEW a \in Places, NEW b \in Places, Advance(a, b)
    PROVE  LET h == Head(pipe[a])
           IN /\ \A s \in Int : /\ a[1] # s => Past(s)' = Past(s)
                                /\ a[1] = s => Cardinality(Past(s)') = Cardinality(Past(s)) + 1
              /\ \A f \in FPIds : a # FPQueue(f) => Processed(f)' = Processed(f)
              /\ \A f \in FPIds :
                   a = FPQueue(f) => Cardinality(Processed(f)') = Cardinality(Processed(f)) + 1
              /\ a[1] # 5 => (Past(5) \ dropped)' = Past(5) \ dropped
              /\ a[1] = 5 => Cardinality((Past(5) \ dropped)') = Cardinality(Past(5) \ dropped) + 1
              /\ dropped' = dropped
<1>. DEFINE h == Head(pipe[a])
<1>1. /\ pipe[a] # <<>> /\ dropped' = dropped /\ total' = total /\ total \in Nat
      /\ a[1] \in Int
  BY Stages DEF Advance, RefinementInv, PipelineInv, TypeInv, PipeType
<1>2. /\ h \in 1 .. total /\ h \in In(a) /\ h \notin dropped
      /\ \A s \in Int : h \in Ahead(s) <=> a[1] <= s
  BY <1>1, HeadAhead
<1>3. \A s \in Int : Past(s)' = IF a[1] = s THEN Past(s) \cup {h} ELSE Past(s)
  BY AdvanceAhead
<1>. HIDE DEF h
<1>4. \A s \in Int : Past(s) \subseteq 1 .. total /\ (a[1] = s => h \notin Past(s))
  BY <1>1, <1>2 DEF Past
<1>. HIDE DEF Past
<1>5. ASSUME NEW s \in Int, a[1] = s
      PROVE  Cardinality(Past(s)') = Cardinality(Past(s)) + 1
  BY <1>1, <1>3, <1>4, <1>5, OneMore
<1>6. PipelineInv
  BY DEF RefinementInv
<1>7. a = PlaceOn(input[h], a[1])
  BY <1>2, <1>6 DEF PipelineInv, OnRoute, In
<1>8. ASSUME NEW f \in FPIds
      PROVE  /\ a # FPQueue(f) => Processed(f)' = Processed(f)
             /\ a = FPQueue(f) => Cardinality(Processed(f)') = Cardinality(Processed(f)) + 1
  <2>1. a[1] = 4 => a = FPQueue(FPOf(input[h]))
    BY <1>7 DEF PlaceOn
  <2>2. Processed(f)' = {id \in Past(4)' : FPOf(input[id]) = f}
    BY DEF Processed, FPOf, LBOf
  <2>3. CASE a[1] # 4
    <3>1. a # FPQueue(f)
      BY <2>3 DEF FPQueue
    <3>. QED
      BY <1>3, <2>2, <2>3, <3>1 DEF Processed
  <2>4. CASE a[1] = 4 /\ FPOf(input[h]) # f
    <3>1. a # FPQueue(f)
      BY <2>1, <2>4 DEF FPQueue
    <3>. QED
      BY <1>3, <2>2, <2>4, <3>1 DEF Processed
  <2>5. CASE a[1] = 4 /\ FPOf(input[h]) = f
    <3>1. a = FPQueue(f)
      BY <2>1, <2>5
    <3>2. Processed(f)' = Processed(f) \cup {h}
      BY <1>3, <2>2, <2>5 DEF Processed
    <3>3. Processed(f) \subseteq 1 .. total /\ h \notin Processed(f)
      BY <1>4, <2>5 DEF Processed
    <3>. QED
      BY <1>1, <3>1, <3>2, <3>3, OneMore
  <2>. QED
    BY <2>3, <2>4, <2>5
<1>9. a[1] # 5 => (Past(5) \ dropped)' = Past(5) \ dropped
  BY <1>1, <1>3
<1>10. ASSUME a[1] = 5
       PROVE  Cardinality((Past(5) \ dropped)') = Cardinality(Past(5) \ dropped) + 1
  <2>1. (Past(5) \ dropped)' = (Past(5) \ dropped) \cup {h}
    BY <1>1, <1>2, <1>3, <1>10
  <2>. QED
    BY <1>1, <1>2, <1>4, <1>10, <2>1, OneMore
<1>. QED
  BY <1>1, <1>3, <1>5, <1>8, <1>9, <1>10

LEMMA StatsInit == Init => StatsInv
<1>. SUFFICES ASSUME Init PROVE StatsInv
  OBVIOUS
<1>1. total = 0 /\ dropped = {}
  BY DEF Init
<1>2. \A s : Past(s) = {}
  BY <1>1 DEF Past
<1>3. \A f \in FPIds : Processed(f) = {}
  BY <1>2 DEF Processed
<1>. QED
  BY <1>1, <1>2, <1>3, FS_EmptySet DEF Init, StatsInv

LEMMA StatsNext == RefinementInv /\ StatsInv /\ [Next]_vars => StatsInv'
<1>. SUFFICES ASSUME RefinementInv, StatsInv, [Next]_vars PROVE StatsInv'
  OBVIOUS
<1>1. Counted /\ PipelineInv /\ stats \in Count /\ total \in Nat
  BY NextCounted DEF RefinementInv, PipelineInv, TypeInv, ControlType, PipeType
<1>2. input' = input
  BY <1>1, NextPipe DEF PipelineInv, PipeStep
<1>3. /\ Reader \in Places /\ OutQueue \in Places /\ Output \in Places /\ File \in Places
      /\ \A l \in LBIds : LBQueue(l) \in Places /\ LB(l) \in Places
      /\ \A f \in FPIds : FPQueue(f) \in Places /\ FP(f) \in Places
  BY PlaceFacts
<1>4. ASSUME NEW a \in Places, NEW b \in Places, Advance(a, b), UNCHANGED stats,
             a[1] \in {1, 6, 7}
      PROVE  StatsInv'
  <2>1. \A f \in FPIds : a # FPQueue(f)
    BY <1>4 DEF FPQueue
  <2>2. /\ Past(2)' = Past(2) /\ Past(3)' = Past(3)
        /\ (Past(5) \ dropped)' = Past(5) \ dropped /\ dropped' = dropped
        /\ \A f \in FPIds : Processed(f)' = Processed(f)
    BY <1>2, <1>4, <2>1, AdvancePast
  <2>. QED
    BY <1>4, <2>2 DEF StatsInv
<1>5. ASSUME Stay \/ Enter, UNCHANGED stats PROVE StatsInv'
  <2>1. \A s \in 1 .. 5 : Past(s)' = Past(s)
    <3>1. CASE Stay
      BY <3>1 DEF Past, Ahead, In, Stay
    <3>2. CASE Enter
      BY <3>2, EnterAhead
    <3>. QED
      BY <1>5, <3>1, <3>2
  <2>2. /\ Past(2)' = Past(2) /\ Past(3)' = Past(3) /\ Past(4)' = Past(4)
        /\ Past(5)' = Past(5) /\ dropped' = dropped
    BY <1>5, <2>1 DEF Stay, Enter
  <2>3. \A f \in FPIds : Processed(f)' = Processed(f)
    BY <1>2, <2>2 DEF Processed, FPOf, LBOf
  <2>. QED
    BY <1>5, <2>2, <2>3 DEF StatsInv
<1>6. ASSUME NEW f \in FPIds, Leave(FP(f)), stats' = [stats EXCEPT !.fpDropped = @ + 1]
      PROVE  StatsInv'
  <2>. DEFINE h == Head(pipe[FP(f)])
  <2>1. FP(f)[1] = 5 /\ pipe[FP(f)] # <<>> /\ dropped' = dropped \cup {h}
    BY <1>6 DEF FP, Leave
  <2>2. h \in 1 .. total /\ h \notin dropped /\ h \notin Past(5)
    BY <1>3, <2>1, HeadAhead DEF Past
  <2>3. \A s \in 2 .. 5 : Past(s)' = IF s = 5 THEN Past(s) \cup {h} ELSE Past(s)
    BY <1>3, <1>6, <2>1, LeaveAhead
  <2>. HIDE DEF h
  <2>4. /\ Past(2)' = Past(2) /\ Past(3)' = Past(3) /\ Past(4)' = Past(4)
        /\ Past(5)' = Past(5) \cup {h}
    BY <2>3
  <2>5. (Past(5) \ dropped)' = Past(5) \ dropped
    BY <2>1, <2>2, <2>4
  <2>6. \A g \in FPIds : Processed(g)' = Processed(g)
    BY <1>2, <2>4 DEF Processed, FPOf, LBOf
  <2>7. dropped \subseteq 1 .. total
    BY <1>1 DEF PipelineInv, TypeInv, ControlType
  <2>8. Cardinality(dropped') = Cardinality(dropped) + 1
    BY <1>1, <2>1, <2>2, <2>7, OneMore
  <2>9. /\ stats'.received = stats.received /\ stats'.dispatched = stats.dispatched
        /\ stats'.processed = stats.processed /\ stats'.fpForwarded = stats.fpForwarded
        /\ stats'.fpDropped = stats.fpDropped + 1
    BY <1>1, <1>6 DEF Count
  <2>. QED
    BY <2>4, <2>5, <2>6, <2>8, <2>9 DEF StatsInv
<1>7. ASSUME NEW l \in LBIds, Advance(LBQueue(l), LB(l)),
             stats' = [stats EXCEPT !.received = @ + 1]
      PROVE  StatsInv'
  <2>1. LBQueue(l)[1] = 2 /\ \A f \in FPIds : LBQueue(l) # FPQueue(f)
    BY DEF LBQueue, FPQueue
  <2>2. /\ Cardinality(Past(2)') = Cardinality(Past(2)) + 1 /\ Past(3)' = Past(3)
        /\ (Past(5) \ dropped)' = Past(5) \ dropped /\ dropped' = dropped
        /\ \A f \in FPIds : Processed(f)' = Processed(f)
    BY <1>2, <1>3, <1>7, <2>1, AdvancePast
  <2>3. /\ stats'.dispatched = stats.dispatched /\ stats'.fpDropped = stats.fpDropped
        /\ stats'.processed = stats.processed /\ stats'.fpForwarded = stats.fpForwarded
        /\ stats'.received = stats.received + 1
    BY <1>1, <1>7 DEF Count
  <2>. QED
    BY <2>2, <2>3 DEF StatsInv
<1>8. ASSUME NEW l \in LBIds, NEW g \in FPIds, Advance(LB(l), FPQueue(g)),
             stats' = [stats EXCEPT !.dispatched = @ + 1]
      PROVE  StatsInv'
  <2>1. LB(l)[1] = 3 /\ \A f \in FPIds : LB(l) # FPQueue(f)
    BY DEF LB, FPQueue
  <2>2. /\ Cardinality(Past(3)') = Cardinality(Past(3)) + 1 /\ Past(2)' = Past(2)
        /\ (Past(5) \ dropped)' = Past(5) \ dropped /\ dropped' = dropped
        /\ \A f \in FPIds : Processed(f)' = Processed(f)
    BY <1>2, <1>3, <1>8, <2>1, AdvancePast
  <2>3. /\ stats'.received = stats.received /\ stats'.fpDropped = stats.fpDropped
        /\ stats'.processed = stats.processed /\ stats'.fpForwarded = stats.fpForwarded
        /\ stats'.dispatched = stats.dispatched + 1
    BY <1>1, <1>8 DEF Count
  <2>. QED
    BY <2>2, <2>3 DEF StatsInv
<1>9. ASSUME NEW f \in FPIds, Advance(FPQueue(f), FP(f)),
             stats' = [stats EXCEPT !.processed[f] = @ + 1]
      PROVE  StatsInv'
  <2>1. FPQueue(f)[1] = 4 /\ \A g \in FPIds : FPQueue(f) = FPQueue(g) <=> f = g
    BY DEF FPQueue
  <2>2. /\ Past(3)' = Past(3) /\ Past(2)' = Past(2)
        /\ (Past(5) \ dropped)' = Past(5) \ dropped /\ dropped' = dropped
        /\ \A g \in FPIds : f # g => Processed(g)' = Processed(g)
        /\ Cardinality(Processed(f)') = Cardinality(Processed(f)) + 1
    BY <1>2, <1>3, <1>9, <2>1, AdvancePast
  <2>3. /\ stats'.received = stats.received /\ stats'.fpDropped = stats.fpDropped
        /\ stats'.dispatched = stats.dispatched /\ stats'.fpForwarded = stats.fpForwarded
        /\ stats'.processed[f] = stats.processed[f] + 1
        /\ \A g \in FPIds : f # g => stats'.processed[g] = stats.processed[g]
    BY <1>1, <1>9 DEF Count
  <2>. QED
    BY <2>2, <2>3 DEF StatsInv
<1>10. ASSUME NEW f \in FPIds, Advance(FP(f), OutQueue),
              stats' = [stats EXCEPT !.fpForwarded = @ + 1]
       PROVE  StatsInv'
  <2>1. FP(f)[1] = 5 /\ \A g \in FPIds : FP(f) # FPQueue(g)
    BY DEF FP, FPQueue
  <2>2. /\ Past(3)' = Past(3) /\ Past(2)' = Past(2) /\ dropped' = dropped
        /\ \A g \in FPIds : Processed(g)' = Processed(g)
    BY <1>2, <1>3, <1>10, <2>1, AdvancePast
  <2>3. Cardinality((Past(5) \ dropped)') = Cardinality(Past(5) \ dropped) + 1
    BY <1>2, <1>3, <1>10, <2>1, AdvancePast
  <2>4. /\ stats'.received = stats.received /\ stats'.fpDropped = stats.fpDropped
        /\ stats'.dispatched = stats.dispatched
        /\ stats'.processed = stats.processed
        /\ stats'.fpForwarded = stats.fpForwarded + 1
    BY <1>1, <1>10 DEF Count
  <2>. QED
    BY <2>2, <2>3, <2>4 DEF StatsInv
<1>11. Reader[1] = 1 /\ OutQueue[1] = 6 /\ Output[1] = 7
  BY DEF Reader, OutQueue, Output
<1>. QED
  BY <1>1, <1>3, <1>4, <1>5, <1>6, <1>7, <1>8, <1>9, <1>10, <1>11 DEF Counted

-----------------------------------------------------------------------------
(* What is counted as forwarded                                            *)

\* A place that a packet neither leaves nor reaches keeps its packets.
LEMMA PlaceKeeps ==
    ASSUME RefinementInv, [Next]_vars, NEW a \in Places, NEW p \in Places, p # a,
           \/ Leave(a)
           \/ \E b \in Places : Advance(a, b) /\ p # b
    PROVE  In(p)' = In(p)
<1>. DEFINE h == Head(pipe[a])
<1>1. pipe[a] # <<>>
  BY DEF Leave, Advance
<1>2. h \notin In(p)
  BY <1>1, HeadAhead
<1>. HIDE DEF h
<1>3. CASE Leave(a)
  <2>1. \A id : id \in In(p)' <=> id # h /\ id \in In(p)
    BY <1>3, LeavePlaces DEF h
  <2>. QED
    BY <1>2, <2>1
<1>4. ASSUME NEW b \in Places, Advance(a, b), p # b PROVE In(p)' = In(p)
  <2>1. \A id : id \in In(p)' <=> (id = h /\ p = b) \/ (id # h /\ id \in In(p))
    BY <1>4, AdvancePlaces DEF h
  <2>. QED
    BY <1>2, <1>4, <2>1
<1>. QED
  BY <1>3, <1>4

\* Only a push to the output queue takes a packet past the fast paths.
LEMMA ForwardedStays ==
    ASSUME RefinementInv, [Next]_vars, stats'.fpForwarded = stats.fpForwarded
    PROVE  /\ (Past(5) \ dropped)' = Past(5) \ dropped
           /\ \A f \in FPIds : pc[FP(f)] = "push" /\ pc'[FP(f)] = "push"
                                 => In(FP(f))' = In(FP(f))
<1>1. /\ Counted /\ PipelineInv /\ PipelineInv' /\ stats \in Count
      /\ TypeInv /\ TypeInv'
  BY NextCounted, NextPipelineInv DEF RefinementInv, PipelineInv, TypeInv, ControlType
<1>2. input' = input
  BY <1>1, NextPipe DEF PipelineInv, PipeStep
<1>3. /\ Reader \in Places /\ OutQueue \in Places /\ Output \in Places /\ File \in Places
      /\ \A l \in LBIds : LBQueue(l) \in Places /\ LB(l) \in Places
      /\ \A f \in FPIds : FPQueue(f) \in Places /\ FP(f) \in Places /\ FP(f) \in Threads
  BY PlaceFacts
<1>4. /\ \A f \in FPIds : FP(f) # Reader /\ FP(f) # OutQueue /\ FP(f) # Output /\ FP(f) # File
      /\ \A f \in FPIds, l \in LBIds : FP(f) # LBQueue(l) /\ FP(f) # LB(l)
      /\ \A f \in FPIds, g \in FPIds : FP(f) # FPQueue(g) /\ (f # g => FP(f) # FP(g))
  BY DEF FP, Reader, OutQueue, Output, File, LBQueue, LB, FPQueue
<1>5. ASSUME NEW f \in FPIds, pc[FP(f)] = "push", pc'[FP(f)] = "push"
      PROVE  /\ Len(pipe[FP(f)]) = 1 /\ Len(pipe'[FP(f)]) = 1
             /\ pipe \in [Places -> Seq(1 .. total)]
  BY <1>1, <1>3, <1>5 DEF TypeInv, HandInv, Holding, PipeType
<1>6. CASE Stay
  BY <1>6 DEF Stay, Past, Ahead, In
<1>7. CASE Enter
  <2>1. Past(5)' = Past(5) /\ dropped' = dropped
    BY <1>7, EnterAhead DEF Enter
  <2>2. \A p \in Places : p # Reader => pipe'[p] = pipe[p]
    BY <1>1, <1>7 DEF Enter, TypeInv, PipeType
  <2>. QED
    BY <1>3, <1>4, <2>1, <2>2 DEF In
<1>8. ASSUME NEW g \in FPIds, Leave(FP(g))
      PROVE  /\ (Past(5) \ dropped)' = Past(5) \ dropped
             /\ \A f \in FPIds : pc[FP(f)] = "push" /\ pc'[FP(f)] = "push"
                                   => In(FP(f))' = In(FP(f))
  <2>. DEFINE h == Head(pipe[FP(g)])
  <2>1. FP(g)[1] = 5 /\ pipe[FP(g)] # <<>> /\ dropped' = dropped \cup {h}
    BY <1>8 DEF FP, Leave
  <2>2. h \notin Past(5)
    BY <1>3, <2>1, HeadAhead DEF Past
  <2>3. Past(5)' = Past(5) \cup {h}
    BY <1>3, <1>8, <2>1, LeaveAhead
  <2>. HIDE DEF h
  <2>4. (Past(5) \ dropped)' = Past(5) \ dropped
    BY <2>1, <2>2, <2>3
  <2>5. ASSUME NEW f \in FPIds, pc[FP(f)] = "push", pc'[FP(f)] = "push"
        PROVE  In(FP(f))' = In(FP(f))
    <3>1. CASE f # g
      BY <1>3, <1>4, <1>8, <3>1, PlaceKeeps
    <3>2. CASE f = g
      <4>1. Len(pipe'[FP(f)]) = Len(pipe[FP(f)]) - 1
        BY <1>3, <1>5, <1>8, <2>1, <2>5, <3>2, RemovedFacts DEF Leave
      <4>. QED
        BY <1>5, <2>5, <4>1
    <3>. QED
      BY <3>1, <3>2
  <2>. QED
    BY <2>4, <2>5
<1>9. ASSUME NEW a \in Places, NEW b \in Places, Advance(a, b), a[1] # 5
      PROVE  /\ (Past(5) \ dropped)' = Past(5) \ dropped
             /\ \A f \in FPIds : pc[FP(f)] = "push" /\ pc'[FP(f)] = "push"
                                   => In(FP(f))' = In(FP(f))
  <2>1. (Past(5) \ dropped)' = Past(5) \ dropped
    BY <1>2, <1>9, AdvancePast
  <2>2. ASSUME NEW f \in FPIds, pc[FP(f)] = "push", pc'[FP(f)] = "push"
        PROVE  In(FP(f))' = In(FP(f))
    <3>1. FP(f) # a
      BY <1>9 DEF FP
    <3>2. CASE FP(f) # b
      BY <1>3, <1>9, <3>1, <3>2, PlaceKeeps
    <3>3. CASE FP(f) = b
      <4>1. Len(pipe'[FP(f)]) = Len(pipe[FP(f)]) + 1
        BY <1>3, <1>5, <1>9, <2>2, <3>3, MovedFacts DEF Advance
      <4>. QED
        BY <1>5, <2>2, <4>1
    <3>. QED
      BY <3>2, <3>3
  <2>. QED
    BY <2>1, <2>2
<1>10. ASSUME NEW f \in FPIds PROVE stats' # [stats EXCEPT !.fpForwarded = @ + 1]
  BY <1>1 DEF Count
<1>11. /\ Reader[1] = 1 /\ OutQueue[1] = 6 /\ Output[1] = 7
       /\ \A l \in LBIds : LBQueue(l)[1] = 2 /\ LB(l)[1] = 3
       /\ \A f \in FPIds : FPQueue(f)[1] = 4
  BY DEF Reader, OutQueue, Output, LBQueue, LB, FPQueue
<1>. QED
  BY <1>1, <1>3, <1>6, <1>7, <1>8, <1>9, <1>10, <1>11 DEF Counted

\* No step but those of FPForward and FPPush brings a fast path to its push or
\* past it, or counts a packet as forwarded.
LEMMA NoPushStep ==
    ASSUME TypeInv, [Next]_vars,
           ~\E f \in FPIds : FPForward(f) \/ FPPush(f)
    PROVE  /\ forwarded' = forwarded /\ stats'.fpForwarded = stats.fpForwarded
           /\ \A g \in FPIds : pc'[FP(g)] = "push" <=> pc[FP(g)] = "push"
<1>1. pc \in [Threads -> Steps] /\ stats \in Count
  BY DEF TypeInv, ControlType
<1>2. /\ \A f \in FPIds : FP(f) # Reader /\ FP(f) # Output
      /\ \A f \in FPIds, l \in LBIds : FP(f) # LB(l)
      /\ \A f \in FPIds, g \in FPIds : f # g => FP(f) # FP(g)
  BY DEF FP, Reader, Output, LB
<1>3. \A f \in FPIds : FP(f) \in Threads
  BY PlaceFacts
<1>4. CASE ReaderNext
  <2>1. /\ forwarded' = forwarded /\ stats' = stats
        /\ \E next \in Steps : Goto(Reader, next)
    BY <1>4 DEF ReaderNext, OpenInput, ReadPacket, ReaderPush, Steps
  <2>. QED
    BY <1>1, <1>2, <1>3, <2>1 DEF Goto
<1>5. ASSUME NEW l \in LBIds, LBNext(l)
      PROVE  /\ forwarded' = forwarded /\ stats'.fpForwarded = stats.fpForwarded
             /\ \A g \in FPIds : pc'[FP(g)] = "push" <=> pc[FP(g)] = "push"
  <2>1. PICK next \in Steps : Goto(LB(l), next) /\ forwarded' = forwarded
    BY <1>5 DEF LBNext, CheckRunning, PopNothing, LBPop, LBPush, Steps
  <2>2. stats'.fpForwarded = stats.fpForwarded
    BY <1>1, <1>5 DEF LBNext, CheckRunning, PopNothing, LBPop, LBPush, Count
  <2>. QED
    BY <1>1, <1>2, <2>1, <2>2 DEF Goto
<1>6. ASSUME NEW f \in FPIds, FPNext(f)
      PROVE  /\ forwarded' = forwarded /\ stats'.fpForwarded = stats.fpForwarded
             /\ \A g \in FPIds : pc'[FP(g)] = "push" <=> pc[FP(g)] = "push"
  <2>1. \/ CheckRunning(FP(f)) \/ PopNothing(FP(f)) \/ FPPop(f) \/ FPDrop(f)
    BY <1>6 DEF FPNext
  <2>2. PICK next \in Steps \ {"push"} : /\ Goto(FP(f), next) /\ forwarded' = forwarded
                                         /\ pc[FP(f)] # "push"
    BY <2>1 DEF CheckRunning, PopNothing, FPPop, FPDrop, Steps
  <2>3. stats'.fpForwarded = stats.fpForwarded
    BY <1>1, <2>1 DEF CheckRunning, PopNothing, FPPop, FPDrop, Count
  <2>. QED
    BY <1>1, <1>2, <1>3, <2>2, <2>3 DEF Goto
<1>7. CASE OutputNext
  <2>1. /\ forwarded' = forwarded /\ stats' = stats
        /\ \E next \in Steps : Goto(Output, next)
    BY <1>7
    DEF OutputNext, OutputCheck, PopNothing, OutputPop, OutputWrite, Steps
  <2>. QED
    BY <1>1, <1>2, <1>3, <2>1 DEF Goto
<1>8. CASE MainNext \/ UNCHANGED vars
  BY <1>8 DEF MainNext, WaitForCompletion, PollQueue, PollOutput,
              StopWorker, JoinWorker, vars
<1>. QED
  BY <1>4, <1>5, <1>6, <1>7, <1>8 DEF Next, Returned

LEMMA ForwardedNext ==
    RefinementInv /\ ForwardedInv /\ [Next]_vars => ForwardedInv'
<1>. SUFFICES ASSUME RefinementInv, ForwardedInv, [Next]_vars PROVE ForwardedInv'
  OBVIOUS
<1>1. /\ PipelineInv /\ TypeInv /\ PipeType
      /\ pc \in [Threads -> Steps] /\ pipe \in [Places -> Seq(1 .. total)]
      /\ \A g \in FPIds : FP(g) \in Threads /\ FP(g) \in Places /\ FP(g)[1] = 5
      /\ \A f \in FPIds, g \in FPIds : f # g => FP(f) # FP(g)
  BY PlaceFacts DEF RefinementInv, PipelineInv, TypeInv, ControlType, PipeType, FP
<1>2. CASE ~\E f \in FPIds : FPForward(f) \/ FPPush(f)
  <2>1. /\ forwarded' = forwarded /\ stats'.fpForwarded = stats.fpForwarded
        /\ \A g \in FPIds : pc'[FP(g)] = "push" <=> pc[FP(g)] = "push"
    BY <1>1, <1>2, NoPushStep
  <2>2. /\ (Past(5) \ dropped)' = Past(5) \ dropped
        /\ \A g \in FPIds : pc[FP(g)] = "push" => In(FP(g))' = In(FP(g))
    BY <2>1, ForwardedStays
  <2>3. total' \in Nat /\ total <= total' /\ total \in Nat
    BY <1>1, NextPipe DEF PipelineInv, PipeStep, Stay, Enter, Leave, Advance, PipeType
  <2>4. \A g \in FPIds : \A id \in In(FP(g)) : id \in 1 .. total /\ id \in 1 .. total'
    BY <1>1, <2>3, AtIn
  <2>5. InPush' = InPush
    BY <2>1, <2>2, <2>4 DEF InPush
  <2>. QED
    BY <2>1, <2>2, <2>5 DEF ForwardedInv
<1>3. ASSUME NEW f \in FPIds, FPForward(f) PROVE ForwardedInv'
  <2>1. /\ pc[FP(f)] = "process" /\ Goto(FP(f), "push")
        /\ forwarded' = forwarded \cup {Held(FP(f))}
        /\ UNCHANGED <<input, total, pipe, dropped>>
    BY <1>3 DEF FPForward
  <2>2. Held(FP(f)) \in 1 .. total /\ In(FP(f)) = {Held(FP(f))}
    <3>1. /\ Held(FP(f)) \in 1 .. total /\ Held(FP(f)) = pipe[FP(f)][1]
          /\ Len(pipe[FP(f)]) = 1
      BY <1>1, <2>1, HeldFacts DEF TypeInv, Holding
    <3>2. DOMAIN pipe[FP(f)] = {1}
      BY <1>1, <3>1
    <3>. QED
      BY <3>1, <3>2 DEF In
  <2>3. Past(5)' = Past(5) /\ \A g \in FPIds : In(FP(g))' = In(FP(g))
    BY <2>1 DEF Past, Ahead, In
  <2>4. InPush' = InPush \cup {Held(FP(f))}
    <3>1. \A g \in FPIds : pc'[FP(g)] = IF g = f THEN "push" ELSE pc[FP(g)]
      BY <1>1, <2>1 DEF Goto
    <3>. QED
      BY <2>1, <2>2, <2>3, <3>1 DEF InPush
  <2>. QED
    BY <2>1, <2>3, <2>4 DEF ForwardedInv
<1>4. ASSUME NEW f \in FPIds, FPPush(f) PROVE ForwardedInv'
  <2>. DEFINE h == Head(pipe[FP(f)])
  <2>1. /\ pc[FP(f)] = "push" /\ Goto(FP(f), "check")
        /\ forwarded' = forwarded /\ total' = total /\ dropped' = dropped
        /\ Advance(FP(f), OutQueue) /\ pipe[FP(f)] # <<>>
    BY <1>1, <1>4, PushMoves DEF FPPush, Advance
  <2>2. OutQueue \in Places /\ \A g \in FPIds : FP(g) # OutQueue
    BY PlaceFacts DEF FP, OutQueue
  <2>3. /\ h \in 1 .. total /\ h \in In(FP(f)) /\ h \notin dropped
        /\ \A p \in Places : h \in In(p) => p = FP(f)
    BY <1>1, <2>1, HeadAhead
  <2>4. Past(5)' = Past(5) \cup {h}
    BY <1>1, <2>1, <2>2, AdvanceAhead
  <2>5. \A g \in FPIds : g # f => In(FP(g))' = In(FP(g))
    BY <1>1, <2>1, <2>2, PlaceKeeps
  <2>6. \A g \in FPIds : pc'[FP(g)] = IF g = f THEN "check" ELSE pc[FP(g)]
    BY <1>1, <2>1 DEF Goto
  <2>7. In(FP(f)) = {h}
    <3>1. /\ Len(pipe[FP(f)]) = 1
      BY <1>1, <2>1, HeldFacts DEF TypeInv, Holding
    <3>2. DOMAIN pipe[FP(f)] = {1} /\ h = pipe[FP(f)][1]
      BY <1>1, <3>1
    <3>. QED
      BY <3>1, <3>2 DEF In
  <2>. HIDE DEF h
  <2>8. h \in InPush /\ InPush' = InPush \ {h}
    <3>1. h \in InPush
      BY <2>1, <2>3 DEF InPush
    <3>2. ASSUME NEW id \in 1 .. total
          PROVE  id \in InPush' <=> id \in InPush /\ id # h
      <4>1. ASSUME NEW g \in FPIds
            PROVE  /\ pc'[FP(g)] = "push" <=> g # f /\ pc[FP(g)] = "push"
                   /\ g # f => (id \in In(FP(g))' <=> id \in In(FP(g)))
                   /\ id \in In(FP(g)) => (id = h <=> g = f)
        BY <1>1, <2>3, <2>5, <2>6, <2>7
      <4>2. id \in InPush' <=> \E g \in FPIds : pc'[FP(g)] = "push" /\ id \in In(FP(g))'
        BY <2>1 DEF InPush
      <4>3. id \in InPush <=> \E g \in FPIds : pc[FP(g)] = "push" /\ id \in In(FP(g))
        BY DEF InPush
      <4>. QED
        BY <4>1, <4>2, <4>3
    <3>3. InPush' \subseteq 1 .. total /\ InPush \subseteq 1 .. total
      BY <2>1 DEF InPush
    <3>. QED
      BY <3>1, <3>2, <3>3
  <2>. QED
    BY <2>1, <2>3, <2>4, <2>8 DEF ForwardedInv
<1>. QED
  BY <1>2, <1>3, <1>4

LEMMA ForwardedInit == Init => ForwardedInv
BY DEF Init, ForwardedInv, InPush, Past

-----------------------------------------------------------------------------
(* The header, and the end of the output thread                            *)

\* The header is written before a packet is read.
HeaderInv == /\ pc[Reader] = "open" => total = 0
             /\ total > 0 \/ pc[Reader] \in {"read", "push"} => header

\* The output thread goes on while the engine runs, and longer than the fast
\* paths; it ends with its queue empty.
OutputInv ==
    /\ ~running[Output] => \A f \in FPIds : pc[FP(f)] = "exit"
    /\ pc[Output] \in {"empty?", "exit"} => ~running[Output]
    /\ pc[Output] = "exit" => pipe[OutQueue] = <<>>

\* Of which thread a step is.
LEMMA ThreadStep ==
    ASSUME TypeInv, [Next]_vars
    PROVE  \/ ReaderNext /\ \E next \in Steps : Goto(Reader, next)
           \/ \E l \in LBIds : \E next \in Steps : LBNext(l) /\ Goto(LB(l), next)
           \/ \E f \in FPIds : \E next \in Steps : FPNext(f) /\ Goto(FP(f), next)
           \/ OutputNext /\ \E next \in Steps : Goto(Output, next)
           \/ MainNext /\ pc' = pc
           \/ UNCHANGED vars
<1>1. ReaderNext => \E next \in Steps : Goto(Reader, next)
  BY DEF ReaderNext, OpenInput, ReadPacket, ReaderPush, Steps
<1>2. ASSUME NEW l \in LBIds, LBNext(l) PROVE \E next \in Steps : Goto(LB(l), next)
  BY <1>2 DEF LBNext, CheckRunning, PopNothing, LBPop, LBPush, Steps
<1>3. ASSUME NEW f \in FPIds, FPNext(f) PROVE \E next \in Steps : Goto(FP(f), next)
  BY <1>3 DEF FPNext, CheckRunning, PopNothing, FPPop, FPDrop, FPForward, FPPush, Steps
<1>4. OutputNext => \E next \in Steps : Goto(Output, next)
  BY DEF OutputNext, OutputCheck, PopNothing, OutputPop, OutputWrite, Steps
<1>5. MainNext => pc' = pc
  BY DEF MainNext, WaitForCompletion, PollQueue, PollOutput, StopWorker, JoinWorker
<1>. QED
  BY <1>1, <1>2, <1>3, <1>4, <1>5 DEF Next, Returned

\* Who may change what: the reader its count and the header, the main thread what
\* it has seen and whether a worker is running.
LEMMA WhoChanges ==
    ASSUME [Next]_vars
    PROVE  /\ ReaderNext \/ UNCHANGED <<total, header>>
           /\ total' = total \/ pc[Reader] = "read"
           /\ UNCHANGED mainVars \/ MainNext
           /\ running' = running \/ StopWorker
BY DEF Next, Returned, vars, mainVars, ReaderNext, OpenInput, ReadPacket, ReaderPush,
       LBNext, CheckRunning, PopNothing, LBPop, LBPush,
       FPNext, FPPop, FPDrop, FPForward, FPPush, OutputNext, OutputCheck,
       OutputPop, OutputWrite, MainNext, WaitForCompletion, PollQueue,
       PollOutput, StopWorker, JoinWorker

LEMMA HeaderNext == TypeInv /\ HeaderInv /\ [Next]_vars => HeaderInv'
<1>. SUFFICES ASSUME TypeInv, HeaderInv, [Next]_vars PROVE HeaderInv'
  OBVIOUS
<1>1. pc \in [Threads -> Steps] /\ Reader \in Threads /\ total \in Nat
  BY PlaceFacts DEF TypeInv, ControlType, PipeType
<1>2. CASE ReaderNext
  <2>1. CASE OpenInput
    BY <1>1, <2>1 DEF OpenInput, Goto, HeaderInv
  <2>2. CASE ReadPacket
    BY <1>1, <2>2 DEF ReadPacket, Goto, HeaderInv
  <2>3. CASE ReaderPush
    BY <1>1, <2>3 DEF ReaderPush, Goto, HeaderInv
  <2>. QED
    BY <1>2, <2>1, <2>2, <2>3 DEF ReaderNext
<1>3. CASE ~ReaderNext
  <2>1. UNCHANGED <<total, header>>
    BY <1>3, WhoChanges
  <2>2. /\ \A f \in FPIds : FP(f) # Reader
        /\ \A l \in LBIds : LB(l) # Reader
        /\ Output # Reader
    BY DEF FP, LB, Output, Reader
  <2>3. pc'[Reader] = pc[Reader]
    BY <1>1, <1>3, <2>2, ThreadStep DEF Goto, vars
  <2>. QED
    BY <2>1, <2>3 DEF HeaderInv
<1>. QED
  BY <1>2, <1>3

\* A place that no packet advances to stays empty.
LEMMA EmptyStays ==
    ASSUME PipelineInv, [Next]_vars, NEW p \in Places, p # Reader,
           pipe[p] = <<>>, ~\E a \in Places : Advance(a, p)
    PROVE  pipe'[p] = <<>>
<1>1. PipeStep /\ pipe \in [Places -> Seq(1 .. total)]
  BY NextPipe DEF PipelineInv, TypeInv, PipeType
<1>2. CASE Stay \/ Enter
  BY <1>1, <1>2 DEF Stay, Enter
<1>3. ASSUME NEW a \in Places, Leave(a) PROVE pipe'[p] = <<>>
  <2>1. p # a
    BY <1>3 DEF Leave
  <2>. QED
    BY <1>1, <1>3, <2>1, RemovedFacts DEF Leave
<1>4. ASSUME NEW a \in Places, NEW b \in Places, Advance(a, b) PROVE pipe'[p] = <<>>
  <2>1. p # a /\ p # b
    BY <1>4 DEF Advance
  <2>. QED
    BY <1>1, <1>4, <2>1, MovedFacts DEF Advance
<1>. QED
  BY <1>1, <1>2, <1>3, <1>4 DEF PipeStep

\* Which place of a stage a packet is at.
LEMMA AtStage ==
    ASSUME PipelineInv, NEW p \in Places, NEW id \in In(p)
    PROVE  /\ id \in 1 .. total /\ input[id] \in Tuples
           /\ LBOf(input[id]) \in LBIds /\ FPOf(input[id]) \in FPIds
           /\ p[1] = 1 => p = Reader
           /\ p[1] = 2 => p = LBQueue(LBOf(input[id]))
           /\ p[1] = 3 => p = LB(LBOf(input[id]))
           /\ p[1] = 4 => p = FPQueue(FPOf(input[id]))
           /\ p[1] = 5 => p = FP(FPOf(input[id]))
           /\ p[1] = 6 => p = OutQueue
           /\ p[1] = 7 => p = Output
           /\ p[1] = 8 => p = File
<1>1. id \in 1 .. total /\ input[id] \in Tuples
  BY AtIn DEF PipelineInv, TypeInv, PipeType
<1>2. p = PlaceOn(input[id], p[1])
  BY DEF PipelineInv, OnRoute, In
<1>. QED
  BY <1>1, <1>2, RoutingType DEF PlaceOn, Reader, OutQueue, Output, File

\* A thread that has ended holds nothing.
LEMMA EndedHoldsNothing ==
    ASSUME TypeInv, NEW t \in Threads, pc[t] = "exit"
    PROVE  pipe[t] = <<>> /\ In(t) = {}
<1>1. Len(pipe[t]) = 0 /\ pipe[t] \in Seq(1 .. total)
  BY PlaceFacts DEF TypeInv, HandInv, Holding, PipeType
<1>2. pipe[t] = <<>>
  BY <1>1
<1>. QED
  BY <1>2 DEF In

LEMMA OutputInvNext == PipelineInv /\ OutputInv /\ [Next]_vars => OutputInv'
<1>. SUFFICES ASSUME PipelineInv, OutputInv, [Next]_vars PROVE OutputInv'
  OBVIOUS
<1>1. /\ TypeInv /\ TypeInv' /\ StopInv
      /\ pc \in [Threads -> Steps] /\ running \in [Workers -> BOOLEAN]
      /\ at \in 0 .. NumWorkers - 1
  BY NextType DEF PipelineInv, TypeInv, ControlType, MainType
<1>2. /\ Output \in Workers /\ Output \in Threads /\ OutQueue \in Places /\ OutQueue # Reader
      /\ \A f \in FPIds : FP(f) \in Workers /\ FP(f) \in Threads /\ FP(f) # Output
      /\ \A l \in LBIds : LB(l) # Output
      /\ Reader # Output
  BY PlaceFacts DEF FP, LB, Output, OutQueue, Reader
<1>3. ~running'[Output] => \A f \in FPIds : pc'[FP(f)] = "exit"
  <2>1. CASE ~running[Output]
    BY <1>1, <1>2, <2>1, ExitIsFinal DEF OutputInv
  <2>2. CASE StopWorker /\ Worker(at) = Output
    <3>1. ASSUME NEW f \in FPIds PROVE pc[FP(f)] = "exit"
      <4>1. PICK i \in 0 .. NumWorkers - 1 : FP(f) = Worker(i)
        BY <1>2, WorkerOrder
      <4>2. i < at
        BY <1>1, <2>2, <4>1, WorkerOrder DEF FP, Output
      <4>. QED
        BY <1>1, <2>2, <4>1, <4>2 DEF StopInv, StopWorker
    <3>. QED
      BY <2>2, <3>1 DEF StopWorker
  <2>3. CASE ~(StopWorker /\ Worker(at) = Output)
    <3>1. running'[Output] = running[Output]
      BY <1>1, <1>2, <2>3, WhoChanges DEF StopWorker
    <3>. QED
      BY <2>1, <3>1
  <2>. QED
    BY <2>2, <2>3
<1>4. ~running[Output] => ~running'[Output]
  BY <1>1, <1>2, WhoChanges DEF StopWorker
<1>5. \/ pc'[Output] = pc[Output]
      \/ OutputNext
  BY <1>1, <1>2, ThreadStep DEF Goto, vars
<1>6. pc'[Output] \in {"empty?", "exit"} => ~running'[Output]
  <2>1. CASE OutputNext
    BY <1>1, <1>2, <1>4, <2>1 DEF OutputInv, OutputNext, OutputCheck, PopNothing,
                      OutputPop, OutputWrite, Goto
  <2>. QED
    BY <1>4, <1>5, <2>1 DEF OutputInv
<1>7. pc'[Output] = "exit" => pipe'[OutQueue] = <<>>
  <2>1. CASE pc[Output] = "exit"
    <3>1. pipe[OutQueue] = <<>> /\ \A f \in FPIds : pipe[FP(f)] = <<>>
      BY <1>1, <1>2, <2>1, EndedHoldsNothing DEF OutputInv
    <3>2. ASSUME NEW a \in Places, Advance(a, OutQueue) PROVE FALSE
      <4>1. /\ pipe[a] # <<>> /\ Head(pipe[a]) \in In(a)
            /\ a[1] = 5
        BY <1>1, <3>2, FirstAtPlace, Stages DEF Advance, OutQueue, In, TypeInv
      <4>. QED
        BY <3>1, <4>1, AtStage
    <3>. QED
      BY <1>2, <3>1, <3>2, EmptyStays
  <2>2. CASE pc[Output] # "exit" /\ OutputNext /\ pc'[Output] = "exit"
    BY <1>1, <1>2, <2>2 DEF OutputNext, OutputCheck, PopNothing,
                      OutputPop, OutputWrite, Goto
  <2>. QED
    BY <1>5, <2>1, <2>2
<1>. QED
  BY <1>3, <1>6, <1>7 DEF OutputInv

-----------------------------------------------------------------------------
(* The order of a load balancer's packets                                  *)

SameLB(a, b) == LBOf(input[a]) = LBOf(input[b])

\* Up to the load balancers the packets of one of them keep their order: who
\* has passed a stage is older than who has not, and each place is in order.
LBOrder ==
    /\ \A s \in 1 .. 3 : \A a \in Past(s), b \in Ahead(s) : SameLB(a, b) => a < b
    /\ \A p \in Places : \A i, j \in DOMAIN pipe[p] :
         p[1] <= 3 /\ i < j => pipe[p][i] < pipe[p][j]

\* A packet is ahead of the stages from its own on.
LEMMA InAhead ==
    ASSUME PipelineInv, NEW p \in Places, NEW id \in In(p), NEW s \in Int
    PROVE  id \in 1 .. total /\ (id \in Ahead(s) <=> p[1] <= s)
<1>1. id \in 1 .. total
  BY AtStage
<1>2. \A q \in Places : id \in In(q) => q = p
  BY OnePlace DEF In
<1>. QED
  BY <1>1, <1>2 DEF Ahead

\* The first packet of a place is older than all others of its load balancer
\* that are up to its stage.
LEMMA HeadIsOldest ==
    ASSUME PipelineInv, LBOrder, NEW a \in Places, pipe[a] # <<>>, a[1] <= 3,
           NEW y \in Ahead(a[1]), y # Head(pipe[a]), SameLB(Head(pipe[a]), y)
    PROVE  Head(pipe[a]) < y
<1>. DEFINE h == Head(pipe[a])
<1>1. PipeType
  BY DEF PipelineInv, TypeInv
<1>2. h = pipe[a][1] /\ 1 \in DOMAIN pipe[a]
  BY <1>1, FirstAtPlace
<1>3. h \in In(a) /\ h \in 1 .. total
  BY <1>1, <1>2, AtPlace DEF In
<1>4. PICK p \in Places : p[1] <= a[1] /\ y \in In(p)
  BY DEF Ahead
<1>5. a[1] \in 1 .. 8 /\ p[1] \in 1 .. 8
  BY Stages
<1>. HIDE DEF h
<1>6. CASE p[1] < a[1]
  <2>1. h \notin Ahead(p[1]) /\ y \in Ahead(p[1])
    <3>1. /\ p[1] \in Int /\ a[1] \in Int /\ ~(a[1] <= p[1])
      BY <1>5, <1>6
    <3>2. h \in Ahead(p[1]) <=> a[1] <= p[1]
      BY <1>3, <3>1, InAhead
    <3>3. y \in Ahead(p[1]) <=> p[1] <= p[1]
      BY <1>4, <3>1, InAhead
    <3>. QED
      BY <1>5, <3>1, <3>2, <3>3
  <2>2. h \in Past(p[1]) /\ p[1] \in 1 .. 3
    BY <1>3, <1>5, <1>6, <2>1 DEF Past
  <2>. QED
    BY <2>1, <2>2 DEF LBOrder, h
<1>7. CASE p[1] = a[1]
  <2>1. p = a
    <3>1. a[1] = 1 \/ a[1] = 2 \/ a[1] = 3
      BY <1>5
    <3>. QED
      BY <1>3, <1>4, <1>7, <3>1, AtStage DEF SameLB, h
  <2>2. PICK j \in DOMAIN pipe[a] : y = pipe[a][j]
    BY <1>4, <2>1 DEF In
  <2>3. j \in Nat \ {0} /\ j # 1
    BY <1>1, <1>2, <2>2, AtPlace DEF h
  <2>. QED
    BY <1>2, <2>2, <2>3 DEF LBOrder, h
<1>. QED
  BY <1>4, <1>5, <1>6, <1>7 DEF h

LEMMA AdvanceLBOrder ==
    ASSUME RefinementInv, LBOrder, [Next]_vars, input' = input,
           NEW a \in Places, NEW b \in Places, Advance(a, b)
    PROVE  LBOrder'
<1>. DEFINE h == Head(pipe[a])
<1>1. /\ PipelineInv /\ PipeType /\ pipe[a] # <<>> /\ a # b /\ b[1] = a[1] + 1
      /\ pipe' = Moved(a, b) /\ total' = total
      /\ a[1] \in 1 .. 8 /\ b[1] \in 1 .. 8
      /\ pipe \in [Places -> Seq(1 .. total)]
  BY Stages DEF Advance, RefinementInv, PipelineInv, TypeInv, PipeType
<1>2. h \in 1 .. total /\ h \in In(a) /\ h = pipe[a][1]
  BY <1>1, HeadAhead, FirstAtPlace
<1>3. \A s \in Int :
        /\ Ahead(s)' = IF a[1] = s THEN Ahead(s) \ {h} ELSE Ahead(s)
        /\ Past(s)' = IF a[1] = s THEN Past(s) \cup {h} ELSE Past(s)
  BY AdvanceAhead
<1>4. \A y \in Ahead(a[1]) : a[1] <= 3 /\ y # h /\ SameLB(h, y) => h < y
  BY <1>1, HeadIsOldest
<1>. HIDE DEF h
<1>5. ASSUME NEW s \in 1 .. 3, NEW x \in Past(s)', NEW y \in Ahead(s)', SameLB(x, y)'
      PROVE  x < y
  <2>1. SameLB(x, y)
    BY <1>5 DEF SameLB, LBOf
  <2>2. y \in Ahead(s) /\ (x = h /\ s = a[1] => y # h)
    BY <1>3
  <2>3. CASE x \in Past(s)
    BY <2>1, <2>2, <2>3 DEF LBOrder
  <2>4. CASE x = h /\ s = a[1]
    BY <1>4, <2>1, <2>2, <2>4
  <2>. QED
    BY <1>3, <2>3, <2>4
<1>6. ASSUME NEW p \in Places, NEW i \in DOMAIN pipe'[p], NEW j \in DOMAIN pipe'[p],
             p[1] <= 3, i < j
      PROVE  pipe'[p][i] < pipe'[p][j]
  <2>1. /\ i \in Nat \ {0} /\ j \in Nat \ {0}
        /\ \/ p = b /\ i = Len(pipe[b]) + 1
           \/ p = a /\ WasAt(p, i, a, i + 1)
           \/ p # a /\ i \in DOMAIN pipe[p] /\ WasAt(p, i, p, i)
        /\ \/ p = b /\ j = Len(pipe[b]) + 1 /\ WasAt(p, j, a, 1)
           \/ p = a /\ WasAt(p, j, a, j + 1)
           \/ p # a /\ j \in DOMAIN pipe[p] /\ WasAt(p, j, p, j)
    BY <1>1, AdvanceOrigin
  <2>2. ~(p = b /\ i = Len(pipe[b]) + 1)
    <3>1. ASSUME p = b, i = Len(pipe[b]) + 1 PROVE FALSE
      <4>1. Len(pipe'[b]) = Len(pipe[b]) + 1 /\ DOMAIN pipe'[b] = 1 .. Len(pipe'[b])
        <5>1. pipe' \in [Places -> Seq(1 .. total)]
          BY <1>1, MovedFacts
        <5>. QED
          BY <1>1, <5>1, MovedFacts
      <4>. QED
        BY <1>1, <1>6, <2>1, <3>1, <4>1
    <3>. QED
      BY <3>1
  <2>3. CASE p = a /\ WasAt(p, i, a, i + 1) /\ WasAt(p, j, a, j + 1)
    BY <1>6, <2>1, <2>3 DEF WasAt, LBOrder
  <2>4. CASE p # a /\ WasAt(p, i, p, i) /\ WasAt(p, j, p, j)
    BY <1>6, <2>4 DEF WasAt, LBOrder
  <2>5. CASE p = b /\ WasAt(p, i, p, i) /\ WasAt(p, j, a, 1)
    <3>. DEFINE y == pipe[b][i]
    <3>1. y \in In(b) /\ pipe'[p][i] = y /\ pipe'[p][j] = h
      BY <1>2, <2>5 DEF WasAt, In
    <3>. HIDE DEF y
    <3>2. y \in Past(a[1])
      BY <1>1, <3>1, InAhead DEF Past
    <3>3. h \in Ahead(a[1]) /\ a[1] \in 1 .. 3
      BY <1>1, <1>2, <1>6, <2>5, InAhead
    <3>4. SameLB(y, h)
      <4>1. b = PlaceOn(input[h], b[1]) /\ b = PlaceOn(input[y], b[1])
        <5>1. b = PlaceOn(input[h], b[1])
          BY DEF Advance, h
        <5>. QED
          BY <1>1, <3>1, <5>1 DEF PipelineInv, OnRoute, In
      <4>2. b[1] = 2 \/ b[1] = 3
        BY <1>1, <1>6, <2>5
      <4>. QED
        BY <4>1, <4>2 DEF PlaceOn, LBQueue, LB, SameLB
    <3>. QED
      BY <3>1, <3>2, <3>3, <3>4 DEF LBOrder
  <2>. QED
    BY <1>1, <2>1, <2>2, <2>3, <2>4, <2>5
<1>. QED
  BY <1>5, <1>6 DEF LBOrder

LEMMA LBOrderNext == RefinementInv /\ LBOrder /\ [Next]_vars => LBOrder'
<1>. SUFFICES ASSUME RefinementInv, LBOrder, [Next]_vars PROVE LBOrder'
  OBVIOUS
<1>1. /\ PipelineInv /\ PipeType /\ total \in Nat
      /\ pipe \in [Places -> Seq(1 .. total)]
  BY DEF RefinementInv, PipelineInv, TypeInv, PipeType
<1>2. Counted /\ input' = input
  BY <1>1, NextCounted, NextPipe DEF PipelineInv, PipeStep
<1>3. /\ Reader \in Places /\ OutQueue \in Places /\ Output \in Places /\ File \in Places
      /\ \A l \in LBIds : LBQueue(l) \in Places /\ LB(l) \in Places
      /\ \A f \in FPIds : FPQueue(f) \in Places /\ FP(f) \in Places /\ FP(f)[1] = 5
  BY PlaceFacts DEF FP
<1>4. CASE Stay
  BY <1>2, <1>4 DEF Stay, LBOrder, Past, Ahead, In, SameLB, LBOf
<1>5. CASE Enter
  <2>1. \A s \in 1 .. 3 : Ahead(s)' = Ahead(s) \cup {total + 1} /\ Past(s)' = Past(s)
    BY <1>5, EnterAhead
  <2>2. \A s \in 1 .. 3 : \A x \in Past(s) : x \in 1 .. total
    BY DEF Past
  <2>3. ASSUME NEW s \in 1 .. 3, NEW x \in Past(s)', NEW y \in Ahead(s)', SameLB(x, y)'
        PROVE  x < y
    <3>1. x \in Past(s) /\ x \in 1 .. total /\ (y \in Ahead(s) \/ y = total + 1)
      BY <2>1, <2>2
    <3>2. SameLB(x, y)
      BY <1>2, <2>3 DEF SameLB, LBOf
    <3>. QED
      BY <1>1, <3>1, <3>2 DEF LBOrder
  <2>4. ASSUME NEW p \in Places, NEW i \in DOMAIN pipe'[p], NEW j \in DOMAIN pipe'[p],
               p[1] <= 3, i < j
        PROVE  pipe'[p][i] < pipe'[p][j]
    <3>1. CASE p = Reader
      BY <1>1, <1>5, <2>4, <3>1, EnterOrigin
    <3>2. CASE p # Reader
      BY <1>1, <1>5, <2>4, <3>2 DEF Enter, LBOrder
    <3>. QED
      BY <3>1, <3>2
  <2>. QED
    BY <2>3, <2>4 DEF LBOrder
<1>6. ASSUME NEW f \in FPIds, Leave(FP(f)) PROVE LBOrder'
  <2>1. \A s \in 1 .. 3 : Ahead(s)' \subseteq Ahead(s) /\ Past(s)' = Past(s)
    BY <1>3, <1>6, LeaveAhead
  <2>2. ASSUME NEW p \in Places, p[1] <= 3 PROVE pipe'[p] = pipe[p]
    <3>1. FP(f) \in Places /\ p # FP(f)
      BY <1>3, <2>2
    <3>2. pipe[FP(f)] # <<>> /\ pipe' = Removed(FP(f))
      BY <1>6 DEF Leave
    <3>3. \A q \in Places : q # FP(f) => Removed(FP(f))[q] = pipe[q]
      BY <1>1, <3>1, <3>2, RemovedFacts
    <3>. QED
      BY <3>1, <3>2, <3>3
  <2>3. \A x, y : SameLB(x, y)' <=> SameLB(x, y)
    BY <1>2 DEF SameLB, LBOf
  <2>4. \A s \in 1 .. 3 : \A a \in Past(s)', b \in Ahead(s)' : SameLB(a, b)' => a < b
    BY <2>1, <2>3 DEF LBOrder
  <2>5. \A p \in Places : \A i, j \in DOMAIN pipe'[p] :
          p[1] <= 3 /\ i < j => pipe'[p][i] < pipe'[p][j]
    BY <2>2 DEF LBOrder
  <2>. QED
    BY <2>4, <2>5 DEF LBOrder
<1>. QED
  BY <1>2, <1>3, <1>4, <1>5, <1>6, AdvanceLBOrder DEF Counted

LEMMA LBOrderInit == Init => LBOrder
<1>. SUFFICES ASSUME Init PROVE LBOrder
  OBVIOUS
<1>1. \A s : Past(s) = {}
  BY DEF Init, Past
<1>2. \A p \in Places : DOMAIN pipe[p] = {}
  BY DEF Init
<1>. QED
  BY <1>1, <1>2 DEF LBOrder

-----------------------------------------------------------------------------
(* What the drain loop knows                                               *)

\* The main thread has seen the queue of its i-th worker empty in this round, or
\* in the round that ended the loop.
SeenEmpty(i) == \/ step \in {"stop", "join", "done"}
                \/ step = "poll" /\ drained /\ i < at

\* No later packet of the capture is for the same load balancer.
LastOfLB(id) == \A later \in id + 1 .. total : ~SameLB(later, id)

\* No packet is before a load balancer whose queue was seen empty, because the
\* reader has ended; and one before a fast path whose queue was seen empty is
\* in the hands of its load balancer, which has no other to come.
DrainInv ==
    /\ step = "wait" => at = 0
    /\ step = "done" => at = NumWorkers - 1
    /\ \A l \in LBIds : SeenEmpty(l) => \A id \in Ahead(2) : LBOf(input[id]) # l
    /\ \A f \in FPIds : SeenEmpty(NumLBs + f) =>
         \A id \in Ahead(4) : FPOf(input[id]) = f => LastOfLB(id)

\* When the main thread sees the queue of a load balancer empty.
LEMMA SeeLBQueue ==
    ASSUME PipelineInv, pc[Reader] = "exit", NEW l \in LBIds,
           pipe[LBQueue(l)] = <<>>, NEW id \in Ahead(2)
    PROVE  LBOf(input[id]) # l
<1>1. PICK p \in Places : p[1] <= 2 /\ id \in In(p)
  BY DEF Ahead
<1>2. p[1] = 1 \/ p[1] = 2
  BY <1>1, Stages
<1>3. In(Reader) = {} /\ In(LBQueue(l)) = {}
  BY EndedHoldsNothing, PlaceFacts DEF PipelineInv, In
<1>. QED
  BY <1>1, <1>2, <1>3, AtStage

\* When it sees the queue of a fast path empty, after those of the load balancers.
LEMMA SeeFPQueue ==
    ASSUME PipelineInv, LBOrder, NEW f \in FPIds, pipe[FPQueue(f)] = <<>>,
           Ahead(2) = {}, NEW id \in Ahead(4), FPOf(input[id]) = f
    PROVE  LastOfLB(id)
<1>1. PICK p \in Places : p[1] <= 4 /\ id \in In(p)
  BY DEF Ahead
<1>2. p[1] \in 3 .. 4
  <2>1. p[1] \in 1 .. 8
    BY Stages
  <2>2. ~(p[1] <= 2)
    BY <1>1, <2>1, InAhead
  <2>. QED
    BY <1>1, <2>1, <2>2
<1>3. p[1] = 3
  <2>1. In(FPQueue(f)) = {}
    BY DEF In
  <2>. QED
    BY <1>1, <1>2, <2>1, AtStage
<1>4. /\ p = LB(LBOf(input[id])) /\ LBOf(input[id]) \in LBIds /\ id \in 1 .. total
      /\ total \in Nat /\ id \in Ahead(3)
  BY <1>1, <1>3, AtStage, InAhead DEF PipelineInv, TypeInv, PipeType
<1>5. SUFFICES ASSUME NEW later \in id + 1 .. total, SameLB(later, id) PROVE FALSE
  BY DEF LastOfLB
<1>6. later \in 1 .. total /\ later > id /\ SameLB(id, later)
  BY <1>4, <1>5 DEF SameLB
<1>7. CASE later \in Past(3)
  BY <1>4, <1>5, <1>6, <1>7 DEF LBOrder
<1>8. CASE later \in Ahead(3)
  <2>1. PICK q \in Places : q[1] <= 3 /\ later \in In(q)
    BY <1>8 DEF Ahead
  <2>2. q[1] = 3
    <3>1. q[1] \in 1 .. 8
      BY Stages
    <3>2. ~(q[1] <= 2)
      BY <2>1, <3>1, InAhead
    <3>. QED
      BY <2>1, <3>1, <3>2
  <2>3. q = p /\ p \in Threads
    BY <1>4, <1>6, <2>1, <2>2, AtStage, PlaceFacts DEF SameLB
  <2>4. Len(pipe[p]) <= 1 /\ pipe[p] \in Seq(1 .. total)
    <3>1. Len(pipe[p]) = IF pc[p] \in Holding THEN 1 ELSE 0
      BY <2>3 DEF PipelineInv, TypeInv, HandInv
    <3>2. pipe[p] \in Seq(1 .. total)
      BY DEF PipelineInv, TypeInv, PipeType
    <3>. QED
      BY <3>1, <3>2
  <2>5. \A i, j \in DOMAIN pipe[p] : i = j
    BY <2>4
  <2>. QED
    BY <1>1, <1>6, <2>1, <2>3, <2>5 DEF In
<1>. QED
  BY <1>6, <1>7, <1>8 DEF Past

\* Once the reader has ended, no step brings a packet back.
LEMMA AheadShrinks ==
    ASSUME RefinementInv, [Next]_vars, pc[Reader] = "exit", NEW s \in Int
    PROVE  total' = total /\ Ahead(s)' \subseteq Ahead(s)
<1>1. PipelineInv /\ PipeStep
  BY NextPipe DEF RefinementInv, PipelineInv
<1>2. ~Enter
  <2>1. ASSUME Enter PROVE FALSE
    <3>1. total' # total /\ total \in Nat
      BY <1>1, <2>1 DEF Enter, PipelineInv, TypeInv, PipeType
    <3>. QED
      BY <3>1, WhoChanges
  <2>. QED
    BY <2>1
<1>3. CASE Stay
  BY <1>3 DEF Stay, Ahead, In
<1>4. ASSUME NEW a \in Places, Leave(a)
      PROVE  total' = total /\ Ahead(s)' \subseteq Ahead(s)
  BY <1>4, LeaveAhead DEF Leave
<1>5. ASSUME NEW a \in Places, NEW b \in Places, Advance(a, b)
      PROVE  total' = total /\ Ahead(s)' \subseteq Ahead(s)
  BY <1>5, AdvanceAhead DEF Advance
<1>. QED
  BY <1>1, <1>2, <1>3, <1>4, <1>5 DEF PipeStep

\* What the main thread has seen after a step, it had seen before, or it looks
\* at that queue now and finds it empty.
LEMMA SeenNext ==
    ASSUME TypeInv, DrainInv, [Next]_vars, NEW i \in 0 .. NumWorkers - 2, SeenEmpty(i)'
    PROVE  \/ SeenEmpty(i)
           \/ /\ step = "poll" /\ drained /\ i = at
              /\ pipe[InputOf(Worker(i))] = <<>>
<1>1. at \in 0 .. NumWorkers - 1 /\ drained \in BOOLEAN /\ NumWorkers \in Nat
  BY CountTypes DEF TypeInv, ControlType, MainType
<1>2. CASE UNCHANGED mainVars
  BY <1>2 DEF mainVars, SeenEmpty
<1>3. CASE WaitForCompletion
  BY <1>1, <1>3 DEF WaitForCompletion, SeenEmpty, DrainInv
<1>4. CASE PollQueue
  <2>1. /\ step = "poll" /\ step' = "poll"
        /\ at' = AfterSeen(at, pipe[InputOf(Worker(at))] = <<>>)
        /\ drained' = SeenDrained(pipe[InputOf(Worker(at))] = <<>>)
    BY <1>4 DEF PollQueue
  <2>2. drained' /\ i < at'
    BY <2>1 DEF SeenEmpty
  <2>3. drained /\ pipe[InputOf(Worker(at))] = <<>>
    BY <2>1, <2>2 DEF SeenDrained
  <2>4. at' = at + 1
    BY <2>1, <2>3 DEF AfterSeen
  <2>. QED
    BY <1>1, <2>1, <2>2, <2>3, <2>4 DEF SeenEmpty
<1>5. CASE PollOutput
  BY <1>1, <1>5 DEF PollOutput, SeenEmpty, SeenDrained
<1>6. CASE StopWorker \/ JoinWorker
  BY <1>6 DEF StopWorker, JoinWorker, SeenEmpty
<1>7. \/ UNCHANGED mainVars
      \/ WaitForCompletion \/ PollQueue \/ PollOutput \/ StopWorker \/ JoinWorker
  BY WhoChanges DEF MainNext
<1>. QED
  BY <1>2, <1>3, <1>4, <1>5, <1>6, <1>7

LEMMA DrainNext == RefinementInv /\ LBOrder /\ DrainInv /\ [Next]_vars => DrainInv'
<1>. SUFFICES ASSUME RefinementInv, LBOrder, DrainInv, [Next]_vars PROVE DrainInv'
  OBVIOUS
<1>1. /\ PipelineInv /\ TypeInv /\ StopInv /\ input' = input
      /\ at \in 0 .. NumWorkers - 1 /\ NumWorkers = NumLBs + NumFPs + 1
      /\ NumLBs \in Nat \ {0} /\ NumFPs \in Nat \ {0}
  BY NextPipe, CountTypes
  DEF RefinementInv, PipelineInv, PipeStep, TypeInv, ControlType, MainType
<1>2. (step' = "wait" => at' = 0) /\ (step' = "done" => at' = NumWorkers - 1)
  BY <1>1, WhoChanges
  DEF DrainInv, mainVars, MainNext, WaitForCompletion, PollQueue, PollOutput,
      StopWorker, JoinWorker
<1>3. step # "wait" => /\ total' = total
                       /\ Ahead(2)' \subseteq Ahead(2) /\ Ahead(4)' \subseteq Ahead(4)
  BY <1>1, AheadShrinks DEF StopInv
<1>4. \A i : SeenEmpty(i) => step # "wait"
  BY DEF SeenEmpty
<1>5. ASSUME NEW l \in LBIds, SeenEmpty(l)', NEW id \in Ahead(2)'
      PROVE  (LBOf(input[id]) # l)'
  <2>1. l \in 0 .. NumWorkers - 2 /\ Worker(l) = LB(l) /\ InputOf(LB(l)) = LBQueue(l)
    BY <1>1, PlaceFacts DEF LBIds, Worker
  <2>2. \/ SeenEmpty(l)
        \/ step = "poll" /\ pipe[LBQueue(l)] = <<>>
    BY <1>1, <1>5, <2>1, SeenNext
  <2>3. id \in Ahead(2)
    BY <1>3, <1>4, <1>5, <2>2
  <2>4. LBOf(input[id]) # l
    BY <1>1, <2>2, <2>3, SeeLBQueue DEF DrainInv, StopInv
  <2>. QED
    BY <1>1, <2>4 DEF LBOf
<1>6. ASSUME NEW f \in FPIds, SeenEmpty(NumLBs + f)', NEW id \in Ahead(4)',
             (FPOf(input[id]) = f)'
      PROVE  LastOfLB(id)'
  <2>1. /\ NumLBs + f \in 0 .. NumWorkers - 2
        /\ Worker(NumLBs + f) = FP(f) /\ InputOf(FP(f)) = FPQueue(f)
    BY <1>1, PlaceFacts DEF FPIds, Worker
  <2>2. \/ SeenEmpty(NumLBs + f)
        \/ /\ step = "poll" /\ drained /\ at = NumLBs + f
           /\ pipe[FPQueue(f)] = <<>>
    BY <1>1, <1>6, <2>1, SeenNext
  <2>3. id \in Ahead(4) /\ FPOf(input[id]) = f /\ total' = total
    BY <1>1, <1>3, <1>4, <1>6, <2>2 DEF FPOf, LBOf
  <2>4. LastOfLB(id)
    <3>1. CASE SeenEmpty(NumLBs + f)
      BY <2>3, <3>1 DEF DrainInv
    <3>2. CASE /\ step = "poll" /\ drained /\ at = NumLBs + f
               /\ pipe[FPQueue(f)] = <<>>
      <4>1. \A l \in LBIds : SeenEmpty(l)
        BY <1>1, <3>2 DEF SeenEmpty, LBIds, FPIds
      <4>2. \A y \in Ahead(2) : LBOf(input[y]) \in LBIds
        BY <1>1, AtStage DEF Ahead
      <4>3. Ahead(2) = {}
        BY <4>1, <4>2 DEF DrainInv
      <4>. QED
        BY <1>1, <2>3, <3>2, <4>3, SeeFPQueue
    <3>. QED
      BY <2>2, <3>1, <3>2
  <2>. QED
    BY <1>1, <2>3, <2>4 DEF LastOfLB, SameLB, LBOf
<1>. QED
  BY <1>2, <1>5, <1>6 DEF DrainInv

-----------------------------------------------------------------------------
(* When processFile returns                                                *)

ReportsInv == /\ RefinementInv /\ StatsInv /\ ForwardedInv
              /\ HeaderInv /\ OutputInv /\ LBOrder /\ DrainInv

LEMMA InitReportsInv == Init => ReportsInv
<1>. SUFFICES ASSUME Init PROVE ReportsInv
  OBVIOUS
<1>1. HeaderInv
  BY PlaceFacts DEF Init, HeaderInv
<1>2. OutputInv
  BY PlaceFacts DEF Init, OutputInv, Output, Reader
<1>3. DrainInv
  BY DEF Init, DrainInv, SeenEmpty
<1>. QED
  BY <1>1, <1>2, <1>3, InitRefinementInv, StatsInit, ForwardedInit, LBOrderInit
  DEF ReportsInv

LEMMA NextReportsInv == ReportsInv /\ [Next]_vars => ReportsInv'
BY NextRefinementInv, StatsNext, ForwardedNext, HeaderNext, OutputInvNext,
   LBOrderNext, DrainNext
DEF ReportsInv, RefinementInv, PipelineInv

LEMMA ReportsInvHolds == Spec => []ReportsInv
BY InitReportsInv, NextReportsInv, PTL DEF Spec

\* When the main thread is done every thread has ended: what is not dropped and
\* not in the file is before a fast path.
LEMMA AtTheEnd ==
    ASSUME ReportsInv, step = "done"
    PROVE  /\ \A t \in Threads : In(t) = {}
           /\ In(OutQueue) = {}
           /\ InPush = {}
           /\ Ahead(2) = {} /\ Ahead(3) = {} /\ Ahead(5) \subseteq Ahead(4)
           /\ \A id \in Ahead(4) : LastOfLB(id)
<1>1. /\ PipelineInv /\ TypeInv /\ StopInv /\ DrainInv /\ OutputInv
      /\ at = NumWorkers - 1 /\ NumWorkers \in Nat \ {0}
      /\ NumLBs \in Nat \ {0} /\ NumFPs \in Nat \ {0} /\ NumWorkers = NumLBs + NumFPs + 1
  BY CountTypes DEF ReportsInv, RefinementInv, PipelineInv, DrainInv
<1>2. ASSUME NEW t \in Threads PROVE pc[t] = "exit"
  <2>1. CASE t = Reader
    BY <1>1, <2>1 DEF StopInv
  <2>2. CASE t \in Workers
    <3>1. PICK i \in 0 .. NumWorkers - 1 : t = Worker(i)
      BY <2>2, WorkerOrder
    <3>2. CASE i = NumWorkers - 1
      BY <1>1, <3>1, <3>2, WorkerOrder DEF StopInv
    <3>3. CASE i \in 0 .. at - 1
      BY <1>1, <3>1, <3>3 DEF StopInv
    <3>. QED
      BY <1>1, <3>2, <3>3
  <2>. QED
    BY <2>1, <2>2 DEF Threads
<1>3. \A t \in Threads : In(t) = {}
  BY <1>1, <1>2, EndedHoldsNothing
<1>4. In(OutQueue) = {}
  BY <1>1, <1>2, PlaceFacts DEF OutputInv, In
<1>5. InPush = {}
  BY <1>3, PlaceFacts DEF InPush
<1>6. /\ \A l \in LBIds : SeenEmpty(l)
      /\ \A f \in FPIds : SeenEmpty(NumLBs + f)
  BY DEF SeenEmpty
<1>7. \A s \in Int : \A id \in Ahead(s) :
        /\ LBOf(input[id]) \in LBIds /\ FPOf(input[id]) \in FPIds
        /\ \E p \in Places : p \notin Threads /\ p[1] <= s /\ id \in In(p)
  BY <1>1, <1>3, AtStage DEF Ahead
<1>8. Ahead(2) = {}
  BY <1>1, <1>6, <1>7 DEF DrainInv
<1>9. Ahead(3) = {}
  <2>1. ASSUME NEW id \in Ahead(3) PROVE FALSE
    <3>1. PICK p \in Places : p \notin Threads /\ p[1] <= 3 /\ id \in In(p)
      BY <1>7
    <3>2. p[1] = 2
      BY <3>1, PlaceFacts
    <3>. QED
      BY <1>1, <1>8, <3>1, <3>2, InAhead
  <2>. QED
    BY <2>1
<1>10. Ahead(5) \subseteq Ahead(4)
  <2>1. ASSUME NEW id \in Ahead(5) PROVE id \in Ahead(4)
    <3>1. PICK p \in Places : p \notin Threads /\ p[1] <= 5 /\ id \in In(p)
      BY <1>7
    <3>2. p[1] <= 4
      BY <3>1, PlaceFacts
    <3>. QED
      BY <1>1, <3>1, <3>2, InAhead
  <2>. QED
    BY <2>1
<1>11. \A id \in Ahead(4) : LastOfLB(id)
  BY <1>1, <1>6, <1>7 DEF DrainInv
<1>. QED
  BY <1>3, <1>4, <1>5, <1>8, <1>9, <1>10, <1>11

LEMMA ReportsInvForwarded == ReportsInv => ForwardedWritten
<1>. SUFFICES ASSUME ReportsInv PROVE ForwardedWritten
  OBVIOUS
<1>1. /\ PipelineInv /\ PipeType /\ NothingVanishes /\ DroppedIsGone
      /\ ForwardedInv /\ HeaderInv /\ File \in Places
  BY PlaceFacts DEF ReportsInv, RefinementInv, PipelineInv, TypeInv
<1>2. pipe[File] # <<>> => header
  <2>1. ASSUME pipe[File] # <<>> PROVE total > 0
    <3>1. pipe[File][1] \in 1 .. total /\ total \in Nat
      BY <1>1, <2>1, FirstAtPlace, AtPlace DEF PipeType
    <3>. QED
      BY <3>1
  <2>. QED
    BY <1>1, <2>1 DEF HeaderInv
<1>3. ASSUME step = "done" PROVE forwarded = In(File)
  <2>1. forwarded = Past(5) \ dropped
    BY <1>1, <1>3, AtTheEnd DEF ForwardedInv
  <2>2. ASSUME NEW id \in In(File) PROVE id \in Past(5) \ dropped
    <3>1. File[1] = 8
      BY DEF File
    <3>2. id \in 1 .. total /\ id \notin Ahead(5)
      BY <1>1, <3>1, InAhead
    <3>. QED
      BY <1>1, <3>2 DEF Past, DroppedIsGone
  <2>3. ASSUME NEW id \in Past(5) \ dropped PROVE id \in In(File)
    <3>1. id \in 1 .. total /\ id \notin Ahead(5)
      BY DEF Past
    <3>2. PICK p \in Places : id \in In(p)
      BY <1>1, <2>3, <3>1 DEF NothingVanishes
    <3>3. p[1] \in 1 .. 8 /\ ~(p[1] <= 5)
      BY <1>1, <3>1, <3>2, InAhead, Stages
    <3>4. p[1] = 6 \/ p[1] = 7 \/ p[1] = 8
      BY <3>3
    <3>5. p # OutQueue /\ p # Output
      BY <1>3, <3>2, AtTheEnd, PlaceFacts
    <3>6. p = File
      BY <1>1, <3>2, <3>4, <3>5, AtStage
    <3>. QED
      BY <3>2, <3>6
  <2>. QED
    BY <2>1, <2>2, <2>3
<1>. QED
  BY <1>2, <1>3 DEF ForwardedWritten

LEMMA ReportsInvLoss == ReportsInv => LossBound
<1>. SUFFICES ASSUME ReportsInv, step = "done", NEW id \in (1 .. total) \ Decided
              PROVE  LastOfLB(id)
  BY DEF LossBound, LastOfLB, SameLB
<1>1. id \notin Past(5)
  BY DEF ReportsInv, ForwardedInv, Decided
<1>2. id \in Ahead(5)
  BY <1>1 DEF Past
<1>. QED
  BY <1>2, AtTheEnd

\* A queue has as many packets as it is long.
LEMMA QueueLength ==
    ASSUME PipelineInv, NEW p \in Places
    PROVE  IsFiniteSet(In(p)) /\ Cardinality(In(p)) = Len(pipe[p])
<1>. DEFINE S == 1 .. Len(pipe[p])
<1>1. pipe[p] \in Seq(1 .. total) /\ Len(pipe[p]) \in Nat /\ DOMAIN pipe[p] = S
  BY DEF PipelineInv, TypeInv, PipeType
<1>2. IsFiniteSet(S) /\ Cardinality(S) = Len(pipe[p])
  BY <1>1, FS_Interval
<1>3. pipe[p] \in Bijection(S, In(p))
  <2>1. pipe[p] \in [S -> In(p)]
    BY <1>1 DEF In
  <2>2. \A i, j \in S : pipe[p][i] = pipe[p][j] => i = j
    BY <1>1, OnePlace
  <2>3. \A id \in In(p) : \E i \in S : pipe[p][i] = id
    BY <1>1 DEF In
  <2>. QED
    BY <1>1, <2>1, <2>2, <2>3 DEF Bijection, Injection, Surjection, IsInjective
<1>. QED
  BY <1>2, <1>3, FS_Bijection DEF ExistsBijection

LEMMA ReportsInvAgree == ReportsInv => ReportsAgree
<1>. SUFFICES ASSUME ReportsInv, step = "done"
              PROVE  /\ stats.received = total
                     /\ stats.dispatched = total
                     /\ stats.fpDropped = Cardinality(dropped)
                     /\ stats.fpForwarded = Cardinality(forwarded)
                     /\ \A f \in FPIds :
                          stats.processed[f] + Len(pipe[FPQueue(f)])
                            = Cardinality({id \in 1 .. total : FPOf(input[id]) = f})
  BY DEF ReportsAgree
<1>1. /\ PipelineInv /\ StatsInv /\ ForwardedInv /\ total \in Nat
  BY DEF ReportsInv, RefinementInv, PipelineInv, TypeInv, PipeType
<1>2. Ahead(2) = {} /\ Ahead(3) = {} /\ InPush = {}
  BY AtTheEnd
<1>3. IsFiniteSet(1 .. total) /\ Cardinality(1 .. total) = total
  BY <1>1, FS_Interval
<1>4. Past(2) = 1 .. total /\ Past(3) = 1 .. total
  BY <1>2 DEF Past
<1>5. forwarded = Past(5) \ dropped
  BY <1>1, <1>2 DEF ForwardedInv
<1>6. ASSUME NEW f \in FPIds
      PROVE  stats.processed[f] + Len(pipe[FPQueue(f)])
               = Cardinality({id \in 1 .. total : FPOf(input[id]) = f})
  <2>. DEFINE Q == In(FPQueue(f))  All == {id \in 1 .. total : FPOf(input[id]) = f}
  <2>1. FPQueue(f) \in Places /\ FPQueue(f)[1] = 4
    BY PlaceFacts DEF FPQueue
  <2>2. ASSUME NEW id \in Q PROVE id \in All /\ id \in Ahead(4)
    <3>1. id \in 1 .. total /\ FPQueue(f) = FPQueue(FPOf(input[id]))
      BY <1>1, <2>1, AtStage
    <3>2. FPOf(input[id]) = f
      BY <3>1 DEF FPQueue
    <3>. QED
      BY <1>1, <2>1, <3>1, <3>2, InAhead
  <2>3. ASSUME NEW id \in All, id \in Ahead(4) PROVE id \in Q
    <3>1. PICK p \in Places : p[1] <= 4 /\ id \in In(p)
      BY <2>3 DEF Ahead
    <3>2. p[1] \in 1 .. 8 /\ ~(p[1] <= 3)
      BY <1>1, <1>2, <3>1, InAhead, Stages
    <3>3. p[1] = 4
      BY <3>1, <3>2
    <3>. QED
      BY <1>1, <2>3, <3>1, <3>3, AtStage
  <2>. HIDE DEF Q
  <2>4. All = Processed(f) \cup Q /\ Processed(f) \cap Q = {}
    BY <2>2, <2>3 DEF Processed, Past
  <2>. HIDE DEF All
  <2>5. IsFiniteSet(Q) /\ Cardinality(Q) = Len(pipe[FPQueue(f)])
    BY <1>1, <2>1, QueueLength DEF Q
  <2>6. IsFiniteSet(Processed(f))
    BY <1>3, FS_Subset DEF Processed, Past
  <2>7. Cardinality(All) = Cardinality(Processed(f)) + Cardinality(Q) - Cardinality({})
    BY <2>4, <2>5, <2>6, FS_Union
  <2>8. Cardinality({}) = 0 /\ Cardinality(Processed(f)) \in Nat /\ Cardinality(Q) \in Nat
    BY <2>5, <2>6, FS_EmptySet, FS_CardinalityType
  <2>9. stats.processed[f] = Cardinality(Processed(f))
    BY <1>1 DEF StatsInv
  <2>. QED
    BY <2>5, <2>7, <2>8, <2>9 DEF All
<1>. QED
  BY <1>1, <1>3, <1>4, <1>5, <1>6 DEF StatsInv

\* The output file begins with its header, and when processFile returns it has
\* exactly the packets counted as forwarded, however the threads interleaved.
THEOREM ForwardedWrittenCorrect == Spec => []ForwardedWritten
BY ReportsInvHolds, ReportsInvForwarded, PTL

\* Whatever the drain loop loses is the last packet of its load balancer, for any
\* number of threads, any capacity, any hash function and any capture.
THEOREM LossBoundCorrect == Spec => []LossBound
BY ReportsInvHolds, ReportsInvLoss, PTL

\* The counters of the load balancers and the fast paths agree with those of
\* the engine and with the capture when processFile returns.
THEOREM ReportsAgreeCorrect == Spec => []ReportsAgree
BY ReportsInvHolds, ReportsInvAgree, PTL
=============================================================================
