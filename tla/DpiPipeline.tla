---------------------------- MODULE DpiPipeline ----------------------------
(***************************************************************************)
(* The thread pipeline of DPIEngine: one reader, NumLBs load balancers,    *)
(* FPsPerLB fast paths behind each of them, one output thread, and the     *)
(* main thread that waits for the reader, polls the queues until they look *)
(* empty and stops everything.                                             *)
(*                                                                         *)
(* A packet is its position in the capture.  `pipe' tells where the        *)
(* packets are: in the queues between the threads, in the hands of a       *)
(* thread (the local `job' or `job_opt') and in the output file.  A place  *)
(* is a pair <<stage, index>>; a thread is named by the place of what it   *)
(* holds.  Each queue operation is one critical section of its mutex.  A   *)
(* capture record that is not TCP or UDP over IP changes nothing, so the   *)
(* input has only the others.  What a fast path decides is left open.      *)
(*                                                                         *)
(* A definition that precedes another and is used nowhere is a wrong       *)
(* version of it: with it, a run must find a property violated.            *)
(***************************************************************************)
EXTENDS Integers, Sequences, FiniteSets

CONSTANTS NumLBs,      \* config.num_load_balancers
          FPsPerLB,    \* config.fps_per_lb
          Capacity,    \* max_size of every queue (10000 in the code)
          Tuples,      \* the five-tuples
          Hash,        \* FiveTupleHash
          Inputs       \* the captures the engine may be given

ASSUME TopologyAssumption == /\ NumLBs \in Nat \ {0}
                             /\ FPsPerLB \in Nat \ {0}
                             /\ Capacity \in Nat \ {0}
ASSUME InputAssumption == /\ Hash \in [Tuples -> Nat]
                          /\ Inputs \subseteq Seq(Tuples)

NumFPs == NumLBs * FPsPerLB
LBIds == 0 .. NumLBs - 1
FPIds == 0 .. NumFPs - 1

Reader == <<1, 0>>
LBQueue(l) == <<2, l>>
LB(l) == <<3, l>>
FPQueue(f) == <<4, f>>
FP(f) == <<5, f>>
OutQueue == <<6, 0>>
Output == <<7, 0>>
File == <<8, 0>>

LBs == {LB(l) : l \in LBIds}
FPs == {FP(f) : f \in FPIds}
Workers == LBs \cup FPs \cup {Output}
Threads == Workers \cup {Reader}
InputOf(w) == <<w[1] - 1, w[2]>>
Queues == {InputOf(w) : w \in Workers}
Places == Threads \cup Queues \cup {File}

WorkerFPsFirst(i) == CASE i < NumFPs -> FP(i)
                       [] i >= NumFPs /\ i < NumLBs + NumFPs -> LB(i - NumFPs)
                       [] OTHER -> Output
\* The i-th worker in the order in which the main thread polls their queues
\* and, later, stops them: the load balancers, the fast paths, the output.
NumWorkers == NumLBs + NumFPs + 1
Worker(i) == CASE i < NumLBs -> LB(i)
               [] i >= NumLBs /\ i < NumLBs + NumFPs -> FP(i - NumLBs)
               [] OTHER -> Output

VARIABLES input,      \* the capture: the five-tuple of each packet
          total,      \* stats_.total_packets: packets the reader has accepted
          pipe,       \* the packets at each place, oldest first
          pc,         \* what each thread does next
          running,    \* running_ of each worker (of the engine, for Output)
          shut,       \* the queues that were shut down
          step,       \* the main thread: what it does next,
          at,         \*   the worker it has come to,
          drained,    \*   whether the queues it has polled were empty
          header,     \* the output file has its pcap header
          fileOpen,   \* output_file_.is_open()
          dropped,    \* the packets stats_.dropped_packets has counted
          forwarded,  \* the packets stats_.forwarded_packets has counted
          stats       \* counters of the load balancers and the fast paths

mainVars == <<step, at, drained>>
vars == <<input, total, pipe, pc, running, shut, mainVars, header, fileOpen,
          dropped, forwarded, stats>>

LBOfRoundRobin(t) == total % NumLBs
\* Both levels of load balancing take the same hash.
LBOf(t) == Hash[t] % NumLBs
FPOf(t) == (LBOf(t) * FPsPerLB) + (Hash[t] % FPsPerLB)

\* start(): every thread is running and every queue is empty.
Init == /\ input \in Inputs
        /\ total = 0
        /\ pipe = [p \in Places |-> <<>>]
        /\ pc = [t \in Threads |-> IF t = Reader THEN "open" ELSE "check"]
        /\ running = [w \in Workers |-> TRUE]
        /\ shut = {}
        /\ step = "wait" /\ at = 0 /\ drained = TRUE
        /\ header = FALSE
        /\ fileOpen = TRUE
        /\ dropped = {}
        /\ forwarded = {}
        /\ stats = [received |-> 0, dispatched |-> 0,
                    processed |-> [f \in FPIds |-> 0],
                    fpDropped |-> 0, fpForwarded |-> 0]

Goto(t, next) == pc' = [pc EXCEPT ![t] = next]
Held(t) == Head(pipe[t])

-----------------------------------------------------------------------------
(* ThreadSafeQueue                                                         *)

\* The oldest packet at a goes to b, or nowhere.
Moved(a, b) == [pipe EXCEPT ![a] = Tail(@), ![b] = Append(@, Head(pipe[a]))]
Removed(a) == [pipe EXCEPT ![a] = Tail(@)]

PushUnbounded(t, q) == pipe' = IF q \in shut THEN Removed(t) ELSE Moved(t, q)
\* push: waits for room; after a shutdown it returns and the item is gone.
Push(t, q) == /\ q \in shut \/ Len(pipe[q]) < Capacity
              /\ pipe' = IF q \in shut THEN Removed(t) ELSE Moved(t, q)

\* popWithTimeout: the oldest item, which the queue hands out even after a
\* shutdown.  (It returns nothing only while the queue is empty.)
Pop(t) == /\ pipe[InputOf(t)] # <<>>
          /\ pipe' = Moved(InputOf(t), t)

-----------------------------------------------------------------------------
(* The reader thread                                                       *)

OpenInputNoHeader ==
    /\ pc[Reader] = "open"
    /\ Goto(Reader, "read")
    /\ UNCHANGED <<input, total, pipe, running, shut, mainVars, header, fileOpen,
                   dropped, forwarded, stats>>
\* The header is written before the first packet is read; a capture that
\* does not open ends the thread and leaves the output file empty.
OpenInput ==
    /\ pc[Reader] = "open"
    /\ \/ header' = TRUE /\ Goto(Reader, "read")
       \/ header' = FALSE /\ Goto(Reader, "exit")
    /\ UNCHANGED <<input, total, pipe, running, shut, mainVars, fileOpen,
                   dropped, forwarded, stats>>

ReadPacket ==
    /\ pc[Reader] = "read"
    /\ IF total < Len(input)
       THEN /\ total' = total + 1
            /\ pipe' = [pipe EXCEPT ![Reader] = <<total + 1>>]
            /\ Goto(Reader, "push")
       ELSE Goto(Reader, "exit") /\ UNCHANGED <<total, pipe>>
    /\ UNCHANGED <<input, running, shut, mainVars, header, fileOpen, dropped,
                   forwarded, stats>>

ReaderPush ==
    /\ pc[Reader] = "push"
    /\ Push(Reader, LBQueue(LBOf(input[Held(Reader)])))
    /\ Goto(Reader, "read")
    /\ UNCHANGED <<input, total, running, shut, mainVars, header, fileOpen,
                   dropped, forwarded, stats>>

-----------------------------------------------------------------------------
(* The workers: load balancers, fast paths and the output thread           *)

\* `while (running_)' of a load balancer or a fast path.
CheckRunning(w) ==
    /\ w # Output
    /\ pc[w] = "check"
    /\ Goto(w, IF running[w] THEN "pop" ELSE "exit")
    /\ UNCHANGED <<input, total, pipe, running, shut, mainVars, header,
                   fileOpen, dropped, forwarded, stats>>

\* popWithTimeout on an empty queue: it times out, or the queue is shut down.
PopNothing(w) ==
    /\ pc[w] = "pop"
    /\ pipe[InputOf(w)] = <<>>
    /\ Goto(w, "check")
    /\ UNCHANGED <<input, total, pipe, running, shut, mainVars, header,
                   fileOpen, dropped, forwarded, stats>>

LBPop(l) ==
    /\ pc[LB(l)] = "pop"
    /\ Pop(LB(l))
    /\ Goto(LB(l), "push")
    /\ stats' = [stats EXCEPT !.received = @ + 1]
    /\ UNCHANGED <<input, total, running, shut, mainVars, header, fileOpen,
                   dropped, forwarded>>

LBPush(l) ==
    /\ pc[LB(l)] = "push"
    /\ Push(LB(l), FPQueue(FPOf(input[Held(LB(l))])))
    /\ Goto(LB(l), "check")
    /\ stats' = [stats EXCEPT !.dispatched = @ + 1]
    /\ UNCHANGED <<input, total, running, shut, mainVars, header, fileOpen,
                   dropped, forwarded>>

FPPop(f) ==
    /\ pc[FP(f)] = "pop"
    /\ Pop(FP(f))
    /\ Goto(FP(f), "process")
    /\ stats' = [stats EXCEPT !.processed[f] = @ + 1]
    /\ UNCHANGED <<input, total, running, shut, mainVars, header, fileOpen,
                   dropped, forwarded>>

FPDropNoReturn(f) ==
    /\ pc[FP(f)] = "process"
    /\ dropped' = dropped \cup {Held(FP(f))}
    /\ forwarded' = forwarded \cup {Held(FP(f))}
    /\ Goto(FP(f), "push")
    /\ UNCHANGED <<input, total, pipe, running, shut, mainVars, header,
                   fileOpen, stats>>
FPDropUncounted(f) ==
    /\ pc[FP(f)] = "process"
    /\ dropped' = dropped \cup {Held(FP(f))}
    /\ pipe' = Removed(FP(f))
    /\ Goto(FP(f), "check")
    /\ UNCHANGED <<input, total, running, shut, mainVars, header, fileOpen,
                   forwarded, stats>>
\* processPacket says DROP: handleOutput counts the packet and discards it.
FPDrop(f) ==
    /\ pc[FP(f)] = "process"
    /\ dropped' = dropped \cup {Held(FP(f))}
    /\ pipe' = Removed(FP(f))
    /\ stats' = [stats EXCEPT !.fpDropped = @ + 1]
    /\ Goto(FP(f), "check")
    /\ UNCHANGED <<input, total, running, shut, mainVars, header, fileOpen,
                   forwarded>>

\* processPacket says FORWARD: handleOutput counts the packet, then it may
\* wait for room in the output queue.
FPForward(f) ==
    /\ pc[FP(f)] = "process"
    /\ forwarded' = forwarded \cup {Held(FP(f))}
    /\ Goto(FP(f), "push")
    /\ UNCHANGED <<input, total, pipe, running, shut, mainVars, header,
                   fileOpen, dropped, stats>>

FPPush(f) ==
    /\ pc[FP(f)] = "push"
    /\ Push(FP(f), OutQueue)
    /\ Goto(FP(f), "check")
    /\ stats' = [stats EXCEPT !.fpForwarded = @ + 1]
    /\ UNCHANGED <<input, total, running, shut, mainVars, header, fileOpen,
                   dropped, forwarded>>

OutputCheckRunning ==
    /\ pc[Output] = "check"
    /\ Goto(Output, IF running[Output] THEN "pop" ELSE "exit")
    /\ UNCHANGED <<input, total, pipe, running, shut, mainVars, header,
                   fileOpen, dropped, forwarded, stats>>
\* `while (running_ || !output_queue_.empty())': two reads, in this order.
OutputCheck ==
    /\ \/ pc[Output] = "check"
          /\ Goto(Output, IF running[Output] THEN "pop" ELSE "empty?")
       \/ pc[Output] = "empty?"
          /\ Goto(Output, IF pipe[OutQueue] = <<>> THEN "exit" ELSE "pop")
    /\ UNCHANGED <<input, total, pipe, running, shut, mainVars, header,
                   fileOpen, dropped, forwarded, stats>>

OutputPop ==
    /\ pc[Output] = "pop"
    /\ Pop(Output)
    /\ Goto(Output, "write")
    /\ UNCHANGED <<input, total, running, shut, mainVars, header, fileOpen,
                   dropped, forwarded, stats>>

\* writeOutputPacket returns silently when the file is closed.
OutputWrite ==
    /\ pc[Output] = "write"
    /\ pipe' = IF fileOpen THEN Moved(Output, File) ELSE Removed(Output)
    /\ Goto(Output, "check")
    /\ UNCHANGED <<input, total, running, shut, mainVars, header, fileOpen,
                   dropped, forwarded, stats>>

-----------------------------------------------------------------------------
(* The main thread                                                         *)

\* waitForCompletion: join the reader.
WaitForCompletion ==
    /\ step = "wait"
    /\ pc[Reader] = "exit"
    /\ step' = "poll"
    /\ UNCHANGED <<input, total, pipe, pc, running, shut, at, drained, header,
                   fileOpen, dropped, forwarded, stats>>

\* The drain loop looks at one queue at a time.  Within the load balancers,
\* and within the fast paths, the first queue with a packet ends the look.
AfterSeen(i, empty) == CASE empty -> i + 1
                         [] ~empty /\ i < NumLBs -> NumLBs
                         [] OTHER -> NumLBs + NumFPs
SeenDrainedLast(empty) == empty
SeenDrained(empty) == drained /\ empty
PollQueue ==
    /\ step = "poll" /\ at < NumWorkers - 1
    /\ LET empty == pipe[InputOf(Worker(at))] = <<>>
       IN at' = AfterSeen(at, empty) /\ drained' = SeenDrained(empty)
    /\ UNCHANGED <<input, total, pipe, pc, running, shut, step, header,
                   fileOpen, dropped, forwarded, stats>>

\* The output queue is the last.  If one had a packet the loop sleeps and looks
\* again; otherwise "Pipeline drained, shutting down."
PollOutput ==
    /\ step = "poll" /\ at = NumWorkers - 1
    /\ step' = IF SeenDrained(pipe[OutQueue] = <<>>) THEN "stop" ELSE "poll"
    /\ at' = 0
    /\ drained' = TRUE
    /\ UNCHANGED <<input, total, pipe, pc, running, shut, header, fileOpen,
                   dropped, forwarded, stats>>

StopWorkerNoFlag ==
    /\ step = "stop"
    /\ shut' = shut \cup {InputOf(Worker(at))}
    /\ step' = "join"
    /\ UNCHANGED <<input, total, pipe, pc, running, at, drained, header,
                   fileOpen, dropped, forwarded, stats>>
\* stop() of a worker: running_ = false, then the shutdown of its queue.  The
\* two are one step: only a push can tell that a queue is shut down, and who
\* pushes to this one has ended ...
StopWorker ==
    /\ step = "stop"
    /\ running' = [running EXCEPT ![Worker(at)] = FALSE]
    /\ shut' = shut \cup {InputOf(Worker(at))}
    /\ step' = "join"
    /\ UNCHANGED <<input, total, pipe, pc, at, drained, header, fileOpen,
                   dropped, forwarded, stats>>

\* ... and its join.  After the output thread's, the file is closed.
JoinWorker ==
    /\ step = "join"
    /\ pc[Worker(at)] = "exit"
    /\ \/ /\ at < NumWorkers - 1
          /\ step' = "stop" /\ at' = at + 1
          /\ UNCHANGED fileOpen
       \/ /\ at = NumWorkers - 1
          /\ step' = "done" /\ fileOpen' = FALSE
          /\ UNCHANGED at
    /\ UNCHANGED <<input, total, pipe, pc, running, shut, drained, header,
                   dropped, forwarded, stats>>

-----------------------------------------------------------------------------
ReaderNext == OpenInput \/ ReadPacket \/ ReaderPush
LBNext(l) == CheckRunning(LB(l)) \/ PopNothing(LB(l)) \/ LBPop(l) \/ LBPush(l)
FPNext(f) == \/ CheckRunning(FP(f)) \/ PopNothing(FP(f)) \/ FPPop(f)
             \/ FPDrop(f) \/ FPForward(f) \/ FPPush(f)
OutputNext == OutputCheck \/ PopNothing(Output) \/ OutputPop \/ OutputWrite
MainNext == WaitForCompletion \/ PollQueue \/ PollOutput \/ StopWorker \/ JoinWorker

\* processFile has returned.
Returned == step = "done" /\ UNCHANGED vars

Next == \/ ReaderNext
        \/ \E l \in LBIds : LBNext(l)
        \/ \E f \in FPIds : FPNext(f)
        \/ OutputNext
        \/ MainNext
        \/ Returned

Spec == Init /\ [][Next]_vars

\* Every thread that can run gets to run.  Nothing stronger is assumed: a
\* blocked push is retried by a thread that the queue wakes when it has room.
Fairness == /\ WF_vars(ReaderNext)
            /\ \A l \in LBIds : WF_vars(LBNext(l))
            /\ \A f \in FPIds : WF_vars(FPNext(f))
            /\ WF_vars(OutputNext)
            /\ WF_vars(MainNext)

FairSpec == Spec /\ Fairness
-----------------------------------------------------------------------------
(* Properties                                                              *)

Count == [received : Nat, dispatched : Nat, processed : [FPIds -> Nat],
          fpDropped : Nat, fpForwarded : Nat]

\* The type invariant: what each variable may hold, each queue within its
\* capacity and each thread holding at most one packet.
TypeOK ==
    /\ input \in Seq(Tuples)
    /\ total \in 0 .. Len(input)
    /\ pipe \in [Places -> Seq(1 .. total)]
    /\ \A q \in Queues : Len(pipe[q]) <= Capacity
    /\ \A t \in Threads : Len(pipe[t]) <= 1
    /\ pc \in [Threads -> {"open", "read", "check", "empty?", "pop", "process",
                           "push", "write", "exit"}]
    /\ running \in [Workers -> BOOLEAN]
    /\ shut \subseteq Queues
    /\ step \in {"wait", "poll", "stop", "join", "done"}
    /\ at \in 0 .. NumWorkers - 1
    /\ drained \in BOOLEAN
    /\ header \in BOOLEAN
    /\ fileOpen \in BOOLEAN
    /\ dropped \subseteq 1 .. total
    /\ forwarded \subseteq 1 .. total
    /\ stats \in Count

In(p) == {pipe[p][i] : i \in DOMAIN pipe[p]}
Decided == dropped \cup forwarded

\* Of two packets of one flow the earlier one is further down the pipeline, or
\* ahead in the same queue, wherever they are: no thread overtakes another
\* with a packet of its flow, and no packet is in two places.  The output
\* file therefore has every flow in the order of the capture.
FlowOrder ==
    \A p, q \in Places : \A i \in DOMAIN pipe[p], j \in DOMAIN pipe[q] :
        /\ input[pipe[p][i]] = input[pipe[q][j]]
        /\ p[1] > q[1] \/ (p[1] = q[1] /\ i < j)
        => pipe[p][i] < pipe[q][j]

\* A packet the reader has accepted is somewhere until it is dropped by a rule
\* or in the file: no push finds its queue shut down and no write finds the
\* file closed, because stop() joins the threads upstream first.
NothingVanishes ==
    \A id \in 1 .. total : id \in dropped \/ \E p \in Places : id \in In(p)

\* The pcap header, which another thread writes, precedes every packet of the
\* output file; and when processFile returns, the packets counted as forwarded
\* are exactly those of the file: the output thread writes what is queued after
\* running_ became false.
ForwardedWritten ==
    /\ pipe[File] # <<>> => header
    /\ step = "done" => forwarded = In(File)

\* When processFile returns, a packet that was neither dropped nor forwarded is
\* the last one of its load balancer: the drain loop cannot see the packet a
\* load balancer holds, and it can miss no other.  So at most NumLBs are lost.
LossBound ==
    step = "done" =>
        \A id \in (1 .. total) \ Decided : \A later \in id + 1 .. total :
            LBOf(input[later]) # LBOf(input[id])

\* When processFile returns, the reports agree with each other: the load
\* balancers handed on all they received, the fast paths' counters are those
\* of the engine, and what was dispatched and not processed is still queued.
ReportsAgree ==
    step = "done" =>
        /\ stats.received = total
        /\ stats.dispatched = total
        /\ stats.fpDropped = Cardinality(dropped)
        /\ stats.fpForwarded = Cardinality(forwarded)
        /\ \A f \in FPIds :
             stats.processed[f] + Len(pipe[FPQueue(f)])
               = Cardinality({id \in 1 .. total : FPOf(input[id]) = f})

\* processFile returns: no full queue blocks the pipeline for good, the drain
\* loop ends, and every thread that is stopped ends.
Terminates == <>(step = "done")

\* What the drain loop announces ("Pipeline drained") and the report adds up to
\* (total = forwarded + dropped): every accepted packet was decided.
DrainComplete == step = "done" => Decided = 1 .. total

\* The file and the counters behave as PacketService says.
Service == INSTANCE PacketService
             WITH accepted <- total, written <- pipe[File]
ImplementsService == Service!Spec
=============================================================================
