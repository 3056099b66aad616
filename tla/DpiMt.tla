-------------------------------- MODULE DpiMt --------------------------------
(***************************************************************************)
(* The engine of dpi_mt.cpp, "DPI ENGINE v2.0 (Multi-threaded)", which     *)
(* WINDOWS_SETUP.md builds: the main thread reads the capture and deals it *)
(* out to load balancers, these to fast paths, these to one output thread; *)
(* then it sleeps and stops them.                                          *)
(*                                                                         *)
(* A packet is its number in the capture; `pipe' says which packets are in *)
(* a queue, in the hands of a worker (popped and not yet pushed on) and in *)
(* the output file.  Packets are what SimpleEngine says.  Steps of one     *)
(* thread that no other can tell apart are one step: a fast path pops,     *)
(* decides and counts at once, the output thread pops and writes at once.  *)
(* The test of running_ and the pop behind it are one step too: who pushes *)
(* into a queue has ended when its worker is stopped, so what is popped    *)
(* after the stop could have been popped before it.                        *)
(*                                                                         *)
(* A definition that precedes another and is used nowhere is a wrong       *)
(* version of it: with it, a run must find a property violated.            *)
(***************************************************************************)
EXTENDS Integers, Sequences, FiniteSets, BagsExt, AppClassifier

CONSTANTS NumLBs,     \* config_.num_lbs
          FPsPerLB,   \* config_.fps_per_lb
          Capacity,   \* max_size of every queue (10000 in the code)
          Flows,      \* records of src_ip, src_port, dst_port, protocol
          Hash,       \* FiveTupleHash
          AppOf,      \* sniToAppType
          Captures,   \* the captures the engine may be given
          RuleSets    \* the sets of rules the engine may be given

ASSUME SizesAssumption == /\ NumLBs \in Nat \ {0}
                          /\ FPsPerLB \in Nat \ {0}
                          /\ Capacity \in Nat \ {0}
ASSUME HashAssumption == Hash \in [Flows -> Nat]

\* What the extractors find in a payload, of TCP or of UDP; a name may be empty.
Names == DOMAIN AppOf
Payloads == {<<"other", "">>} \cup ({"hello", "host"} \X Names)
ASSUME CapturesAssumption ==
    \A c \in Captures : c \in Seq([flow : Flows, payload : Payloads])

\* sniToAppType says UNKNOWN of an empty name only.
ASSUME AppsAssumption == \A n \in Names : AppOf[n] = "UNKNOWN" <=> n = ""

NumFPs == NumLBs * FPsPerLB
LBIds == 0 .. NumLBs - 1
FPIds == 0 .. NumFPs - 1

LBQueue(l) == <<1, l>>
LB(l) == <<2, l>>
FPQueue(f) == <<3, f>>
FP(f) == <<4, f>>
OutQueue == <<5, 0>>
Output == <<6, 0>>
File == <<7, 0>>

Workers == {LB(l) : l \in LBIds} \cup {FP(f) : f \in FPIds} \cup {Output}
InputOf(w) == <<w[1] - 1, w[2]>>
Queues == {InputOf(w) : w \in Workers}
Places == (Workers \ {Output}) \cup Queues \cup {File}

\* The i-th worker to be stopped: load balancers, fast paths, output thread.
NumWorkers == NumLBs + NumFPs + 1
Worker(i) == CASE i < NumLBs -> LB(i)
               [] i >= NumLBs /\ i < NumLBs + NumFPs -> FP(i - NumLBs)
               [] OTHER -> Output

VARIABLES rules,     \* Rules: pairs of a kind and what is blocked
          input,     \* the capture
          total,     \* stats_.total_packets
          pipe,      \* the packets at each place, oldest first
          running,   \* running_ of each worker, output_running
          ended,     \* the workers whose run() has returned
          shut,      \* the queues that were shut down
          step, at,  \* the main thread, and the worker it stops
          flows,     \* flows_ of each fast path
          dropped,   \* the packets stats_.dropped has counted
          forwarded, \* the packets stats_.forwarded has counted
          stats      \* app_counts and detected_snis

vars == <<rules, input, total, pipe, running, ended, shut, step, at, flows,
          dropped, forwarded, stats>>
flowVars == <<flows, dropped, forwarded, stats>>

LBOfInTurn(p) == total % NumLBs
\* The load balancer takes the same hash as the main thread.
LBOf(p) == Hash[p.flow] % NumLBs
FPOf(p) == LBOf(p) * FPsPerLB + (Hash[p.flow] % FPsPerLB)

NewEntry == [app |-> "UNKNOWN", sni |-> "", blocked |-> FALSE, classified |-> FALSE]

\* process() has written the header and started all threads.
Init == /\ rules \in RuleSets
        /\ input \in Captures
        /\ total = 0
        /\ pipe = [p \in Places |-> <<>>]
        /\ running = [w \in Workers |-> TRUE]
        /\ ended = {} /\ shut = {}
        /\ step = "read" /\ at = 0
        /\ flows = [f \in FPIds |-> [t \in Flows |-> NewEntry]]
        /\ dropped = {} /\ forwarded = {}
        /\ stats = [app_counts |-> <<>>, detected_snis |-> <<>>]

-----------------------------------------------------------------------------
(* TSQueue                                                                 *)

Oldest(place) == Head(pipe[place])
Moved(a, b) == [pipe EXCEPT ![a] = Tail(@), ![b] = Append(@, Head(pipe[a]))]
Removed(a) == [pipe EXCEPT ![a] = Tail(@)]

RoomAnyway(q) == TRUE
\* push waits for room, or for a shutdown, after which the item is gone.
Room(q) == q \in shut \/ Len(pipe[q]) < Capacity
Pushed(a, q) == IF q \in shut THEN Removed(a) ELSE Moved(a, q)

\* A worker whose hands are empty tests running_ and pops.
CanPop(w) == running[w] /\ pipe[InputOf(w)] # <<>>

\* A pop that times out or was released by the shutdown: `continue'.
PopNothing(w) == /\ w # Output => pipe[w] = <<>>
                 /\ running[w] /\ pipe[InputOf(w)] = <<>>
                 /\ UNCHANGED vars

-----------------------------------------------------------------------------
(* Load balancers                                                          *)

LBPop(l) == /\ pipe[LB(l)] = <<>>
            /\ CanPop(LB(l))
            /\ pipe' = Moved(LBQueue(l), LB(l))
            /\ UNCHANGED <<rules, input, total, running, ended, shut, step, at, flowVars>>

LBPush(l) == /\ pipe[LB(l)] # <<>>
             /\ LET q == FPQueue(FPOf(input[Oldest(LB(l))]))
                IN Room(q) /\ pipe' = Pushed(LB(l), q)
             /\ UNCHANGED <<rules, input, total, running, ended, shut, step, at, flowVars>>

-----------------------------------------------------------------------------
(* Fast paths                                                              *)

\* The port decides where a name is looked for, not the protocol.
CarriesName(p) == \/ p.payload[1] = "hello" /\ p.flow.dst_port = 443
                  \/ p.payload[1] = "host" /\ p.flow.dst_port = 80
Named(e, name) == [e EXCEPT !.app = AppOf[name], !.sni = name, !.classified = TRUE]
IsDNS(t) == 53 \in {t.src_port, t.dst_port}
ByPort(t, app) == CASE t.dst_port = 443 -> "HTTPS"
                    [] t.dst_port = 80 -> "HTTP"
                    [] OTHER -> app

ClassifyFlowForGood(e, p) ==
    IF CarriesName(p) THEN Named(e, p.payload[2])
    ELSE [e EXCEPT !.app = IF IsDNS(p.flow) THEN "DNS" ELSE ByPort(p.flow, @),
                   !.classified = TRUE]
\* classifyFlow: by the name in the payload, be it empty, as DNS, or by the port,
\* which does not count as classified: a name may follow.
ClassifyFlow(e, p) ==
    IF CarriesName(p) THEN Named(e, p.payload[2])
    ELSE IF IsDNS(p.flow) THEN [e EXCEPT !.app = "DNS", !.classified = TRUE]
    ELSE [e EXCEPT !.app = ByPort(p.flow, @)]

\* Rules::isBlocked.
IsBlocked(rs, t, e) == \/ <<"ip", t.src_ip>> \in rs
                       \/ <<"app", e.app>> \in rs
                       \/ \E r \in rs : r[1] = "domain" /\ Finds(e.sni, r[2])

\* The entry of the packet's flow after it, by the rules rs.
Decided(rs, e, p) ==
    LET c == IF e.classified THEN e ELSE ClassifyFlow(e, p)
    IN [c EXCEPT !.blocked = c.blocked \/ IsBlocked(rs, p.flow, c)]

SNIs(e) == IF e.sni = "" THEN stats.detected_snis
           ELSE [n \in DOMAIN stats.detected_snis \cup {e.sni} |->
                   IF n = e.sni THEN e.app ELSE stats.detected_snis[n]]

RecordAppOnce(e) ==
    stats' = [app_counts |-> IF e.app \in DOMAIN stats.app_counts THEN stats.app_counts
                             ELSE BagAdd(stats.app_counts, e.app),
              detected_snis |-> SNIs(e)]
\* Stats::recordApp.
RecordApp(e) == stats' = [app_counts |-> BagAdd(stats.app_counts, e.app),
                          detected_snis |-> SNIs(e)]

\* One turn of run(), up to the push.
FPProcess(f) ==
    /\ pipe[FP(f)] = <<>>
    /\ CanPop(FP(f))
    /\ LET id == Oldest(FPQueue(f))
           t == input[id].flow
           e == Decided(rules, flows[f][t], input[id])
       IN /\ flows' = [flows EXCEPT ![f][t] = e]
          /\ RecordApp(e)
          /\ \/ /\ e.blocked
                /\ dropped' = dropped \cup {id}
                /\ pipe' = Removed(FPQueue(f))
                /\ UNCHANGED forwarded
             \/ /\ ~e.blocked
                /\ forwarded' = forwarded \cup {id}
                /\ pipe' = Moved(FPQueue(f), FP(f))
                /\ UNCHANGED dropped
    /\ UNCHANGED <<rules, input, total, running, ended, shut, step, at>>

FPPush(f) == /\ pipe[FP(f)] # <<>>
             /\ Room(OutQueue)
             /\ pipe' = Pushed(FP(f), OutQueue)
             /\ UNCHANGED <<rules, input, total, running, ended, shut, step, at, flowVars>>

-----------------------------------------------------------------------------
(* The output thread                                                       *)

OutputWrite == /\ Output \notin ended
               /\ pipe[OutQueue] # <<>>
               /\ pipe' = Moved(OutQueue, File)
               /\ UNCHANGED <<rules, input, total, running, ended, shut, step, at,
                              flowVars>>

LeavesUnwritten(w) == ~running[w] /\ (w # Output => pipe[w] = <<>>)
\* A worker leaves its loop when it is told to stop and holds nothing, the
\* output thread only when its queue is empty as well.
Leaves(w) == /\ ~running[w]
             /\ IF w = Output THEN pipe[OutQueue] = <<>> ELSE pipe[w] = <<>>
End(w) == /\ w \notin ended
          /\ Leaves(w)
          /\ ended' = ended \cup {w}
          /\ UNCHANGED <<rules, input, total, pipe, running, shut, step, at, flowVars>>

-----------------------------------------------------------------------------
(* The main thread                                                         *)

\* The reading loop; the push waits for room.
ReadPacket == /\ step = "read" /\ total < Len(input)
              /\ LET q == LBQueue(LBOf(input[total + 1]))
                 IN Room(q) /\ pipe' = [pipe EXCEPT ![q] = Append(@, total + 1)]
              /\ total' = total + 1
              /\ UNCHANGED <<rules, input, running, ended, shut, step, at, flowVars>>

\* The end of the capture, and a sleep of 500 ms, which says nothing about how
\* far the workers have come.
EndOfCapture == /\ step = "read" /\ total = Len(input)
                /\ step' = "stop"
                /\ UNCHANGED <<rules, input, total, pipe, running, ended, shut, at,
                               flowVars>>

StopShutdownOnly == /\ step = "stop"
                    /\ shut' = shut \cup {InputOf(Worker(at))}
                    /\ step' = "join"
                    /\ UNCHANGED <<rules, input, total, pipe, running, ended, at, flowVars>>
\* stop(): running_ = false and the shutdown of the queue ...
Stop == /\ step = "stop"
        /\ running' = [running EXCEPT ![Worker(at)] = FALSE]
        /\ shut' = shut \cup {InputOf(Worker(at))}
        /\ step' = "join"
        /\ UNCHANGED <<rules, input, total, pipe, ended, at, flowVars>>

\* ... and the join.
Join == /\ step = "join"
        /\ Worker(at) \in ended
        /\ IF at < NumWorkers - 1 THEN step' = "stop" /\ at' = at + 1
                                  ELSE step' = "done" /\ UNCHANGED at
        /\ UNCHANGED <<rules, input, total, pipe, running, ended, shut, flowVars>>

\* process() has returned.
Returned == step = "done" /\ UNCHANGED vars

-----------------------------------------------------------------------------
LBNext(l) == LBPop(l) \/ LBPush(l) \/ End(LB(l))
FPNext(f) == FPProcess(f) \/ FPPush(f) \/ End(FP(f))
OutputNext == OutputWrite \/ End(Output)
MainNext == ReadPacket \/ EndOfCapture \/ Stop \/ Join

Next == \/ \E l \in LBIds : LBNext(l)
        \/ \E f \in FPIds : FPNext(f)
        \/ OutputNext
        \/ \E w \in Workers : PopNothing(w)
        \/ MainNext
        \/ Returned

Spec == Init /\ [][Next]_vars

\* Every thread that can run gets to run.
FairSpec == /\ Spec
            /\ \A l \in LBIds : WF_vars(LBNext(l))
            /\ \A f \in FPIds : WF_vars(FPNext(f))
            /\ WF_vars(OutputNext)
            /\ WF_vars(MainNext)

-----------------------------------------------------------------------------
(* Properties                                                              *)

\* The type invariant: queues within their capacity, one packet at most in the
\* hands of a worker, and none in those of a worker that has ended.
TypeOK ==
    /\ rules \in RuleSets /\ input \in Captures
    /\ total \in 0 .. Len(input)
    /\ pipe \in [Places -> Seq(1 .. total)]
    /\ \A q \in Queues : Len(pipe[q]) <= Capacity
    /\ \A w \in Workers \ {Output} : Len(pipe[w]) <= IF w \in ended THEN 0 ELSE 1
    /\ running \in [Workers -> BOOLEAN]
    /\ ended \subseteq Workers /\ shut \subseteq Queues
    /\ step \in {"read", "stop", "join", "done"} /\ at \in 0 .. NumWorkers - 1
    /\ dropped \subseteq 1 .. total /\ forwarded \subseteq 1 .. total

Counted == dropped \cup forwarded
In(p) == {pipe[p][i] : i \in DOMAIN pipe[p]}

\* What one fast path alone, given all packets of the capture in their order,
\* makes of each of them: the entry of its flow after it.
Alone(rs, capture) ==
    LET Seen == {capture[i].flow : i \in DOMAIN capture}
        table[n \in 0 .. Len(capture)] ==
          IF n = 0 THEN [t \in Seen |-> NewEntry]
          ELSE [table[n - 1] EXCEPT ![capture[n].flow] = Decided(rs, @, capture[n])]
    IN [n \in DOMAIN capture |-> table[n][capture[n].flow]]
AloneOn == [r \in RuleSets |-> [c \in Captures |-> Alone(r, c)]]
Expected == AloneOn[rules][input]

\* Whatever the threads do, and whatever the capture holds, a packet is dropped or
\* forwarded as by one fast path that takes the capture in its order, and what is
\* lost when the workers are stopped is the end of a flow: a packet is decided
\* with all that was known of its flow.
SameVerdicts ==
    /\ \A id \in dropped : Expected[id].blocked
    /\ \A id \in forwarded : ~Expected[id].blocked
    /\ \A id \in Counted : \A e \in 1 .. id :
         input[e].flow = input[id].flow => e \in Counted

\* What main_working.cpp says of each packet.
Simple == INSTANCE SimpleEngine
SimpleOn == [r \in RuleSets |-> [c \in Captures |-> Simple!Outcomes(r, c)]]
InSimple == SimpleOn[rules][input]

\* Both programs treat the name of packet p alike: main_working.cpp looks for it in
\* TCP only, and an empty name it does not take for one.
LooksAlike(p) == CarriesName(p) => p.flow.protocol = "TCP" /\ p.payload[2] # ""

\* The two programs agree: as long as a flow carries a name in TCP only, and never
\* an empty one, its packets are dropped or forwarded as main_working.cpp does,
\* and are counted under the application and the name that it finds.  Of other
\* flows this is not claimed, and not so.
AgreesWithSimple ==
    \A id \in Counted :
      (\A e \in 1 .. id : input[e].flow = input[id].flow => LooksAlike(input[e])) =>
        /\ id \in dropped <=> InSimple[id].blocked
        /\ Expected[id].app = InSimple[id].app
        /\ Expected[id].sni = InSimple[id].sni

\* The report names a server only if a TCP packet that was decided carries the
\* name: the extractor asks for the start of a TCP payload.
NamesFromTCP ==
    \A n \in DOMAIN stats.detected_snis :
      \E id \in Counted : input[id].payload[2] = n /\ input[id].flow.protocol = "TCP"

\* The report at the end agrees with the output file and, about the packets that
\* were decided, with one fast path that takes the capture in its order: what was
\* counted as forwarded was written, each packet is counted under what its flow
\* was taken for at that packet, and each name under its own application.
ReportTrue ==
    step = "done" =>
        /\ forwarded = In(File)
        /\ stats.app_counts =
             [a \in {Expected[id].app : id \in Counted} |->
                Cardinality({id \in Counted : Expected[id].app = a})]
        /\ stats.detected_snis =
             [n \in {Expected[id].sni : id \in Counted} \ {""} |-> AppOf[n]]

\* process() returns: no full queue holds it up for good, and every worker ends.
Terminates == <>(step = "done")

\* The file and the counters behave as PacketService says: each flow is in the
\* file in the order of the capture.
Service == INSTANCE PacketService
             WITH input <- [i \in DOMAIN input |-> input[i].flow],
                  accepted <- total, written <- pipe[File]
ImplementsService == Service!Spec
=============================================================================
