# Verification of the multi-threaded DPI engine

This directory holds TLA+ models of the deep-packet-inspection engine under
`src/dpi-engine/Packet_analyzer-main/Packet_analyzer-main` (C++, called *engine*
below) and of the Spring backend that runs it
(`src/dpi-backend/dpi-analysis-backend`, called *backend*): specifications, TLC
configurations, and theorems that TLAPS checks. `PROJECT.json` ties every
definition to the lines it models, every run to its question, every property to
a wrong version of the code that breaks it.

    tlc -workers 2 -config Pipeline.cfg MCDpiPipeline.tla
    tlapm DpiPipelineProofs.tla

Convention: a definition that precedes another and is used nowhere
(`SeenDrainedLast` before `SeenDrained`, `PopTrustsTimeout` before `Pop`) is the
code with a plausible mistake in it. It takes no part in the specification;
put in place of the definition it precedes, it must make TLC find a violation.

## 1. Inventory

### The engine

`main_dpi` parses the command line, hands the rules to a `DPIEngine` and calls
`processFile` once. A packet then goes through these threads:

    reader --> LB queue --> load balancer --> FP queue --> fast path --> output queue --> output thread --> file
      1        NumLBs          NumLBs         NumFPs        NumFPs           1                 1

The main thread joins the reader, polls the queues every 50 ms until they look
empty and stops the workers stage by stage.

| Component | State it keeps | Operations | Correct when |
|---|---|---|---|
| `ThreadSafeQueue` | `queue_`, `shutdown_`, one mutex, two condition variables | `push`, `tryPush`, `pop`, `popWithTimeout`, `shutdown`, `empty`, `size` | never above `max_size_`; first in, first out; no lost wakeup; a timeout really ends a pop; a shutdown releases everybody |
| `DPIEngine` | `running_`, counters in `stats_`, `output_queue_`, `output_file_` | `start`, `stop`, `processFile`, `readerThreadFunc`, `outputThreadFunc`, `handleOutput` | every accepted packet is dropped or written, once; per-flow order; the call returns; the counters agree |
| `LoadBalancer`, `LBManager` | `running_`, input queue, counters | `run`, `stop`, `selectFP`, `getLBForPacket`, `queuesEmpty` | a flow always takes the same way; all fast paths are used |
| `FastPathProcessor`, `FPManager` | `running_`, input queue, counters, a `ConnectionTracker` of its own | `run`, `processPacket`, `inspectPayload`, `updateTCPState`, `checkRules`, `stop` | the decision agrees with the rules; `BLOCKED` is never stale |
| `ConnectionTracker` | `connections_`, `total_seen_`, `classified_count_`, `blocked_count_` | `getOrCreateConnection`, `updateConnection`, `classifyConnection`, `blockConnection`, `cleanupStale`, `evictOldest` | table within `max_connections_`; no packet is lost or reported twice when a connection leaves the table |
| `RuleManager` | four sets of rules, each with a lock of its own | `block*`, `unblock*`, `shouldBlock`, `saveRules`, `loadRules`, `clearAll` | a decision reflects rules that were in force together; saving and loading restore the rules |
| `sniToAppType` | an ordered list of substring tests | one function | the first test that matches decides |
| `SNIExtractor`, `HTTPHostExtractor`, `DNSExtractor`, `QUICSNIExtractor` | none | `extract` | stays inside the payload; finds the name |
| `PacketParser`, `PcapReader` | file position, header | `parse`, `readNextPacket` | stays inside the packet; ends at the end |
| `dpi_mt.cpp` | an engine of its own: `TSQueue`s, `flows_` of each fast path, `stats_`, `rules_` | `process`, `run`, `stop`, `classifyFlow`, `isBlocked`, `recordApp` | decides as one fast path alone would; what is counted as forwarded is written; `process` returns |
| `main_working.cpp` | a table of flows, counters | one loop | agrees with `dpi_mt` where both look for a name |
| Reports: `getGlobalStats`, `generateJsonSummary`, `generateClassificationReport`, `AiService` | none | adding up the tables, shares, risk level | agree with each other and with the counters of the trackers |
| `main.cpp`, `main_simple.cpp` | none | print packets | - |

Interactions: every hand-over between threads is a `ThreadSafeQueue`. Fast
paths share nothing but the rule manager (read-only while packets flow) and the
output queue. The reader writes the pcap header and the output thread the
packets into one `ofstream`, each under `output_mutex_`; that the header comes first
is due to the way through the queues. `handleOutput` is a callback from a fast path into
the engine that may block on the output queue.

### The backend

`AnalysisController.runAnalysis` stores an upload and asks `AnalysisService` to
run it; the status of the job and its result are Redis keys with expiry times;
`DpiEngineService.executeDpi` starts the engine as a child process and reads its
JSON summary; `AiService` explains a result and caches the text by a hash.
The states of a job are `RUNNING`, `DONE` and `FAILED`. Correct when a client that
was given an identifier finds a decided job, `DONE` is never said without a
result, no upload is left behind, an outage of the model is not remembered, and
a crash leaves no job that runs for ever.

### What is hard here

Interleavings of 4 + NumLBs + NumFPs threads; backpressure through full queues
back to the reader; the drain loop that reads queue lengths one after the other
and cannot see a packet in a thread's hands; the order in which threads are
stopped; notifications that reach a thread which does not need them; a deadline
that passes while a thread has already been notified; a connection state that
is trusted in place of the rules; eviction and cleanup of the table; two
directions of one connection in two entries; rules that change between the four
locks of one decision; commands of Redis that fail after they were executed,
and crashes between them; in `dpi_mt`, a sleep that stands for the drain, and
flow tables of threads that must together decide as one would. `PROJECT.json` lists each hazard
at its line with the properties that watch it.

## 2. Modules

| Module | Models | Role |
|---|---|---|
| `BoundedChannel` | what a queue promises | abstract specification |
| `ThreadSafeQueue` | `thread_safe_queue.h` | mutex sections, waits, wakeups, deadlines, shutdown; implements `BoundedChannel` |
| `PacketService` | what the engine promises about packets | abstract specification |
| `DpiPipeline` | `dpi_engine.cpp`, `load_balancer.cpp`, thread part of `fast_path.cpp` | all threads from `start()` to the return of `processFile`; implements `PacketService` |
| `FastPath` | decision part of `fast_path.cpp`, `connection_tracker.cpp`, `shouldBlock` | one fast path and its table |
| `RuleManager` | `rule_manager.cpp` | rules that change, are saved and loaded while fast paths ask |
| `CaptureReader` | `pcap_reader.cpp`, `packet_parser.cpp`, reader part of `dpi_engine.cpp` | from the records of a capture to the jobs of the pipeline |
| `NameExtractor` | `sni_extractor.cpp`, `inspectPayload` | the name in a payload, byte by byte |
| `Wire` | - | what clients send: a TLS hello and a DNS query, byte by byte as the RFCs lay them out |
| `AppClassifier` | `sniToAppType` | the application of a name |
| `Reports` | `generateJsonSummary`, `getGlobalStats`, `generateClassificationReport`, numbers of `AiService` | operators over the tables of all fast paths; extends `FastPath`, whose connections it takes as those of several fast paths |
| `SimpleEngine` | the loop of `main_working.cpp` | another program with the same task: a function from a capture to verdicts |
| `DpiMt` | `dpi_mt.cpp` | all threads of the alternative engine; implements `PacketService`, agrees with `SimpleEngine` under a condition |
| `AnalysisJob` | `AnalysisService`, `DpiEngineService`, `AiService`, `runAnalysis` | a request of the backend over Redis, files, the engine and the model |
| `MCDpiPipeline`, `MCFastPath`, `MCRuleManager`, `MCCapture`, `MCDpiMt` | - | the small instances TLC checks |
| `KeptInOrder` | - | `Kept(s, S)`: what of a sequence is in a set; a recursive function, because proofs cannot use an operator that takes an operator |
| `InductionLemmas` | - | what the proofs need about data: induction over a set of naturals, `Kept`, sums over a finite set |
| `ThreadSafeQueueProofs`, `DpiPipelineProofs`, `FastPathProofs` (with `Reports`), `CaptureProofs` (with `NameExtractor`), `RuleManagerProofs`, `AnalysisJobProofs`, `DpiMtProofs` | - | theorems and proofs |

### How `DpiPipeline` corresponds to the code

A packet is its number in the capture, a *place* a pair of a stage and an index;
`pipe` says which packets are at which place: a queue, the local variable of a
thread, the output file. `pc` is where a thread is in its loop: `check` is the
test of `running_`, `pop` the call of `popWithTimeout`, `push` the call of
`push` that follows, `process` a fast path before `handleOutput` has counted,
`empty?` the second half of the output thread's loop condition. `at` and
`drained` are the progress of the drain loop through `queuesEmpty()` of the two
managers and `empty()` of the output queue, one mutex section per step, with
the early return inside each manager (`AfterSeen`). `StopWorker` and
`JoinWorker` follow `stop()`: all load balancers, then all fast paths, then the
output thread, each told to stop and joined before the next.

A queue operation is one step here: that this is sound is what
`ThreadSafeQueue!ImplementsChannel` says. A push on a full queue is simply not
enabled; a pop that times out is `PopNothing`, and so is a pop that a shutdown
released, because both return an empty optional and lead back to `check`.
What a fast path decides is nondeterministic (`FPDrop` or `FPForward`), so the
properties hold for every rule set and every table.

### How `ThreadSafeQueue` corresponds to the code

`pc` is `outside` between calls, `mutex` from the call to the lock, `waiting`
inside `wait`/`wait_for` and `woken` from the notification to the lock. One
step is everything between getting and giving up the mutex. `notify_one` moves
one waiter of that condition variable, if there is one, to `woken`;
`notify_all` all of them. A waiter may also wake for no reason
(`SpuriousWakeup`) and, in `popWithTimeout`, because its deadline passes
(`Expire`), which can happen after a notification too: the predicate is then
tested a last time. `empty` and `size` change nothing and are not actions.

### How `FastPath` corresponds to the code

One step, `ProcessPacket`, is `processPacket` as a whole: lookup (evicting the
oldest flow of a full table), counters, TCP state, the `BLOCKED` test,
inspection, rules. `CleanupStale` is the sweep after 100 ms without a packet.
`order` stands for the `last_seen` times: only their order matters, and any
prefix of it may be older than the timeout. A payload is the name it carries and
the way the name is found; the extractors' byte offsets are not in this module.
Rules are given at the start, as `main_dpi` does. `ShouldBlock` has addresses,
ports, applications and exact domains; domain patterns are in `RuleManager`.

`Reports` adds no state. The flows of different fast paths never meet, so one
table of `FastPath` stands for those of all: `FPOf`, a constant, says to which
fast path the hashes send a flow, and `Tables` is the table as it is then spread
over them. The reports add up what they find in `Tables`; `SummaryAdds` compares
them with each other and with the counters that the trackers keep.

What a name is classified as is a constant, `AppOf`; the instances give it the
value that `AppClassifier` computes: the table of `sniToAppType` in its order,
with `find` as a test for a substring and the name in small letters.

### How `CaptureReader` and `NameExtractor` correspond to the code

One step is one turn of the loop in `readerThreadFunc`: `SkipPacket` where the
code says `continue`, `PushPacket` where it pushes, `Finish` where
`readNextPacket` returns false. `parsed` is the one `ParsedPacket` of the loop.
A frame is the header fields that the code looks at, as they are in the bytes,
and a record says how many of its bytes are in the file, so that a frame may be
cut anywhere. A record gives the numbers that the machine meant which wrote the file; `Raw`
is what this machine reads of them when the byte order is the other one, and
`MaybeSwap` what the code does about it. `CapturesAssumption` says what a file
can be at all: the numbers have 32 bits, header fields are numbers, and the file holds no more of
a record than its length. The properties of the reader (`TypeOK`,
`JobsFaithful`, `EverythingRead`) are in `CaptureReader`, for every set of captures. Padding of short Ethernet frames is payload
for the code, which uses the length of the frame and not that of IP, and so it is
in `MCCapture`.

`NameExtractor` works on bytes, with the loops of the code as functions over
offsets. `Wire` says what a client sends: `ClientHello` puts the fields of a hello one
after the other, each with its length in front, and `Query` the labels of a name;
`SoundHello` and `SoundQuery` say when the parts fit. `MCCapture` writes hellos and
queries with it (`PayloadsAssumption`: they are sound ones) and requests of its own, puts
them into frames and captures, and compares what the engine makes of them with
what was sent. There the modules meet: `NamesFound` applies `NameOf`
to the bytes that a job's offset and length name, and `SiteBlocked` lets a fast
path (an instance of `FastPath` whose table is a function over the jobs) decide
about the jobs of a capture with the names so found.

### How `RuleManager` corresponds to the code

Four tables, each with a lock; a step is what a thread does under one lock. A call
about one rule (`Block`, `Unblock`) is one step; `shouldBlock`, `saveRules`,
`clearAll` and `loadRules` are `op`, and `at` is the table they come to next, in
the order of `CheckOrder` or `SaveOrder`. `count` is 0 or 1 for what is kept in a
set, and any number for a domain pattern, which is kept in a vector. `hits` is
what the table that made the decision holds against the packet. `steady` and
`ever` are history: the rules in force throughout a call and at some time of
it; the properties compare a call's result with them. A domain is a sequence of labels, and
lower-casing is done for patterns only, as in the code. One saver writes the file at a
time, and the file is one that `saveRules` wrote. A file that cannot be opened
changes nothing and is no step.

In this program the rules are set before the packets flow; the model is of what
the class itself promises, "thread-safe for concurrent access from FP threads"
(`rule_manager.h:26`).

### How `DpiMt` and `SimpleEngine` correspond to the code

`DpiMt` has the places of `DpiPipeline` and coarser steps: a fast path pops,
decides and counts in one (`FPProcess`), because its flow table is its own and
nobody reads the counters before the end; the push that follows is a step of its own,
and so is the load balancer's. `running_` is tested with the pop: when a worker is
stopped, nobody upstream is left that could push, so a packet that was popped
after the stop could have been popped before. `PopNothing` is a pop that
times out. `EndOfCapture` is the sleep of 500 ms, which promises nothing; `Stop`
and `Join` are `stop()`, worker after worker. The rules of `blockIP`,
`blockApp` and `blockDomain` are there before `process` is called.

`SimpleEngine!Outcomes` is the loop of `main_working.cpp` as a recursive
function over the capture: the entry of a packet's flow when it is forwarded or
dropped. `DpiMt!Alone` is the same for `dpi_mt`: what one of its fast paths would
make of the whole capture. `SameVerdicts` and `ReportTrue` compare the threads with
`Alone`, for every capture.

The two programs classify by different conditions (`classified` here, `app_type`
and an empty name there), and they do not always agree:

- `main_working` looks for a name in TCP only (`main_working.cpp:188` and `:213`),
  `dpi_mt` in whatever goes to port 443 or 80 (`dpi_mt.cpp:264` and `:276`);
- a name may be empty ("Host: :80", or a hello with a name of length 0).
  `dpi_mt` takes the flow for `UNKNOWN` and classified for good;
  `main_working` falls back to the port and goes on looking.

A flow has a protocol and a payload of either protocol may hold a hello or a
request with any name, so both cases are in the model and in `MCDpiMt`.
`AgreesWithSimple` says when the programs agree: its condition, `LooksAlike` of
all packets of the flow so far, excludes exactly these two. TLC finds a counterexample
when either half of the condition is left out. That
`sniToAppType` says `UNKNOWN` of an empty name and of no other is `AppsAssumption`
(`MCDpiMt` takes the table of `AppClassifier`). Records that are no TCP or UDP are
not in a capture here; `main_working` counts them in its total, `dpi_mt` does not.

### How `Reports` corresponds to the code

`tables` is a function from fast paths to their tables. `JsonSummary` and
`ClassificationReport` count separately, as the code does; the JSON text and its
parsing are left out, so a summary is what `DpiResult` has of it. `Percentage` is
Java's division of integers. In `MCFastPath` the flows of the one table are dealt
to two.

### How `AnalysisJob` corresponds to the code

`pc` is the next access of a request's thread to something shared: `new` before
`startAnalysis`, `save` the upload, `run` and `engine` the child process,
`lookup`, `ask` and `cache` `generateExplanation`, `result` and `done` the two
writes, `catch` and `finally` the blocks of that name, `threw` an exception on
its way to the client. `finally, threw` is the finally block that runs because
the catch block threw. A `redisTemplate` call is `Command`: executed, executed
and throwing, or only throwing. A key expires in the order of the writes, since all
keys of jobs have the same time to live; those of the cache have another.
`Crash` takes all threads away and leaves Redis and the files. A summary stands
for the part of the `DpiResult` that goes into the prompt, whose hash is the
cache key. Of a file it matters whether it is there, and whole. `getStatus` and `getResult` only read; what they could see between
two steps is what the properties are about. The deletion of a file is taken to
succeed.

## 3. Runs

| Run | Instance | Result |
|---|---|---|
| `Pipeline` | 2 load balancers, 1 fast path each, capacity 1, all captures of 3 packets over 2 flows | 478,482 states; type, per-flow order, nothing vanishes, what is counted as forwarded is in the file, behind its header, at most one packet per load balancer is lost, reports agree, refines `PacketService`, `processFile` returns |
| `PipelineDrain` | as `Pipeline` | violated: see finding 1 |
| `Queue` | 2 producers, 2 consumers, capacity 2, 3 items | 98,684 states; capacity, no lost wakeup, nobody waits after a shutdown, refines `BoundedChannel`, `popWithTimeout` returns, a shutdown releases every call |
| `FastPathSafety` | 6 packets out of 17 kinds on 4 flows, table of 2, five rule sets | 127,333 states; `BLOCKED` agrees with the rules, every packet accounted for, the reports over the table add up, a block holds |
| `FastPathBlocked` | as `FastPathSafety`, 4 packets | violated: see finding 2 |
| `FastPathApps` | a hello to each of six sites, with the table of `sniToAppType` | violated: see finding 4 |
| `Capture` | 8,989 captures of up to 3 records: 13 sound and 5 odd frames, cut at any interesting byte, damaged records, both byte orders, two snap lengths | 50,938 states; the jobs are the records with whole headers and the counters agree, a bad record ends the capture, names are found and cut payloads give no wrong one, a fast path drops what belongs to a blocked name |
| `Mt` | 2 load balancers with 2 fast paths each, capacity 1, all captures of 3 packets out of 7 kinds on 4 flows, two rule sets | 441,918 states; every verdict is that of one fast path alone, and that of `main_working` where both look for a name, the report agrees with the file, refines `PacketService`, `process` returns |
| `MtNames` | as `Mt`, 1 packet | violated: see finding 5 |
| `Rules` | 1 reader, 2 writers, 5 rules (one of each table, and a domain pattern), 4 calls of the writers | 3,055,052 states; verdicts, saved files and clearing are justified by the rules in force during the call |
| `Jobs` | 2 jobs, 2 summaries | 478,964 states; every key of a job expires, `DONE` has a result, an accepted job is decided, uploads are removed, explanations are sound, the status never goes back |
| `JobAnswer` | 1 job | violated: see finding 3 |

### Findings

1. `DrainComplete`: the drain loop breaks while a load balancer holds a packet
   it has popped and not yet pushed; its fast path is then stopped before it
   pops that packet, which is neither forwarded nor counted as dropped.
   `LossBound` and its run show how far this goes: at most one packet per load
   balancer, the last that it got.
2. `BlockedDropped`: a RST, or an ACK after a FIN, with a payload sets a blocked
   connection to `CLOSED` before the state is tested, and the packet can be
   forwarded.
3. `ToldInTime`: `@Async` does not apply to a call on `this`, so the request is
   answered, with "RUNNING", when the job is over.
4. `AppBlocked`: `sniToAppType` looks for "x.com" and "t.co" anywhere in the name
   before it comes to Netflix and Microsoft; netfli*x.com* and microsof*t.co*m
   are Twitter, and `--block-app Netflix` does not block Netflix.
5. `NamesFromTCP`: `dpi_mt` hands UDP payloads to extractors whose header asks for
   "the start of TCP payload" (`sni_extractor.h:49`). A UDP packet to port 443 or 80
   with the bytes of a hello or a request is named, blocked by that name and
   reported under it; `main_working` classifies the same packet by its port.

Seen while modelling, without a run of their own: both levels of load balancing
take the same hash modulo 2 in the default configuration (`LBOf` and `FPOf` with
two load balancers of two fast paths each), so FP1 and FP2 never get a packet,
although "LB0 handles FP0, FP1 (hash % 2 == 0 or 1)" (`load_balancer.h:32`); the two directions of a
connection are two entries of the table, so `ESTABLISHED` needs a SYN and a
SYN-ACK in one direction and is not reached by a handshake, although the header
says that bidirectional flows need no special treatment
(`connection_tracker.h:81`), and nothing depends on it; `dpi_mt` sleeps 500 ms
where its comment says "Wait for queues to drain" (`dpi_mt.cpp:501`), so on a
capture that takes longer every stage may lose all that it has queued; a request
with an empty host makes a flow `UNKNOWN` for good in `dpi_mt` and not in
`main_working` (section 2); the
backend's README shows 22 of 43 connections as "51%" (`src/README.md:592`), while
`AiService` divides by the 77 packets, which gives 28 %, and its "Highest activity:
... packets" is a number of connections; "unique network connections" are those
still in the tables, without what eviction and cleanup took out; a closed connection that is
still in the table is classified or blocked again by a later payload, although
the header has the state go "NEW -> ESTABLISHED -> CLASSIFIED -> CLOSED" (the
same cause as finding 2); a domain pattern that was blocked twice, or saved and
loaded again, has to be unblocked as often; `executeDpi` waits for its process
without a timeout, although the README says "Handles process timeouts and
errors" (in `AnalysisJob` the process need not end); `buildCommand` passes the applications to block and
not the domains and addresses of a request, which the README offers
(`src/README.md:534`); the output of a capture of the other byte order has its
magic number but this machine's numbers, and cannot be read; an acknowledgement with
Ethernet padding has a payload for the engine, which classifies a connection
to port 443 as HTTPS without a name and does not inspect the hello that follows; "host:" is
found anywhere in a request, in "X-Forwarded-Host:" too; the pattern
"yt3.ggpht" is never reached behind "ggpht".

### Bounds, and why they are enough

- Capacity 1 or 2 instead of 10000: full queues at every stage, which three
  packets could otherwise never produce. The code compares the length with
  `max_size_` only; the theorems hold for every capacity.
- Three packets, two flows: two packets of one flow and one of the other cover
  overtaking within a flow and between flows, one packet at each of three
  stages, and a packet left behind after another is done. Two load balancers
  make the order of the polls and of the stops matter.
- Two producers and two consumers are the least with which a notification can
  reach the wrong thread while another still sleeps; the theorem on lost wakeups
  is for any number.
- A table of two and six packets: evictions, a flow that returns after its
  eviction, and the longest path through the connection states
  (classify, block, close, classify again). `MaxPackets` and `MaxItems` bound
  counters that the code lets run.
- Two writers and four of their calls (`MaxCalls`): a call that goes through the
  tables, with another thread's set, clear or load in front of it and behind it.
  The theorems are for any number of threads, rules and calls.
- Three packets again in `Mt`: one that says nothing of its flow, the name, and one that
  follows, in one flow or mixed with others; an empty name before and after a
  packet without one, and a name in UDP. Two load balancers with two fast paths
  each are the default; with a capacity of 1 every queue is full at times.
- Captures of three records: one that leaves something in `parsed`, one that
  could find it, one that shows that the reader goes on. The lengths at which frames are
  cut are those around every bound in the parser, and the last bytes of a name.
- Two jobs share only the cache, and two summaries make a cached text of the
  wrong one possible. Crashes, errors and expiries are not bounded: the
  state space is finite without.

### Fairness

`DpiPipeline!Fairness` is weak fairness of each thread as a whole: a thread that
can take a step takes one in the end. That is what the operating system's
scheduler and a mutex that is eventually acquired give; that a blocked push goes on
once there is room is `ThreadSafeQueue!NoLostWakeup`. In `ThreadSafeQueue`, a
thread that wants the mutex gets it and time passes (`Expire`). Nothing forces a
thread to call a member function, to shut the queue down, or to wake up without
reason; nothing forces a fast path to forward rather than drop.
`DpiMt!FairSpec` is the same for the threads of `dpi_mt`.
`AnalysisJob` assumes no fairness: its properties are about what is never seen. That
a job is not `RUNNING` for ever rests on the expiry of its key, which `TypeOK` has;
a request that waits for an engine that never ends waits for ever.

## 4. Proofs

All for every value of the constants, from the named assumptions of the modules only:
`TopologyAssumption`, `SizesAssumption`: positive numbers of threads and a positive capacity;
`InputAssumption`, `HashAssumption`, `CapturesAssumption`: hashes are naturals, captures
are sequences of packets; `AppsAssumption`: an empty name and no other is
`UNKNOWN`; `ThreadsAssumption`, `SizeAssumption`: finitely many threads, a positive
capacity; `TableAssumption`, `PacketAssumption`, `RulesAssumption`, `CallsAssumption`.
The bounds `MaxPackets`, `MaxItems` and `MaxCalls` are any naturals.

| Theorem | Says | Argument |
|---|---|---|
| `DpiPipelineProofs!TypeCorrect` | `TypeOK` of the pipeline | `TypeInv` adds which `pc` values a thread of a stage can have and that a thread holds a packet exactly when its `pc` says so: without it `Head` of an empty place could not be excluded |
| `DpiPipelineProofs!FlowOrderCorrect` | per-flow order everywhere | `PipelineInv` = `TypeInv`, `StopInv` (the stages upstream of the worker being stopped have exited, so nobody pushes into a shut queue), `OnRoute` (a packet is only where its hash sends it), `FlowOrder`. The order alone is not inductive: two packets of one flow in two queues of one stage could be appended to one place in any order; `OnRoute` excludes it |
| `DpiPipelineProofs!NothingVanishesCorrect` | no accepted packet disappears | the same invariant: by `StopInv` every push finds its queue open and the file is closed only after the output thread has exited |
| `DpiPipelineProofs!PipelineImplementsService` | the pipeline implements `PacketService` | the mapping takes `accepted` to `total` and `written` to the file; `ReadPacket` maps to `Accept`, `FPDrop` to `Discard`, `OutputWrite` to `Deliver`, whose guard is `FlowOrder`; every other step stutters |
| `DpiPipelineProofs!ForwardedWrittenCorrect` | what is counted as forwarded is in the file, behind its header | `ReportsInv`: with the invariants above, each counter is the number of packets that have passed its stage (`StatsInv`, `ForwardedInv`), the header comes before the first packet (`HeaderInv`), and the output thread runs until all fast paths have exited and ends with its queue empty (`OutputInv`) |
| `DpiPipelineProofs!LossBoundCorrect` | at most the last packet of each load balancer is lost | two more conjuncts of `ReportsInv`: up to the load balancers packets keep the order of the capture (`LBOrder`), and behind a queue that the drain loop saw empty there is only the last packet of a load balancer (`DrainInv`), which is in that thread's hands while the loop looks at the fast paths |
| `DpiPipelineProofs!ReportsAgreeCorrect` | the counters of the threads agree at the end | `StatsInv`, and the cardinalities of the sets it counts |
| `ThreadSafeQueueProofs!TypeCorrect`, `NoWaitAfterShutdownCorrect` | capacity; nobody waits after a shutdown | `QueueInv` = `TypeOK`, `CallInv` (what a thread at a given `pc` is doing), `NoWaitAfterShutdown` |
| `ThreadSafeQueueProofs!NoLostWakeupCorrect` | one `notify_one` per push and per pop is enough | the two conjuncts are inductive together with `QueueInv`; each step changes the length and the number of woken threads by at most one, in step |
| `ThreadSafeQueueProofs!QueueImplementsChannel` | linearisable as a bounded channel | waiting, waking and expiring stutter; `Push`, `TryPush`, `Pop` map to the step at which they return |
| `RuleManagerProofs!VerdictJustifiedCorrect`, `SavedJustifiedCorrect`, `ClearedEverythingCorrect`, `RulesTypeCorrect` | a call's result is justified by the rules in force during it | `RulesInv` = `TypeOK` and, for each thread, `CallInv`: what holds half way through a call. `WitnessInv` ties `steady` and `ever` to the rules in force now; `ScanInv` says that no table already passed had a match that was there throughout; `SaveInv`, `ClearInv` the same for the sections written and the tables cleared. Their last case, `at = Returning`, is the property |
| `FastPathProofs!BlockedIffRuledCorrect` | `BLOCKED` agrees with the rules for every table and rule set | `ConnInv`, by cases over `Decide` |
| `FastPathProofs!BlockHoldsCorrect` | what can pass a block or change a classification | from `ConnInv` and one step |
| `FastPathProofs!TypeCorrect` | the table within `max_connections_`, `order` without repetition and exactly the tracked flows | `TableInv`: that `order` and the table have the same flows is what makes `evictOldest` take a flow that is there, and a full table lose one for the one it gains |
| `FastPathProofs!FlowsAccountedCorrect` | no packet and no connection is lost or reported twice by eviction and cleanup | `TableInv` again; the sum over the table is a fold, which `InductionLemmas` reduces to the sum without one flow (`TotalRemove`) and to the sum over two parts (`TotalSplit`), by induction over the size |
| `FastPathProofs!SummaryAddsCorrect` | the reports agree with each other and with the trackers, however the flows are spread over the fast paths; the shares of classified and unknown connections never pass 100 %, and a high risk means that less than half is classified | the entries of `Tables` are the tracked flows, each in the table of one fast path (`EntriesFacts`); the total of a distribution is the number of entries (a sum over the values of a function, by induction over the size of the set), `FlowsAccounted` makes that what the trackers count, and by `TypeOK` it is no more than the packets |
| `CaptureProofs!JobsFaithfulCorrect` | for every capture of either byte order: a job for each record with whole headers, in order and without gaps, with the record's own addresses, ports, flags and payload; the counters are sums over the jobs | `ReaderInv`: `jobs` is `JobsOf` of the records due so far, the counters are those of the jobs, every record so far was good. The step is `RecordFacts`, what the code makes of one record, which needs that swapping bytes twice and writing an address and reading it back change nothing (`WordFacts`, from `LowestHigher` byte by byte); `KeptAppend` takes the records due one further. |
| `CaptureProofs!TypeCorrect`, `EverythingReadCorrect` | one job at most for a record and no payload outside of its data; the first damaged record, and nothing else, ends a capture | from `ReaderInv` |
| `CaptureProofs!HelloNamed` | in every hello of `Wire`, `SNIExtractor::extract` finds the name that the client wrote, whatever the session identifier, cipher suites, compression methods and other extensions are and wherever the SNI is among them; `inspectPayload` finds it on every port | `Has(p, o, s)`: the bytes `s` stand at offset `o`. From the record inwards, `PackedFacts` and `HelloOffsets` show that the fields stand where `IsTLSClientHello` and `ExtensionsOffset` look; `JoinedLaid` gives the offset of each extension, by induction over their number; `SearchGoesOn` and `SearchFinds` take the search from one extension to the next up to the SNI. The search is a recursive function over offsets: that it exists is `SearchExists`, by induction from the end of the payload |
| `CaptureProofs!QueryNamed` | in every query of `Wire`, `DNSExtractor::extractQuery` finds the name, for any number of labels, and nothing that stands behind it | `JoinedLaid` again; then from the last label to the first, what the code has read from a label on is what the client meant (`Tells`) |
| `AnalysisJobProofs!TypeCorrect`, `DoneHasResultCorrect`, `AcceptedIsDecidedCorrect`, `UploadRemovedCorrect`, `ExplanationSoundCorrect` | what a client and the disk see of a job, with Redis errors, crashes and expiry, for any number of jobs | `JobInv`: what a thread holds at each place (`ThreadInv`), how far the status may be then (`StatusInv`), the file (`UploadInv`), and that the keys in Redis are those with an expiry, each once (`ExpiryInv`). None of the properties is inductive: `DONE` before the write of the result is excluded only by where the thread is, and expiry in the order of the writes is why a result does not go before its status |
| `AnalysisJobProofs!StatusNeverGoesBackCorrect` | a status that was decided stays | `StatusInv` and one step |
| `DpiMtProofs!TypeCorrect` | capacities; no worker of `dpi_mt` ends with a packet in its hands | `PlaceInv` (every packet is where its flow has to pass, and of two packets of a flow the earlier is ahead) and `StopInv`, by which a push finds its queue open and the next worker alive; each step is then one of four: a packet enters, goes to the next place, is dropped, or nothing moves (`PipeStep`) |
| `DpiMtProofs!SameVerdictsCorrect` | for every capture, whatever the threads do, a packet is decided as by one fast path alone | `Decisions`: what is counted is what has passed the fast paths, and of each flow it is the beginning. `Entries`: the entry of a flow at its fast path is that of one fast path alone after the same packets of that flow (`Table`); `TableSteady` bridges the packets of other flows in between, by induction |
| `DpiMtProofs!AgreesWithSimpleCorrect` | verdict, application and name are those of `main_working`, as long as the flow has carried a name in TCP only and never an empty one | `SameVerdictsCorrect`'s invariant, and `TablesAgree`, by induction over the capture: `SameClassification` shows that the two conditions for classifying again (`classified`; an unknown or generic application without a name) agree on every entry that such a flow can have (`CommonShape`): without `CommonShape` they do not |
| `DpiMtProofs!ReportTrueCorrect` | the report of `dpi_mt`, for every capture | application counts and names are those of the decided packets at all times (`AppsReported`, `NamesReported`); that a name has one application is `Shape`; at the end all workers have ended, so their hands and the output queue are empty |
| `DpiMtProofs!MtImplementsService` | `dpi_mt` implements `PacketService` | `ReadPacket` is `Accept`, a fast path's drop is `Discard`, `OutputWrite` is `Deliver` |

Every inductive invariant was checked with TLC on the instance of its run before it
was proved.

Only model-checked:

- the liveness properties `Terminates` (of both engines), `PopReturns`, `ShutdownReleases`:
  fairness and `ENABLED` are out of the prover's reach;
- `NamesFound` and `SiteBlocked` of `MCCapture`: they are about the messages that this
  instance sends, whole and cut. For whole hellos and queries `HelloNamed` and
  `QueryNamed` say it of every message; what is found in a request rests on the
  characters of a string, which the prover does not have, and of a cut message only the
  runs say that no other name than its beginning is found;
- what `AppClassifier` makes of a name (finding 4), for the same reason.

## 5. Not modelled

- In the modelled parts: byte counts; `per_fp_counts_`, `sni_extractions_`,
  `classification_hits_`, `classified_count_` and `blocked_count_`, which are
  only printed; ties between `last_seen` times; rules that change
  while packets flow, which `main_dpi` never does; a capture record
  that is not TCP or UDP over IP (it is skipped by the reader); the wording of
  reports; failures of `write` on the output file, which the code does not look at.
- In `AnalysisJob`: how the JSON block is cut out of the engine's output; the
  output file of a job, which nothing ever removes; the two endpoints that read; a
  Java `Error`, such as running out of memory, which `catch (Exception e)` does not
  catch: the finally block runs, the status stays `RUNNING` until its key expires and
  the request fails.
- In the reader and the extractors: MAC addresses, TTL, sequence numbers and
  texts for display; `QUICSNIExtractor`, which nothing calls; records whose length
  is wrong but possible, after which the reader takes bytes for headers.
- In `DpiMt` and `SimpleEngine`: the parsing of a record, which is that of
  `CaptureReader`; bytes, protocols and packets per thread, which are only printed.
- In `Reports`: the lists of top domains, which are cut at 10 and 20 entries; the
  layout.
- A second `processFile` on one engine: its queues would stay shut down, but nothing
  in the repository calls it twice.
- `main_dpi.cpp`: the parsing of its arguments.
- Left out for good: `main.cpp` and `main_simple.cpp`, which print packets, data
  transfer objects and Spring wiring, the wording of the AI prompt, the generator
  of test captures.

## 6. Plan

Done: all modules of section 2, the abstract specifications and the proofs above.
Next, most important first:

1. The loss in `DpiMt`: what can be queued when the workers are stopped, and that a
   capture is decided whole if the queues are empty by then.
2. A hello that is cut or goes on in a second segment, as a property of a flow: what
   the fast path decides while the name is not there yet.
