------------------------------ MODULE FastPath ------------------------------
(***************************************************************************)
(* What one fast path decides: FastPathProcessor::processPacket and its    *)
(* ConnectionTracker.  A flow is a five-tuple; the two directions of a TCP *)
(* connection are two flows.  A payload is "none" (payload_length is 0),   *)
(* "other", or a name with the way it is found: <<"hello", n>> is a TLS    *)
(* client hello with SNI n, <<"host", n>> an HTTP request, <<"query", n>>  *)
(* a DNS query.  The rules are those given before processFile.             *)
(*                                                                         *)
(* A definition that precedes another and is used nowhere is a wrong       *)
(* version of it: with it, a run must find a property violated.            *)
(***************************************************************************)
EXTENDS Integers, Sequences, FiniteSets, FiniteSetsExt, KeptInOrder

CONSTANTS Flows,            \* records of src_ip, src_port, dst_port, protocol
          Packets,          \* the packets: records of flow, flags and payload
          AppOf,            \* sniToAppType
          RuleSets,         \* the sets of rules the engine may be given
          MaxConnections,   \* max_connections_ (100000 in the code)
          MaxPackets        \* bound: how many packets are processed

ASSUME TableAssumption == MaxConnections \in Nat \ {0} /\ MaxPackets \in Nat
ASSUME PacketAssumption == \A p \in Packets : p.flow \in Flows

States == {"NEW", "ESTABLISHED", "CLASSIFIED", "BLOCKED", "CLOSED"}

VARIABLES rules,     \* blocked_ips_, blocked_apps_, blocked_domains_, ...
          conns,     \* connections_: the connection of each tracked flow
          order,     \* the tracked flows by last_seen, oldest first
          job,       \* the packet processed last, if any: job_opt
          action,    \* what was decided about it
          processed, \* packets_processed_
          seen,      \* total_seen_
          emitted    \* flows and packets reported by emitFlowTelemetry

vars == <<rules, conns, order, job, action, processed, seen, emitted>>

Tracked == DOMAIN conns

NewConnection == [state |-> "NEW", app |-> "UNKNOWN", sni |-> "", packets |-> 0,
                  syn |-> FALSE, synAck |-> FALSE, fin |-> FALSE]

Init == /\ rules \in RuleSets
        /\ conns = [f \in {} |-> NewConnection]
        /\ order = <<>>
        /\ job = <<>> /\ action = "none"
        /\ processed = 0 /\ seen = 0
        /\ emitted = [flows |-> 0, packets |-> 0]

-----------------------------------------------------------------------------
(* ConnectionTracker                                                       *)

PacketsOf(flows) == MapThenSumSet(LAMBDA f : conns[f].packets, flows)

EmitNothing(flows) == UNCHANGED emitted
\* emitFlowTelemetry for each of the flows that leave the table.
Emit(flows) == emitted' = [flows |-> emitted.flows + Cardinality(flows),
                           packets |-> emitted.packets + PacketsOf(flows)]

EvictedTooLate(f) == IF f \notin Tracked /\ Cardinality(Tracked) > MaxConnections
                     THEN {Head(order)} ELSE {}
\* evictOldest: the flow that makes room for f, when f is new and the table
\* is full.  No two packets have the same last_seen.
Evicted(f) == IF f \notin Tracked /\ Cardinality(Tracked) >= MaxConnections
              THEN {Head(order)} ELSE {}

\* getOrCreateConnection and updateConnection.
Lookup(f) == LET c == IF f \in Tracked THEN conns[f] ELSE NewConnection
             IN [c EXCEPT !.packets = @ + 1]

\* classifyConnection; its callers know that c is not classified yet.
Classify(c, app, sni) == [c EXCEPT !.app = app, !.sni = sni, !.state = "CLASSIFIED"]

-----------------------------------------------------------------------------
(* FastPathProcessor                                                       *)

\* updateTCPState.
Handshake(c, flags) ==
    LET syn == c.syn \/ ("SYN" \in flags /\ "ACK" \notin flags)
        synAck == c.synAck \/ ("SYN" \in flags /\ "ACK" \in flags)
        established == syn /\ synAck /\ "ACK" \in flags /\ c.state = "NEW"
    IN [c EXCEPT !.syn = syn, !.synAck = synAck,
                 !.state = IF established THEN "ESTABLISHED" ELSE @]
Teardown(c, flags) ==
    LET fin == c.fin \/ "FIN" \in flags
        closed == "RST" \in flags \/ (fin /\ "ACK" \in flags)
    IN [c EXCEPT !.fin = fin, !.state = IF closed THEN "CLOSED" ELSE @]
UpdateTCPState(c, p) == IF p.flow.protocol = "TCP"
                        THEN Teardown(Handshake(c, p.flags), p.flags) ELSE c

\* What inspectPayload finds: the application and the name, or nothing.  The
\* name of a hello is found on every port, that of a request on port 80.
Finding(p) ==
    LET kind == p.payload[1]  name == p.payload[2]
        port == p.flow.dst_port
        named == kind = "hello" \/ (kind = "host" /\ port = 80)
        asked == kind = "query" /\ 53 \in {port, p.flow.src_port}
    IN CASE named -> <<AppOf[name], name>>
         [] asked -> <<"DNS", name>>
         [] ~named /\ ~asked /\ port = 80 -> <<"HTTP", "">>
         [] ~named /\ ~asked /\ port = 443 -> <<"HTTPS", "">>
         [] OTHER -> <<>>
HasPayload(p) == p.payload[1] # "none"

InspectPayload(c, p) == LET found == Finding(p)
                        IN IF found = <<>> THEN c ELSE Classify(c, found[1], found[2])

\* shouldBlock: by source address, port, application or name.
ShouldBlock(f, c) == \/ <<"ip", f.src_ip>> \in rules
                     \/ <<"port", f.dst_port>> \in rules
                     \/ <<"app", c.app>> \in rules
                     \/ c.sni # "" /\ <<"domain", c.sni>> \in rules

InspectedEmpty(c, p) == IF c.state # "CLASSIFIED" THEN InspectPayload(c, p) ELSE c
\* A connection that is already classified is not inspected again, nor is a
\* packet without payload.
Inspected(c, p) == IF c.state # "CLASSIFIED" /\ HasPayload(p)
                   THEN InspectPayload(c, p) ELSE c

DecideNoBlockedCheck(c, p) ==
    LET d == Inspected(c, p)
    IN IF ShouldBlock(p.flow, d) THEN <<"DROP", [d EXCEPT !.state = "BLOCKED"]>>
                                 ELSE <<"FORWARD", d>>
DecideUnmarked(c, p) ==
    LET d == Inspected(c, p)
    IN IF c.state = "BLOCKED" \/ ShouldBlock(p.flow, d) THEN <<"DROP", d>>
                                                       ELSE <<"FORWARD", d>>
\* The rest of processPacket: the action, and the connection it leaves.
Decide(c, p) ==
    LET d == Inspected(c, p)
    IN CASE c.state = "BLOCKED" -> <<"DROP", c>>
         [] c.state # "BLOCKED" /\ ShouldBlock(p.flow, d) ->
              <<"DROP", [d EXCEPT !.state = "BLOCKED"]>>
         [] OTHER -> <<"FORWARD", d>>

ProcessPacket(p) ==
    /\ processed < MaxPackets
    /\ LET f == p.flow
           kept == Tracked \ Evicted(f)
           decision == Decide(UpdateTCPState(Lookup(f), p), p)
       IN /\ Emit(Evicted(f))
          /\ conns' = [g \in kept \cup {f} |-> IF g = f THEN decision[2] ELSE conns[g]]
          /\ order' = Append(Kept(order, kept \ {f}), f)
          /\ seen' = IF f \in Tracked THEN seen ELSE seen + 1
          /\ action' = decision[1]
    /\ job' = <<p>>
    /\ processed' = processed + 1
    /\ UNCHANGED rules

\* cleanupStale, when no packet came for 100 ms: the n flows that are the
\* oldest are stale, and whatever is closed goes as well.
CleanupStale ==
    \E n \in 0 .. Len(order) :
        LET gone == {order[i] : i \in 1 .. n}
                      \cup {f \in Tracked : conns[f].state = "CLOSED"}
        IN /\ Emit(gone)
           /\ conns' = [f \in Tracked \ gone |-> conns[f]]
           /\ order' = Kept(order, Tracked \ gone)
           /\ UNCHANGED <<rules, job, action, processed, seen>>

Next == (\E p \in Packets : ProcessPacket(p)) \/ CleanupStale

Spec == Init /\ [][Next]_vars

-----------------------------------------------------------------------------
(* Properties                                                              *)

\* The type invariant: the table is within max_connections_, and `order' lists
\* exactly the flows in it.
TypeOK ==
    /\ rules \in RuleSets
    /\ Tracked \subseteq Flows /\ Cardinality(Tracked) <= MaxConnections
    /\ \A f \in Tracked :
         /\ conns[f].state \in States /\ conns[f].packets \in 1 .. processed
         /\ {conns[f].syn, conns[f].synAck, conns[f].fin} \subseteq BOOLEAN
    /\ {order[i] : i \in DOMAIN order} = Tracked /\ Len(order) = Cardinality(Tracked)
    /\ job \in {<<>>} \cup {<<p>> : p \in Packets}
    /\ action \in {"FORWARD", "DROP", "none"}
    /\ processed \in 0 .. MaxPackets
    /\ seen \in 0 .. processed
    /\ emitted \in [flows : 0 .. seen, packets : 0 .. processed]

\* A tracked connection is BLOCKED exactly while a rule matches it as it is
\* classified now: the state that processPacket trusts instead of the rules is
\* never stale, through teardown and a second classification too.
BlockedIffRuled ==
    \A f \in Tracked : conns[f].state = "BLOCKED" <=> ShouldBlock(f, conns[f])

\* Every packet is in the record of one connection, which is in the table or
\* was reported when it left: eviction and cleanup neither lose a packet or a
\* connection nor report one twice.
FlowsAccounted ==
    /\ seen = Cardinality(Tracked) + emitted.flows
    /\ processed = PacketsOf(Tracked) + emitted.packets

Closing(p, c) == /\ p.flow.protocol = "TCP"
                 /\ \/ "RST" \in p.flags
                    \/ "ACK" \in p.flags /\ (c.fin \/ "FIN" \in p.flags)

\* A packet of a blocked connection gets through, or a classification
\* changes, only with a packet that closes the connection and has a payload.
BlockHolds ==
    [][ processed' # processed /\ job'[1].flow \in Tracked =>
          LET p == job'[1]  f == p.flow  c == conns[f]
          IN ~(Closing(p, c) /\ HasPayload(p)) =>
               /\ c.state = "BLOCKED" => action' = "DROP"
               /\ c.state \in {"CLASSIFIED", "BLOCKED"} =>
                    conns'[f].app = c.app /\ conns'[f].sni = c.sni ]_vars

\* fast_path.cpp: "If connection is already blocked, drop immediately".
BlockedDropped ==
    [][ processed' # processed /\ job'[1].flow \in Tracked =>
          (conns[job'[1].flow].state = "BLOCKED" => action' = "DROP") ]_vars
=============================================================================
