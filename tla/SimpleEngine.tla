---------------------------- MODULE SimpleEngine ----------------------------
(***************************************************************************)
(* The loop of main_working.cpp, "DPI ENGINE v1.0": one thread takes the   *)
(* packets of a capture one after the other and says for each of them what *)
(* its flow is and whether it is blocked.  DpiMt says when the engine with *)
(* threads agrees with it.                                                 *)
(*                                                                         *)
(* A packet has a flow (a five-tuple) and a payload, of TCP or of UDP:     *)
(* <<"hello", n>> holds a TLS client hello with the name n, <<"host", n>>  *)
(* an HTTP request, <<"other", "">> neither.  The name may be empty.       *)
(***************************************************************************)
EXTENDS Integers, Sequences, AppClassifier

CONSTANT AppOf   \* sniToAppType

NewFlow == [app |-> "UNKNOWN", sni |-> "", blocked |-> FALSE]

\* BlockingRules::isBlocked: a domain is looked for anywhere in the name.
IsBlocked(rules, flow, e) ==
    \/ <<"ip", flow.src_ip>> \in rules
    \/ <<"app", e.app>> \in rules
    \/ \E r \in rules : r[1] = "domain" /\ Finds(e.sni, r[2])

\* The name of a flow is looked for, in TCP, as long as it has none and its
\* application is not known, or known by the port only.
TryName(e, p, kind, port, generic) ==
    IF /\ e.app \in {"UNKNOWN", generic}
       /\ e.sni = ""
       /\ p.flow.protocol = "TCP" /\ p.flow.dst_port = port
       /\ p.payload[1] = kind
    THEN [e EXCEPT !.sni = p.payload[2], !.app = AppOf[p.payload[2]]]
    ELSE e

ByPort(f) == CASE 53 \in {f.src_port, f.dst_port} -> "DNS"
               [] 53 \notin {f.src_port, f.dst_port} /\ f.dst_port = 443 -> "HTTPS"
               [] 53 \notin {f.src_port, f.dst_port} /\ f.dst_port = 80 -> "HTTP"
               [] OTHER -> "UNKNOWN"

Classified(e, p) ==
    LET named == TryName(TryName(e, p, "hello", 443, "HTTPS"), p, "host", 80, "HTTP")
    IN IF named.app = "UNKNOWN" THEN [named EXCEPT !.app = ByPort(p.flow)] ELSE named

\* One turn of the loop: the entry of the packet's flow after it.
Processed(rules, e, p) ==
    LET c == Classified(e, p)
    IN [c EXCEPT !.blocked = c.blocked \/ IsBlocked(rules, p.flow, c)]

\* The whole loop: for each packet of the capture the entry of its flow when the
\* packet was forwarded or dropped.
Outcomes(rules, capture) ==
    LET Seen == {capture[i].flow : i \in DOMAIN capture}
        table[n \in 0 .. Len(capture)] ==
          IF n = 0 THEN [f \in Seen |-> NewFlow]
          ELSE [table[n - 1] EXCEPT
                  ![capture[n].flow] = Processed(rules, @, capture[n])]
    IN [n \in DOMAIN capture |-> table[n][capture[n].flow]]
=============================================================================
