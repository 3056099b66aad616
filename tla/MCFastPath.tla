----------------------------- MODULE MCFastPath -----------------------------
(***************************************************************************)
(* Small instances of FastPath for TLC: a TLS connection with both its     *)
(* directions and a DNS flow, and the packets that make a difference.      *)
(***************************************************************************)
EXTENDS Reports, AppClassifier

Https == [src_ip |-> "client", src_port |-> 50000, dst_port |-> 443, protocol |-> "TCP"]
HttpsReply == [src_ip |-> "server", src_port |-> 443, dst_port |-> 50000, protocol |-> "TCP"]
Http == [src_ip |-> "client", src_port |-> 50001, dst_port |-> 80, protocol |-> "TCP"]
Dns == [src_ip |-> "client", src_port |-> 50002, dst_port |-> 53, protocol |-> "UDP"]
MCFlows == {Https, HttpsReply, Http, Dns}

\* Whose site is whose; generate_test_pcap.py visits the first four.
OwnerOf == [n \in {"www.netflix.com", "www.microsoft.com", "www.youtube.com",
                   "www.apple.com", "youtube.com", "example.org"} |->
              CASE n = "www.netflix.com" -> "NETFLIX"
                [] n = "www.microsoft.com" -> "MICROSOFT"
                [] n = "www.apple.com" -> "APPLE"
                [] n = "example.org" -> "HTTPS"
                [] OTHER -> "YOUTUBE"]
MCAppOf == [n \in DOMAIN OwnerOf |-> SniToAppType(n)]

Packet(f, flags, payload) == [flow |-> f, flags |-> flags, payload |-> payload]
None == <<"none", "">>
Other == <<"other", "">>
Hello == <<"hello", "youtube.com">>

\* The TLS connection: handshake, hello, data, and the ways in which it ends.
TlsPackets ==
    {Packet(Https, flags, payload) :
       flags \in {{"ACK"}, {"FIN", "ACK"}, {"RST"}}, payload \in {None, Other, Hello}}
      \cup {Packet(Https, {"SYN"}, None), Packet(HttpsReply, {"SYN", "ACK"}, None),
            Packet(HttpsReply, {"ACK"}, Hello)}

\* Requests and queries, for the names they carry.
NamePackets == {Packet(Http, {"ACK"}, <<"host", "youtube.com">>),
                Packet(Http, {"ACK"}, <<"host", "example.org">>),
                Packet(Http, {"ACK"}, Other),
                Packet(Dns, {}, <<"query", "youtube.com">>),
                Packet(Dns, {}, Other)}

MCPackets == TlsPackets \cup NamePackets
MCRuleSets == {{}, {<<"app", "YOUTUBE">>}, {<<"domain", "youtube.com">>},
               {<<"app", "HTTPS">>, <<"ip", "server">>}, {<<"port", 80>>, <<"app", "UNKNOWN">>}}

\* Two fast paths, one of which has the flows from port 50000.
MCFPOf == [f \in MCFlows |-> IF f.src_port = 50000 THEN 1 ELSE 2]

\* A hello to each site, with the application of any one of them blocked.
SitePackets == {Packet(Https, {"ACK"}, <<"hello", n>>) : n \in DOMAIN OwnerOf}
SiteRules == {{<<"app", OwnerOf[n]>>} : n \in DOMAIN OwnerOf}

\* README: "blockApps: YouTube,Netflix (optional)".  When an application is
\* blocked, a new connection to one of its sites is dropped.
AppBlocked ==
    [][ processed' # processed /\ job'[1].flow \notin Tracked =>
          LET p == job'[1]
          IN p.payload[1] = "hello" /\ <<"app", OwnerOf[p.payload[2]]>> \in rules =>
               action' = "DROP" ]_vars
=============================================================================
