------------------------------ MODULE MCDpiMt ------------------------------
(***************************************************************************)
(* A small instance of DpiMt for TLC: the captures of MCLength packets out *)
(* of those that make a difference to the classification of a flow.        *)
(***************************************************************************)
EXTENDS DpiMt, TLC

CONSTANT MCLength     \* packets of a capture

Flow(ip, src, dst, proto) ==
    [src_ip |-> ip, src_port |-> src, dst_port |-> dst, protocol |-> proto]
Https == Flow("client", 50000, 443, "TCP")
Http == Flow("client", 50001, 80, "TCP")
Dns == Flow("resolver", 53, 50002, "UDP")
Quic == Flow("client", 50000, 443, "UDP")
MCFlows == {Https, Http, Dns, Quic}
MCHash == [f \in MCFlows |-> CASE f = Https -> 0 [] f = Http -> 1
                               [] f = Dns -> 2 [] f = Quic -> 5]

MCAppOf == "m.youtube.com" :> "YOUTUBE" @@ "example.org" :> "HTTPS"
           @@ "" :> "UNKNOWN"
ASSUME AppOfAssumption == \A n \in DOMAIN MCAppOf : MCAppOf[n] = SniToAppType(n)

Packet(f, kind, name) == [flow |-> f, payload |-> <<kind, name>>]
MCPackets == { Packet(Https, "other", ""), Packet(Https, "hello", "m.youtube.com"),
               Packet(Http, "other", ""), Packet(Http, "host", "example.org"),
               Packet(Http, "host", ""), Packet(Dns, "other", ""),
               Packet(Quic, "hello", "m.youtube.com") }
MCCaptures == [1 .. MCLength -> MCPackets]

MCRuleSets == {{<<"app", "YOUTUBE">>, <<"ip", "resolver">>},
               {<<"domain", "tube">>, <<"app", "HTTP">>}}
=============================================================================
