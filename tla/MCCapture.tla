------------------------------ MODULE MCCapture ------------------------------
(***************************************************************************)
(* CaptureReader, NameExtractor and FastPath together: captures of frames  *)
(* that carry hellos, requests and queries, written here the way a sender  *)
(* writes them, and what the engine must make of them.                     *)
(***************************************************************************)
EXTENDS CaptureReader, NameExtractor, Wire
LOCAL INSTANCE SequencesExt

-----------------------------------------------------------------------------
(* Payloads                                                                *)

CRLF == <<13, 10>>
Zeros(n) == [i \in 1 .. n |-> 0]

Label == <<120>>                    \* "x"
Suffix == <<111, 114, 103>>         \* "org"
Name == Dotted(<<Label, Suffix>>)

\* A client hello with a session identifier, and extensions around the SNI.
Around(before, after) == before \o <<NameExtension(Name)>> \o after
Hello(session, before, after) ==
    ClientHello(Zeros(32), session, <<19, 1>>, <<0>>, Around(before, after))
ALPN == [type |-> 16, data |-> <<5>>]
Versions == [type |-> 43, data |-> <<>>]

\* "GET /", the header and an end of line.
Request(header) == <<71, 69, 84, 32, 47>> \o CRLF \o header \o CRLF
HostColon == <<72, 111, 115, 116, 58>>
SmallHostColon == <<104, 111, 115, 116, 58>>
Port80 == <<58, 56, 48>>

DnsHeader(flags) == <<7, 7, flags, 0>> \o Bytes2(1) \o Zeros(6)
Question(flags) == Query(DnsHeader(flags), <<Label, Suffix>>, Bytes2(1) \o Bytes2(1))

\* They are hellos and queries of the kind that Wire describes.
ASSUME PayloadsAssumption ==
    /\ \A session \in {<<>>, <<9>>}, before \in {<<>>, <<ALPN>>}, after \in {<<>>, <<Versions>>} :
         SoundHello(Zeros(32), session, <<19, 1>>, <<0>>, Around(before, after),
                    Len(before) + 1, Name)
    /\ SoundQuery(DnsHeader(1), <<Label, Suffix>>, Bytes2(1) \o Bytes2(1))

\* What is sent, from and to which port, and the name that it tells.
Message(src, dst, bytes, name) ==
    [protocol |-> IF 443 \in {src, dst} \/ dst \in {80, 8443} THEN TCP ELSE UDP,
     src |-> src, dst |-> dst, bytes |-> bytes, name |-> name]
Sent ==
    [hello |-> Message(5000, 443, Hello(<<>>, <<>>, <<>>), <<Name>>),
     resumed |-> Message(5000, 443, Hello(<<9>>, <<ALPN>>, <<>>), <<Name>>),
     elsewhere |-> Message(5000, 8443, Hello(<<>>, <<>>, <<Versions>>), <<Name>>),
     request |-> Message(5001, 80, Request(HostColon \o <<32>> \o Name \o Port80), <<Name>>),
     small |-> Message(5001, 80, Request(SmallHostColon \o <<9>> \o Name), <<Name>>),
     ack |-> Message(5000, 443, <<>>, None),
     padded |-> Message(5000, 443, Zeros(6), None), \* as a short Ethernet frame is
     answer |-> Message(443, 5000, Zeros(50), None),
     query |-> Message(5002, 53, Question(1), <<Name>>),
     response |-> Message(53, 5002, Question(129), None),
     empty |-> Message(5003, 5004, <<>>, None)]

-----------------------------------------------------------------------------
(* Frames                                                                  *)

Client == 192 + 168 * 256 + 1 * 256 ^ 2 + 100 * 256 ^ 3
Server == 8 + 9 * 256 + 10 * 256 ^ 2 + 11 * 256 ^ 3

\* A message in TCP or UDP over IP, with or without options in the headers.
SoundFrame(id, ihl, data_offset) ==
    LET m == Sent[id]
    IN [ether_type |-> "IPv4", version |-> 4, ihl |-> ihl, protocol |-> m.protocol,
        data_offset |-> data_offset, tcp_flags |-> {"ACK"}, src_ip |-> Client,
        dest_ip |-> Server, src_port |-> m.src, dest_port |-> m.dst, payload |-> id]
Plain(id) == SoundFrame(id, 5, 5)
WithOptions == {SoundFrame("ack", 6, 8), SoundFrame("empty", 6, 5)}
SoundFrames == {Plain(id) : id \in DOMAIN Sent} \cup WithOptions

Arp == [Plain("padded") EXCEPT !.ether_type = "ARP"]
OtherFrames == { Arp, [Plain("padded") EXCEPT !.version = 6],
                 [Plain("padded") EXCEPT !.ihl = 4],
                 [Plain("padded") EXCEPT !.data_offset = 4],
                 [Plain("padded") EXCEPT !.protocol = 1] }

\* The size of a frame as it was sent.
SizeOf(f) == HeaderSize(f) + Len(Sent[f.payload].bytes)

-----------------------------------------------------------------------------
(* Captures                                                                *)

Rec(f, incl_len, there) == [frame |-> f, incl_len |-> incl_len, there |-> there]
Captured(f, size) == Rec(f, size, size)

\* What a capture may hold when at most snaplen bytes of a frame are kept:
\* frames, whole or cut; and a last record of which bytes are missing in the
\* file, or whose length cannot be.
CutFrames == {Plain("hello"), Plain("request"), Plain("query")} \cup WithOptions
Cuts(f) == {0, 13, 14, 33, 34, 37, 38, 41, 42, 53, 54, 57, 58, 60}
             \cup (SizeOf(f) - 9 .. SizeOf(f) - 1)
GoodRecords(snaplen) ==
    LET whole == {Captured(f, SizeOf(f)) : f \in SoundFrames \cup OtherFrames}
        cut == UNION {{Captured(f, n) : n \in {k \in Cuts(f) : k < SizeOf(f)}} :
                        f \in CutFrames}
    IN {r \in whole \cup cut : r.there <= snaplen}
BadRecords(snaplen) ==
    {Rec(Plain("padded"), 60, 20),
     Captured(Plain("padded"), IF snaplen < 65536 THEN snaplen + 1 ELSE 65536 + 60)}

\* Any of these with others in front of it and behind it, so that one may leave
\* something for the next.
Neighbours == {Captured(Plain("empty"), 42), Captured(Plain("padded"), 60),
               Captured(Plain("ack"), 54), Captured(Arp, 60)}
RecordsOf(snaplen) ==
    LET all == GoodRecords(snaplen) \cup BadRecords(snaplen)
    IN {<<r>> : r \in all} \cup (Neighbours \X all)
         \cup (all \X Neighbours \X Neighbours)

File(magic, snaplen, records) == [magic |-> magic, snaplen |-> snaplen, records |-> records]
MCCaptures ==
    {File("other", 64, <<>>)}
      \cup UNION {{File(magic, snaplen, records) : records \in RecordsOf(snaplen)} :
                    magic \in {"native", "swapped"}, snaplen \in {64, 262144}}

-----------------------------------------------------------------------------
(* Properties                                                              *)

\* The bytes that inspectPayload sees.
PayloadOf(j) == LET first == j.payload_offset - HeaderSize(j.data.frame)
                    bytes == Sent[j.data.frame.payload].bytes
                IN SubSeq(bytes, first + 1, first + j.payload_length)

\* The name of a whole hello, request or query is found, wherever it stands among
\* the extensions or headers; of one that is cut, no other name than the beginning
\* of it.
NamesFound ==
    \A i \in DOMAIN jobs :
        LET j == jobs[i]
            found == NameOf(PayloadOf(j), j.tuple.src_port, j.tuple.dst_port)
            sent == Sent[j.data.frame.payload].name
        IN /\ j.data.size = SizeOf(j.data.frame) => found = sent
           /\ found # None => sent # None /\ IsPrefix(found[1], sent[1])

-----------------------------------------------------------------------------
(* From the capture to the decision                                        *)

\* A job as FastPath takes it: the kind of its payload and its name, of which it
\* only matters whether it is the one that was sent.
Found(j) == NameOf(PayloadOf(j), j.tuple.src_port, j.tuple.dst_port)
PayloadKind(t) == CASE t.dst_port = 80 -> "host"
                    [] 53 \in {t.src_port, t.dst_port} -> "query"
                    [] OTHER -> "hello"
Text(name) == IF name = Name THEN "x.org" ELSE "other"
PacketOf(j) ==
    [flow |-> [j.tuple EXCEPT !.protocol = IF @ = TCP THEN "TCP" ELSE "UDP"],
     flags |-> j.tcp_flags,
     payload |-> CASE j.payload_length = 0 -> <<"none", "">>
                   [] j.payload_length # 0 /\ Found(j) = None -> <<"other", "">>
                   [] OTHER -> <<PayloadKind(j.tuple), Text(Found(j)[1])>>]
TuplesOf(js) == {PacketOf(js[i]).flow : i \in DOMAIN js}

\* The decisions of a fast path under the rules r; its table and its counters are
\* not used, the table is the function of Actions.
Fast(r) == INSTANCE FastPath
             WITH rules <- r, RuleSets <- {r}, Flows <- {}, Packets <- {},
                  AppOf <- [n \in {"x.org", "other"} |-> "HTTPS"],
                  MaxConnections <- 100000, MaxPackets <- 0,
                  conns <- <<>>, order <- <<>>, job <- <<>>, action <- "none",
                  processed <- 0, seen <- 0, emitted <- [flows |-> 0, packets |-> 0]

\* What is decided about each job, one after the other.
Actions(r) ==
    LET after(c, p) == Fast(r)!Decide(Fast(r)!UpdateTCPState(c, p), p)
        table[n \in 0 .. Len(jobs)] ==
          IF n = 0 THEN [f \in TuplesOf(jobs) |-> Fast(r)!NewConnection]
          ELSE LET p == PacketOf(jobs[n])
               IN [table[n - 1] EXCEPT ![p.flow] = after(@, p)[2]]
    IN [n \in DOMAIN jobs |->
          LET p == PacketOf(jobs[n]) IN after(table[n - 1][p.flow], p)[1]]

Whole(j) == j.data.size = SizeOf(j.data.frame) /\ Sent[j.data.frame.payload].name # None

\* When the name of a site is blocked, a whole hello, request or query for it is
\* dropped and so is all that follows in its flow, on every port, in a capture of
\* either byte order and whatever the other frames are: unless a payload without
\* the name came first.  An acknowledgement with Ethernet padding is such a
\* payload, one without is not.
SiteBlocked ==
    pc = "done" =>
        LET actions == Actions({<<"domain", "x.org">>})
        IN \A i \in DOMAIN jobs : \A k \in i .. Len(jobs) :
             /\ Whole(jobs[i])
             /\ jobs[k].tuple = jobs[i].tuple
             /\ \A e \in 1 .. i - 1 :
                  jobs[e].tuple = jobs[i].tuple => jobs[e].payload_length = 0
             => actions[k] = "DROP"
=============================================================================
