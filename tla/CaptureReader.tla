---------------------------- MODULE CaptureReader ----------------------------
(***************************************************************************)
(* The reader thread: PcapReader takes the records of a capture one after  *)
(* the other, PacketParser looks for Ethernet, IPv4 and TCP or UDP headers *)
(* in them, and createPacketJob makes a PacketJob of what has a transport  *)
(* header.  The push into the queue of a load balancer is DpiPipeline's.   *)
(*                                                                         *)
(* A frame is given by the header fields that are looked at, with ihl and  *)
(* data_offset in words, and by the bytes that follow the headers.  A      *)
(* record says how many of its bytes are in the file.  Numbers are those   *)
(* that the machine meant which wrote the file.                            *)
(*                                                                         *)
(* A definition that precedes another and is used nowhere is a wrong       *)
(* version of it: with it, a run must find a property violated.            *)
(***************************************************************************)
EXTENDS Integers, Sequences, FiniteSets, FiniteSetsExt, KeptInOrder

CONSTANT Captures  \* the input files: records of magic, snaplen and records

\* The numbers of 32 bits.
Word32 == {n \in Nat : n \div 256 ^ 3 < 256}
IsFrame(f) == /\ {f.version, f.ihl, f.data_offset, f.protocol} \subseteq Nat
              /\ {f.src_ip, f.dest_ip} \subseteq Word32

\* A file is a sequence of records, and holds no more of one than its length.
ASSUME CapturesAssumption ==
    \A c \in Captures :
        /\ c.snaplen \in Word32
        /\ c.records \in Seq({c.records[i] : i \in DOMAIN c.records})
        /\ \A i \in DOMAIN c.records :
             LET r == c.records[i]
             IN IsFrame(r.frame) /\ r.incl_len \in Word32 /\ r.there \in 0 .. r.incl_len

VARIABLES pc,      \* "open", "read" or "done"
          capture, \* the input file
          pos,    \* the record that is read next
          parsed,  \* the ParsedPacket, one for the whole loop
          jobs,    \* the jobs that were pushed, packet_id among their fields
          stats    \* the counters of DPIStats that the reader advances

vars == <<pc, capture, pos, parsed, jobs, stats>>

TCP == 6
UDP == 17

Fresh == [has_ip |-> FALSE, has_tcp |-> FALSE, has_udp |-> FALSE,
          src_ip |-> <<>>, dest_ip |-> <<>>, protocol |-> 0,
          src_port |-> 0, dest_port |-> 0, tcp_flags |-> {}]

Init == /\ pc = "open"
        /\ capture \in Captures
        /\ pos = 1
        /\ parsed = Fresh
        /\ jobs = <<>>
        /\ stats = [total_packets |-> 0, total_bytes |-> 0,
                    tcp_packets |-> 0, udp_packets |-> 0]

-----------------------------------------------------------------------------
(* PcapReader                                                              *)

Byte(n, i) == (n \div 256 ^ i) % 256
Swap32(n) == Byte(n, 0) * 256 ^ 3 + Byte(n, 1) * 256 ^ 2 + Byte(n, 2) * 256 + Byte(n, 3)

\* A number as it is in the file: a machine of the other byte order wrote it the
\* other way round.
Raw(n) == IF capture.magic = "swapped" THEN Swap32(n) ELSE n
\* maybeSwap32.
MaybeSwap(n) == IF capture.magic = "swapped" THEN Swap32(n) ELSE n

\* A file that cannot be opened, or has no known magic number, is no capture.
Open == /\ pc = "open"
        /\ pc' = IF capture.magic \in {"native", "swapped"} THEN "read" ELSE "done"
        /\ UNCHANGED <<capture, pos, parsed, jobs, stats>>

SaneUnswapped(r) == /\ Raw(r.incl_len) <= Raw(capture.snaplen)
                    /\ Raw(r.incl_len) <= 65535
Sane(r) == /\ MaybeSwap(Raw(r.incl_len)) <= MaybeSwap(Raw(capture.snaplen))
           /\ MaybeSwap(Raw(r.incl_len)) <= 65535
Readable(r) == Sane(r) /\ MaybeSwap(Raw(r.incl_len)) <= r.there

\* What readNextPacket delivers, when it returns true: a frame, and how many
\* bytes of it there are.
Record == capture.records[pos]
Frame == Record.frame
Size == MaybeSwap(Raw(Record.incl_len))
ReadNextPacket == pc = "read" /\ pos <= Len(capture.records) /\ Readable(Record)

-----------------------------------------------------------------------------
(* PacketParser                                                            *)

EthernetLength == 14
TransportOffset(f) == EthernetLength + 4 * f.ihl

IPv4Fits(f, size) == /\ size >= EthernetLength + 20
                     /\ f.version = 4
                     /\ f.ihl >= 5
                     /\ size >= TransportOffset(f)
TCPFits(f, size) == /\ size >= TransportOffset(f) + 20
                    /\ f.data_offset >= 5
                    /\ size >= TransportOffset(f) + 4 * f.data_offset
UDPFits(f, size) == size >= TransportOffset(f) + 8

\* Whether parse returns true.
Parses(f, size) ==
    /\ size >= EthernetLength
    /\ f.ether_type = "IPv4" => /\ IPv4Fits(f, size)
                                /\ f.protocol = TCP => TCPFits(f, size)
                                /\ f.protocol = UDP => UDPFits(f, size)

\* ipToString, and parseIP of createPacketJob.
ToDotted(ip) == <<Byte(ip, 0), Byte(ip, 1), Byte(ip, 2), Byte(ip, 3)>>
ParseIP(d) == d[1] + d[2] * 256 + d[3] * 256 ^ 2 + d[4] * 256 ^ 3

\* parse begins with a new ParsedPacket.
ResetNot(p) == p
Reset(p) == Fresh

ParseIPv4(f, p) == [p EXCEPT !.has_ip = TRUE, !.protocol = f.protocol,
                             !.src_ip = ToDotted(f.src_ip),
                             !.dest_ip = ToDotted(f.dest_ip)]
ParsePorts(f, p) == [p EXCEPT !.src_port = f.src_port, !.dest_port = f.dest_port]
ParseTCP(f, p) == [ParsePorts(f, p) EXCEPT !.has_tcp = TRUE, !.tcp_flags = f.tcp_flags]
ParseUDP(f, p) == [ParsePorts(f, p) EXCEPT !.has_udp = TRUE]

\* What parse leaves in a ParsedPacket p that was reset, when it returns true.
Parse(f, p) == LET q == ParseIPv4(f, p)
               IN CASE f.ether_type # "IPv4" -> p
                    [] f.ether_type = "IPv4" /\ f.protocol = TCP -> ParseTCP(f, q)
                    [] f.ether_type = "IPv4" /\ f.protocol = UDP -> ParseUDP(f, q)
                    [] OTHER -> q

-----------------------------------------------------------------------------
(* DPIEngine                                                               *)

\* The offsets are computed a second time, from the data.
PayloadOffset(f, p, size) ==
    LET transport == TransportOffset(f)
    IN CASE p.has_tcp /\ transport + 12 < size -> transport + 4 * f.data_offset
         [] p.has_udp /\ transport + 8 <= size -> transport + 8
         [] OTHER -> 0

PayloadLengthInclusive(offset, size) == IF offset < size THEN size - offset + 1 ELSE 0
PayloadLength(offset, size) == IF offset < size THEN size - offset ELSE 0

CreatePacketJob(f, size, p, id) ==
    LET offset == PayloadOffset(f, p, size)
    IN [packet_id |-> id,
        tuple |-> [src_ip |-> ParseIP(p.src_ip), dst_ip |-> ParseIP(p.dest_ip),
                   src_port |-> p.src_port, dst_port |-> p.dest_port,
                   protocol |-> p.protocol],
        tcp_flags |-> p.tcp_flags,
        data |-> [frame |-> f, size |-> size],
        payload_offset |-> offset,
        payload_length |-> PayloadLength(offset, size)]

HasTransport(p) == p.has_ip /\ (p.has_tcp \/ p.has_udp)

\* What parse leaves in parsed; nothing is read there when it returns false.
Parsed == IF Parses(Frame, Size) THEN Parse(Frame, Reset(parsed)) ELSE Reset(parsed)

\* packet_id counts the jobs, not the records.
PacketId == Len(jobs)

CountUnlessTCP(p, size) ==
    [stats EXCEPT !.total_packets = @ + 1, !.total_bytes = @ + size,
                  !.tcp_packets = IF p.has_udp THEN @ ELSE @ + 1,
                  !.udp_packets = @ + 1]
Count(p, size) ==
    [stats EXCEPT !.total_packets = @ + 1, !.total_bytes = @ + size,
                  !.tcp_packets = IF p.has_tcp THEN @ + 1 ELSE @,
                  !.udp_packets = IF p.has_tcp THEN @ ELSE @ + 1]

\* The loop of readerThreadFunc: a record that does not parse, or has no
\* transport header, is passed over.
SkipPacket == /\ ReadNextPacket
              /\ ~(Parses(Frame, Size) /\ HasTransport(Parsed))
              /\ parsed' = Parsed
              /\ pos' = pos + 1
              /\ UNCHANGED <<pc, capture, jobs, stats>>
PushPacket == /\ ReadNextPacket
              /\ Parses(Frame, Size) /\ HasTransport(Parsed)
              /\ parsed' = Parsed
              /\ jobs' = Append(jobs, CreatePacketJob(Frame, Size, Parsed, PacketId))
              /\ stats' = Count(Parsed, Size)
              /\ pos' = pos + 1
              /\ UNCHANGED <<pc, capture>>

\* The first record that is not whole, or is too long, is the last one.
Finish == /\ pc = "read"
          /\ ~ReadNextPacket
          /\ pc' = "done"
          /\ UNCHANGED <<capture, pos, parsed, jobs, stats>>

Next == Open \/ SkipPacket \/ PushPacket \/ Finish

Spec == Init /\ [][Next]_vars

-----------------------------------------------------------------------------
(* Properties                                                              *)

\* The type invariant: one job at most for each record that was read, and no
\* payload that is not inside the data.
TypeOK ==
    /\ pc \in {"open", "read", "done"}
    /\ pos \in 1 .. 1 + Len(capture.records) /\ Len(jobs) < pos
    /\ {parsed.has_ip, parsed.has_tcp, parsed.has_udp} \subseteq BOOLEAN
    /\ \A i \in DOMAIN jobs :
         jobs[i].payload_offset + jobs[i].payload_length = jobs[i].data.size

\* The headers of a frame that RFC 791, 793 and 768 allow, and their size.
SoundHeaders(f) == /\ f.ether_type = "IPv4" /\ f.version = 4 /\ f.ihl >= 5
                   /\ f.protocol \in {TCP, UDP}
                   /\ f.protocol = TCP => f.data_offset >= 5
HeaderSize(f) == 14 + 4 * f.ihl + (IF f.protocol = TCP THEN 4 * f.data_offset ELSE 8)

\* The records among those that were read which have all of their headers.
HeadersThere(r) == SoundHeaders(r.frame) /\ r.there >= HeaderSize(r.frame)
Complete == {capture.records[i] :
               i \in {k \in DOMAIN capture.records : HeadersThere(capture.records[k])}}
Due == Kept(SubSeq(capture.records, 1, pos - 1), Complete)

JobOf(r, id) ==
    LET f == r.frame
    IN [packet_id |-> id,
        tuple |-> [src_ip |-> f.src_ip, dst_ip |-> f.dest_ip, src_port |-> f.src_port,
                   dst_port |-> f.dest_port, protocol |-> f.protocol],
        tcp_flags |-> IF f.protocol = TCP THEN f.tcp_flags ELSE {},
        data |-> [frame |-> f, size |-> r.there],
        payload_offset |-> HeaderSize(f),
        payload_length |-> r.there - HeaderSize(f)]

Counted(protocol) == {i \in DOMAIN jobs : jobs[i].tuple.protocol = protocol}
Sizes == [i \in DOMAIN jobs |-> jobs[i].data.size]

\* The pipeline gets a job for exactly the records with whole transport headers,
\* in their order and numbered without gaps, each with its own addresses, ports,
\* flags and payload, whatever was in the record before; and the counters that
\* the reports divide by have each of them once in all and once for its protocol.
JobsFaithful ==
    /\ jobs = [i \in DOMAIN Due |-> JobOf(Due[i], i - 1)]
    /\ stats.total_packets = Len(jobs)
    /\ stats.tcp_packets = Cardinality(Counted(TCP))
    /\ stats.udp_packets = Cardinality(Counted(UDP))
    /\ stats.total_bytes = MapThenSumSet(LAMBDA i : Sizes[i], DOMAIN jobs)

\* Whole, and within snaplen and 65535 bytes.
Good(r) == /\ r.there = r.incl_len
           /\ r.incl_len <= capture.snaplen /\ r.incl_len <= 65535

\* In captures of either byte order the reader goes on to the first record that
\* is damaged, and no further: one bad record ends the capture.
EverythingRead ==
    /\ \A i \in 1 .. pos - 1 : Good(capture.records[i])
    /\ pc = "done" /\ pos <= Len(capture.records) =>
         \/ ~Good(capture.records[pos])
         \/ capture.magic \notin {"native", "swapped"}

=============================================================================
