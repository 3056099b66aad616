--------------------------- MODULE CaptureProofs ---------------------------
(***************************************************************************)
(* Proofs about CaptureReader for every set of captures, of either byte    *)
(* order, with any headers and damaged at any place; and, behind them,     *)
(* about NameExtractor for every hello and every query.                    *)
(*                                                                         *)
(* Two conversions are undone by the program itself: the bytes of a number *)
(* that another machine wrote (Raw, MaybeSwap), and the text of an address *)
(* (ToDotted, ParseIP).  RecordFacts then says what one record becomes;    *)
(* the invariant says it of the records up to pos.                         *)
(*                                                                         *)
(* The names follow from where the sender puts the bytes: Has says that    *)
(* they stand at an offset of a payload, Laid that pieces stand one behind *)
(* the other, and the extractors are shown to walk from piece to piece.    *)
(***************************************************************************)
EXTENDS CaptureReader, NameExtractor, Wire, InductionLemmas

-----------------------------------------------------------------------------
(* Numbers of four bytes                                                   *)

Lowest(n) == n % 256
Higher(n) == n \div 256
Under(k, d) == 256 * k + d

LEMMA LowestHigher ==
    ASSUME NEW n \in Nat
    PROVE  /\ Lowest(n) \in ByteValues /\ Higher(n) \in Nat
           /\ n = Under(Higher(n), Lowest(n))
  BY SMT DEF ByteValues, Lowest, Higher, Under

LEMMA Composed ==
    ASSUME NEW k \in Nat, NEW d \in ByteValues
    PROVE  /\ Under(k, d) \in Nat
           /\ Higher(Under(k, d)) = k /\ Lowest(Under(k, d)) = d
  BY SMT DEF ByteValues, Lowest, Higher, Under

LEMMA LowestByte ==
    ASSUME NEW d \in ByteValues
    PROVE  Lowest(d) = d
  BY SMT DEF ByteValues, Lowest

LEMMA ByteFacts ==
    ASSUME NEW n \in Nat
    PROVE  /\ Byte(n, 0) = Lowest(n) /\ Byte(n, 1) = Lowest(Higher(n))
           /\ Byte(n, 2) = Lowest(Higher(Higher(n)))
           /\ Byte(n, 3) = Lowest(Higher(Higher(Higher(n))))
           /\ n \div 256 ^ 3 = Higher(Higher(Higher(n)))
<1>1. 256 ^ 0 = 1 /\ 256 ^ 1 = 256 /\ 256 ^ 2 = 65536 /\ 256 ^ 3 = 16777216
  BY SMT
<1>2. n \div 1 = n /\ n \div 65536 = (n \div 256) \div 256
  BY SMT
<1>3. n \div 16777216 = (n \div 65536) \div 256
  BY SMT
<1>. QED
  BY <1>1, <1>2, <1>3, SMT DEF Byte, Lowest, Higher

\* The number that has these four bytes, the first of them the lowest.
OfBytes(a, b, c, d) == Under(Under(Under(d, c), b), a)
BytesAre(m, a, b, c, d) == /\ Byte(m, 0) = a /\ Byte(m, 1) = b
                           /\ Byte(m, 2) = c /\ Byte(m, 3) = d
Weighed(a, b, c, d) == a + b * 256 + c * 256 ^ 2 + d * 256 ^ 3

LEMMA ValueOf ==
    ASSUME NEW a \in ByteValues, NEW b \in ByteValues, NEW c \in ByteValues, NEW d \in ByteValues
    PROVE  OfBytes(a, b, c, d) = Weighed(a, b, c, d)
<1>1. 256 ^ 2 = 65536 /\ 256 ^ 3 = 16777216
  BY SMT
<1>. QED
  BY <1>1, SMT DEF ByteValues, OfBytes, Under, Weighed

LEMMA BytesOf ==
    ASSUME NEW a \in ByteValues, NEW b \in ByteValues, NEW c \in ByteValues, NEW d \in ByteValues
    PROVE  BytesAre(OfBytes(a, b, c, d), a, b, c, d)
<1>. DEFINE m == OfBytes(a, b, c, d)
            m1 == Under(Under(d, c), b)
            m2 == Under(d, c)
<1>1. m2 \in Nat /\ Higher(m2) = d /\ Lowest(m2) = c
  <2>1. d \in Nat
    BY DEF ByteValues
  <2>. QED
    BY <2>1, Composed
<1>2. m1 \in Nat /\ Higher(m1) = m2 /\ Lowest(m1) = b
  BY <1>1, Composed
<1>3. m \in Nat /\ Higher(m) = m1 /\ Lowest(m) = a
  BY <1>2, Composed DEF OfBytes
<1>. QED
  BY <1>1, <1>2, <1>3, ByteFacts, LowestByte DEF BytesAre

LEMMA WordBytes ==
    ASSUME NEW n \in Word32
    PROVE  /\ Byte(n, 0) \in ByteValues /\ Byte(n, 1) \in ByteValues
           /\ Byte(n, 2) \in ByteValues /\ Byte(n, 3) \in ByteValues
           /\ n = OfBytes(Byte(n, 0), Byte(n, 1), Byte(n, 2), Byte(n, 3))
<1>1. n \in Nat /\ Higher(Higher(Higher(n))) < 256
  BY ByteFacts DEF Word32
<1>. DEFINE n1 == Higher(n)  n2 == Higher(n1)  n3 == Higher(n2)
<1>2. /\ Byte(n, 0) = Lowest(n) /\ Byte(n, 1) = Lowest(n1)
      /\ Byte(n, 2) = Lowest(n2) /\ Byte(n, 3) = Lowest(n3)
  BY <1>1, ByteFacts
<1>3. n1 \in Nat /\ n = Under(n1, Lowest(n)) /\ Lowest(n) \in ByteValues
  BY <1>1, LowestHigher
<1>4. n2 \in Nat /\ n1 = Under(n2, Lowest(n1)) /\ Lowest(n1) \in ByteValues
  BY <1>3, LowestHigher
<1>5. n3 \in Nat /\ n2 = Under(n3, Lowest(n2)) /\ Lowest(n2) \in ByteValues
  BY <1>4, LowestHigher
<1>6. n3 \in ByteValues
  BY <1>1, <1>5 DEF ByteValues
<1>7. Lowest(n3) = n3
  BY <1>6, LowestByte
<1>. HIDE DEF n1, n2, n3
<1>. QED
  BY <1>2, <1>3, <1>4, <1>5, <1>6, <1>7 DEF OfBytes

\* A number of four bytes is made of them, and swapping them twice changes nothing.
LEMMA WordFacts ==
    ASSUME NEW n \in Word32
    PROVE  /\ n = Byte(n, 0) + Byte(n, 1) * 256 + Byte(n, 2) * 256 ^ 2 + Byte(n, 3) * 256 ^ 3
           /\ Swap32(Swap32(n)) = n
<1>. DEFINE a == Byte(n, 0)  b == Byte(n, 1)  c == Byte(n, 2)  d == Byte(n, 3)
            m == OfBytes(d, c, b, a)
<1>1. /\ a \in ByteValues /\ b \in ByteValues /\ c \in ByteValues /\ d \in ByteValues
      /\ n = OfBytes(a, b, c, d)
  BY WordBytes
<1>2. Swap32(n) = a * 256 ^ 3 + b * 256 ^ 2 + c * 256 + d
  BY DEF Swap32
<1>. HIDE DEF a, b, c, d
<1>3. n = Weighed(a, b, c, d)
  BY <1>1, ValueOf
<1>4. /\ m = Weighed(d, c, b, a)
      /\ Byte(m, 0) = d /\ Byte(m, 1) = c /\ Byte(m, 2) = b /\ Byte(m, 3) = a
  <2>1. m = Weighed(d, c, b, a)
    BY <1>1, ValueOf
  <2>2. BytesAre(m, d, c, b, a)
    BY <1>1, BytesOf
  <2>. QED
    BY <2>1, <2>2 DEF BytesAre
<1>. HIDE DEF m
<1>5. /\ m = d + c * 256 + b * 65536 + a * 16777216
      /\ n = a + b * 256 + c * 65536 + d * 16777216
  <2>1. 256 ^ 2 = 65536 /\ 256 ^ 3 = 16777216
    BY SMT
  <2>. QED
    BY <1>3, <1>4, <2>1, SMT DEF Weighed
<1>6. Swap32(n) = m
  <2>1. Swap32(n) = a * 16777216 + b * 65536 + c * 256 + d
    BY <1>2, SMT
  <2>. QED
    BY <1>1, <1>5, <2>1, SMT DEF ByteValues
<1>7. Swap32(m) = n
  <2>1. Swap32(m) = d * 256 ^ 3 + c * 256 ^ 2 + b * 256 + a
    BY <1>4 DEF Swap32
  <2>2. Swap32(m) = d * 16777216 + c * 65536 + b * 256 + a
    BY <2>1, SMT
  <2>. QED
    BY <1>1, <1>5, <2>2, SMT DEF ByteValues
<1>8. n = Byte(n, 0) + Byte(n, 1) * 256 + Byte(n, 2) * 256 ^ 2 + Byte(n, 3) * 256 ^ 3
  BY <1>3 DEF Weighed, a, b, c, d
<1>. QED
  BY <1>6, <1>7, <1>8

\* What is read is what was written, in a file of either byte order.
LEMMA SwapFacts ==
    ASSUME NEW n \in Word32
    PROVE  MaybeSwap(Raw(n)) = n
  BY WordFacts DEF MaybeSwap, Raw

\* An address that was made a text and read again is the same.
LEMMA AddressFacts ==
    ASSUME NEW ip \in Word32
    PROVE  ParseIP(ToDotted(ip)) = ip
<1>1. ToDotted(ip)[1] = Byte(ip, 0) /\ ToDotted(ip)[2] = Byte(ip, 1)
      /\ ToDotted(ip)[3] = Byte(ip, 2) /\ ToDotted(ip)[4] = Byte(ip, 3)
  BY DEF ToDotted
<1>. QED
  BY <1>1, WordFacts DEF ParseIP

-----------------------------------------------------------------------------
(* The parser                                                              *)

\* One field of a record is set and no other changes.
SetTo(p, q, field, value) == /\ DOMAIN q = DOMAIN p /\ q[field] = value
                             /\ \A x \in DOMAIN p \ {field} : q[x] = p[x]

LEMMA SetField ==
    ASSUME NEW p, NEW field \in DOMAIN p, NEW value
    PROVE  SetTo(p, [p EXCEPT ![field] = value], field, value)
  BY DEF SetTo

ParsedFields == {"has_ip", "has_tcp", "has_udp", "src_ip", "dest_ip", "protocol",
                 "src_port", "dest_port", "tcp_flags"}

\* What q has of the headers of f, and what it still has of p.
IPv4Of(q, f, p) ==
    /\ DOMAIN q = ParsedFields
    /\ q.has_ip = TRUE /\ q.protocol = f.protocol
    /\ q.src_ip = ToDotted(f.src_ip) /\ q.dest_ip = ToDotted(f.dest_ip)
    /\ q.has_tcp = p.has_tcp /\ q.has_udp = p.has_udp
    /\ q.tcp_flags = p.tcp_flags
KeepsIPv4(q, p) ==
    /\ q.has_ip = p.has_ip /\ q.protocol = p.protocol
    /\ q.src_ip = p.src_ip /\ q.dest_ip = p.dest_ip
TCPOf(q, f, p) ==
    /\ q.has_tcp = TRUE /\ q.tcp_flags = f.tcp_flags
    /\ q.src_port = f.src_port /\ q.dest_port = f.dest_port
    /\ q.has_udp = p.has_udp /\ KeepsIPv4(q, p)
UDPOf(q, f, p) ==
    /\ q.has_udp = TRUE
    /\ q.src_port = f.src_port /\ q.dest_port = f.dest_port
    /\ q.has_tcp = p.has_tcp /\ q.tcp_flags = p.tcp_flags /\ KeepsIPv4(q, p)

LEMMA IPv4Parsed ==
    ASSUME NEW f, NEW p, DOMAIN p = ParsedFields
    PROVE  IPv4Of(ParseIPv4(f, p), f, p)
<1>. DEFINE a == [p EXCEPT !.has_ip = TRUE]
            b == [a EXCEPT !.protocol = f.protocol]
            c == [b EXCEPT !.src_ip = ToDotted(f.src_ip)]
            d == [c EXCEPT !.dest_ip = ToDotted(f.dest_ip)]
<1>1. ParseIPv4(f, p) = d
  BY DEF ParseIPv4
<1>2. SetTo(p, a, "has_ip", TRUE)
  BY SetField DEF ParsedFields
<1>. HIDE DEF a
<1>3. SetTo(a, b, "protocol", f.protocol)
  BY <1>2, SetField DEF ParsedFields, SetTo
<1>. HIDE DEF b
<1>4. SetTo(b, c, "src_ip", ToDotted(f.src_ip))
  BY <1>2, <1>3, SetField DEF ParsedFields, SetTo
<1>. HIDE DEF c
<1>5. SetTo(c, d, "dest_ip", ToDotted(f.dest_ip))
  BY <1>2, <1>3, <1>4, SetField DEF ParsedFields, SetTo
<1>. HIDE DEF d
<1>. QED
  BY <1>1, <1>2, <1>3, <1>4, <1>5 DEF ParsedFields, SetTo, IPv4Of

LEMMA PortsParsed ==
    ASSUME NEW f, NEW p, DOMAIN p = ParsedFields
    PROVE  LET q == ParsePorts(f, p)
           IN /\ DOMAIN q = ParsedFields
              /\ q.src_port = f.src_port /\ q.dest_port = f.dest_port
              /\ \A x \in ParsedFields \ {"src_port", "dest_port"} : q[x] = p[x]
<1>. DEFINE a == [p EXCEPT !.src_port = f.src_port]
            b == [a EXCEPT !.dest_port = f.dest_port]
<1>1. ParsePorts(f, p) = b
  BY DEF ParsePorts
<1>2. SetTo(p, a, "src_port", f.src_port)
  BY SetField DEF ParsedFields
<1>. HIDE DEF a
<1>3. SetTo(a, b, "dest_port", f.dest_port)
  BY <1>2, SetField DEF ParsedFields, SetTo
<1>. HIDE DEF b
<1>. QED
  BY <1>1, <1>2, <1>3 DEF ParsedFields, SetTo

LEMMA TransportParsed ==
    ASSUME NEW f, NEW p, DOMAIN p = ParsedFields
    PROVE  TCPOf(ParseTCP(f, p), f, p) /\ UDPOf(ParseUDP(f, p), f, p)
<1>. DEFINE a == ParsePorts(f, p)
            b == [a EXCEPT !.has_tcp = TRUE]
            c == [b EXCEPT !.tcp_flags = f.tcp_flags]
            d == [a EXCEPT !.has_udp = TRUE]
<1>1. ParseTCP(f, p) = c /\ ParseUDP(f, p) = d
  BY DEF ParseTCP, ParseUDP
<1>2. /\ DOMAIN a = ParsedFields
      /\ a.src_port = f.src_port /\ a.dest_port = f.dest_port
      /\ \A x \in ParsedFields \ {"src_port", "dest_port"} : a[x] = p[x]
  BY PortsParsed
<1>. HIDE DEF a
<1>3. SetTo(a, b, "has_tcp", TRUE) /\ SetTo(a, d, "has_udp", TRUE)
  BY <1>2, SetField DEF ParsedFields
<1>. HIDE DEF b, d
<1>4. SetTo(b, c, "tcp_flags", f.tcp_flags)
  BY <1>2, <1>3, SetField DEF ParsedFields, SetTo
<1>. HIDE DEF c
<1>5. TCPOf(c, f, p)
  BY <1>2, <1>3, <1>4 DEF ParsedFields, SetTo, TCPOf, KeepsIPv4
<1>6. UDPOf(d, f, p)
  BY <1>2, <1>3 DEF ParsedFields, SetTo, UDPOf, KeepsIPv4
<1>. QED
  BY <1>1, <1>5, <1>6

\* What the parser makes of a frame, from an empty ParsedPacket.
LEMMA ParsedFacts ==
    ASSUME NEW f
    PROVE  LET p == Parse(f, Fresh)
           IN /\ p.has_ip <=> f.ether_type = "IPv4"
              /\ p.has_tcp <=> f.ether_type = "IPv4" /\ f.protocol = TCP
              /\ p.has_udp <=> f.ether_type = "IPv4" /\ f.protocol = UDP
              /\ {p.has_ip, p.has_tcp, p.has_udp} \subseteq BOOLEAN
              /\ p.has_ip /\ (p.has_tcp \/ p.has_udp) =>
                   /\ p.src_ip = ToDotted(f.src_ip) /\ p.dest_ip = ToDotted(f.dest_ip)
                   /\ p.protocol = f.protocol
                   /\ p.src_port = f.src_port /\ p.dest_port = f.dest_port
                   /\ p.tcp_flags = IF f.protocol = TCP THEN f.tcp_flags ELSE {}
<1>. DEFINE q == ParseIPv4(f, Fresh)
            p == Parse(f, Fresh)
<1>1. /\ DOMAIN Fresh = ParsedFields
      /\ Fresh.has_ip = FALSE /\ Fresh.has_tcp = FALSE /\ Fresh.has_udp = FALSE
      /\ Fresh.tcp_flags = {}
  BY DEF Fresh, ParsedFields
<1>2. IPv4Of(q, f, Fresh)
  BY <1>1, IPv4Parsed
<1>3. TCP # UDP
  BY DEF TCP, UDP
<1>4. /\ f.ether_type # "IPv4" => p = Fresh
      /\ f.ether_type = "IPv4" /\ f.protocol = TCP => p = ParseTCP(f, q)
      /\ f.ether_type = "IPv4" /\ f.protocol = UDP => p = ParseUDP(f, q)
      /\ f.ether_type = "IPv4" /\ f.protocol \notin {TCP, UDP} => p = q
  BY <1>3 DEF Parse
<1>. HIDE DEF p, q
<1>5. CASE f.ether_type # "IPv4"
  BY <1>1, <1>4, <1>5 DEF p
<1>6. CASE f.ether_type = "IPv4" /\ f.protocol = TCP
  <2>1. /\ p.has_ip = TRUE /\ p.has_tcp = TRUE /\ p.has_udp = FALSE
        /\ p.src_ip = ToDotted(f.src_ip) /\ p.dest_ip = ToDotted(f.dest_ip)
        /\ p.protocol = f.protocol /\ p.tcp_flags = f.tcp_flags
        /\ p.src_port = f.src_port /\ p.dest_port = f.dest_port
    <3>1. TCPOf(p, f, q)
      BY <1>2, <1>4, <1>6, TransportParsed DEF IPv4Of
    <3>. QED
      BY <1>1, <1>2, <3>1 DEF TCPOf, KeepsIPv4, IPv4Of
  <2>. QED
    BY <1>3, <1>6, <2>1 DEF p
<1>7. CASE f.ether_type = "IPv4" /\ f.protocol = UDP
  <2>1. /\ p.has_ip = TRUE /\ p.has_tcp = FALSE /\ p.has_udp = TRUE
        /\ p.src_ip = ToDotted(f.src_ip) /\ p.dest_ip = ToDotted(f.dest_ip)
        /\ p.protocol = f.protocol /\ p.tcp_flags = {}
        /\ p.src_port = f.src_port /\ p.dest_port = f.dest_port
    <3>1. UDPOf(p, f, q)
      BY <1>2, <1>4, <1>7, TransportParsed DEF IPv4Of
    <3>. QED
      BY <1>1, <1>2, <3>1 DEF UDPOf, KeepsIPv4, IPv4Of
  <2>. QED
    BY <1>3, <1>7, <2>1 DEF p
<1>8. CASE f.ether_type = "IPv4" /\ f.protocol \notin {TCP, UDP}
  BY <1>1, <1>2, <1>4, <1>8 DEF p, IPv4Of
<1>. QED
  BY <1>5, <1>6, <1>7, <1>8

\* A record with all of its headers, and no other, becomes a job, and that job has
\* what is in the record.
LEMMA RecordFacts ==
    ASSUME NEW r, IsFrame(r.frame), r.there \in Nat, NEW id
    PROVE  LET f == r.frame  p == Parse(f, Fresh)
           IN /\ Parses(f, r.there) /\ HasTransport(p) <=> HeadersThere(r)
              /\ HeadersThere(r) => CreatePacketJob(f, r.there, p, id) = JobOf(r, id)
              /\ HeadersThere(r) => (p.has_tcp <=> f.protocol = TCP)
<1>. DEFINE f == r.frame
            p == Parse(f, Fresh)
            size == r.there
            offset == PayloadOffset(f, p, size)
<1>1. /\ p.has_ip <=> f.ether_type = "IPv4"
      /\ p.has_tcp <=> f.ether_type = "IPv4" /\ f.protocol = TCP
      /\ p.has_udp <=> f.ether_type = "IPv4" /\ f.protocol = UDP
      /\ HasTransport(p) =>
           /\ p.src_ip = ToDotted(f.src_ip) /\ p.dest_ip = ToDotted(f.dest_ip)
           /\ p.protocol = f.protocol
           /\ p.src_port = f.src_port /\ p.dest_port = f.dest_port
           /\ p.tcp_flags = IF f.protocol = TCP THEN f.tcp_flags ELSE {}
  BY ParsedFacts DEF HasTransport
<1>. HIDE DEF p
<1>2. /\ f.version \in Nat /\ f.ihl \in Nat /\ f.data_offset \in Nat /\ f.protocol \in Nat
      /\ f.src_ip \in Word32 /\ f.dest_ip \in Word32 /\ size \in Nat
  BY DEF IsFrame
<1>3. HasTransport(p) <=> f.ether_type = "IPv4" /\ f.protocol \in {TCP, UDP}
  BY <1>1 DEF HasTransport
<1>4. Parses(f, size) /\ HasTransport(p) <=> HeadersThere(r)
  BY <1>2, <1>3 DEF Parses, HeadersThere, SoundHeaders, HeaderSize, IPv4Fits, TCPFits,
       UDPFits, TransportOffset, EthernetLength, TCP, UDP
<1>5. ASSUME HeadersThere(r) PROVE CreatePacketJob(f, size, p, id) = JobOf(r, id)
  <2>1. HasTransport(p) /\ f.ether_type = "IPv4" /\ f.protocol \in {TCP, UDP}
    BY <1>3, <1>4, <1>5
  <2>2. offset = HeaderSize(f) /\ HeaderSize(f) \in Nat /\ size >= HeaderSize(f)
    <3>1. size >= HeaderSize(f) /\ f.ihl >= 5 /\ (f.protocol = TCP => f.data_offset >= 5)
      BY <1>5 DEF HeadersThere, SoundHeaders
    <3>2. CASE f.protocol = TCP
      <4>1. p.has_tcp /\ TransportOffset(f) + 12 < size
        BY <1>1, <1>2, <2>1, <3>1, <3>2 DEF HeaderSize, TransportOffset, EthernetLength
      <4>2. ~p.has_udp
        BY <1>1, <3>2 DEF TCP, UDP
      <4>3. offset = TransportOffset(f) + 4 * f.data_offset
        BY <4>1, <4>2 DEF PayloadOffset
      <4>. QED
        BY <1>2, <3>1, <3>2, <4>3 DEF HeaderSize, TransportOffset, EthernetLength
    <3>3. CASE f.protocol = UDP
      BY <1>1, <1>2, <2>1, <3>1, <3>3
         DEF PayloadOffset, HeaderSize, TransportOffset, EthernetLength, TCP, UDP
    <3>. QED
      BY <2>1, <3>2, <3>3
  <2>3. PayloadLength(offset, size) = size - HeaderSize(f)
    BY <1>2, <2>2 DEF PayloadLength
  <2>4. ParseIP(p.src_ip) = f.src_ip /\ ParseIP(p.dest_ip) = f.dest_ip
    BY <1>1, <1>2, <2>1, AddressFacts
  <2>. HIDE DEF offset
  <2>5. CreatePacketJob(f, size, p, id) =
          [packet_id |-> id,
           tuple |-> [src_ip |-> ParseIP(p.src_ip), dst_ip |-> ParseIP(p.dest_ip),
                      src_port |-> p.src_port, dst_port |-> p.dest_port,
                      protocol |-> p.protocol],
           tcp_flags |-> p.tcp_flags,
           data |-> [frame |-> f, size |-> size],
           payload_offset |-> offset,
           payload_length |-> PayloadLength(offset, size)]
    BY DEF CreatePacketJob, offset
  <2>. QED
    BY <1>1, <2>1, <2>2, <2>3, <2>4, <2>5 DEF JobOf
<1>6. HeadersThere(r) => (p.has_tcp <=> f.protocol = TCP)
  BY <1>1 DEF HeadersThere, SoundHeaders
<1>. QED
  BY <1>4, <1>5, <1>6 DEF p

-----------------------------------------------------------------------------
(* The reader                                                              *)

RecordSet(c) == {c.records[i] : i \in DOMAIN c.records}

LEMMA RecordTypes ==
    ASSUME NEW c \in Captures
    PROVE  /\ c.snaplen \in Word32
           /\ c.records \in Seq(RecordSet(c))
           /\ Len(c.records) \in Nat /\ DOMAIN c.records = 1 .. Len(c.records)
           /\ \A r \in RecordSet(c) : /\ IsFrame(r.frame) /\ r.incl_len \in Word32
                                      /\ r.there \in Nat /\ r.there <= r.incl_len
<1>1. /\ c.snaplen \in Word32 /\ c.records \in Seq(RecordSet(c))
      /\ \A r \in RecordSet(c) : /\ IsFrame(r.frame) /\ r.incl_len \in Word32
                                 /\ r.there \in 0 .. r.incl_len
  BY CapturesAssumption DEF RecordSet
<1>2. \A n \in Word32 : n \in Nat
  BY DEF Word32
<1>3. Len(c.records) \in Nat /\ DOMAIN c.records = 1 .. Len(c.records)
  BY <1>1
<1>4. ASSUME NEW r \in RecordSet(c) PROVE r.there \in Nat /\ r.there <= r.incl_len
  BY <1>1, <1>2
<1>. QED
  BY <1>1, <1>3, <1>4

\* The reader takes the records that are whole, as they are.
LEMMA ReadFacts ==
    ASSUME capture \in Captures, pos \in DOMAIN capture.records
    PROVE  /\ Readable(Record) <=> Good(Record)
           /\ Readable(Record) => Size = Record.there
<1>1. /\ capture.snaplen \in Word32 /\ Record.incl_len \in Word32
      /\ Record.there \in Nat /\ Record.there <= Record.incl_len
  BY RecordTypes DEF Record, RecordSet
<1>2. /\ MaybeSwap(Raw(capture.snaplen)) = capture.snaplen
      /\ MaybeSwap(Raw(Record.incl_len)) = Record.incl_len
  BY <1>1, SwapFacts
<1>3. Record.incl_len \in Nat /\ capture.snaplen \in Nat
  BY <1>1 DEF Word32
<1>. QED
  BY <1>1, <1>2, <1>3 DEF Readable, Sane, Good, Size

LEMMA DueTyped ==
    ASSUME capture \in Captures, pos \in 1 .. 1 + Len(capture.records)
    PROVE  /\ SubSeq(capture.records, 1, pos - 1) \in Seq(RecordSet(capture))
           /\ Due \in Seq(RecordSet(capture))
<1>. DEFINE rs == capture.records
            T == RecordSet(capture)
            s == SubSeq(rs, 1, pos - 1)
<1>1. Len(rs) \in Nat /\ pos \in Nat /\ \A i \in 1 .. pos - 1 : rs[i] \in T
  <2>1. Len(rs) \in Nat /\ DOMAIN rs = 1 .. Len(rs)
    BY RecordTypes
  <2>2. pos \in Nat /\ \A i \in 1 .. pos - 1 : i \in DOMAIN rs
    BY <2>1
  <2>. QED
    BY <2>1, <2>2 DEF RecordSet
<1>. HIDE DEF rs, T
<1>2. s \in Seq(T)
  BY <1>1, SubSeqProperties
<1>. HIDE DEF s
<1>3. Kept(s, Complete) \in Seq(T)
  BY <1>2, KeptFacts
<1>. QED
  BY <1>2, <1>3 DEF Due, rs, T, s

\* One record more was read.
LEMMA DueFacts ==
    ASSUME capture \in Captures, pos \in DOMAIN capture.records
    PROVE  /\ Due \in Seq(RecordSet(capture))
           /\ Kept(SubSeq(capture.records, 1, pos), Complete)
                = IF HeadersThere(Record) THEN Append(Due, Record) ELSE Due
<1>. DEFINE rs == capture.records
            T == RecordSet(capture)
            s == SubSeq(rs, 1, pos - 1)
<1>1. rs \in Seq(T) /\ Len(rs) \in Nat /\ pos \in 1 .. Len(rs) /\ rs[pos] \in T
  BY RecordTypes DEF RecordSet
<1>2. s \in Seq(T) /\ Due \in Seq(T)
  BY <1>1, DueTyped
<1>3. SubSeq(rs, 1, pos) = Append(s, rs[pos])
  <2>. HIDE DEF rs, T
  <2>1. 1 \in 1 .. Len(rs)
    BY <1>1
  <2>2. SubSeq(rs, 1, pos) = SubSeq(rs, 1, pos - 1) \o <<rs[pos]>>
    BY <1>1, <2>1, SubSeqRecursiveSecond
  <2>. QED
    BY <1>1, <1>2, <2>2, AppendIsConcat
<1>4. rs[pos] \in Complete <=> HeadersThere(rs[pos])
  BY <1>1 DEF Complete, RecordSet
<1>. HIDE DEF rs, T, s
<1>5. Kept(Append(s, rs[pos]), Complete)
        = IF rs[pos] \in Complete THEN Append(Kept(s, Complete), rs[pos])
                                  ELSE Kept(s, Complete)
  <2>. DEFINE r == rs[pos]
              C == Complete
  <2>1. r \in T
    BY <1>1
  <2>. HIDE DEF r, C
  <2>2. Kept(Append(s, r), C) = IF r \in C THEN Append(Kept(s, C), r) ELSE Kept(s, C)
    BY <1>2, <2>1, KeptAppend
  <2>. QED
    BY <2>2 DEF r, C
<1>. QED
  BY <1>2, <1>3, <1>4, <1>5 DEF Due, Record, rs, T, s

\* The jobs of the records d, in their order.
JobsOf(d) == [i \in DOMAIN d |-> JobOf(d[i], i - 1)]

LEMMA JobsTyped ==
    ASSUME NEW T, NEW d \in Seq(T)
    PROVE  /\ Len(JobsOf(d)) = Len(d) /\ DOMAIN JobsOf(d) = 1 .. Len(d)
           /\ JobsOf(d) \in Seq({JobsOf(d)[i] : i \in DOMAIN JobsOf(d)})
<1>. DEFINE j == JobsOf(d)
            U == {j[i] : i \in DOMAIN j}
<1>1. Len(d) \in Nat /\ DOMAIN d = 1 .. Len(d)
  BY LenProperties
<1>2. DOMAIN j = 1 .. Len(d) /\ j = [i \in 1 .. Len(d) |-> j[i]]
  BY <1>1 DEF JobsOf
<1>. HIDE DEF j
<1>3. j \in [1 .. Len(d) -> U]
  BY <1>2
<1>4. j \in Seq(U)
  BY <1>1, <1>3
<1>. QED
  BY <1>1, <1>2, <1>4, LenProperties DEF j

LEMMA JobsAppend ==
    ASSUME NEW T, NEW d \in Seq(T), NEW r \in T
    PROVE  /\ Len(JobsOf(d)) = Len(d) /\ DOMAIN JobsOf(d) = 1 .. Len(d)
           /\ Append(JobsOf(d), JobOf(r, Len(d))) = JobsOf(Append(d, r))
<1>. DEFINE j == JobsOf(d)
            e == Append(d, r)
            U == {j[i] : i \in DOMAIN j} \cup {JobOf(r, Len(d))}
<1>1. /\ Len(d) \in Nat /\ DOMAIN d = 1 .. Len(d)
      /\ DOMAIN e = 1 .. Len(d) + 1 /\ e[Len(d) + 1] = r
      /\ \A i \in 1 .. Len(d) : e[i] = d[i]
  BY AppendProperties
<1>2. DOMAIN j = 1 .. Len(d) /\ \A i \in 1 .. Len(d) : j[i] = JobOf(d[i], i - 1)
  BY <1>1 DEF JobsOf
<1>3. /\ DOMAIN JobsOf(e) = 1 .. Len(d) + 1
      /\ \A i \in 1 .. Len(d) + 1 : JobsOf(e)[i] = JobOf(e[i], i - 1)
      /\ JobsOf(e) = [i \in 1 .. Len(d) + 1 |-> JobsOf(e)[i]]
  <2>. HIDE DEF e
  <2>. QED
    BY <1>1 DEF JobsOf
<1>4. j \in Seq(U) /\ Len(j) = Len(d)
  <2>1. j = [i \in 1 .. Len(d) |-> j[i]]
    BY <1>1, <1>2 DEF JobsOf
  <2>. HIDE DEF j
  <2>2. \A i \in 1 .. Len(d) : j[i] \in U
    BY <1>2
  <2>. HIDE DEF U
  <2>3. j \in [1 .. Len(d) -> U]
    BY <2>1, <2>2
  <2>. QED
    BY <1>1, <1>2, <2>3, LenProperties
<1>5. JobOf(r, Len(d)) \in U
  OBVIOUS
<1>. HIDE DEF j, e, U
<1>. DEFINE a == Append(j, JobOf(r, Len(d)))
<1>6. /\ DOMAIN a = 1 .. Len(d) + 1 /\ a[Len(d) + 1] = JobOf(r, Len(d))
      /\ a \in Seq(U)
      /\ \A i \in 1 .. Len(d) : a[i] = j[i]
  BY <1>1, <1>4, <1>5, AppendProperties, LenProperties
<1>. HIDE DEF a
<1>7. \A i \in 1 .. Len(d) + 1 : a[i] = JobsOf(e)[i]
  <2>1. \A i \in 1 .. Len(d) + 1 : i \in 1 .. Len(d) \/ i = Len(d) + 1
    BY <1>1
  <2>2. (Len(d) + 1) - 1 = Len(d) /\ Len(d) + 1 \in 1 .. Len(d) + 1
    BY <1>1
  <2>3. a[Len(d) + 1] = JobsOf(e)[Len(d) + 1]
    BY <1>1, <1>3, <1>6, <2>2
  <2>4. ASSUME NEW i \in 1 .. Len(d) PROVE a[i] = JobsOf(e)[i]
    <3>1. i \in 1 .. Len(d) + 1
      BY <1>1
    <3>. QED
      BY <1>1, <1>2, <1>3, <1>6, <3>1
  <2>. QED
    BY <2>1, <2>3, <2>4
<1>8. a = JobsOf(e)
  <2>1. a = [i \in 1 .. Len(d) + 1 |-> a[i]]
    BY <1>6
  <2>. QED
    BY <1>3, <1>7, <2>1
<1>. QED
  BY <1>2, <1>4, <1>8 DEF a, j, e

\* The counters of the jobs in a sequence.
OfProtocol(j, protocol) == {i \in DOMAIN j : j[i].tuple.protocol = protocol}
SizesOf(j) == [i \in DOMAIN j |-> j[i].data.size]

\* k is j with one job more, and its counters are greater by that job.
OneMore(j, k, n) ==
    /\ DOMAIN j = 1 .. n /\ DOMAIN k = 1 .. n + 1
    /\ \A i \in 1 .. n : k[i] = j[i] /\ j[i].data.size \in Nat
    /\ k[n + 1].data.size \in Nat
CountsOneMore(j, k, job) ==
    /\ \A protocol \in {TCP, UDP} :
         Cardinality(OfProtocol(k, protocol)) = IF job.tuple.protocol = protocol
                                                THEN Cardinality(OfProtocol(j, protocol)) + 1
                                                ELSE Cardinality(OfProtocol(j, protocol))
    /\ Total(SizesOf(k), DOMAIN k) = Total(SizesOf(j), DOMAIN j) + job.data.size

LEMMA CountersAppend ==
    ASSUME NEW n \in Nat, NEW j, NEW k, OneMore(j, k, n)
    PROVE  CountsOneMore(j, k, k[n + 1])
<1>0. /\ DOMAIN j = 1 .. n /\ DOMAIN k = 1 .. n + 1
      /\ \A i \in 1 .. n : k[i] = j[i] /\ j[i].data.size \in Nat
      /\ k[n + 1].data.size \in Nat
  BY DEF OneMore
<1>1. /\ IsFiniteSet(1 .. n) /\ IsFiniteSet(1 .. n + 1) /\ n + 1 \notin 1 .. n
      /\ n + 1 \in 1 .. n + 1 /\ (1 .. n + 1) \ {n + 1} = 1 .. n
  <2>1. 1 \in Int /\ n \in Int /\ n + 1 \in Int
    OBVIOUS
  <2>2. IsFiniteSet(1 .. n) /\ IsFiniteSet(1 .. n + 1)
    BY <2>1, FS_Interval
  <2>. QED
    BY <2>2
<1>2. ASSUME NEW protocol \in {TCP, UDP}
      PROVE  Cardinality(OfProtocol(k, protocol))
               = IF k[n + 1].tuple.protocol = protocol
                 THEN Cardinality(OfProtocol(j, protocol)) + 1
                 ELSE Cardinality(OfProtocol(j, protocol))
  <2>1. /\ OfProtocol(j, protocol) \subseteq 1 .. n
        /\ OfProtocol(k, protocol) = IF k[n + 1].tuple.protocol = protocol
                                     THEN OfProtocol(j, protocol) \cup {n + 1}
                                     ELSE OfProtocol(j, protocol)
    BY <1>0 DEF OfProtocol
  <2>2. IsFiniteSet(OfProtocol(j, protocol)) /\ n + 1 \notin OfProtocol(j, protocol)
    BY <1>1, <2>1, FS_Subset
  <2>. QED
    BY <2>1, <2>2, FS_AddElement
<1>3. /\ \A i \in 1 .. n : SizesOf(j)[i] = j[i].data.size /\ SizesOf(k)[i] = SizesOf(j)[i]
      /\ SizesOf(k)[n + 1] = k[n + 1].data.size
  BY <1>0, <1>1 DEF SizesOf
<1>4. Total(SizesOf(j), 1 .. n) \in Nat /\ Total(SizesOf(k), 1 .. n) = Total(SizesOf(j), 1 .. n)
  BY <1>0, <1>1, <1>3, TotalRemove, TotalSame
<1>5. Total(SizesOf(k), 1 .. n + 1) = SizesOf(k)[n + 1] + Total(SizesOf(k), 1 .. n)
  <2>1. \A i \in 1 .. n + 1 : SizesOf(k)[i] \in Nat
    <3>1. \A i \in 1 .. n + 1 : i \in 1 .. n \/ i = n + 1
      OBVIOUS
    <3>. QED
      BY <1>0, <1>3, <3>1
  <2>. DEFINE g == SizesOf(k)
              S == 1 .. n + 1
  <2>2. IsFiniteSet(S) /\ (\A i \in S : g[i] \in Nat) /\ n + 1 \in S
    BY <1>1, <2>1
  <2>. HIDE DEF g, S
  <2>3. \A x \in S : Total(g, S) = g[x] + Total(g, S \ {x})
    BY <2>2, TotalRemove
  <2>4. Total(g, S) = g[n + 1] + Total(g, S \ {n + 1})
    BY <2>2, <2>3
  <2>. QED
    BY <1>1, <2>4 DEF g, S
<1>. QED
  BY <1>0, <1>2, <1>3, <1>4, <1>5 DEF CountsOneMore

LEMMA CountersEmpty ==
    ASSUME NEW j, DOMAIN j = {}
    PROVE  /\ \A protocol \in {TCP, UDP} : Cardinality(OfProtocol(j, protocol)) = 0
           /\ Total(SizesOf(j), DOMAIN j) = 0
<1>1. \A protocol \in {TCP, UDP} : OfProtocol(j, protocol) = {}
  BY DEF OfProtocol
<1>2. Total(SizesOf(j), {}) = 0
  BY FS_EmptySet, TotalRemove
<1>. QED
  BY <1>1, <1>2, FS_EmptySet

\* What Count makes of the counters.
LEMMA CountFacts ==
    ASSUME NEW p, NEW size,
           DOMAIN stats = {"total_packets", "total_bytes", "tcp_packets", "udp_packets"}
    PROVE  LET c == Count(p, size)
           IN /\ DOMAIN c = DOMAIN stats
              /\ c.total_packets = stats.total_packets + 1
              /\ c.total_bytes = stats.total_bytes + size
              /\ c.tcp_packets = IF p.has_tcp THEN stats.tcp_packets + 1 ELSE stats.tcp_packets
              /\ c.udp_packets = IF p.has_tcp THEN stats.udp_packets ELSE stats.udp_packets + 1
<1>. DEFINE a == [stats EXCEPT !.total_packets = stats.total_packets + 1]
            b == [a EXCEPT !.total_bytes = a.total_bytes + size]
            c == [b EXCEPT !.tcp_packets = IF p.has_tcp THEN b.tcp_packets + 1 ELSE b.tcp_packets]
            d == [c EXCEPT !.udp_packets = IF p.has_tcp THEN c.udp_packets ELSE c.udp_packets + 1]
<1>1. Count(p, size) = d
  BY DEF Count
<1>2. SetTo(stats, a, "total_packets", stats.total_packets + 1)
  BY SetField
<1>. HIDE DEF a
<1>3. SetTo(a, b, "total_bytes", a.total_bytes + size)
  BY <1>2, SetField DEF SetTo
<1>. HIDE DEF b
<1>4. SetTo(b, c, "tcp_packets", IF p.has_tcp THEN b.tcp_packets + 1 ELSE b.tcp_packets)
  BY <1>2, <1>3, SetField DEF SetTo
<1>. HIDE DEF c
<1>5. SetTo(c, d, "udp_packets", IF p.has_tcp THEN c.udp_packets ELSE c.udp_packets + 1)
  BY <1>2, <1>3, <1>4, SetField DEF SetTo
<1>. HIDE DEF d
<1>. QED
  BY <1>1, <1>2, <1>3, <1>4, <1>5 DEF SetTo

LEMMA JobFacts ==
    ASSUME NEW r, IsFrame(r.frame), r.there \in Nat, NEW id
    PROVE  LET job == JobOf(r, id)
           IN /\ job.data.size = r.there /\ job.tuple.protocol = r.frame.protocol
              /\ job.payload_offset + job.payload_length = job.data.size
<1>1. HeaderSize(r.frame) \in Nat
  BY DEF HeaderSize, IsFrame
<1>. QED
  BY <1>1 DEF JobOf

-----------------------------------------------------------------------------
(* The invariant                                                           *)

Counters ==
    /\ DOMAIN stats = {"total_packets", "total_bytes", "tcp_packets", "udp_packets"}
    /\ stats.total_packets = Len(jobs)
    /\ stats.tcp_packets = Cardinality(OfProtocol(jobs, TCP))
    /\ stats.udp_packets = Cardinality(OfProtocol(jobs, UDP))
    /\ stats.total_bytes = Total(SizesOf(jobs), DOMAIN jobs)

\* The records that were read are whole, the jobs are those of the records with
\* headers among them, and the counters those of the jobs.  The loop is entered
\* only with a magic number that is known.
ReaderInv ==
    /\ pc \in {"open", "read", "done"}
    /\ capture \in Captures
    /\ pos \in 1 .. 1 + Len(capture.records)
    /\ pc = "read" => capture.magic \in {"native", "swapped"}
    /\ {parsed.has_ip, parsed.has_tcp, parsed.has_udp} \subseteq BOOLEAN
    /\ jobs = JobsOf(Due) /\ Len(Due) < pos
    /\ Counters
    /\ EverythingRead

LEMMA InitReader == Init => ReaderInv
<1>. SUFFICES ASSUME Init PROVE ReaderInv
  OBVIOUS
<1>1. pc = "open" /\ capture \in Captures /\ pos = 1 /\ jobs = <<>> /\ parsed = Fresh
  BY DEF Init
<1>2. pos \in 1 .. 1 + Len(capture.records)
  BY <1>1, RecordTypes
<1>3. {parsed.has_ip, parsed.has_tcp, parsed.has_udp} \subseteq BOOLEAN
  BY <1>1 DEF Fresh
<1>4. Due = <<>>
  <2>1. pos - 1 = 0 /\ SubSeq(capture.records, 1, 0) = <<>>
    BY <1>1, SubSeqEmpty
  <2>2. Kept(<<>>, Complete) = <<>>
    <3>1. <<>> \in Seq({0}) /\ 0 \in {0}
      OBVIOUS
    <3>. QED
      BY <3>1, KeptAppend
  <2>. QED
    BY <2>1, <2>2 DEF Due
<1>5. JobsOf(<<>>) = <<>> /\ Len(<<>>) = 0 /\ DOMAIN <<>> = {}
  BY DEF JobsOf
<1>6. Counters
  <2>1. /\ Cardinality(OfProtocol(<<>>, TCP)) = 0 /\ Cardinality(OfProtocol(<<>>, UDP)) = 0
        /\ Total(SizesOf(<<>>), DOMAIN <<>>) = 0
    BY <1>5, CountersEmpty
  <2>2. stats = [total_packets |-> 0, total_bytes |-> 0, tcp_packets |-> 0, udp_packets |-> 0]
    BY DEF Init
  <2>. QED
    BY <1>1, <1>5, <2>1, <2>2 DEF Counters
<1>7. EverythingRead
  BY <1>1 DEF EverythingRead
<1>. QED
  BY <1>1, <1>2, <1>3, <1>4, <1>5, <1>6, <1>7 DEF ReaderInv

\* One round of the loop that reads a record.
LEMMA ReadOne ==
    ASSUME ReaderInv, ReadNextPacket
    PROVE  /\ pos \in DOMAIN capture.records /\ pos \in 1 .. Len(capture.records)
           /\ Good(Record) /\ Size = Record.there
           /\ IsFrame(Record.frame) /\ Record.there \in Nat
           /\ Parses(Frame, Size) /\ HasTransport(Parsed) <=> HeadersThere(Record)
           /\ HeadersThere(Record) =>
                /\ CreatePacketJob(Frame, Size, Parsed, PacketId) = JobOf(Record, Len(jobs))
                /\ Parsed.has_tcp <=> Record.frame.protocol = TCP
           /\ {Parsed.has_ip, Parsed.has_tcp, Parsed.has_udp} \subseteq BOOLEAN
<1>1. pos \in DOMAIN capture.records /\ pos \in 1 .. Len(capture.records)
  <2>1. DOMAIN capture.records = 1 .. Len(capture.records) /\ Len(capture.records) \in Nat
    BY RecordTypes DEF ReaderInv
  <2>. QED
    BY <2>1 DEF ReaderInv, ReadNextPacket
<1>2. Good(Record) /\ Size = Record.there
  BY <1>1, ReadFacts DEF ReaderInv, ReadNextPacket
<1>3. IsFrame(Record.frame) /\ Record.there \in Nat
  BY <1>1, RecordTypes DEF ReaderInv, Record, RecordSet
<1>. DEFINE p == Parse(Record.frame, Fresh)
<1>4. Parsed = IF Parses(Frame, Size) THEN p ELSE Fresh
  BY DEF Parsed, Reset, Frame
<1>5. /\ Parses(Record.frame, Record.there) /\ HasTransport(p) <=> HeadersThere(Record)
      /\ HeadersThere(Record) => CreatePacketJob(Record.frame, Record.there, p, Len(jobs))
                                   = JobOf(Record, Len(jobs))
      /\ HeadersThere(Record) => (p.has_tcp <=> Record.frame.protocol = TCP)
  BY <1>3, RecordFacts
<1>6. {p.has_ip, p.has_tcp, p.has_udp} \subseteq BOOLEAN
  BY ParsedFacts
<1>7. {Fresh.has_ip, Fresh.has_tcp, Fresh.has_udp} \subseteq BOOLEAN
  BY DEF Fresh
<1>. HIDE DEF p
<1>8. Parses(Frame, Size) /\ HasTransport(Parsed) <=> HeadersThere(Record)
  BY <1>2, <1>4, <1>5 DEF Frame
<1>9. ASSUME HeadersThere(Record)
      PROVE  /\ CreatePacketJob(Frame, Size, Parsed, PacketId) = JobOf(Record, Len(jobs))
             /\ Parsed.has_tcp <=> Record.frame.protocol = TCP
  <2>1. Parsed = p
    BY <1>4, <1>8, <1>9
  <2>. QED
    BY <1>2, <1>5, <1>9, <2>1 DEF Frame, PacketId
<1>10. {Parsed.has_ip, Parsed.has_tcp, Parsed.has_udp} \subseteq BOOLEAN
  BY <1>4, <1>6, <1>7
<1>. QED
  BY <1>1, <1>2, <1>3, <1>8, <1>9, <1>10

\* What a round leaves of the records.
LEMMA RoundFacts ==
    ASSUME ReaderInv, ReadNextPacket, pos' = pos + 1, UNCHANGED <<pc, capture>>
    PROVE  /\ pos' \in 1 .. 1 + Len(capture.records)
           /\ Due' = IF HeadersThere(Record) THEN Append(Due, Record) ELSE Due
           /\ EverythingRead'
<1>1. /\ pos \in DOMAIN capture.records /\ pos \in 1 .. Len(capture.records)
      /\ Good(Record) /\ Len(capture.records) \in Nat
  BY ReadOne, RecordTypes DEF ReaderInv
<1>2. pos' \in 1 .. 1 + Len(capture.records) /\ pos' - 1 = pos
  BY <1>1
<1>3. Due' = Kept(SubSeq(capture.records, 1, pos), Complete)
  BY <1>2 DEF Due, Complete
<1>4. Kept(SubSeq(capture.records, 1, pos), Complete)
        = IF HeadersThere(Record) THEN Append(Due, Record) ELSE Due
  BY <1>1, DueFacts DEF ReaderInv
<1>5. EverythingRead'
  <2>1. pc' = "read" /\ capture' = capture
    BY DEF ReadNextPacket
  <2>2. ASSUME NEW i \in 1 .. pos PROVE Good(capture.records[i])
    <3>1. i \in 1 .. pos - 1 \/ i = pos
      BY <1>1
    <3>. QED
      BY <1>1, <3>1 DEF ReaderInv, EverythingRead, Record
  <2>. QED
    BY <1>2, <2>1, <2>2 DEF EverythingRead, Good
<1>. QED
  BY <1>2, <1>3, <1>4, <1>5

LEMMA PushCounts ==
    ASSUME ReaderInv, PushPacket
    PROVE  /\ jobs' = JobsOf(Due') /\ Len(Due') < pos'
           /\ Counters'
<1>. DEFINE T == RecordSet(capture)
            n == Len(Due)
<1>1. ReadNextPacket /\ pos' = pos + 1 /\ pos \in Nat
      /\ Parses(Frame, Size) /\ HasTransport(Parsed)
      /\ stats' = Count(Parsed, Size)
      /\ jobs' = Append(jobs, CreatePacketJob(Frame, Size, Parsed, PacketId))
  BY ReadOne DEF PushPacket
<1>2. /\ pos \in DOMAIN capture.records /\ Size = Record.there /\ Record.there \in Nat
      /\ HeadersThere(Record) /\ IsFrame(Record.frame)
      /\ CreatePacketJob(Frame, Size, Parsed, PacketId) = JobOf(Record, Len(jobs))
      /\ Parsed.has_tcp <=> Record.frame.protocol = TCP
  BY <1>1, ReadOne
<1>3. Due' = Append(Due, Record)
  BY <1>1, <1>2, RoundFacts DEF PushPacket
<1>4. Due \in Seq(T) /\ Record \in T /\ n \in Nat
  <2>1. Due \in Seq(T)
    BY <1>2, DueFacts DEF ReaderInv
  <2>2. Record \in T
    BY <1>2 DEF RecordSet, Record
  <2>. HIDE DEF T
  <2>. QED
    BY <2>1, <2>2, LenProperties
<1>. HIDE DEF T
<1>5. jobs = JobsOf(Due) /\ n < pos /\ Counters
  BY DEF ReaderInv
<1>6. /\ Len(jobs) = n /\ DOMAIN jobs = 1 .. n
      /\ Append(jobs, JobOf(Record, n)) = JobsOf(Append(Due, Record))
  BY <1>4, <1>5, JobsAppend
<1>7. jobs' = JobsOf(Due')
  BY <1>1, <1>2, <1>3, <1>6
<1>8. Due' \in Seq(T) /\ Len(Due') = n + 1 /\ Due'[n + 1] = Record
  BY <1>3, <1>4, AppendProperties
<1>9. Len(Due') < pos'
  BY <1>1, <1>4, <1>5, <1>8
<1>10. Len(jobs') = n + 1 /\ DOMAIN jobs' = 1 .. n + 1
  BY <1>4, <1>7, <1>8, JobsAppend
<1>11. ASSUME NEW i \in 1 .. n PROVE jobs'[i] = jobs[i] /\ jobs[i].data.size \in Nat
  <2>1. Due[i] \in T /\ Due'[i] = Due[i] /\ i \in DOMAIN Due /\ i \in DOMAIN Due'
    <3>1. DOMAIN Due = 1 .. n /\ DOMAIN Due' = 1 .. n + 1 /\ i \in 1 .. n + 1
      BY <1>4, <1>8, LenProperties
    <3>2. Due[i] \in T
      BY <1>4, ElementOfSeq
    <3>. QED
      BY <1>3, <1>4, <3>1, <3>2, AppendProperties
  <2>2. jobs[i] = JobOf(Due[i], i - 1) /\ jobs'[i] = JobOf(Due'[i], i - 1)
    BY <1>5, <1>7, <2>1 DEF JobsOf
  <2>3. IsFrame(Due[i].frame) /\ Due[i].there \in Nat
    BY <2>1, RecordTypes DEF ReaderInv, T
  <2>. QED
    BY <2>1, <2>2, <2>3, JobFacts
<1>12. jobs'[n + 1].data.size = Size /\ jobs'[n + 1].tuple.protocol = Record.frame.protocol
  <2>1. n + 1 \in DOMAIN Due' /\ (n + 1) - 1 = n
    BY <1>4, <1>8, LenProperties
  <2>2. jobs'[n + 1] = JobOf(Record, n)
    BY <1>7, <1>8, <2>1 DEF JobsOf
  <2>. QED
    BY <1>2, <2>2, JobFacts
<1>. DEFINE k == jobs'
<1>13. /\ DOMAIN k = 1 .. n + 1 /\ Len(k) = n + 1
       /\ k[n + 1].data.size = Size /\ k[n + 1].tuple.protocol = Record.frame.protocol
       /\ \A i \in 1 .. n : k[i] = jobs[i] /\ jobs[i].data.size \in Nat
  BY <1>10, <1>11, <1>12
<1>. HIDE DEF k, n
<1>14. CountsOneMore(jobs, k, k[n + 1])
  <2>1. OneMore(jobs, k, n)
    BY <1>2, <1>6, <1>13 DEF OneMore
  <2>. QED
    BY <1>4, <2>1, CountersAppend
<1>15. TCP # UDP /\ Record.frame.protocol \in {TCP, UDP}
  BY <1>2 DEF HeadersThere, SoundHeaders, TCP, UDP
<1>16. /\ DOMAIN stats' = DOMAIN stats
       /\ stats'.total_packets = stats.total_packets + 1
       /\ stats'.total_bytes = stats.total_bytes + Size
       /\ stats'.tcp_packets = IF Parsed.has_tcp THEN stats.tcp_packets + 1 ELSE stats.tcp_packets
       /\ stats'.udp_packets = IF Parsed.has_tcp THEN stats.udp_packets ELSE stats.udp_packets + 1
  BY <1>1, <1>5, CountFacts DEF Counters
<1>17. Counters'
  <2>1. /\ stats'.total_packets = Len(k)
        /\ stats'.total_bytes = Total(SizesOf(k), DOMAIN k)
    BY <1>5, <1>6, <1>13, <1>14, <1>16 DEF Counters, CountsOneMore
  <2>2. /\ stats'.tcp_packets = Cardinality(OfProtocol(k, TCP))
        /\ stats'.udp_packets = Cardinality(OfProtocol(k, UDP))
    BY <1>2, <1>5, <1>13, <1>14, <1>15, <1>16 DEF Counters, CountsOneMore
  <2>. QED
    BY <1>5, <1>16, <2>1, <2>2 DEF Counters, OfProtocol, SizesOf, k
<1>. QED
  BY <1>7, <1>9, <1>17

LEMMA NextReader == ReaderInv /\ [Next]_vars => ReaderInv'
<1>. SUFFICES ASSUME ReaderInv, [Next]_vars PROVE ReaderInv'
  OBVIOUS
<1>1. ASSUME UNCHANGED <<capture, pos, parsed, jobs, stats>>
      PROVE  /\ capture' \in Captures /\ pos' \in 1 .. 1 + Len(capture'.records)
             /\ {parsed'.has_ip, parsed'.has_tcp, parsed'.has_udp} \subseteq BOOLEAN
             /\ jobs' = JobsOf(Due') /\ Len(Due') < pos' /\ Counters'
             /\ \A i \in 1 .. pos' - 1 : Good(capture.records[i])'
  <2>1. Due' = Due
    BY <1>1 DEF Due, Complete
  <2>2. Counters'
    BY <1>1 DEF ReaderInv, Counters
  <2>3. \A i \in 1 .. pos' - 1 : Good(capture.records[i])'
    BY <1>1 DEF ReaderInv, EverythingRead, Good
  <2>. QED
    BY <1>1, <2>1, <2>2, <2>3 DEF ReaderInv
<1>2. CASE Open
  <2>1. pos = 1 => EverythingRead'
    BY <1>1, <1>2 DEF Open, EverythingRead, Good
  <2>. QED
    BY <1>1, <1>2, <2>1 DEF Open, ReaderInv, EverythingRead, Good
<1>3. CASE SkipPacket
  <2>1. /\ ReadNextPacket /\ pos' = pos + 1 /\ parsed' = Parsed
        /\ UNCHANGED <<pc, capture, jobs, stats>>
        /\ ~(Parses(Frame, Size) /\ HasTransport(Parsed))
    BY <1>3 DEF SkipPacket
  <2>2. Due' = Due /\ EverythingRead' /\ pos' \in 1 .. 1 + Len(capture.records)
    BY <2>1, ReadOne, RoundFacts
  <2>3. {Parsed.has_ip, Parsed.has_tcp, Parsed.has_udp} \subseteq BOOLEAN
    BY <2>1, ReadOne
  <2>4. Len(Due') < pos'
    <3>1. Len(Due) \in Nat
      BY DueTyped, LenProperties DEF ReaderInv
    <3>. QED
      BY <2>1, <2>2, <3>1 DEF ReaderInv
  <2>5. Counters'
    BY <2>1 DEF ReaderInv, Counters
  <2>. QED
    BY <2>1, <2>2, <2>3, <2>4, <2>5 DEF ReaderInv
<1>4. CASE PushPacket
  <2>1. /\ ReadNextPacket /\ pos' = pos + 1 /\ parsed' = Parsed
        /\ UNCHANGED <<pc, capture>>
    BY <1>4 DEF PushPacket
  <2>2. EverythingRead' /\ pos' \in 1 .. 1 + Len(capture.records)
    BY <2>1, RoundFacts
  <2>3. {Parsed.has_ip, Parsed.has_tcp, Parsed.has_udp} \subseteq BOOLEAN
    BY <2>1, ReadOne
  <2>. QED
    BY <1>4, <2>1, <2>2, <2>3, PushCounts DEF ReaderInv
<1>5. CASE Finish
  <2>1. pc = "read" /\ ~ReadNextPacket /\ pc' = "done"
        /\ UNCHANGED <<capture, pos, parsed, jobs, stats>>
    BY <1>5 DEF Finish
  <2>2. pos <= Len(capture.records) => ~Good(capture.records[pos])
    <3>1. SUFFICES ASSUME pos <= Len(capture.records) PROVE ~Good(Record)
      BY DEF Record
    <3>2. pos \in DOMAIN capture.records
      BY <3>1, RecordTypes DEF ReaderInv
    <3>. QED
      BY <2>1, <3>1, <3>2, ReadFacts DEF ReaderInv, ReadNextPacket
  <2>3. EverythingRead'
    BY <1>1, <2>1, <2>2 DEF EverythingRead, Good
  <2>. QED
    BY <1>1, <2>1, <2>3 DEF ReaderInv
<1>6. CASE UNCHANGED vars
  BY <1>1, <1>6 DEF vars, ReaderInv, EverythingRead, Good
<1>. QED
  BY <1>2, <1>3, <1>4, <1>5, <1>6 DEF Next

THEOREM ReaderInvHolds == Spec => []ReaderInv
  BY InitReader, NextReader, PTL DEF Spec

-----------------------------------------------------------------------------
(* What follows                                                            *)

\* No more jobs than records, and no payload outside of its data.
THEOREM TypeCorrect == Spec => []TypeOK
<1>1. ASSUME ReaderInv PROVE TypeOK
  <2>1. /\ Due \in Seq(RecordSet(capture)) /\ jobs = JobsOf(Due) /\ Len(Due) < pos
        /\ capture \in Captures
    BY <1>1, DueTyped DEF ReaderInv
  <2>2. DOMAIN jobs = DOMAIN Due /\ DOMAIN Due = 1 .. Len(Due) /\ Len(jobs) = Len(Due)
    BY <2>1, LenProperties, JobsTyped
  <2>3. ASSUME NEW i \in DOMAIN jobs
        PROVE  jobs[i].payload_offset + jobs[i].payload_length = jobs[i].data.size
    <3>1. Due[i] \in RecordSet(capture)
      BY <2>1, <2>2, <2>3, ElementOfSeq
    <3>2. IsFrame(Due[i].frame) /\ Due[i].there \in Nat
      BY <2>1, <3>1, RecordTypes
    <3>3. jobs[i] = JobOf(Due[i], i - 1)
      BY <2>1, <2>2, <2>3 DEF JobsOf
    <3>. QED
      BY <3>2, <3>3, JobFacts
  <2>. QED
    BY <1>1, <2>1, <2>2, <2>3 DEF ReaderInv, TypeOK
<1>. QED
  BY <1>1, ReaderInvHolds, PTL

\* Whatever the capture: a job for each record with all of its headers, in their
\* order, made of nothing but that record; and the counters are those of the jobs.
THEOREM JobsFaithfulCorrect == Spec => []JobsFaithful
<1>1. ASSUME ReaderInv PROVE JobsFaithful
  BY <1>1 DEF ReaderInv, Counters, JobsFaithful, JobsOf, OfProtocol, SizesOf, Counted, Sizes, Total
<1>. QED
  BY <1>1, ReaderInvHolds, PTL

\* In a file of either byte order the reader goes on to the first damaged record.
THEOREM EverythingReadCorrect == Spec => []EverythingRead
<1>1. ReaderInv => EverythingRead
  BY DEF ReaderInv
<1>. QED
  BY <1>1, ReaderInvHolds, PTL

-----------------------------------------------------------------------------
(* Bytes of a payload                                                      *)

\* s is n bytes.
Sized(s, n) == s \in Bytes /\ n \in Nat /\ Len(s) = n

\* The bytes s stand in p from offset o on.
Has(p, o, s) == /\ o \in Nat /\ p \in Bytes /\ o + Len(s) <= Len(p)
                /\ \A i \in 1 .. Len(s) : p[o + i] = s[i]

\* s \o t; a leaf knows of it only what the lemmas say.
Cat(s, t) == s \o t

LEMMA Concatenated ==
    ASSUME NEW s \in Bytes, NEW t \in Bytes
    PROVE  /\ s \o t \in Bytes /\ Len(s \o t) = Len(s) + Len(t)
           /\ Len(s) \in Nat /\ Len(t) \in Nat
           /\ \A i \in 1 .. Len(s) : (s \o t)[i] = s[i]
           /\ \A i \in 1 .. Len(t) : (s \o t)[Len(s) + i] = t[i]
  BY ConcatProperties DEF Bytes

LEMMA SizedLength ==
    ASSUME NEW s \in Bytes
    PROVE  Sized(s, Len(s))
  BY LenProperties DEF Bytes, Sized

LEMMA SizedAppend ==
    ASSUME NEW s, NEW n, Sized(s, n), NEW t, NEW m, Sized(t, m)
    PROVE  Sized(s \o t, n + m)
  BY ConcatProperties DEF Bytes, Sized

LEMMA IsByte ==
    ASSUME NEW n \in Nat, n <= 255
    PROVE  n \in ByteValues
  BY DEF ByteValues

LEMMA SizedOne ==
    ASSUME NEW n \in Nat, n <= 255
    PROVE  Sized(<<n>>, 1)
  BY IsByte DEF Bytes, Sized

LEMMA SizedTwo ==
    ASSUME NEW a \in Nat, a <= 255, NEW b \in Nat, b <= 255
    PROVE  Sized(<<a, b>>, 2)
  BY IsByte DEF Bytes, Sized

LEMMA SizedBytes2 ==
    ASSUME NEW n \in Nat, n <= 65535
    PROVE  Sized(Bytes2(n), 2)
<1>1. n \div 256 \in Nat /\ n \div 256 <= 255 /\ n % 256 \in Nat /\ n % 256 <= 255
  BY SMT
<1>. QED
  BY <1>1, SizedTwo DEF Bytes2

LEMMA SizedField1 ==
    ASSUME NEW s, NEW n, Sized(s, n), n <= 255
    PROVE  Sized(Field1(s), 1 + n)
<1>1. Sized(<<n>>, 1) /\ Len(s) = n
  BY SizedOne DEF Sized
<1>. QED
  BY <1>1, SizedAppend DEF Field1

LEMMA SizedField2 ==
    ASSUME NEW s, NEW n, Sized(s, n), n <= 65535
    PROVE  Sized(Field2(s), 2 + n)
<1>1. Sized(Bytes2(n), 2) /\ Len(s) = n
  BY SizedBytes2 DEF Sized
<1>. QED
  BY <1>1, SizedAppend DEF Field2

LEMMA HasAll ==
    ASSUME NEW p \in Bytes
    PROVE  Has(p, 0, p)
  BY DEF Has, Bytes

LEMMA HasFirst ==
    ASSUME NEW p, NEW o, NEW s, NEW n, Sized(s, n), NEW t, NEW m, Sized(t, m), Has(p, o, s \o t)
    PROVE  Has(p, o, s)
<1>1. /\ s \in Bytes /\ t \in Bytes /\ Len(s) = n /\ Len(t) = m
      /\ n \in Nat /\ m \in Nat
  BY DEF Sized
<1>2. Len(s \o t) = n + m /\ \A i \in 1 .. n : (s \o t)[i] = s[i]
  BY <1>1, Concatenated
<1>3. o \in Nat /\ Len(p) \in Nat
  BY LenProperties DEF Has, Bytes
<1>. QED
  BY <1>1, <1>2, <1>3 DEF Has

LEMMA HasSecond ==
    ASSUME NEW p, NEW o, NEW s, NEW n, Sized(s, n), NEW t, NEW m, Sized(t, m), Has(p, o, s \o t)
    PROVE  Has(p, o + n, t)
<1>0. /\ s \in Bytes /\ t \in Bytes /\ Len(s) = n /\ Len(t) = m
      /\ n \in Nat /\ m \in Nat /\ o \in Nat /\ Len(p) \in Nat
  BY LenProperties DEF Bytes, Sized, Has
<1>1. Len(s \o t) = n + m /\ \A i \in 1 .. m : (s \o t)[n + i] = t[i]
  BY <1>0, Concatenated
<1>2. (o + n) + m <= Len(p)
  BY <1>0, <1>1 DEF Has
<1>3. ASSUME NEW i \in 1 .. m PROVE p[(o + n) + i] = t[i]
  <2>1. n + i \in 1 .. Len(s \o t) /\ (o + n) + i = o + (n + i)
    BY <1>0, <1>1
  <2>. QED
    BY <1>0, <1>1, <2>1 DEF Has
<1>. QED
  BY <1>0, <1>1, <1>2, <1>3 DEF Has

LEMMA HasByte ==
    ASSUME NEW p, NEW o, NEW b, Has(p, o, <<b>>)
    PROVE  At(p, o) = b /\ o + 1 <= Len(p)
  BY DEF Has, At

LEMMA HasWord ==
    ASSUME NEW p, NEW o, NEW n \in Nat, Has(p, o, Bytes2(n))
    PROVE  Word(p, o) = n /\ o + 2 <= Len(p)
<1>1. Len(Bytes2(n)) = 2 /\ Bytes2(n)[1] = n \div 256 /\ Bytes2(n)[2] = n % 256
  BY DEF Bytes2
<1>2. p[o + 1] = n \div 256 /\ p[o + 2] = n % 256 /\ o + 2 <= Len(p) /\ o \in Nat
  BY <1>1 DEF Has
<1>3. 256 * (n \div 256) + (n % 256) = n
  BY SMT
<1>4. At(p, o) = n \div 256 /\ At(p, o + 1) = n % 256
  BY <1>2 DEF At
<1>. QED
  BY <1>2, <1>3, <1>4 DEF Word

\* A field with its length in front, where the code finds it.
LEMMA HasField1 ==
    ASSUME NEW p, NEW o, NEW s, NEW n, Sized(s, n), n <= 255, Has(p, o, Field1(s))
    PROVE  /\ At(p, o) = n /\ Has(p, o + 1, s) /\ After1(p, o) = o + 1 + n
           /\ o + 1 + n <= Len(p)
<1>1. Sized(<<n>>, 1) /\ Len(s) = n /\ n \in Nat
  BY SizedOne DEF Sized
<1>2. Has(p, o, <<n>> \o s)
  BY <1>1 DEF Field1
<1>3. Has(p, o, <<n>>)
  BY <1>1, <1>2, HasFirst
<1>4. Has(p, o + 1, s)
  BY <1>1, <1>2, HasSecond
<1>5. At(p, o) = n /\ o + 1 <= Len(p)
  BY <1>3, HasByte
<1>6. o \in Nat /\ Len(p) \in Nat /\ o + 1 + n <= Len(p)
  BY <1>1, <1>2, <1>4, LenProperties DEF Has, Bytes
<1>7. After1(p, o) = o + 1 + n
  BY <1>1, <1>5, <1>6 DEF After1
<1>. QED
  BY <1>4, <1>5, <1>6, <1>7

LEMMA HasField2 ==
    ASSUME NEW p, NEW o, NEW s, NEW n, Sized(s, n), n <= 65535, Has(p, o, Field2(s))
    PROVE  /\ Word(p, o) = n /\ Has(p, o + 2, s) /\ After2(p, o) = o + 2 + n
           /\ o + 2 + n <= Len(p)
<1>1. Sized(Bytes2(n), 2) /\ Len(s) = n /\ n \in Nat
  BY SizedBytes2 DEF Sized
<1>2. Has(p, o, Bytes2(n) \o s)
  BY <1>1 DEF Field2
<1>3. Has(p, o, Bytes2(n))
  BY <1>1, <1>2, HasFirst
<1>4. Has(p, o + 2, s)
  BY <1>1, <1>2, HasSecond
<1>5. Word(p, o) = n /\ o + 2 <= Len(p)
  BY <1>1, <1>3, HasWord
<1>6. o \in Nat /\ Len(p) \in Nat /\ o + 2 + n <= Len(p)
  BY <1>1, <1>2, <1>4, LenProperties DEF Has, Bytes
<1>7. After2(p, o) = o + 2 + n
  BY <1>1, <1>5, <1>6 DEF After2
<1>. QED
  BY <1>4, <1>5, <1>6, <1>7

LEMMA SliceOf ==
    ASSUME NEW p, NEW o, NEW s, NEW n, Sized(s, n), Has(p, o, s)
    PROVE  Slice(p, o, n) = s
<1>. DEFINE t == SubSeq(p, o + 1, o + n)
<1>1. /\ n \in Nat /\ Len(p) \in Nat /\ o \in Nat /\ o + n <= Len(p) /\ Len(s) = n
      /\ p \in Bytes /\ s \in Bytes
  BY LenProperties DEF Has, Sized, Bytes
<1>2. \A i \in o + 1 .. o + n : p[i] \in ByteValues
  <2>1. \A i \in o + 1 .. o + n : i \in 1 .. Len(p)
    BY <1>1
  <2>. QED
    BY <1>1, <2>1, ElementOfSeq DEF Bytes
<1>3. /\ t \in Seq(ByteValues) /\ Len(t) = n
      /\ \A i \in 1 .. n : t[i] = p[o + i]
  <2>1. /\ t \in Seq(ByteValues)
        /\ Len(t) = IF o + 1 <= o + n THEN (o + n) - (o + 1) + 1 ELSE 0
        /\ \A i \in 1 .. (o + n) - (o + 1) + 1 : t[i] = p[(o + 1) + i - 1]
    BY <1>1, <1>2, SubSeqProperties
  <2>2. (o + n) - (o + 1) + 1 = n /\ \A i \in 1 .. n : (o + 1) + i - 1 = o + i
    BY <1>1
  <2>. HIDE DEF t
  <2>. QED
    BY <1>1, <2>1, <2>2
<1>. HIDE DEF t
<1>4. \A i \in 1 .. n : t[i] = s[i]
  BY <1>1, <1>3 DEF Has
<1>5. t = s
  BY <1>1, <1>3, <1>4, SeqEqual DEF Bytes
<1>. QED
  BY <1>5 DEF t, Slice

-----------------------------------------------------------------------------
(* Pieces one after the other                                              *)

JoinStep(s, k, f) == IF k = 0 THEN <<>> ELSE Cat(f[k - 1], s[k])
JoinedTo(s, n, f) == f = [k \in 0 .. n |-> JoinStep(s, k, f)]

LEMMA JoinedExists ==
    ASSUME NEW s, NEW m \in Nat
    PROVE  \E f : JoinedTo(s, m, f)
<1>. DEFINE Shown == {n \in Nat : \E f : JoinedTo(s, n, f)}
<1>1. 0 \in Shown
  <2>. DEFINE f == [k \in 0 .. 0 |-> <<>>]
  <2>1. JoinedTo(s, 0, f)
    BY DEF JoinedTo, JoinStep
  <2>. QED
    BY <2>1
<1>2. ASSUME NEW n \in Nat, n \in Shown PROVE n + 1 \in Shown
  <2>1. PICK f : JoinedTo(s, n, f)
    BY <1>2
  <2>. DEFINE g == [k \in 0 .. n + 1 |-> IF k = n + 1 THEN JoinStep(s, n + 1, f) ELSE f[k]]
  <2>2. \A k \in 0 .. n : g[k] = f[k] /\ f[k] = JoinStep(s, k, f)
    BY <2>1 DEF JoinedTo
  <2>3. ASSUME NEW k \in 0 .. n + 1 PROVE g[k] = JoinStep(s, k, g)
    <3>1. k # 0 => k - 1 \in 0 .. n
      OBVIOUS
    <3>2. JoinStep(s, k, g) = JoinStep(s, k, f)
      BY <2>2, <3>1 DEF JoinStep
    <3>3. CASE k = n + 1
      BY <3>2, <3>3
    <3>4. CASE k \in 0 .. n
      BY <2>2, <3>2, <3>4
    <3>. QED
      BY <3>3, <3>4
  <2>4. g = [k \in 0 .. n + 1 |-> g[k]]
    OBVIOUS
  <2>. HIDE DEF g
  <2>5. JoinedTo(s, n + 1, g)
    BY <2>3, <2>4 DEF JoinedTo
  <2>. QED
    BY <2>5
<1>. HIDE DEF Shown
<1>3. \A n \in Nat : n \in Shown
  BY <1>1, <1>2, NatSetInduction
<1>. QED
  BY <1>3 DEF Shown

LEMMA JoinedIs ==
    ASSUME NEW s, Len(s) \in Nat
    PROVE  \E f : JoinedTo(s, Len(s), f) /\ Joined(s) = f[Len(s)]
<1>. DEFINE n == Len(s)
            g == CHOOSE f : JoinedTo(s, n, f)
<1>1. JoinedTo(s, n, g)
  BY JoinedExists
<1>2. Joined(s) = g[n]
  BY DEF Joined, JoinedTo, JoinStep, Cat
<1>. QED
  BY <1>1, <1>2

LEMMA JoinedBytes ==
    ASSUME NEW s, NEW n \in Nat, NEW f, JoinedTo(s, n, f), \A k \in 1 .. n : s[k] \in Bytes
    PROVE  \A k \in 0 .. n : f[k] \in Bytes
<1>1. f[0] = <<>> /\ \A k \in 1 .. n : f[k] = Cat(f[k - 1], s[k])
  BY DEF JoinedTo, JoinStep
<1>. DEFINE Shown == {k \in Nat : k <= n => f[k] \in Bytes}
<1>2. 0 \in Shown
  <2>1. <<>> \in Bytes
    BY DEF Bytes
  <2>. QED
    BY <1>1, <2>1
<1>3. ASSUME NEW k \in Nat, k \in Shown PROVE k + 1 \in Shown
  <2>1. SUFFICES ASSUME k + 1 <= n PROVE f[k + 1] \in Bytes
    OBVIOUS
  <2>2. k + 1 \in 1 .. n /\ (k + 1) - 1 = k
    BY <2>1
  <2>3. f[k + 1] = Cat(f[k], s[k + 1]) /\ f[k] \in Bytes /\ s[k + 1] \in Bytes
    BY <1>1, <1>3, <2>1, <2>2
  <2>. QED
    BY <2>3, Concatenated DEF Cat
<1>. HIDE DEF Shown
<1>4. \A k \in Nat : k \in Shown
  BY <1>2, <1>3, NatSetInduction
<1>. QED
  BY <1>4 DEF Shown

\* Every piece stands where the pieces before it end.
Pieces(p, o, s, n, f) ==
    /\ f[0] = <<>>
    /\ \A k \in 0 .. n : Len(f[k]) \in Nat /\ Has(p, o, f[k])
    /\ \A k \in 1 .. n : /\ Has(p, o + Len(f[k - 1]), s[k])
                         /\ Len(f[k]) = Len(f[k - 1]) + Len(s[k])

LEMMA HasPieces ==
    ASSUME NEW p, NEW o, NEW s, NEW n \in Nat, NEW f, JoinedTo(s, n, f),
           \A k \in 1 .. n : s[k] \in Bytes, Has(p, o, f[n])
    PROVE  Pieces(p, o, s, n, f)
<1>1. f[0] = <<>> /\ \A k \in 1 .. n : f[k] = Cat(f[k - 1], s[k])
  BY DEF JoinedTo, JoinStep
<1>2. \A k \in 0 .. n : f[k] \in Bytes
  BY JoinedBytes
<1>3. \A k \in 0 .. n : Sized(f[k], Len(f[k]))
  BY <1>2, SizedLength
<1>4. \A k \in 1 .. n : Sized(s[k], Len(s[k]))
  BY SizedLength
<1>5. \A k \in 0 .. n : Has(p, o, f[k])
  <2>. DEFINE Shown == {k \in Nat : k <= n => Has(p, o, f[n - k])}
  <2>1. 0 \in Shown
    OBVIOUS
  <2>2. ASSUME NEW k \in Nat, k \in Shown PROVE k + 1 \in Shown
    <3>1. SUFFICES ASSUME k + 1 <= n PROVE Has(p, o, f[n - (k + 1)])
      OBVIOUS
    <3>2. PICK j \in 1 .. n : j = n - k
      BY <3>1
    <3>3. j - 1 = n - (k + 1) /\ j - 1 \in 0 .. n
      BY <3>1, <3>2
    <3>4. Has(p, o, Cat(f[j - 1], s[j]))
      BY <1>1, <2>2, <3>1, <3>2
    <3>5. Has(p, o, f[j - 1])
      BY <1>3, <1>4, <3>3, <3>4, HasFirst DEF Cat
    <3>. QED
      BY <3>3, <3>5
  <2>. HIDE DEF Shown
  <2>3. \A k \in Nat : k \in Shown
    BY <2>1, <2>2, NatSetInduction
  <2>4. ASSUME NEW k \in 0 .. n PROVE Has(p, o, f[k])
    <3>1. n - k \in Shown /\ n - (n - k) = k /\ n - k <= n
      BY <2>3
    <3>. QED
      BY <3>1 DEF Shown
  <2>. QED
    BY <2>4
<1>6. ASSUME NEW k \in 1 .. n
      PROVE  Has(p, o + Len(f[k - 1]), s[k]) /\ Len(f[k]) = Len(f[k - 1]) + Len(s[k])
  <2>1. k - 1 \in 0 .. n /\ f[k] = Cat(f[k - 1], s[k])
    BY <1>1
  <2>2. Sized(f[k - 1], Len(f[k - 1])) /\ Sized(s[k], Len(s[k])) /\ Has(p, o, Cat(f[k - 1], s[k]))
    <3>1. Has(p, o, f[k])
      BY <1>5
    <3>. QED
      BY <1>3, <1>4, <2>1, <3>1
  <2>3. Has(p, o + Len(f[k - 1]), s[k])
    BY <2>2, HasSecond DEF Cat
  <2>4. Sized(Cat(f[k - 1], s[k]), Len(f[k - 1]) + Len(s[k]))
    BY <2>2, SizedAppend DEF Cat
  <2>. QED
    BY <2>1, <2>3, <2>4 DEF Sized
<1>7. \A k \in 0 .. n : Len(f[k]) \in Nat
  BY <1>3 DEF Sized
<1>. QED
  BY <1>1, <1>5, <1>6, <1>7 DEF Pieces

\* The n pieces of s stand in p one after the other, the k-th at at[k].
Laid(p, s, n, at) == \A k \in 1 .. n : /\ at[k] \in Nat /\ at[k + 1] = at[k] + Len(s[k])
                                       /\ at[k + 1] <= at[n + 1]
                                       /\ Has(p, at[k], s[k])

LEMMA PieceEnds ==
    ASSUME NEW n \in Nat, NEW l, NEW d, \A k \in 0 .. n : l[k] \in Nat,
           \A k \in 1 .. n : d[k] \in Nat /\ l[k] = l[k - 1] + d[k]
    PROVE  \A k \in 0 .. n : l[k] <= l[n]
<1>. DEFINE Shown == {j \in Nat : j <= n => l[n - j] <= l[n]}
<1>1. 0 \in Shown
  OBVIOUS
<1>2. ASSUME NEW j \in Nat, j \in Shown PROVE j + 1 \in Shown
  <2>1. SUFFICES ASSUME j + 1 <= n PROVE l[n - (j + 1)] <= l[n]
    OBVIOUS
  <2>2. PICK k \in 1 .. n : k = n - j
    BY <2>1
  <2>3. k - 1 = n - (j + 1) /\ k - 1 \in 0 .. n /\ k \in 0 .. n /\ n \in 0 .. n
    BY <2>1, <2>2
  <2>4. l[k] <= l[n]
    BY <1>2, <2>1, <2>2
  <2>5. l[k - 1] <= l[n]
    BY <2>3, <2>4
  <2>. QED
    BY <2>3, <2>5
<1>. HIDE DEF Shown
<1>3. \A j \in Nat : j \in Shown
  BY <1>1, <1>2, NatSetInduction
<1>4. ASSUME NEW k \in 0 .. n PROVE l[k] <= l[n]
  <2>1. n - k \in Nat /\ n - k <= n /\ n - (n - k) = k
    OBVIOUS
  <2>2. n - k \in Shown
    BY <1>3, <2>1
  <2>. QED
    BY <2>1, <2>2 DEF Shown
<1>. QED
  BY <1>4

\* They stand there from o to o + m.
LaidFrom(p, o, s, n, m) ==
    \E at : Laid(p, s, n, at) /\ at[1] = o /\ at[n + 1] = o + m

LEMMA PiecesLaid ==
    ASSUME NEW p, NEW o, NEW s, NEW n \in Nat, NEW f, JoinedTo(s, n, f),
           \A k \in 1 .. n : s[k] \in Bytes, Has(p, o, f[n])
    PROVE  LaidFrom(p, o, s, n, Len(f[n]))
<1>. DEFINE at == [k \in 1 .. n + 1 |-> o + Len(f[k - 1])]
            l == [k \in 0 .. n |-> Len(f[k])]
            d == [k \in 1 .. n |-> Len(s[k])]
<1>1. /\ f[0] = <<>> /\ o \in Nat
      /\ \A k \in 0 .. n : Len(f[k]) \in Nat
      /\ \A k \in 1 .. n : /\ Has(p, o + Len(f[k - 1]), s[k])
                           /\ Len(f[k]) = Len(f[k - 1]) + Len(s[k])
  <2>1. o \in Nat
    BY DEF Has
  <2>2. Pieces(p, o, s, n, f)
    BY HasPieces
  <2>. QED
    BY <2>1, <2>2 DEF Pieces
<1>2. \A k \in 0 .. n : l[k] <= l[n]
  <2>1. \A k \in 0 .. n : l[k] \in Nat
    BY <1>1
  <2>2. \A k \in 1 .. n : d[k] \in Nat /\ l[k] = l[k - 1] + d[k]
    <3>1. \A k \in 1 .. n : Len(s[k]) \in Nat
      BY LenProperties DEF Bytes
    <3>2. \A k \in 1 .. n : k \in 0 .. n /\ k - 1 \in 0 .. n
      OBVIOUS
    <3>. QED
      BY <1>1, <3>1, <3>2
  <2>. HIDE DEF l, d
  <2>. QED
    BY <2>1, <2>2, PieceEnds
<1>3. ASSUME NEW k \in 1 .. n
      PROVE  /\ at[k] = o + Len(f[k - 1]) /\ at[k + 1] = o + Len(f[k])
             /\ Len(f[k - 1]) \in Nat /\ Len(f[k]) \in Nat /\ Len(f[k]) <= Len(f[n])
             /\ Has(p, at[k], s[k]) /\ Len(f[k]) = Len(f[k - 1]) + Len(s[k])
             /\ Len(s[k]) \in Nat
  <2>1. k \in 0 .. n /\ k - 1 \in 0 .. n /\ n \in 0 .. n /\ k \in 1 .. n + 1
        /\ k + 1 \in 1 .. n + 1 /\ (k + 1) - 1 = k
    OBVIOUS
  <2>2. at[k] = o + Len(f[k - 1]) /\ at[k + 1] = o + Len(f[k])
    BY <2>1
  <2>3. Len(f[k]) <= Len(f[n])
    BY <1>2, <2>1
  <2>4. Len(s[k]) \in Nat
    BY LenProperties DEF Bytes
  <2>. HIDE DEF at, l, d
  <2>5. Len(f[k - 1]) \in Nat /\ Len(f[k]) \in Nat
    BY <1>1, <2>1
  <2>6. Has(p, at[k], s[k]) /\ Len(f[k]) = Len(f[k - 1]) + Len(s[k])
    BY <1>1, <2>2
  <2>. QED
    BY <2>2, <2>3, <2>4, <2>5, <2>6
<1>4. at[1] = o + 0 /\ at[n + 1] = o + Len(f[n])
  <2>1. 1 \in 1 .. n + 1 /\ n + 1 \in 1 .. n + 1 /\ 1 - 1 = 0 /\ (n + 1) - 1 = n
    OBVIOUS
  <2>2. at[1] = o + Len(f[0]) /\ at[n + 1] = o + Len(f[n])
    BY <2>1
  <2>3. Len(f[0]) = 0
    BY <1>1
  <2>. QED
    BY <2>2, <2>3
<1>. HIDE DEF at, l, d
<1>5. Laid(p, s, n, at)
  <2>1. n \in 0 .. n /\ Len(f[n]) \in Nat
    BY <1>1
  <2>2. ASSUME NEW k \in 1 .. n
        PROVE  at[k] \in Nat /\ at[k + 1] = at[k] + Len(s[k]) /\ at[k + 1] <= at[n + 1]
    <3>. DEFINE u == Len(f[k - 1])  v == Len(f[k])  w == Len(f[n])  z == Len(s[k])
    <3>1. u \in Nat /\ v \in Nat /\ w \in Nat /\ z \in Nat /\ o \in Nat
      BY <1>1, <1>3, <2>1
    <3>2. at[k] = o + u /\ at[k + 1] = o + v /\ at[n + 1] = o + w
      BY <1>3, <1>4
    <3>3. v = u + z /\ v <= w
      BY <1>3
    <3>. HIDE DEF u, v, w, z
    <3>4. o + u \in Nat /\ o + v = (o + u) + z /\ o + v <= o + w
      BY <3>1, <3>3
    <3>. QED
      BY <3>2, <3>4 DEF z
  <2>. QED
    BY <1>3, <2>2 DEF Laid
<1>6. at[1] = o
  BY <1>1, <1>4
<1>7. \E z : /\ Laid(p, s, n, z) /\ z[1] = o /\ z[n + 1] = o + Len(f[n])
  BY <1>4, <1>5, <1>6
<1>. QED
  BY <1>7 DEF LaidFrom

-----------------------------------------------------------------------------
(* The search for the SNI extension                                        *)

Look(p, end, x, f) ==
    IF x + 4 > end \/ x + 4 + Word(p, x + 2) > end THEN None
    ELSE IF Word(p, x) = 0 THEN HostName(p, x + 4, Word(p, x + 2))
         ELSE f[x + 4 + Word(p, x + 2)]
Looks(p, end, S, f) == f = [x \in S |-> Look(p, end, x, f)]

LEMMA WordNat ==
    ASSUME NEW p \in Bytes, NEW x \in Nat, x + 2 <= Len(p)
    PROVE  Word(p, x) \in Nat
<1>1. x + 1 \in 1 .. Len(p) /\ (x + 1) + 1 \in 1 .. Len(p)
  BY LenProperties DEF Bytes
<1>2. p[x + 1] \in ByteValues /\ p[(x + 1) + 1] \in ByteValues
  BY <1>1, ElementOfSeq DEF Bytes
<1>3. \A b \in ByteValues : b \in Nat
  BY DEF ByteValues
<1>4. At(p, x) \in Nat /\ At(p, x + 1) \in Nat
  BY <1>2, <1>3 DEF At
<1>. QED
  BY <1>4 DEF Word

LEMMA SearchExists ==
    ASSUME NEW p \in Bytes, NEW end \in Nat, end <= Len(p)
    PROVE  \E f : Looks(p, end, 0 .. end, f)
<1>. DEFINE Last(n) == {x \in 0 .. end : end <= x + n}
            Shown == {n \in Nat : \E f : Looks(p, end, Last(n), f)}
<1>1. 0 \in Shown
  <2>. DEFINE f == [x \in Last(0) |-> None]
  <2>1. ASSUME NEW x \in Last(0) PROVE Look(p, end, x, f) = None
    BY DEF Look
  <2>2. Looks(p, end, Last(0), f)
    BY <2>1 DEF Looks
  <2>. QED
    BY <2>2
<1>2. ASSUME NEW n \in Nat, n \in Shown PROVE n + 1 \in Shown
  <2>1. PICK f : Looks(p, end, Last(n), f)
    BY <1>2
  <2>. DEFINE g == [x \in Last(n + 1) |-> IF x \in Last(n) THEN f[x] ELSE Look(p, end, x, f)]
  <2>2. \A x \in Last(n) : x \in Last(n + 1)
    OBVIOUS
  <2>3. \A x \in Last(n) : g[x] = f[x] /\ f[x] = Look(p, end, x, f)
    BY <2>1, <2>2 DEF Looks
  <2>4. ASSUME NEW x \in Last(n + 1) PROVE g[x] = Look(p, end, x, g)
    <3>1. g[x] = Look(p, end, x, f)
      BY <2>3
    <3>2. Look(p, end, x, f) = Look(p, end, x, g)
      <4>. DEFINE w == Word(p, x + 2)
      <4>1. CASE x + 4 > end \/ x + 4 + w > end
        BY <4>1 DEF Look
      <4>2. CASE ~(x + 4 > end \/ x + 4 + w > end)
        <5>1. w \in Nat
          <6>1. x + 2 \in Nat /\ Len(p) \in Nat /\ x \in Nat
            BY LenProperties DEF Bytes
          <6>2. x + 4 <= Len(p)
            BY <4>2, <6>1
          <6>3. (x + 2) + 2 <= Len(p)
            BY <6>1, <6>2
          <6>. QED
            BY <6>1, <6>3, WordNat
        <5>. HIDE DEF w
        <5>2. x + 4 + w \in Last(n)
          BY <4>2, <5>1
        <5>3. f[x + 4 + w] = g[x + 4 + w]
          BY <2>3, <5>2
        <5>. HIDE DEF g
        <5>. QED
          BY <4>2, <5>3 DEF Look, w
      <4>. QED
        BY <4>1, <4>2
    <3>. QED
      BY <3>1, <3>2
  <2>5. g = [x \in Last(n + 1) |-> g[x]]
    OBVIOUS
  <2>. HIDE DEF g, Last
  <2>6. Looks(p, end, Last(n + 1), g)
    BY <2>4, <2>5 DEF Looks
  <2>. QED
    BY <2>6
<1>3. \A n \in Nat : n \in Shown
  <2>. HIDE DEF Shown
  <2>. QED
    BY <1>1, <1>2, NatSetInduction
<1>4. Last(end) = 0 .. end
  OBVIOUS
<1>. HIDE DEF Last
<1>. QED
  BY <1>3, <1>4

LEMMA SearchIs ==
    ASSUME NEW p \in Bytes, NEW end \in Nat, end <= Len(p), NEW start \in 0 .. end
    PROVE  \E f : Looks(p, end, 0 .. end, f) /\ SearchExtensions(p, start, end) = f[start]
<1>. DEFINE g == CHOOSE f : Looks(p, end, 0 .. end, f)
<1>1. Looks(p, end, 0 .. end, g)
  BY SearchExists
<1>2. SearchExtensions(p, start, end) = IF start > end THEN None ELSE g[start]
  BY DEF SearchExtensions, Looks, Look
<1>. HIDE DEF g
<1>3. SearchExtensions(p, start, end) = g[start]
  BY <1>2
<1>. QED
  BY <1>1, <1>3

LEMMA SizedExtension ==
    ASSUME NEW x, IsExtension(x)
    PROVE  Sized(Extension(x), 4 + Len(x.data))
<1>. DEFINE n == Len(x.data)
<1>1. Sized(x.data, n) /\ n <= 65535
  BY SizedLength DEF IsExtension
<1>2. Sized(Bytes2(x.type), 2)
  BY SizedBytes2 DEF IsExtension
<1>. HIDE DEF n
<1>3. Sized(Field2(x.data), 2 + n)
  BY <1>1, SizedField2
<1>4. Sized(Bytes2(x.type) \o Field2(x.data), 2 + (2 + n))
  BY <1>2, <1>3, SizedAppend
<1>5. 2 + (2 + n) = 4 + n
  BY <1>1 DEF Sized
<1>. QED
  BY <1>4, <1>5 DEF Extension, n

LEMMA HasExtension ==
    ASSUME NEW p, NEW o, NEW x, IsExtension(x), Has(p, o, Extension(x))
    PROVE  /\ Word(p, o) = x.type /\ Word(p, o + 2) = Len(x.data)
           /\ Has(p, o + 4, x.data) /\ o + 4 + Len(x.data) <= Len(p)
<1>. DEFINE n == Len(x.data)
<1>1. Sized(x.data, n) /\ n <= 65535 /\ x.type \in Nat
  BY SizedLength DEF IsExtension
<1>2. Sized(Bytes2(x.type), 2)
  BY SizedBytes2 DEF IsExtension
<1>. HIDE DEF n
<1>3. Sized(Field2(x.data), 2 + n)
  BY <1>1, SizedField2
<1>4. Has(p, o, Bytes2(x.type) \o Field2(x.data))
  BY DEF Extension
<1>5. Has(p, o, Bytes2(x.type))
  BY <1>2, <1>3, <1>4, HasFirst
<1>6. Has(p, o + 2, Field2(x.data))
  BY <1>2, <1>3, <1>4, HasSecond
<1>7. Word(p, o) = x.type
  BY <1>1, <1>5, HasWord
<1>8. /\ Word(p, o + 2) = n /\ Has(p, (o + 2) + 2, x.data)
      /\ (o + 2) + 2 + n <= Len(p)
  BY <1>1, <1>6, HasField2
<1>9. (o + 2) + 2 = o + 4
  BY <1>4 DEF Has
<1>. QED
  BY <1>7, <1>8, <1>9 DEF n

\* What HostName makes of the data of a NameExtension.
LEMMA HasName ==
    ASSUME NEW p, NEW o, NEW name, NEW n, Sized(name, n), n <= 65530,
           Has(p, o, NameExtension(name).data)
    PROVE  /\ IsExtension(NameExtension(name)) /\ NameExtension(name).type = 0
           /\ HostName(p, o, Len(NameExtension(name).data)) = <<name>>
<1>. DEFINE list == <<0>> \o Field2(name)
            m == 3 + n
            x == NameExtension(name)
            q == o + 2
            r == o + 3
<1>0. n \in Nat /\ n <= 65535
  BY DEF Sized
<1>1. Sized(<<0>>, 1)
  BY SizedOne
<1>2. Sized(Field2(name), 2 + n)
  <2>1. n <= 65535
    BY <1>0
  <2>. QED
    BY <2>1, SizedField2
<1>3. Sized(list, m)
  <2>1. Sized(list, 1 + (2 + n))
    BY <1>1, <1>2, SizedAppend
  <2>2. 1 + (2 + n) = m
    BY <1>0
  <2>. QED
    BY <2>1, <2>2
<1>4. x.data = Field2(list) /\ x.type = 0
  BY DEF NameExtension
<1>5. m \in Nat /\ m <= 65533
  BY <1>0
<1>. HIDE DEF list, m, x, q, r
<1>6. Has(p, o, Field2(list)) /\ m <= 65535
  BY <1>4, <1>5 DEF x
<1>7. Word(p, o) = m /\ Has(p, o + 2, list)
  BY <1>3, <1>6, HasField2
<1>8. Sized(Field2(list), 2 + m)
  BY <1>3, <1>6, SizedField2
<1>9. o \in Nat
  BY <1>6 DEF Has
<1>10. q = o + 2 /\ r = q + 1 /\ r = o + 3 /\ r + 2 = o + 5
  BY <1>9 DEF q, r
<1>11. Has(p, q, <<0>> \o Field2(name))
  BY <1>7, <1>10 DEF list
<1>12. At(p, q) = 0
  <2>1. Has(p, q, <<0>>)
    BY <1>1, <1>2, <1>11, HasFirst
  <2>. QED
    BY <2>1, HasByte
<1>14. Has(p, r, Field2(name))
  <2>1. Has(p, q + 1, Field2(name))
    BY <1>1, <1>2, <1>11, HasSecond
  <2>. QED
    BY <1>10, <2>1
<1>15. Word(p, r) = n /\ Has(p, r + 2, name)
  <2>1. n <= 65535
    BY <1>0
  <2>. QED
    BY <1>14, <2>1, HasField2
<1>17. Slice(p, o + 5, n) = name
  BY <1>10, <1>15, SliceOf
<1>18. Len(x.data) = 2 + m
  BY <1>4, <1>8 DEF Sized
<1>19. HostName(p, o, 2 + m) = <<name>>
  <2>1. 2 + m >= 5 /\ m >= 3 /\ n <= (2 + m) - 5
    BY <1>0 DEF m
  <2>2. Word(p, o + 3) = n /\ At(p, o + 2) = 0
    BY <1>10, <1>12, <1>15
  <2>. QED
    BY <1>7, <1>17, <2>1, <2>2 DEF HostName
<1>20. IsExtension(x)
  BY <1>4, <1>5, <1>8 DEF IsExtension, Sized
<1>. QED
  BY <1>4, <1>18, <1>19, <1>20 DEF x

LEMMA LookExtension ==
    ASSUME NEW p, NEW o, NEW x, IsExtension(x), Has(p, o, Extension(x)),
           NEW c, Len(x.data) = c, NEW b, b = o + 4 + c, NEW end \in Nat, b <= end, NEW f
    PROVE  Look(p, end, o, f) = IF x.type = 0 THEN HostName(p, o + 4, c) ELSE f[b]
<1>1. Word(p, o) = x.type /\ Word(p, o + 2) = c
  BY HasExtension
<1>2. c \in Nat /\ o \in Nat
  BY LenProperties DEF IsExtension, Bytes, Has
<1>3. ~(o + 4 > end \/ o + 4 + c > end)
  BY <1>2
<1>. QED
  BY <1>1, <1>3 DEF Look

\* The bytes of n extensions.
Written(xs, n, s) == \A k \in 1 .. n : IsExtension(xs[k]) /\ s[k] = Extension(xs[k])
\* The search decides at extension x, which stands at a, or goes on at b.
GoesOn(p, x, a, b, g) ==
    /\ Has(p, a + 4, x.data)
    /\ g[a] = IF x.type = 0 THEN HostName(p, a + 4, Len(x.data)) ELSE g[b]

LEMMA SearchGoesOn ==
    ASSUME NEW p, NEW end \in Nat, NEW g, Looks(p, end, 0 .. end, g),
           NEW x, IsExtension(x), NEW a, Has(p, a, Extension(x)),
           NEW b, b = a + Len(Extension(x)), b <= end
    PROVE  GoesOn(p, x, a, b, g)
<1>. DEFINE c == Len(x.data)
<1>1. Sized(Extension(x), 4 + c)
  BY SizedExtension
<1>2. c \in Nat /\ a \in Nat
  BY LenProperties DEF IsExtension, Bytes, Has
<1>3. b = a + (4 + c)
  BY <1>1 DEF Sized
<1>. HIDE DEF c
<1>4. b = a + 4 + c /\ a \in 0 .. end
  BY <1>2, <1>3
<1>5. g[a] = Look(p, end, a, g)
  BY <1>4 DEF Looks
<1>6. Look(p, end, a, g) = IF x.type = 0 THEN HostName(p, a + 4, c) ELSE g[b]
  <2>1. Len(x.data) = c
    BY DEF c
  <2>2. b = a + 4 + c
    BY <1>4
  <2>. QED
    BY <2>1, <2>2, LookExtension
<1>7. Has(p, a + 4, x.data)
  BY HasExtension
<1>. QED
  BY <1>5, <1>6, <1>7 DEF GoesOn, c

LEMMA SearchFinds ==
    ASSUME NEW p \in Bytes, NEW end \in Nat, end <= Len(p),
           NEW xs, NEW n \in Nat, NEW s, NEW at, Written(xs, n, s),
           Laid(p, s, n, at), at[1] \in Nat, at[1] <= end, at[n + 1] \in Nat, at[n + 1] <= end,
           NEW i \in 1 .. n, NEW name, NEW m, Sized(name, m), m <= 65530, Names(xs, i, name)
    PROVE  SearchExtensions(p, at[1], end) = <<name>>
<1>1. at[1] \in 0 .. end
  OBVIOUS
<1>2. PICK g : Looks(p, end, 0 .. end, g) /\ SearchExtensions(p, at[1], end) = g[at[1]]
  BY <1>1, SearchIs
<1>3. ASSUME NEW k \in 1 .. n
      PROVE  GoesOn(p, xs[k], at[k], at[k + 1], g)
  <2>. DEFINE x == xs[k]  a == at[k]  b == at[k + 1]  e == at[n + 1]
  <2>1. IsExtension(x) /\ s[k] = Extension(x)
    BY DEF Written
  <2>2. a \in Nat /\ b = a + Len(s[k]) /\ b <= e /\ Has(p, a, s[k])
    BY DEF Laid
  <2>3. e \in Nat /\ e <= end
    OBVIOUS
  <2>4. Len(s[k]) \in Nat
    BY <2>1, SizedExtension DEF Sized
  <2>. HIDE DEF x, a, b, e
  <2>5. Has(p, a, Extension(x)) /\ b = a + Len(Extension(x))
    BY <2>1, <2>2
  <2>6. b <= end
    BY <2>2, <2>3, <2>4
  <2>7. GoesOn(p, x, a, b, g)
    BY <1>2, <2>1, <2>5, <2>6, SearchGoesOn
  <2>. QED
    BY <2>7 DEF x, a, b
<1>4. g[at[1]] = g[at[i]]
  <2>. DEFINE Shown == {k \in Nat : k + 1 <= i => g[at[1]] = g[at[k + 1]]}
  <2>1. 0 \in Shown
    OBVIOUS
  <2>2. ASSUME NEW k \in Nat, k \in Shown PROVE k + 1 \in Shown
    <3>1. SUFFICES ASSUME (k + 1) + 1 <= i PROVE g[at[1]] = g[at[(k + 1) + 1]]
      OBVIOUS
    <3>2. k + 1 \in 1 .. n /\ k + 1 \in 1 .. i - 1 /\ k + 1 <= i
      BY <3>1
    <3>3. xs[k + 1].type # 0 /\ g[at[1]] = g[at[k + 1]]
      BY <2>2, <3>2 DEF Names
    <3>. QED
      BY <1>3, <3>2, <3>3 DEF GoesOn
  <2>. HIDE DEF Shown
  <2>3. \A k \in Nat : k \in Shown
    BY <2>1, <2>2, NatSetInduction
  <2>4. i - 1 \in Nat /\ (i - 1) + 1 = i /\ i <= i
    OBVIOUS
  <2>5. i - 1 \in Shown
    BY <2>3, <2>4
  <2>. QED
    BY <2>4, <2>5 DEF Shown
<1>5. Has(p, at[i] + 4, NameExtension(name).data) /\ xs[i] = NameExtension(name)
  BY <1>3 DEF Names, GoesOn
<1>6. /\ NameExtension(name).type = 0
      /\ HostName(p, at[i] + 4, Len(NameExtension(name).data)) = <<name>>
  BY <1>5, HasName
<1>7. g[at[i]] = <<name>>
  BY <1>3, <1>5, <1>6 DEF GoesOn
<1>. QED
  BY <1>2, <1>4, <1>7

-----------------------------------------------------------------------------
(* The hello                                                               *)

\* Sums by name: the leaves below match offsets, and these say what they are.
Adds(a, b, c) == a \in Nat /\ b \in Nat /\ c = a + b
\* The numbers that one byte or two can tell.
InOneByte(n) == n <= 255
InTwoBytes(n) == n <= 65535

LEMMA SizedSum ==
    ASSUME NEW s, NEW n, Sized(s, n), NEW t, NEW m, Sized(t, m), NEW k, Adds(n, m, k)
    PROVE  Sized(s \o t, k)
<1>1. Sized(s \o t, n + m)
  BY SizedAppend
<1>. QED
  BY <1>1 DEF Adds

LEMMA SumField1 ==
    ASSUME NEW s, NEW n, Sized(s, n), InOneByte(n), NEW k, Adds(1, n, k)
    PROVE  Sized(Field1(s), k)
<1>1. Sized(Field1(s), 1 + n)
  BY SizedField1 DEF InOneByte
<1>. QED
  BY <1>1 DEF Adds

LEMMA SumField2 ==
    ASSUME NEW s, NEW n, Sized(s, n), InTwoBytes(n), NEW k, Adds(2, n, k)
    PROVE  Sized(Field2(s), k)
<1>1. Sized(Field2(s), 2 + n)
  BY SizedField2 DEF InTwoBytes
<1>. QED
  BY <1>1 DEF Adds

LEMMA HasRest ==
    ASSUME NEW p, NEW o, NEW s, NEW n, Sized(s, n), NEW t, NEW m, Sized(t, m),
           Has(p, o, s \o t), NEW q, Adds(o, n, q)
    PROVE  Has(p, q, t)
<1>1. Has(p, o + n, t)
  BY HasSecond
<1>. QED
  BY <1>1 DEF Adds

LEMMA AfterField1 ==
    ASSUME NEW p, NEW o, NEW s, NEW n, Sized(s, n), InOneByte(n), Has(p, o, Field1(s)),
           NEW k, Adds(1, n, k), NEW q, Adds(o, k, q)
    PROVE  After1(p, o) = q
<1>1. After1(p, o) = o + 1 + n
  BY HasField1 DEF InOneByte
<1>2. o + 1 + n = q
  BY DEF Adds
<1>. QED
  BY <1>1, <1>2

LEMMA EndOfField2 ==
    ASSUME NEW p, NEW o, NEW s, NEW n, Sized(s, n), n <= 65535, Has(p, o, Field2(s))
    PROVE  After2(p, o) = o + 2 + n
<1>1. /\ Word(p, o) = n /\ Has(p, o + 2, s) /\ After2(p, o) = o + 2 + n
      /\ o + 2 + n <= Len(p)
  BY HasField2
<1>. QED
  BY <1>1

LEMMA AfterField2 ==
    ASSUME NEW p, NEW o, NEW s, NEW n, Sized(s, n), InTwoBytes(n), Has(p, o, Field2(s)),
           NEW k, Adds(2, n, k), NEW q, Adds(o, k, q)
    PROVE  After2(p, o) = q
<1>0. n <= 65535
  BY DEF InTwoBytes
<1>1. After2(p, o) = o + 2 + n
  BY <1>0, EndOfField2
<1>2. o + 2 + n = q
  BY DEF Adds
<1>. QED
  BY <1>1, <1>2

LEMMA LengthField2 ==
    ASSUME NEW p, NEW o, NEW s, NEW n, Sized(s, n), InTwoBytes(n), Has(p, o, Field2(s))
    PROVE  Word(p, o) = n
<1>1. n <= 65535
  BY DEF InTwoBytes
<1>. QED
  BY <1>1, HasField2

LEMMA InField2 ==
    ASSUME NEW p, NEW o, NEW s, NEW n, Sized(s, n), InTwoBytes(n), Has(p, o, Field2(s)),
           NEW q, Adds(o, 2, q)
    PROVE  Has(p, q, s)
<1>1. Has(p, o + 2, s)
  BY HasField2 DEF InTwoBytes
<1>. QED
  BY <1>1 DEF Adds

\* A body of n bytes in a record, and the record in a packet.
Packed(body) == <<22, 3, 1>> \o Field2(<<1, 0>> \o Field2(body))

LEMMA SizedThree == Sized(<<22, 3, 1>>, 3)
  BY IsByte DEF Bytes, Sized

LEMMA PackedFacts ==
    ASSUME NEW body, NEW n, Sized(body, n), InTwoBytes(n), NEW n2, Adds(2, n, n2),
           NEW m, Adds(2, n2, m), InTwoBytes(m), NEW m2, Adds(2, m, m2), NEW size, Adds(3, m2, size)
    PROVE  LET p == Packed(body)
           IN /\ Sized(p, size) /\ Has(p, 9, body)
              /\ Has(p, 0, <<22, 3, 1>>) /\ Word(p, 3) = m /\ Has(p, 5, <<1, 0>>)
<1>. DEFINE head == <<1, 0>>
            start == <<22, 3, 1>>
            f == Field2(body)
            g == head \o f
            h == Field2(g)
            p == start \o h
<1>1. Sized(head, 2) /\ Sized(start, 3)
  BY SizedTwo, SizedThree
<1>2. Adds(0, 3, 3) /\ Adds(3, 2, 5) /\ Adds(5, 2, 7) /\ Adds(7, 2, 9)
  BY DEF Adds
<1>. HIDE DEF head, start
<1>3. Sized(f, n2)
  BY SumField2
<1>4. Has(p, 5, g) => Has(p, 7, f)
  <2>. HIDE DEF f
  <2>. QED
    BY <1>1, <1>2, <1>3, HasRest
<1>5. Has(p, 7, f) => Has(p, 9, body)
  BY <1>2, InField2
<1>6. Has(p, 5, g) => Has(p, 5, head)
  <2>. HIDE DEF f
  <2>. QED
    BY <1>1, <1>3, HasFirst
<1>7. Sized(g, m)
  <2>. HIDE DEF f
  <2>. QED
    BY <1>1, <1>3, SizedSum
<1>. HIDE DEF g
<1>8. Sized(h, m2)
  BY <1>7, SumField2
<1>9. Has(p, 3, h) => Has(p, 5, g)
  BY <1>2, <1>7, InField2
<1>10. Has(p, 3, h) => Word(p, 3) = m
  BY <1>7, LengthField2
<1>. HIDE DEF h
<1>11. Sized(p, size)
  BY <1>1, <1>8, SizedSum
<1>12. Has(p, 0, p)
  BY <1>11, HasAll DEF Sized
<1>13. Has(p, 0, start)
  BY <1>1, <1>8, <1>12, HasFirst
<1>14. Has(p, 3, h)
  BY <1>1, <1>2, <1>8, <1>12, HasRest
<1>. QED
  BY <1>4, <1>5, <1>6, <1>9, <1>10, <1>11, <1>13, <1>14 DEF Packed, p, h, g, f, head, start

\* The code finds the extensions where the sender put them.
LEMMA HelloOffsets ==
    ASSUME NEW p, NEW random, Sized(random, 32),
           NEW session, NEW a, Sized(session, a), InOneByte(a), NEW a1, Adds(1, a, a1),
           NEW ciphers, NEW b, Sized(ciphers, b), InTwoBytes(b), NEW b2, Adds(2, b, b2),
           NEW methods, NEW c, Sized(methods, c), InOneByte(c), NEW c1, Adds(1, c, c1),
           NEW written, NEW d, Sized(written, d), InTwoBytes(d), NEW d2, Adds(2, d, d2),
           NEW n3, Adds(34, a1, n3), NEW n4, Adds(n3, b2, n4), NEW n5, Adds(n4, c1, n5),
           NEW n6, Adds(n5, d2, n6),
           NEW o3, Adds(9, n3, o3), Adds(43, a1, o3),
           NEW o4, Adds(9, n4, o4), Adds(o3, b2, o4),
           NEW o5, Adds(9, n5, o5), Adds(o4, c1, o5), NEW o6, Adds(o5, 2, o6)
    PROVE  LET body == HelloBody(random, session, ciphers, methods, written)
           IN /\ Sized(body, n6)
              /\ Has(p, 9, body) => /\ ExtensionsOffset(p) = o5 /\ Word(p, o5) = d
                                    /\ Has(p, o6, written)
<1>. DEFINE f3 == Field1(session)
            f4 == Field2(ciphers)
            f5 == Field1(methods)
            f6 == Field2(written)
            q1 == <<3, 3>>
            q2 == q1 \o random
            q3 == q2 \o f3
            q4 == q3 \o f4
            q5 == q4 \o f5
            q6 == q5 \o f6
<1>1. Sized(f3, a1) /\ Sized(f4, b2) /\ Sized(f5, c1) /\ Sized(f6, d2)
  BY SumField1, SumField2
<1>2. Sized(q1, 2)
  BY SizedTwo
<1>3. Adds(2, 32, 34) /\ Adds(9, 34, 43)
  BY DEF Adds
<1>4. Has(p, 43, f3) => After1(p, 43) = o3
  BY AfterField1
<1>5. Has(p, o3, f4) => After2(p, o3) = o4
  BY AfterField2
<1>6. Has(p, o4, f5) => After1(p, o4) = o5
  BY AfterField1
<1>7. Has(p, o5, f6) => Word(p, o5) = d
  BY LengthField2
<1>8. Has(p, o5, f6) => Has(p, o6, written)
  BY InField2
<1>. HIDE DEF q1, f3, f4, f5, f6
<1>9. Sized(q2, 34)
  BY <1>2, <1>3, SizedSum
<1>. HIDE DEF q2
<1>10. /\ Sized(q3, n3)
       /\ Has(p, 9, q3) => Has(p, 43, f3)
  <2>1. Sized(q3, n3)
    BY <1>1, <1>9, SizedSum
  <2>2. Has(p, 9, q3) => Has(p, 43, f3)
    BY <1>1, <1>3, <1>9, HasRest
  <2>. QED
    BY <2>1, <2>2
<1>. HIDE DEF q3
<1>11. Sized(q4, n4)
  BY <1>1, <1>10, SizedSum
<1>12. Has(p, 9, q4) => Has(p, 9, q3)
  BY <1>1, <1>10, HasFirst
<1>13. Has(p, 9, q4) => Has(p, o3, f4)
  BY <1>1, <1>10, HasRest
<1>. HIDE DEF q4
<1>14. Sized(q5, n5)
  BY <1>1, <1>11, SizedSum
<1>15. Has(p, 9, q5) => Has(p, 9, q4)
  BY <1>1, <1>11, HasFirst
<1>16. Has(p, 9, q5) => Has(p, o4, f5)
  BY <1>1, <1>11, HasRest
<1>. HIDE DEF q5
<1>17. Sized(q6, n6)
  BY <1>1, <1>14, SizedSum
<1>18. Has(p, 9, q6) => Has(p, 9, q5)
  BY <1>1, <1>14, HasFirst
<1>19. Has(p, 9, q6) => Has(p, o5, f6)
  BY <1>1, <1>14, HasRest
<1>. HIDE DEF q6
<1>20. ASSUME Has(p, 9, q6)
       PROVE  /\ ExtensionsOffset(p) = o5 /\ Word(p, o5) = d /\ Has(p, o6, written)
  <2>1. After1(p, 43) = o3 /\ After2(p, o3) = o4 /\ After1(p, o4) = o5
    BY <1>4, <1>5, <1>6, <1>10, <1>12, <1>13, <1>15, <1>16, <1>18, <1>20
  <2>2. ExtensionsOffset(p) = o5
    BY <2>1 DEF ExtensionsOffset
  <2>. QED
    BY <1>7, <1>8, <1>19, <1>20, <2>2
<1>21. HelloBody(random, session, ciphers, methods, written) = q6
  BY DEF HelloBody, q6, q5, q4, q3, q2, q1, f3, f4, f5, f6
<1>. QED
  BY <1>17, <1>20, <1>21

LEMMA ExtensionsWritten ==
    ASSUME NEW xs, IsExtensions(xs), NEW n, n = Len(xs),
           NEW s, s = [k \in DOMAIN xs |-> Extension(xs[k])]
    PROVE  /\ n \in Nat /\ Len(s) = n /\ Written(xs, n, s)
           /\ \A k \in 1 .. n : s[k] \in Bytes
<1>1. n \in Nat /\ DOMAIN xs = 1 .. n
  BY DEF IsExtensions
<1>2. \A k \in 1 .. n : IsExtension(xs[k])
  BY DEF IsExtensions
<1>3. DOMAIN s = 1 .. n /\ \A k \in 1 .. n : s[k] = Extension(xs[k])
  BY <1>1
<1>4. \A k \in 1 .. n : s[k] \in Bytes
  BY <1>2, <1>3, SizedExtension DEF Sized
<1>5. Len(s) = n
  BY <1>1, <1>3
<1>. QED
  BY <1>1, <1>2, <1>3, <1>4, <1>5 DEF Written

LEMMA JoinedPieces ==
    ASSUME NEW s, NEW n, n \in Nat, Len(s) = n
    PROVE  \E f : JoinedTo(s, n, f) /\ Joined(s) = f[n]
<1>1. PICK f : JoinedTo(s, Len(s), f) /\ Joined(s) = f[Len(s)]
  BY JoinedIs
<1>. QED
  BY <1>1

LEMMA JoinedLaid ==
    ASSUME NEW p, NEW o, NEW s, NEW n, n \in Nat, Len(s) = n, \A k \in 1 .. n : s[k] \in Bytes
    PROVE  /\ Joined(s) \in Bytes
           /\ Has(p, o, Joined(s)) => LaidFrom(p, o, s, n, Len(Joined(s)))
<1>1. PICK f : JoinedTo(s, n, f) /\ Joined(s) = f[n]
  BY JoinedPieces
<1>2. f[n] \in Bytes
  <2>1. n \in 0 .. n
    OBVIOUS
  <2>2. \A k \in 0 .. n : f[k] \in Bytes
    BY <1>1, JoinedBytes
  <2>. QED
    BY <2>1, <2>2
<1>3. ASSUME Has(p, o, f[n])
      PROVE  LaidFrom(p, o, s, n, Len(f[n]))
  BY <1>1, <1>3, PiecesLaid
<1>. QED
  BY <1>1, <1>2, <1>3

\* The extensions joined, wherever they stand in p.
LEMMA ExtensionsLaid ==
    ASSUME NEW p, NEW o, NEW xs, IsExtensions(xs), NEW n, n = Len(xs)
    PROVE  /\ Extensions(xs) \in Bytes
           /\ Has(p, o, Extensions(xs)) =>
                \E s : /\ Written(xs, n, s)
                      /\ LaidFrom(p, o, s, n, Len(Extensions(xs)))
<1>1. PICK s : s = [k \in DOMAIN xs |-> Extension(xs[k])]
  OBVIOUS
<1>2. n \in Nat /\ Len(s) = n /\ Written(xs, n, s)
  BY <1>1, ExtensionsWritten
<1>3. \A k \in 1 .. n : s[k] \in Bytes
  BY <1>1, ExtensionsWritten
<1>4. Extensions(xs) = Joined(s)
  BY <1>1 DEF Extensions
<1>. QED
  BY <1>2, <1>3, <1>4, JoinedLaid

LEMMA ExtensionsBytes ==
    ASSUME NEW xs, IsExtensions(xs)
    PROVE  Extensions(xs) \in Bytes
<1>1. PICK n : n = Len(xs)
  OBVIOUS
<1>. QED
  BY <1>1, ExtensionsLaid

\* A search that starts at its end finds nothing.
LEMMA SearchOfNothing ==
    ASSUME NEW p \in Bytes, NEW o \in Nat, o <= Len(p)
    PROVE  SearchExtensions(p, o, o) = None
<1>1. o \in 0 .. o /\ o + 4 > o
  OBVIOUS
<1>2. PICK f : Looks(p, o, 0 .. o, f) /\ SearchExtensions(p, o, o) = f[o]
  BY <1>1, SearchIs
<1>3. f[o] = Look(p, o, o, f)
  BY <1>1, <1>2 DEF Looks
<1>4. Look(p, o, o, f) = None
  BY <1>1 DEF Look
<1>. QED
  BY <1>2, <1>3, <1>4

\* The search over extensions that stand in p from o on, up to their end.
LEMMA SearchNames ==
    ASSUME NEW p, NEW o, NEW xs, IsExtensions(xs), NEW i \in 1 .. Len(xs),
           NEW name, name \in Bytes, Len(name) <= 65530, Names(xs, i, name),
           Has(p, o, Extensions(xs)), NEW end, end = o + Len(Extensions(xs))
    PROVE  SearchExtensions(p, o, end) = <<name>>
<1>1. PICK n : n = Len(xs)
  OBVIOUS
<1>2. n \in Nat /\ i \in 1 .. n
  BY <1>1 DEF IsExtensions
<1>3. PICK s : Written(xs, n, s) /\ LaidFrom(p, o, s, n, Len(Extensions(xs)))
  BY <1>1, ExtensionsLaid
<1>4. PICK at : Laid(p, s, n, at) /\ at[1] = o /\ at[n + 1] = end
  BY <1>3 DEF LaidFrom
<1>5. Extensions(xs) \in Bytes /\ Len(Extensions(xs)) \in Nat
  BY ExtensionsLaid, LenProperties DEF Bytes
<1>6. /\ p \in Bytes /\ o \in Nat /\ end \in Nat /\ end <= Len(p) /\ o <= end
  BY <1>5 DEF Has
<1>7. PICK m : Sized(name, m) /\ m <= 65530
  BY SizedLength
<1>8. SearchExtensions(p, at[1], end) = <<name>>
  <2>1. at[1] \in Nat /\ at[1] <= end /\ at[n + 1] \in Nat /\ at[n + 1] <= end
    BY <1>4, <1>6
  <2>. QED
    BY <1>2, <1>3, <1>4, <1>6, <1>7, <2>1, SearchFinds
<1>. QED
  BY <1>4, <1>8

\* Where the parts of a hello stand that a packet holds.
LEMMA HelloLaid ==
    ASSUME NEW random, NEW session, NEW ciphers, NEW methods, NEW xs, NEW i, NEW name,
           SoundHello(random, session, ciphers, methods, xs, i, name)
    PROVE  LET p == ClientHello(random, session, ciphers, methods, xs)
               e == ExtensionsOffset(p)
           IN /\ p \in Bytes /\ e \in Nat /\ Len(p) \in Nat
              /\ IsTLSClientHello(p) /\ Has(p, e + 2, Extensions(xs))
              /\ Word(p, e) = Len(Extensions(xs))
              /\ Len(p) = e + 2 + Len(Extensions(xs)) /\ Len(p) >= 49 + Len(Extensions(xs))
<1>. DEFINE written == Extensions(xs)
            a == Len(session)  b == Len(ciphers)  c == Len(methods)  d == Len(written)
            a1 == 1 + a  b2 == 2 + b  c1 == 1 + c  d2 == 2 + d
            n3 == 34 + a1  n4 == n3 + b2  n5 == n4 + c1  n6 == n5 + d2
            o3 == 9 + n3  o4 == 9 + n4  o5 == 9 + n5  o6 == o5 + 2
            r2 == 2 + n6  m == 2 + r2  m2 == 2 + m  size == 3 + m2
            body == HelloBody(random, session, ciphers, methods, written)
            p == ClientHello(random, session, ciphers, methods, xs)
<1>1. written \in Bytes
  BY ExtensionsBytes DEF SoundHello
<1>2. /\ Sized(session, a) /\ Sized(ciphers, b) /\ Sized(methods, c) /\ Sized(written, d)
      /\ Sized(random, 32)
  <2>1. /\ random \in Bytes /\ session \in Bytes /\ ciphers \in Bytes /\ methods \in Bytes
        /\ Len(random) = 32
    BY DEF SoundHello
  <2>. HIDE DEF written
  <2>2. Sized(session, a)
    BY <2>1, SizedLength
  <2>3. Sized(ciphers, b)
    BY <2>1, SizedLength
  <2>4. Sized(methods, c)
    BY <2>1, SizedLength
  <2>5. Sized(written, d)
    BY <1>1, SizedLength
  <2>6. Sized(random, 32)
    <3>1. Sized(random, Len(random))
      BY <2>1, SizedLength
    <3>. QED
      BY <2>1, <3>1
  <2>. QED
    BY <2>2, <2>3, <2>4, <2>5, <2>6
<1>3. p = Packed(body)
  BY DEF ClientHello, Packed
<1>4. a \in Nat /\ b \in Nat /\ c \in Nat /\ d \in Nat
  BY <1>2 DEF Sized
<1>5. a <= 255 /\ c <= 255 /\ a + b + c + d <= 65491
  BY DEF SoundHello
<1>. HIDE DEF a, b, c, d, p, body, written
<1>6. /\ Adds(1, a, a1) /\ Adds(2, b, b2) /\ Adds(1, c, c1) /\ Adds(2, d, d2)
      /\ Adds(34, a1, n3) /\ Adds(n3, b2, n4) /\ Adds(n4, c1, n5) /\ Adds(n5, d2, n6)
  BY <1>4 DEF Adds
<1>7. /\ Adds(9, n3, o3) /\ Adds(43, a1, o3) /\ Adds(9, n4, o4) /\ Adds(o3, b2, o4)
      /\ Adds(9, n5, o5) /\ Adds(o4, c1, o5) /\ Adds(o5, 2, o6)
  BY <1>4 DEF Adds
<1>8. Adds(2, n6, r2) /\ Adds(2, r2, m) /\ Adds(2, m, m2) /\ Adds(3, m2, size)
  BY <1>4 DEF Adds
<1>9. InOneByte(a) /\ InOneByte(c) /\ InTwoBytes(b) /\ InTwoBytes(d)
  BY <1>4, <1>5 DEF InOneByte, InTwoBytes
<1>10. InTwoBytes(n6) /\ InTwoBytes(m)
  BY <1>4, <1>5 DEF InTwoBytes
<1>11. /\ o5 \in Nat /\ o6 = o5 + 2 /\ size \in Nat /\ size = o5 + 2 + d
       /\ size >= 49 + d /\ m = size - 5 /\ size >= 9
  BY <1>4
<1>. HIDE DEF a1, b2, c1, d2, n3, n4, n5, n6, o3, o4, o5, o6, r2, m, m2, size
<1>12. /\ Sized(body, n6)
       /\ Has(p, 9, body) => /\ ExtensionsOffset(p) = o5 /\ Word(p, o5) = d
                             /\ Has(p, o6, written)
  BY <1>2, <1>6, <1>7, <1>9, HelloOffsets DEF body
<1>13. /\ Sized(p, size) /\ Has(p, 9, body)
       /\ Has(p, 0, <<22, 3, 1>>) /\ Word(p, 3) = m /\ Has(p, 5, <<1, 0>>)
  BY <1>3, <1>8, <1>10, <1>12, PackedFacts
<1>14. At(p, 0) = 22 /\ Word(p, 1) = 769
  <2>1. p[0 + 1] = 22 /\ p[0 + 2] = 3 /\ p[0 + 3] = 1
    BY <1>13 DEF Has
  <2>. QED
    BY <2>1 DEF At, Word
<1>15. At(p, 5) = 1
  <2>1. p[5 + 1] = 1
    BY <1>13 DEF Has
  <2>. QED
    BY <2>1 DEF At
<1>16. p \in Bytes /\ Len(p) = size
  BY <1>13 DEF Sized
<1>17. IsTLSClientHello(p)
  BY <1>11, <1>13, <1>14, <1>15, <1>16 DEF IsTLSClientHello
<1>18. ExtensionsOffset(p) = o5 /\ Word(p, o5) = d /\ Has(p, o6, written)
  BY <1>12, <1>13
<1>. QED
  BY <1>11, <1>16, <1>17, <1>18 DEF p, d, written

\* SNIExtractor::extract finds the name in every whole hello, whatever its session
\* identifier, cipher suites, compression methods and other extensions are and
\* wherever the SNI stands among them; and inspectPayload finds it on every port.
THEOREM HelloNamed ==
    ASSUME NEW random, NEW session, NEW ciphers, NEW methods, NEW xs, NEW i, NEW name,
           SoundHello(random, session, ciphers, methods, xs, i, name)
    PROVE  LET p == ClientHello(random, session, ciphers, methods, xs)
           IN /\ ServerName(p) = <<name>>
              /\ \A src, dst : NameOf(p, src, dst) = <<name>>
<1>. DEFINE p == ClientHello(random, session, ciphers, methods, xs)
            e == ExtensionsOffset(p)
            o == e + 2
            written == Extensions(xs)
            d == Len(written)
            size == Len(p)
<1>1. p \in Bytes /\ e \in Nat /\ size \in Nat
  BY HelloLaid
<1>2. IsTLSClientHello(p) /\ Has(p, o, written)
  BY HelloLaid
<1>3. Word(p, e) = d /\ size = e + 2 + d /\ size >= 49 + d
  BY HelloLaid
<1>4. d \in Nat
  BY ExtensionsBytes, LenProperties DEF SoundHello, Bytes
<1>5. /\ IsExtensions(xs) /\ i \in 1 .. Len(xs) /\ Names(xs, i, name)
      /\ name \in Bytes /\ Len(name) <= 65530
  BY DEF SoundHello
<1>. HIDE DEF p, e, written, size, d
<1>6. size = o + d
  BY <1>1, <1>3, <1>4
<1>7. SearchExtensions(p, o, size) = <<name>>
  <2>1. size = o + Len(Extensions(xs))
    BY <1>6 DEF d, written
  <2>2. Has(p, o, Extensions(xs))
    BY <1>2 DEF written
  <2>. QED
    BY <1>5, <2>1, <2>2, SearchNames
<1>8. ServerName(p) = <<name>>
  <2>1. ~(e + 2 > size) /\ e + 2 + Word(p, e) = size /\ ~(size > size)
    BY <1>1, <1>3, <1>4
  <2>. QED
    BY <1>2, <1>7, <2>1 DEF ServerName, e, size
<1>9. d # 0
  <2>1. SUFFICES ASSUME d = 0 PROVE FALSE
    OBVIOUS
  <2>2. o = size /\ o \in Nat /\ o <= size
    BY <1>1, <1>6, <2>1
  <2>3. SearchExtensions(p, o, o) = None
    BY <1>1, <2>2, SearchOfNothing DEF size
  <2>4. <<name>> = None
    BY <1>7, <2>2, <2>3
  <2>. QED
    BY <2>4 DEF None
<1>10. size >= 50
  BY <1>1, <1>3, <1>4, <1>9
<1>11. <<name>> # None
  BY DEF None
<1>12. ASSUME NEW src, NEW dst PROVE NameOf(p, src, dst) = <<name>>
  BY <1>8, <1>10, <1>11 DEF NameOf, size
<1>. QED
  BY <1>8, <1>12 DEF p

-----------------------------------------------------------------------------
(* The query                                                               *)

DotStep(l, n, k, h) == IF k = n THEN l[k] ELSE Cat(Cat(l[k], <<46>>), h[k + 1])
DottedFrom(l, n, S, h) == h = [k \in S |-> DotStep(l, n, k, h)]

LEMMA DottedExists ==
    ASSUME NEW l, NEW n \in Nat, n > 0
    PROVE  \E h : DottedFrom(l, n, 1 .. n, h)
<1>. DEFINE Last(m) == {k \in 1 .. n : n <= k + m}
            Shown == {m \in Nat : \E h : DottedFrom(l, n, Last(m), h)}
<1>1. 0 \in Shown
  <2>. DEFINE h == [k \in Last(0) |-> l[k]]
  <2>1. ASSUME NEW k \in Last(0) PROVE DotStep(l, n, k, h) = l[k]
    BY DEF DotStep
  <2>2. DottedFrom(l, n, Last(0), h)
    BY <2>1 DEF DottedFrom
  <2>. QED
    BY <2>2
<1>2. ASSUME NEW m \in Nat, m \in Shown PROVE m + 1 \in Shown
  <2>1. PICK h : DottedFrom(l, n, Last(m), h)
    BY <1>2
  <2>. DEFINE g == [k \in Last(m + 1) |-> IF k \in Last(m) THEN h[k] ELSE DotStep(l, n, k, h)]
  <2>2. \A k \in Last(m) : k \in Last(m + 1)
    OBVIOUS
  <2>3. \A k \in Last(m) : g[k] = h[k] /\ h[k] = DotStep(l, n, k, h)
    BY <2>1, <2>2 DEF DottedFrom
  <2>4. ASSUME NEW k \in Last(m + 1) PROVE g[k] = DotStep(l, n, k, g)
    <3>1. g[k] = DotStep(l, n, k, h)
      BY <2>3
    <3>2. k # n => k + 1 \in Last(m)
      OBVIOUS
    <3>. HIDE DEF g, Last
    <3>3. DotStep(l, n, k, h) = DotStep(l, n, k, g)
      BY <2>3, <3>2 DEF DotStep
    <3>. QED
      BY <3>1, <3>3
  <2>5. g = [k \in Last(m + 1) |-> g[k]]
    OBVIOUS
  <2>. HIDE DEF g, Last
  <2>6. DottedFrom(l, n, Last(m + 1), g)
    BY <2>4, <2>5 DEF DottedFrom
  <2>. QED
    BY <2>6
<1>3. \A m \in Nat : m \in Shown
  <2>. HIDE DEF Shown
  <2>. QED
    BY <1>1, <1>2, NatSetInduction
<1>4. Last(n) = 1 .. n
  OBVIOUS
<1>. HIDE DEF Last
<1>. QED
  BY <1>3, <1>4

LEMMA DottedIs ==
    ASSUME NEW l, NEW n, n \in Nat, n > 0, Len(l) = n
    PROVE  \E h : DottedFrom(l, n, 1 .. n, h) /\ Dotted(l) = h[1]
<1>. DEFINE g == CHOOSE h : DottedFrom(l, n, 1 .. n, h)
<1>1. DottedFrom(l, n, 1 .. n, g)
  BY DottedExists
<1>2. Dotted(l) = g[1]
  BY DEF Dotted, DottedFrom, DotStep, Cat
<1>. QED
  BY <1>1, <1>2

\* What the name of a label is followed by.
Rest(p, x, f) == IF x < Len(p) THEN f[x] ELSE <<>>
LabelStep(p, x, f) ==
    IF x = Len(p) \/ At(p, x) = 0 \/ At(p, x) > 63 \/ x + 1 + At(p, x) > Len(p) THEN <<>>
    ELSE Slice(p, x + 1, At(p, x))
           \o (IF Rest(p, x + 1 + At(p, x), f) = <<>> THEN <<>>
               ELSE <<Dot>> \o Rest(p, x + 1 + At(p, x), f))
LabelsFrom(p, S, f) == f = [x \in S |-> LabelStep(p, x, f)]

LEMMA AtNat ==
    ASSUME NEW p \in Bytes, NEW x \in Nat, x < Len(p)
    PROVE  At(p, x) \in Nat
<1>1. x + 1 \in 1 .. Len(p)
  BY LenProperties DEF Bytes
<1>2. p[x + 1] \in ByteValues
  BY <1>1, ElementOfSeq DEF Bytes
<1>3. \A b \in ByteValues : b \in Nat
  BY DEF ByteValues
<1>. QED
  BY <1>2, <1>3 DEF At

LEMMA LabelsExist ==
    ASSUME NEW p \in Bytes, Len(p) >= 12
    PROVE  \E f : LabelsFrom(p, 12 .. Len(p), f)
<1>. DEFINE end == Len(p)
            Last(m) == {x \in 12 .. end : end <= x + m}
            Shown == {m \in Nat : \E f : LabelsFrom(p, Last(m), f)}
<1>0. end \in Nat
  BY LenProperties DEF Bytes
<1>. HIDE DEF end
<1>1. 0 \in Shown
  <2>. DEFINE f == [x \in Last(0) |-> <<>>]
  <2>1. ASSUME NEW x \in Last(0) PROVE LabelStep(p, x, f) = <<>>
    <3>1. x = end
      BY <1>0
    <3>. QED
      BY <3>1 DEF LabelStep, end
  <2>2. LabelsFrom(p, Last(0), f)
    BY <2>1 DEF LabelsFrom
  <2>. QED
    BY <2>2
<1>2. ASSUME NEW m \in Nat, m \in Shown PROVE m + 1 \in Shown
  <2>1. PICK f : LabelsFrom(p, Last(m), f)
    BY <1>2
  <2>. DEFINE g == [x \in Last(m + 1) |-> IF x \in Last(m) THEN f[x] ELSE LabelStep(p, x, f)]
  <2>2. \A x \in Last(m) : x \in Last(m + 1)
    BY <1>0
  <2>3. \A x \in Last(m) : g[x] = f[x] /\ f[x] = LabelStep(p, x, f)
    BY <2>1, <2>2 DEF LabelsFrom
  <2>4. ASSUME NEW x \in Last(m + 1) PROVE g[x] = LabelStep(p, x, g)
    <3>1. g[x] = LabelStep(p, x, f)
      BY <2>3
    <3>2. CASE x = end
      <4>1. LabelStep(p, x, f) = <<>> /\ LabelStep(p, x, g) = <<>>
        BY <3>2 DEF LabelStep, end
      <4>. QED
        BY <3>1, <4>1
    <3>3. CASE x # end
      <4>. DEFINE y == x + 1 + At(p, x)
      <4>1. At(p, x) \in Nat
        <5>1. x \in Nat /\ x < end
          BY <1>0, <3>3
        <5>. QED
          BY <5>1, AtNat DEF end
      <4>2. y < end => y \in Last(m)
        BY <1>0, <4>1
      <4>. HIDE DEF y, g, Last
      <4>3. Rest(p, y, f) = Rest(p, y, g)
        BY <2>3, <4>2 DEF Rest, end
      <4>4. LabelStep(p, x, f) = LabelStep(p, x, g)
        BY <4>3 DEF LabelStep, y
      <4>. QED
        BY <3>1, <4>4
    <3>. QED
      BY <3>2, <3>3
  <2>5. g = [x \in Last(m + 1) |-> g[x]]
    OBVIOUS
  <2>. HIDE DEF g, Last
  <2>6. LabelsFrom(p, Last(m + 1), g)
    BY <2>4, <2>5 DEF LabelsFrom
  <2>. QED
    BY <2>6
<1>3. \A m \in Nat : m \in Shown
  <2>. HIDE DEF Shown
  <2>. QED
    BY <1>1, <1>2, NatSetInduction
<1>4. Last(end) = 12 .. end
  BY <1>0
<1>. HIDE DEF Last
<1>. QED
  BY <1>0, <1>3, <1>4 DEF end

LEMMA QueryNameIs ==
    ASSUME NEW p \in Bytes, Len(p) >= 12
    PROVE  \E f : /\ LabelsFrom(p, 12 .. Len(p), f)
                  /\ QueryName(p) = IF IsDNSQuery(p) /\ f[12] # <<>> THEN <<f[12]>> ELSE None
<1>. DEFINE g == CHOOSE f : LabelsFrom(p, 12 .. Len(p), f)
<1>1. LabelsFrom(p, 12 .. Len(p), g)
  BY LabelsExist
<1>2. QueryName(p) = IF IsDNSQuery(p) /\ g[12] # <<>> THEN <<g[12]>> ELSE None
  BY DEF QueryName, LabelsFrom, LabelStep, Rest
<1>. QED
  BY <1>1, <1>2

\* The fields of the labels, as many as there are labels.
Fields(l, n, s) == /\ Len(s) = n
                   /\ \A k \in 1 .. n : s[k] = Field1(l[k]) /\ s[k] \in Bytes

LEMMA SizedLabel ==
    ASSUME NEW l, IsLabel(l)
    PROVE  Sized(Field1(l), 1 + Len(l))
<1>1. Sized(l, Len(l)) /\ Len(l) <= 255
  BY SizedLength, LenProperties DEF IsLabel, Bytes
<1>. QED
  BY <1>1, SizedField1

LEMMA LabelsWritten ==
    ASSUME NEW labels, AreLabels(labels), NEW n, n = Len(labels),
           NEW s, s = [k \in DOMAIN labels |-> Field1(labels[k])]
    PROVE  Fields(labels, n, s)
<1>1. n \in Nat /\ DOMAIN labels = 1 .. n /\ \A k \in 1 .. n : IsLabel(labels[k])
  BY DEF AreLabels
<1>2. DOMAIN s = 1 .. n /\ \A k \in 1 .. n : s[k] = Field1(labels[k])
  BY <1>1
<1>3. \A k \in 1 .. n : s[k] \in Bytes
  BY <1>1, <1>2, SizedLabel DEF Sized
<1>4. Len(s) = n
  BY <1>1, <1>2
<1>. QED
  BY <1>2, <1>3, <1>4 DEF Fields

\* A label that is followed by what f tells at b.
Follows(f, a, l, b) == f[a] = l \o (IF f[b] = <<>> THEN <<>> ELSE <<Dot>> \o f[b])

LEMMA LabelHere ==
    ASSUME NEW p \in Bytes, NEW f, LabelsFrom(p, 12 .. Len(p), f), NEW l, IsLabel(l),
           NEW a, a \in Nat, 12 <= a, Has(p, a, Field1(l)),
           NEW b, b = a + Len(Field1(l)), b < Len(p)
    PROVE  Follows(f, a, l, b)
<1>. DEFINE n == Len(l)
<1>1. n \in Nat /\ 1 <= n /\ n <= 63 /\ Sized(l, n) /\ Len(p) \in Nat
  BY SizedLength, LenProperties DEF IsLabel, Bytes
<1>2. Len(Field1(l)) = 1 + n
  BY SizedLabel DEF Sized
<1>. HIDE DEF n
<1>3. n <= 255
  BY <1>1
<1>4. At(p, a) = n /\ Has(p, a + 1, l) /\ a + 1 + n <= Len(p)
  BY <1>1, <1>3, HasField1
<1>5. b = a + 1 + n /\ a \in 12 .. Len(p) /\ a # Len(p)
  BY <1>1, <1>2
<1>6. Slice(p, a + 1, n) = l
  BY <1>1, <1>4, SliceOf
<1>7. f[a] = LabelStep(p, a, f)
  BY <1>5 DEF LabelsFrom
<1>8. Rest(p, b, f) = f[b]
  BY DEF Rest
<1>9. LabelStep(p, a, f) = l \o (IF f[b] = <<>> THEN <<>> ELSE <<Dot>> \o f[b])
  <2>1. ~(a = Len(p) \/ n = 0 \/ n > 63 \/ a + 1 + n > Len(p))
    BY <1>1, <1>4, <1>5
  <2>. QED
    BY <1>4, <1>5, <1>6, <1>8, <2>1 DEF LabelStep
<1>. QED
  BY <1>7, <1>9 DEF Follows

\* A label in front of others, as the code and the sender put them together.
LEMMA LabelJoins ==
    ASSUME NEW l, IsLabel(l), NEW t \in Bytes
    PROVE  /\ l \o <<>> = l /\ l # <<>>
           /\ Cat(Cat(l, <<46>>), t) = l \o (<<Dot>> \o t)
           /\ Cat(Cat(l, <<46>>), t) \in Bytes /\ Cat(Cat(l, <<46>>), t) # <<>>
<1>1. l \in Bytes /\ Len(l) \in Nat /\ Len(l) >= 1
  BY LenProperties DEF IsLabel, Bytes
<1>2. <<46>> \in Bytes /\ Len(<<46>>) = 1
  BY SizedOne DEF Sized
<1>3. l \o <<46>> \in Bytes /\ Len(l \o <<46>>) = Len(l) + 1
  BY <1>1, <1>2, Concatenated
<1>4. (l \o <<46>>) \o t \in Bytes /\ Len((l \o <<46>>) \o t) = Len(l) + 1 + Len(t)
  BY <1>3, Concatenated
<1>5. (l \o <<46>>) \o t = l \o (<<46>> \o t)
  BY <1>1, <1>2, ConcatAssociative DEF Bytes
<1>6. l \o <<>> = l
  BY <1>1, ConcatEmptySeq DEF Bytes
<1>7. Len(<<>>) = 0 /\ Len(t) \in Nat
  BY LenProperties DEF Bytes
<1>8. l # <<>>
  BY <1>1, <1>7
<1>9. (l \o <<46>>) \o t # <<>>
  <2>1. Len((l \o <<46>>) \o t) # 0
    BY <1>1, <1>4, <1>7
  <2>. QED
    BY <1>7, <2>1
<1>. QED
  BY <1>4, <1>5, <1>6, <1>8, <1>9 DEF Cat, Dot

LEMMA LaidAfter ==
    ASSUME NEW p, NEW s, NEW n \in Nat, NEW at, Laid(p, s, n, at), NEW o \in Nat, at[1] = o,
           \A k \in 1 .. n : Len(s[k]) \in Nat
    PROVE  \A k \in 1 .. n + 1 : at[k] \in Nat /\ o <= at[k]
<1>. DEFINE Shown == {k \in Nat : k <= n => at[k + 1] \in Nat /\ o <= at[k + 1]}
<1>1. 0 \in Shown
  OBVIOUS
<1>2. ASSUME NEW k \in Nat, k \in Shown PROVE k + 1 \in Shown
  <2>1. SUFFICES ASSUME k + 1 <= n
                 PROVE  at[(k + 1) + 1] \in Nat /\ o <= at[(k + 1) + 1]
    OBVIOUS
  <2>2. k + 1 \in 1 .. n /\ k <= n
    BY <2>1
  <2>3. at[(k + 1) + 1] = at[k + 1] + Len(s[k + 1]) /\ Len(s[k + 1]) \in Nat
    BY <2>2 DEF Laid
  <2>4. at[k + 1] \in Nat /\ o <= at[k + 1]
    BY <1>2, <2>2
  <2>. QED
    BY <2>3, <2>4
<1>. HIDE DEF Shown
<1>3. \A k \in Nat : k \in Shown
  BY <1>1, <1>2, NatSetInduction
<1>4. ASSUME NEW k \in 1 .. n + 1 PROVE at[k] \in Nat /\ o <= at[k]
  <2>1. k - 1 \in Nat /\ k - 1 <= n /\ (k - 1) + 1 = k
    OBVIOUS
  <2>2. k - 1 \in Shown
    BY <1>3, <2>1
  <2>. QED
    BY <2>1, <2>2 DEF Shown
<1>. QED
  BY <1>4

\* From the k-th label on the code tells the labels with dots between them.
Tells(f, h, x, k) == f[x] = h[k] /\ h[k] \in Bytes /\ h[k] # <<>>

LEMMA LabelsFound ==
    ASSUME NEW p \in Bytes, NEW f, LabelsFrom(p, 12 .. Len(p), f),
           NEW l, NEW n \in Nat, n > 0, \A k \in 1 .. n : IsLabel(l[k]),
           NEW s, Fields(l, n, s), NEW at, Laid(p, s, n, at), at[1] = 12,
           at[n + 1] < Len(p), At(p, at[n + 1]) = 0,
           NEW h, DottedFrom(l, n, 1 .. n, h)
    PROVE  Tells(f, h, 12, 1)
<1>1. \A k \in 1 .. n : Len(s[k]) \in Nat
  BY LenProperties DEF Fields, Bytes
<1>2. \A k \in 1 .. n + 1 : at[k] \in Nat /\ 12 <= at[k]
  BY <1>1, LaidAfter
<1>3. Len(p) \in Nat /\ n + 1 \in 1 .. n + 1
  BY LenProperties DEF Bytes
<1>4. ASSUME NEW k \in 1 .. n PROVE Follows(f, at[k], l[k], at[k + 1])
  <2>. DEFINE a == at[k]  b == at[k + 1]  e == at[n + 1]  x == l[k]
  <2>1. s[k] = Field1(x) /\ IsLabel(x)
    BY DEF Fields
  <2>2. a \in Nat /\ 12 <= a
    BY <1>2
  <2>3. k + 1 \in 1 .. n + 1
    OBVIOUS
  <2>4. b \in Nat /\ e \in Nat
    BY <1>2, <1>3, <2>3
  <2>5. b = a + Len(s[k]) /\ b <= e /\ Has(p, a, s[k])
    BY DEF Laid
  <2>6. e < Len(p)
    OBVIOUS
  <2>. HIDE DEF a, b, e, x
  <2>7. b < Len(p)
    BY <1>3, <2>4, <2>5, <2>6
  <2>8. b = a + Len(Field1(x)) /\ Has(p, a, Field1(x))
    BY <2>1, <2>5
  <2>9. Follows(f, a, x, b)
    BY <2>1, <2>2, <2>7, <2>8, LabelHere
  <2>. QED
    BY <2>9 DEF a, b, x
<1>5. f[at[n + 1]] = <<>>
  <2>. DEFINE e == at[n + 1]
  <2>1. e \in Nat /\ 12 <= e /\ e < Len(p) /\ At(p, e) = 0
    BY <1>2, <1>3
  <2>. HIDE DEF e
  <2>2. e \in 12 .. Len(p)
    BY <1>3, <2>1
  <2>3. f[e] = LabelStep(p, e, f)
    BY <2>2 DEF LabelsFrom
  <2>4. LabelStep(p, e, f) = <<>>
    BY <2>1 DEF LabelStep
  <2>. QED
    BY <2>3, <2>4 DEF e
<1>6. \A k \in 1 .. n : h[k] = DotStep(l, n, k, h)
  BY DEF DottedFrom
<1>. DEFINE Shown == {j \in Nat : j < n => Tells(f, h, at[n - j], n - j)}
<1>7. 0 \in Shown
  <2>1. n \in 1 .. n /\ n - 0 = n
    OBVIOUS
  <2>2. h[n] = l[n] /\ IsLabel(l[n])
    BY <1>6, <2>1 DEF DotStep
  <2>3. f[at[n]] = l[n] \o <<>>
    BY <1>4, <1>5, <2>1 DEF Follows
  <2>4. <<>> \in Bytes
    BY DEF Bytes
  <2>5. l[n] \o <<>> = l[n] /\ l[n] # <<>> /\ l[n] \in Bytes
    BY <2>2, <2>4, LabelJoins DEF IsLabel
  <2>6. Tells(f, h, at[n], n)
    BY <2>2, <2>3, <2>5 DEF Tells
  <2>. QED
    BY <2>1, <2>6
<1>8. ASSUME NEW j \in Nat, j \in Shown PROVE j + 1 \in Shown
  <2>1. SUFFICES ASSUME j + 1 < n PROVE Tells(f, h, at[n - (j + 1)], n - (j + 1))
    OBVIOUS
  <2>2. PICK k \in 1 .. n : k = n - (j + 1)
    BY <2>1
  <2>3. k + 1 = n - j /\ k # n /\ j < n
    BY <2>1, <2>2
  <2>4. Tells(f, h, at[k + 1], k + 1)
    <3>1. Tells(f, h, at[n - j], n - j)
      BY <1>8, <2>3
    <3>. QED
      BY <2>3, <3>1
  <2>. HIDE DEF Shown
  <2>5. f[at[k]] = l[k] \o (<<Dot>> \o h[k + 1])
    BY <1>4, <2>4 DEF Follows, Tells
  <2>6. h[k] = Cat(Cat(l[k], <<46>>), h[k + 1])
    BY <1>6, <2>3 DEF DotStep
  <2>7. Tells(f, h, at[k], k)
    <3>. DEFINE x == l[k]  t == h[k + 1]
    <3>1. IsLabel(x) /\ t \in Bytes
      BY <2>4 DEF Tells
    <3>2. f[at[k]] = x \o (<<Dot>> \o t) /\ h[k] = Cat(Cat(x, <<46>>), t)
      BY <2>5, <2>6
    <3>. HIDE DEF x, t
    <3>3. /\ Cat(Cat(x, <<46>>), t) = x \o (<<Dot>> \o t)
          /\ Cat(Cat(x, <<46>>), t) \in Bytes /\ Cat(Cat(x, <<46>>), t) # <<>>
      BY <3>1, LabelJoins
    <3>. QED
      BY <3>2, <3>3 DEF Tells
  <2>. QED
    BY <2>2, <2>7
<1>. HIDE DEF Shown
<1>9. \A j \in Nat : j \in Shown
  BY <1>7, <1>8, NatSetInduction
<1>10. n - 1 \in Nat /\ n - 1 < n /\ n - (n - 1) = 1
  OBVIOUS
<1>11. n - 1 \in Shown
  BY <1>9, <1>10
<1>. QED
  BY <1>10, <1>11 DEF Shown

\* Where the parts of a query stand that a packet holds.
LEMMA QueryLaid ==
    ASSUME NEW header, NEW labels, NEW rest, SoundQuery(header, labels, rest),
           NEW n, n = Len(labels)
    PROVE  LET p == Query(header, labels, rest)
           IN /\ p \in Bytes /\ Len(p) \in Nat /\ Len(p) >= 12 /\ IsDNSQuery(p)
              /\ \E s, at : /\ Fields(labels, n, s) /\ Laid(p, s, n, at) /\ at[1] = 12
                           /\ at[n + 1] < Len(p) /\ At(p, at[n + 1]) = 0
<1>1. PICK s : s = [k \in DOMAIN labels |-> Field1(labels[k])]
  OBVIOUS
<1>2. AreLabels(labels) /\ n \in Nat /\ Len(labels) > 0
  BY DEF SoundQuery, AreLabels
<1>3. Fields(labels, n, s)
  BY <1>1, <1>2, LabelsWritten
<1>. DEFINE joined == Joined(s)
            j == Len(joined)
            q1 == header \o joined
            q2 == q1 \o <<0>>
            p == q2 \o rest
<1>4. \A o, z : /\ joined \in Bytes
                /\ Has(z, o, joined) => LaidFrom(z, o, s, n, j)
  BY <1>2, <1>3, JoinedLaid DEF Fields
<1>5. p = Query(header, labels, rest)
  BY <1>1 DEF Query
<1>. HIDE DEF joined
<1>6. Sized(joined, j) /\ j \in Nat
  BY <1>4, SizedLength, LenProperties DEF Bytes
<1>. HIDE DEF j
<1>7. Sized(header, 12) /\ Sized(<<0>>, 1)
  <2>1. header \in Bytes /\ Len(header) = 12
    BY DEF SoundQuery
  <2>2. Sized(header, 12)
    BY <2>1 DEF Sized
  <2>. QED
    BY <2>2, SizedOne
<1>8. PICK m : Sized(rest, m)
  BY SizedLength DEF SoundQuery
<1>9. m \in Nat
  BY <1>8 DEF Sized
<1>10. PICK k1 : k1 = 12 + j
  OBVIOUS
<1>11. PICK k2 : k2 = k1 + 1
  OBVIOUS
<1>12. PICK k3 : k3 = k2 + m
  OBVIOUS
<1>13. /\ Adds(12, j, k1) /\ Adds(k1, 1, k2) /\ Adds(k2, m, k3)
       /\ Adds(0, 12, 12) /\ Adds(0, k1, k1)
  BY <1>6, <1>9, <1>10, <1>11, <1>12 DEF Adds
<1>14. k1 < k3 /\ k3 \in Nat /\ 12 <= k3
  BY <1>6, <1>9, <1>10, <1>11, <1>12
<1>15. Sized(q1, k1)
  BY <1>6, <1>7, <1>13, SizedSum
<1>. HIDE DEF q1
<1>16. Sized(q2, k2)
  BY <1>7, <1>13, <1>15, SizedSum
<1>. HIDE DEF q2
<1>17. Sized(p, k3)
  BY <1>8, <1>13, <1>16, SizedSum
<1>18. Has(p, 0, p)
  BY <1>17, HasAll DEF Sized
<1>19. Has(p, 0, q2)
  BY <1>8, <1>16, <1>18, HasFirst
<1>. HIDE DEF p
<1>20. Has(p, 0, q1)
  BY <1>7, <1>15, <1>19, HasFirst DEF q2
<1>21. Has(p, k1, <<0>>)
  BY <1>7, <1>13, <1>15, <1>19, HasRest DEF q2
<1>22. Has(p, 0, header)
  BY <1>6, <1>7, <1>20, HasFirst DEF q1
<1>23. Has(p, 12, joined)
  BY <1>6, <1>7, <1>13, <1>20, HasRest DEF q1
<1>24. At(p, k1) = 0
  BY <1>21, HasByte
<1>25. p \in Bytes /\ Len(p) = k3
  BY <1>17 DEF Sized
<1>26. IsDNSQuery(p)
  <2>1. \A i \in 1 .. 12 : p[i] = header[i]
    BY <1>7, <1>22 DEF Has, Sized
  <2>2. At(p, 2) = At(header, 2) /\ Word(p, 4) = Word(header, 4)
    BY <2>1 DEF At, Word
  <2>3. At(header, 2) < 128 /\ Word(header, 4) > 0
    <3>1. header[3] < 128 /\ (header[5] > 0 \/ header[6] > 0)
      BY DEF SoundQuery
    <3>2. header[5] \in ByteValues /\ header[6] \in ByteValues
      <4>1. header \in Seq(ByteValues) /\ 5 \in 1 .. Len(header) /\ 6 \in 1 .. Len(header)
        BY <1>7 DEF Sized, Bytes
      <4>. QED
        BY <4>1, ElementOfSeq
    <3>3. \A b \in ByteValues : b \in Nat
      BY DEF ByteValues
    <3>. QED
      BY <3>1, <3>2, <3>3 DEF At, Word
  <2>4. Len(p) >= 12
    BY <1>14, <1>25
  <2>. QED
    BY <2>2, <2>3, <2>4 DEF IsDNSQuery
<1>27. PICK at : Laid(p, s, n, at) /\ at[1] = 12 /\ at[n + 1] = k1
  BY <1>4, <1>10, <1>23 DEF LaidFrom
<1>28. at[n + 1] < Len(p) /\ At(p, at[n + 1]) = 0
  BY <1>14, <1>24, <1>25, <1>27
<1>. QED
  BY <1>3, <1>5, <1>14, <1>25, <1>26, <1>27, <1>28

\* DNSExtractor::extractQuery finds the name in every query, however many labels
\* it has, as the labels with dots between them, and reads nothing behind it.
THEOREM QueryNamed ==
    ASSUME NEW header, NEW labels, NEW rest, SoundQuery(header, labels, rest)
    PROVE  QueryName(Query(header, labels, rest)) = <<Dotted(labels)>>
<1>. DEFINE p == Query(header, labels, rest)
<1>1. PICK n : n = Len(labels)
  OBVIOUS
<1>2. /\ n \in Nat /\ n > 0 /\ \A k \in 1 .. n : IsLabel(labels[k])
  BY <1>1 DEF SoundQuery, AreLabels
<1>3. p \in Bytes /\ Len(p) >= 12 /\ IsDNSQuery(p)
  BY <1>1, QueryLaid
<1>4. PICK s, at : /\ Fields(labels, n, s) /\ Laid(p, s, n, at) /\ at[1] = 12
                   /\ at[n + 1] < Len(p) /\ At(p, at[n + 1]) = 0
  BY <1>1, QueryLaid
<1>. HIDE DEF p
<1>5. PICK h : DottedFrom(labels, n, 1 .. n, h) /\ Dotted(labels) = h[1]
  BY <1>1, <1>2, DottedIs
<1>6. PICK f : /\ LabelsFrom(p, 12 .. Len(p), f)
               /\ QueryName(p) = IF IsDNSQuery(p) /\ f[12] # <<>> THEN <<f[12]>> ELSE None
  BY <1>3, QueryNameIs
<1>7. Tells(f, h, 12, 1)
  BY <1>2, <1>3, <1>4, <1>5, <1>6, LabelsFound
<1>. QED
  BY <1>3, <1>5, <1>6, <1>7 DEF Tells, p
=============================================================================
