-------------------------------- MODULE Wire --------------------------------
(***************************************************************************)
(* What clients send, byte by byte: a TLS ClientHello and a DNS query, as  *)
(* the RFCs that the extractors follow lay them out (8446, 6066, 1035).    *)
(* None of it is code of the repository.                                   *)
(***************************************************************************)
EXTENDS Naturals, Sequences

ByteValues == 0 .. 255
Bytes == Seq(ByteValues)

Bytes2(n) == <<n \div 256, n % 256>>

\* A field with its length in front, in one byte or two.
Field1(s) == <<Len(s)>> \o s
Field2(s) == Bytes2(Len(s)) \o s

\* The pieces one after the other.
Joined(pieces) ==
    LET to[k \in 0 .. Len(pieces)] == IF k = 0 THEN <<>> ELSE to[k - 1] \o pieces[k]
    IN to[Len(pieces)]

Extension(x) == Bytes2(x.type) \o Field2(x.data)
\* The extension that names the server.
NameExtension(name) == [type |-> 0, data |-> Field2(<<0>> \o Field2(name))]

IsExtension(x) == /\ x.type \in Nat /\ x.type <= 65535
                  /\ x.data \in Bytes /\ Len(x.data) <= 65535
IsExtensions(xs) == /\ Len(xs) \in Nat /\ DOMAIN xs = 1 .. Len(xs)
                    /\ \A k \in 1 .. Len(xs) : IsExtension(xs[k])
\* The i-th extension is the first of type 0 and gives the name.
Names(xs, i, name) == /\ xs[i] = NameExtension(name)
                      /\ \A k \in 1 .. i - 1 : xs[k].type # 0

Extensions(xs) == Joined([k \in DOMAIN xs |-> Extension(xs[k])])

HelloBody(random, session, ciphers, methods, written) ==
    <<3, 3>> \o random \o Field1(session) \o Field2(ciphers) \o Field1(methods)
      \o Field2(written)
ClientHello(random, session, ciphers, methods, xs) ==
    LET body == HelloBody(random, session, ciphers, methods, Extensions(xs))
    IN <<22, 3, 1>> \o Field2(<<1, 0>> \o Field2(body))

\* A hello that a client can write: its parts fit the bytes in which it tells their
\* lengths, and the whole of it fits one record.
SoundHello(random, session, ciphers, methods, xs, i, name) ==
    /\ random \in Bytes /\ session \in Bytes /\ ciphers \in Bytes /\ methods \in Bytes
    /\ Len(random) = 32 /\ Len(session) <= 255 /\ Len(methods) <= 255
    /\ IsExtensions(xs)
    /\ i \in 1 .. Len(xs) /\ Names(xs, i, name)
    /\ name \in Bytes /\ Len(name) <= 65530
    /\ Len(session) + Len(ciphers) + Len(methods) + Len(Extensions(xs)) <= 65491

\* A query for the name that has these labels; header holds the first twelve bytes.
Query(header, labels, rest) ==
    header \o Joined([k \in DOMAIN labels |-> Field1(labels[k])]) \o <<0>> \o rest

\* A query, as its flags say, with at least one question for at least one label.
IsLabel(l) == l \in Bytes /\ 1 <= Len(l) /\ Len(l) <= 63
AreLabels(labels) == /\ Len(labels) \in Nat /\ DOMAIN labels = 1 .. Len(labels)
                     /\ \A k \in 1 .. Len(labels) : IsLabel(labels[k])
SoundQuery(header, labels, rest) ==
    /\ header \in Bytes /\ Len(header) = 12
    /\ header[3] < 128 /\ (header[5] > 0 \/ header[6] > 0)
    /\ AreLabels(labels) /\ Len(labels) > 0
    /\ rest \in Bytes

\* The labels with dots between them.
Dotted(labels) ==
    LET from[k \in 1 .. Len(labels)] ==
          IF k = Len(labels) THEN labels[k] ELSE labels[k] \o <<46>> \o from[k + 1]
    IN from[1]
=============================================================================
