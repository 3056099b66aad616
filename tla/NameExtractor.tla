---------------------------- MODULE NameExtractor ----------------------------
(***************************************************************************)
(* The name a payload tells: SNIExtractor, HTTPHostExtractor and           *)
(* DNSExtractor, and the order in which FastPathProcessor::inspectPayload  *)
(* asks them.  A payload is a sequence of bytes and so is a name; offsets  *)
(* count from 0, as in the code.  A result is <<name>>, or None.           *)
(*                                                                         *)
(* A definition that precedes another and is used nowhere is a wrong       *)
(* version of it: with it, a run must find a property violated.            *)
(***************************************************************************)
EXTENDS Naturals, Sequences

None == <<>>
Least(S) == CHOOSE i \in S : \A j \in S : i <= j

At(p, offset) == p[offset + 1]
\* readUint16BE.
Word(p, offset) == 256 * At(p, offset) + At(p, offset + 1)
Slice(p, offset, length) == SubSeq(p, offset + 1, offset + length)

-----------------------------------------------------------------------------
(* TLS                                                                     *)

\* The record must be whole: a hello that goes on in another segment is none.
IsTLSClientHello(p) == /\ Len(p) >= 9
                       /\ At(p, 0) = 22
                       /\ Word(p, 1) \in 768 .. 772
                       /\ Word(p, 3) <= Len(p) - 5
                       /\ At(p, 5) = 1

\* Where a field of variable length ends that has its length in front, in one
\* byte or two; Len(p) + 1 when it is not there.
After1(p, offset) == IF offset >= Len(p) THEN Len(p) + 1 ELSE offset + 1 + At(p, offset)
After2(p, offset) == IF offset + 2 > Len(p) THEN Len(p) + 1
                     ELSE offset + 2 + Word(p, offset)

\* Session identifier, cipher suites and compression methods come before the
\* length of the extensions.
ExtensionsOffset(p) == After1(p, After2(p, After1(p, 43)))

\* The host name in an SNI extension of n bytes, if it is one.
HostName(p, offset, n) ==
    IF /\ n >= 5
       /\ Word(p, offset) >= 3
       /\ At(p, offset + 2) = 0
       /\ Word(p, offset + 3) <= n - 5
    THEN <<Slice(p, offset + 5, Word(p, offset + 3))>>
    ELSE None

\* The first SNI extension decides.
SearchFirstOnly(p, start, end) ==
    IF start + 4 <= end /\ Word(p, start) = 0
    THEN HostName(p, start + 4, Word(p, start + 2)) ELSE None
SearchExtensions(p, start, end) ==
    LET from[offset \in 0 .. end] ==
          IF offset + 4 > end \/ offset + 4 + Word(p, offset + 2) > end THEN None
          ELSE IF Word(p, offset) = 0
               THEN HostName(p, offset + 4, Word(p, offset + 2))
               ELSE from[offset + 4 + Word(p, offset + 2)]
    IN IF start > end THEN None ELSE from[start]

\* SNIExtractor::extract.
ServerName(p) ==
    LET lengthAt == ExtensionsOffset(p)
        end == lengthAt + 2 + Word(p, lengthAt)
    IN IF ~IsTLSClientHello(p) \/ lengthAt + 2 > Len(p) THEN None
       ELSE SearchExtensions(p, lengthAt + 2, IF end > Len(p) THEN Len(p) ELSE end)

-----------------------------------------------------------------------------
(* HTTP                                                                    *)

Letters == "abcdefghijklmnopqrstuvwxyz"
\* The code of a small letter, and that of the capital with it.
Small(c) == 96 + CHOOSE i \in 1 .. 26 : SubSeq(Letters, i, i) = c
Either(c) == {Small(c), Small(c) - 32}
Blank == {32, 9}
LineEnd == {13, 10}
Colon == 58

Methods == {"get", "post", "put", "head", "dele", "patc", "opti"}
\* A word in capitals, or in three letters and a space.
Capitals(word) == [i \in 1 .. 4 |-> IF i > Len(word) THEN 32
                                    ELSE Small(SubSeq(word, i, i)) - 32]
IsHTTPRequest(p) == Len(p) >= 4 /\ SubSeq(p, 1, 4) \in {Capitals(m) : m \in Methods}

\* "host:", wherever it is in the payload.
HostAt(p, i) == /\ \A k \in 1 .. 4 : At(p, i + k - 1) \in Either(SubSeq("host", k, k))
                /\ At(p, i + 4) = Colon
ValueStart(p, i) ==
    Least({k \in i + 5 .. Len(p) : k = Len(p) \/ At(p, k) \notin Blank})
ValueEnd(p, start) ==
    Least({k \in start .. Len(p) : k = Len(p) \/ At(p, k) \in LineEnd})

WithoutPort(host) ==
    LET end == Least({k \in 1 .. 1 + Len(host) : k > Len(host) \/ host[k] = Colon})
    IN SubSeq(host, 1, end - 1)

\* HTTPHostExtractor::extract: the first header with a value.
HostHeader(p) ==
    LET hits == {i \in 0 .. Len(p) - 7 :
                   HostAt(p, i) /\ ValueEnd(p, ValueStart(p, i)) > ValueStart(p, i)}
        start == ValueStart(p, Least(hits))
    IN IF ~IsHTTPRequest(p) \/ hits = {} THEN None
       ELSE <<WithoutPort(Slice(p, start, ValueEnd(p, start) - start))>>

-----------------------------------------------------------------------------
(* DNS                                                                     *)

Dot == 46

IsDNSQuery(p) == Len(p) >= 12 /\ At(p, 2) < 128 /\ Word(p, 4) > 0

\* DNSExtractor::extractQuery: the labels until one is missing, or no label.
QueryName(p) ==
    LET from[offset \in 12 .. Len(p)] ==
          LET n == At(p, offset)  next == offset + 1 + n
              rest == IF next < Len(p) THEN from[next] ELSE <<>>
          IN IF offset = Len(p) \/ n = 0 \/ n > 63 \/ next > Len(p) THEN <<>>
             ELSE Slice(p, offset + 1, n)
                    \o (IF rest = <<>> THEN <<>> ELSE <<Dot>> \o rest)
    IN IF IsDNSQuery(p) /\ from[12] # <<>> THEN <<from[12]>> ELSE None

-----------------------------------------------------------------------------
(* FastPathProcessor                                                       *)

\* The name inspectPayload finds in a payload that goes from port src to dst.
NameOf(p, src, dst) ==
    LET server == IF dst = 443 \/ Len(p) >= 50 THEN ServerName(p) ELSE None
        host == IF dst = 80 THEN HostHeader(p) ELSE None
        query == IF 53 \in {src, dst} THEN QueryName(p) ELSE None
    IN IF server # None THEN server ELSE IF host # None THEN host ELSE query
=============================================================================
