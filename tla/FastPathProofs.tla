--------------------------- MODULE FastPathProofs ---------------------------
(***************************************************************************)
(* What holds of FastPath for every set of flows and packets, every        *)
(* classification and every set of rules: a connection is BLOCKED exactly  *)
(* while a rule matches it, only a closing packet with a payload gets      *)
(* through a block or changes a classification, eviction and cleanup keep  *)
(* the table within its bound and lose no packet and no connection, and    *)
(* the reports about the tables agree with each other.                     *)
(***************************************************************************)
EXTENDS Reports, InductionLemmas

\* c is a record with the fields of a connection, and its state one of the code's.
IsRecord(c) ==
    c = [state |-> c.state, app |-> c.app, sni |-> c.sni, packets |-> c.packets,
         syn |-> c.syn, synAck |-> c.synAck, fin |-> c.fin]
IsConnection(c) == /\ IsRecord(c) /\ c.state \in States
                   /\ {c.syn, c.synAck, c.fin} \subseteq BOOLEAN

\* c and d agree on all fields but some.
Fields == {"state", "app", "sni", "packets", "syn", "synAck", "fin"}
SameBut(c, d, some) == \A field \in Fields \ some : c[field] = d[field]

ConnInv == /\ conns = [f \in Tracked |-> conns[f]]
           /\ \A f \in Tracked : IsConnection(conns[f])
           /\ BlockedIffRuled

\* updateTCPState leaves the classification alone, and changes the state of a
\* BLOCKED or CLASSIFIED connection only when the packet closes it.
LEMMA TCPStateFacts ==
    ASSUME NEW c, IsConnection(c), NEW p
    PROVE  LET d == UpdateTCPState(c, p)
           IN /\ IsConnection(d)
              /\ d.app = c.app /\ d.sni = c.sni /\ d.packets = c.packets
              /\ d.state \in {c.state, "ESTABLISHED", "CLOSED"}
              /\ c.state \in {"CLASSIFIED", "BLOCKED"} /\ d.state # c.state
                   => Closing(p, c)
<1> DEFINE h == Handshake(c, p.flags)
           t == Teardown(h, p.flags)
<1>1. /\ IsRecord(h)
      /\ h.app = c.app /\ h.sni = c.sni /\ h.fin = c.fin /\ h.packets = c.packets
      /\ h.syn \in BOOLEAN /\ h.synAck \in BOOLEAN
      /\ h.state \in {c.state, "ESTABLISHED"}
      /\ c.state # "NEW" => h.state = c.state
  <2> DEFINE syn == c.syn \/ ("SYN" \in p.flags /\ "ACK" \notin p.flags)
             synAck == c.synAck \/ ("SYN" \in p.flags /\ "ACK" \in p.flags)
             established == syn /\ synAck /\ "ACK" \in p.flags /\ c.state = "NEW"
             next == IF established THEN "ESTABLISHED" ELSE c.state
             a == [c EXCEPT !.syn = syn]
             b == [a EXCEPT !.synAck = synAck]
  <2>1. h = [b EXCEPT !.state = next]
    BY DEF Handshake
  <2>2. /\ next \in {c.state, "ESTABLISHED"}
        /\ c.state # "NEW" => next = c.state
        /\ syn \in BOOLEAN /\ synAck \in BOOLEAN
    OBVIOUS
  <2> HIDE DEF h, syn, synAck, next
  <2>3. IsRecord(a) /\ SameBut(a, c, {"syn"}) /\ a.syn = syn
    BY DEF IsConnection, IsRecord, SameBut, Fields
  <2> HIDE DEF a
  <2>4. IsRecord(b) /\ SameBut(b, a, {"synAck"}) /\ b.synAck = synAck
    BY <2>3 DEF IsRecord, SameBut, Fields
  <2> HIDE DEF b
  <2>5. IsRecord(h) /\ SameBut(h, b, {"state"}) /\ h.state = next
    BY <2>1, <2>4 DEF IsRecord, SameBut, Fields
  <2> QED
    BY <2>2, <2>3, <2>4, <2>5 DEF SameBut, Fields
<1>2. IsConnection(h)
  <2>1. c.state \in States /\ c.fin \in BOOLEAN
    BY DEF IsConnection
  <2> HIDE DEF h
  <2> QED
    BY <1>1, <2>1 DEF IsConnection, States
<1> HIDE DEF h
<1>3. /\ IsRecord(t)
      /\ t.app = h.app /\ t.sni = h.sni /\ t.packets = h.packets
      /\ t.syn = h.syn /\ t.synAck = h.synAck /\ t.fin \in BOOLEAN
      /\ t.state \in {h.state, "CLOSED"}
      /\ t.state # h.state => \/ "RST" \in p.flags
                              \/ "ACK" \in p.flags /\ (h.fin \/ "FIN" \in p.flags)
  <2> DEFINE fin == h.fin \/ "FIN" \in p.flags
             closed == "RST" \in p.flags \/ (fin /\ "ACK" \in p.flags)
             next == IF closed THEN "CLOSED" ELSE h.state
             a == [h EXCEPT !.fin = fin]
  <2>1. t = [a EXCEPT !.state = next]
    BY DEF Teardown
  <2>2. /\ next \in {h.state, "CLOSED"}
        /\ next # h.state => \/ "RST" \in p.flags
                             \/ "ACK" \in p.flags /\ (h.fin \/ "FIN" \in p.flags)
        /\ fin \in BOOLEAN
    OBVIOUS
  <2> HIDE DEF t, fin, next
  <2>3. IsRecord(a) /\ SameBut(a, h, {"fin"}) /\ a.fin = fin
    BY <1>2 DEF IsConnection, IsRecord, SameBut, Fields
  <2> HIDE DEF a
  <2>4. IsRecord(t) /\ SameBut(t, a, {"state"}) /\ t.state = next
    BY <2>1, <2>3 DEF IsRecord, SameBut, Fields
  <2> QED
    BY <2>2, <2>3, <2>4 DEF SameBut, Fields
<1>4. IsConnection(t)
  <2>1. h.state \in States /\ h.syn \in BOOLEAN /\ h.synAck \in BOOLEAN
    BY <1>2 DEF IsConnection
  <2> HIDE DEF t
  <2> QED
    BY <1>3, <2>1 DEF IsConnection, States
<1>5. CASE p.flow.protocol = "TCP"
  BY <1>1, <1>3, <1>4, <1>5 DEF UpdateTCPState, Closing, h
<1>6. CASE p.flow.protocol # "TCP"
  BY <1>6 DEF UpdateTCPState
<1> QED
  BY <1>5, <1>6

\* Inspection never blocks, and does nothing without a payload.
LEMMA InspectedFacts ==
    ASSUME NEW c, IsConnection(c), NEW p
    PROVE  LET d == Inspected(c, p)
           IN /\ IsConnection(d)
              /\ d = c \/ d.state = "CLASSIFIED"
              /\ c.state = "CLASSIFIED" \/ ~HasPayload(p) => d = c
              /\ d.packets = c.packets
<1> DEFINE found == Finding(p)
<1> HIDE DEF found
<1>1. ASSUME NEW app, NEW sni
      PROVE  IsConnection(Classify(c, app, sni))
             /\ Classify(c, app, sni).state = "CLASSIFIED"
             /\ Classify(c, app, sni).packets = c.packets
  <2> DEFINE a == [c EXCEPT !.app = app]
             b == [a EXCEPT !.sni = sni]
             d == Classify(c, app, sni)
  <2>1. d = [b EXCEPT !.state = "CLASSIFIED"]
    BY DEF Classify
  <2> HIDE DEF d
  <2>2. IsRecord(a) /\ SameBut(a, c, {"app"})
    BY DEF IsConnection, IsRecord, SameBut, Fields
  <2> HIDE DEF a
  <2>3. IsRecord(b) /\ SameBut(b, a, {"sni"})
    BY <2>2 DEF IsRecord, SameBut, Fields
  <2> HIDE DEF b
  <2>4. IsRecord(d) /\ SameBut(d, b, {"state"}) /\ d.state = "CLASSIFIED"
    BY <2>1, <2>3 DEF IsRecord, SameBut, Fields
  <2>5. d.syn = c.syn /\ d.synAck = c.synAck /\ d.fin = c.fin /\ d.packets = c.packets
    BY <2>2, <2>3, <2>4 DEF SameBut, Fields
  <2>6. IsConnection(d)
    BY <2>4, <2>5 DEF IsConnection, States
  <2> QED
    BY <2>4, <2>5, <2>6 DEF d
<1>2. InspectPayload(c, p) = c \/ InspectPayload(c, p) = Classify(c, found[1], found[2])
  BY DEF InspectPayload, found
<1> QED
  BY <1>1, <1>2 DEF Inspected

\* After processPacket has decided about a packet of a connection whose BLOCKED
\* state agrees with the rules, it agrees with them again.
LEMMA DecideFacts ==
    ASSUME NEW c, IsConnection(c), NEW p,
           c.state = "BLOCKED" => ShouldBlock(p.flow, c)
    PROVE  LET d == Decide(c, p)
           IN /\ IsConnection(d[2])
              /\ d[2].state = "BLOCKED" <=> ShouldBlock(p.flow, d[2])
              /\ c.state = "BLOCKED" => d = <<"DROP", c>>
              /\ c.state = "CLASSIFIED" \/ ~HasPayload(p)
                   => d[2].app = c.app /\ d[2].sni = c.sni
              /\ d[2].packets = c.packets /\ d[1] \in {"FORWARD", "DROP"}
<1> DEFINE i == Inspected(c, p)
           b == [i EXCEPT !.state = "BLOCKED"]
<1>1. /\ IsConnection(i)
      /\ i = c \/ i.state = "CLASSIFIED"
      /\ c.state = "CLASSIFIED" \/ ~HasPayload(p) => i = c
      /\ i.packets = c.packets
  BY InspectedFacts
<1> HIDE DEF i
<1>2. IsConnection(b) /\ b.state = "BLOCKED" /\ b.app = i.app /\ b.sni = i.sni
      /\ b.packets = i.packets
  BY <1>1 DEF IsConnection, IsRecord, States
<1>3. ShouldBlock(p.flow, b) <=> ShouldBlock(p.flow, i)
  BY <1>2 DEF ShouldBlock
<1> HIDE DEF b
<1>4. CASE c.state = "BLOCKED"
  <2>1. Decide(c, p) = <<"DROP", c>>
    BY <1>4 DEF Decide
  <2> QED
    BY <1>4, <2>1
<1>5. CASE c.state # "BLOCKED" /\ ShouldBlock(p.flow, i)
  <2>1. Decide(c, p) = <<"DROP", b>>
    BY <1>5 DEF Decide, i, b
  <2> QED
    BY <1>1, <1>2, <1>3, <1>5, <2>1
<1>6. CASE c.state # "BLOCKED" /\ ~ShouldBlock(p.flow, i)
  <2>1. Decide(c, p) = <<"FORWARD", i>>
    BY <1>6 DEF Decide, i
  <2>2. i.state # "BLOCKED"
    BY <1>1, <1>6
  <2> QED
    BY <1>1, <1>6, <2>1, <2>2
<1> QED
  BY <1>4, <1>5, <1>6

\* getOrCreateConnection and updateConnection give a connection whose BLOCKED
\* state agrees with the rules.
LEMMA LookupFacts ==
    ASSUME ConnInv, NEW f
    PROVE  LET c == Lookup(f)
           IN /\ IsConnection(c)
              /\ c.state = "BLOCKED" => ShouldBlock(f, c)
              /\ f \in Tracked => SameBut(c, conns[f], {"packets"})
              /\ c.packets = (IF f \in Tracked THEN conns[f].packets ELSE 0) + 1
<1> DEFINE old == IF f \in Tracked THEN conns[f] ELSE NewConnection
           c == Lookup(f)
<1>1. c = [old EXCEPT !.packets = old.packets + 1]
  BY DEF Lookup
<1>2. IsConnection(old) /\ (old.state = "BLOCKED" => ShouldBlock(f, old))
  BY DEF ConnInv, BlockedIffRuled, IsConnection, IsRecord, NewConnection, States
<1>3. /\ f \in Tracked => old = conns[f]
      /\ f \notin Tracked => old.packets = 0
  BY DEF NewConnection
<1> HIDE DEF old, c
<1>4. IsRecord(c) /\ SameBut(c, old, {"packets"}) /\ c.packets = old.packets + 1
  BY <1>1, <1>2 DEF IsConnection, IsRecord, SameBut, Fields
<1>5. /\ c.state = old.state /\ c.app = old.app /\ c.sni = old.sni
      /\ c.syn = old.syn /\ c.synAck = old.synAck /\ c.fin = old.fin
  BY <1>4 DEF SameBut, Fields
<1>6. IsConnection(c) /\ (c.state = "BLOCKED" => ShouldBlock(f, c))
  BY <1>2, <1>4, <1>5 DEF IsConnection, ShouldBlock
<1>7. /\ f \in Tracked => SameBut(c, conns[f], {"packets"})
      /\ c.packets = (IF f \in Tracked THEN conns[f].packets ELSE 0) + 1
  BY <1>3, <1>4
<1> QED
  BY <1>6, <1>7 DEF c

\* What processPacket leaves of the connection of its packet.
LEMMA ProcessFacts ==
    ASSUME ConnInv, NEW p, ProcessPacket(p)
    PROVE  LET f == p.flow
           IN /\ rules' = rules /\ job' = <<p>>
              /\ f \in DOMAIN conns' /\ DOMAIN conns' \subseteq Tracked \cup {f}
              /\ conns' = [g \in DOMAIN conns' |-> conns'[g]]
              /\ \A g \in DOMAIN conns' \ {f} : conns'[g] = conns[g]
              /\ IsConnection(conns'[f])
              /\ conns'[f].state = "BLOCKED" <=> ShouldBlock(f, conns'[f])
              /\ f \in Tracked /\ ~(Closing(p, conns[f]) /\ HasPayload(p)) =>
                   /\ conns[f].state = "BLOCKED" => action' = "DROP"
                   /\ conns[f].state \in {"CLASSIFIED", "BLOCKED"} =>
                        conns'[f].app = conns[f].app /\ conns'[f].sni = conns[f].sni
              /\ conns'[f].packets = (IF f \in Tracked THEN conns[f].packets ELSE 0) + 1
              /\ action' \in {"FORWARD", "DROP"}
              /\ DOMAIN conns' = (Tracked \ Evicted(f)) \cup {f}
<1> DEFINE f == p.flow
           c == Lookup(f)
           d == UpdateTCPState(c, p)
           decision == Decide(d, p)
           kept == Tracked \ Evicted(f)
<1>1. /\ IsConnection(c)
      /\ c.state = "BLOCKED" => ShouldBlock(f, c)
      /\ f \in Tracked => SameBut(c, conns[f], {"packets"})
      /\ c.packets = (IF f \in Tracked THEN conns[f].packets ELSE 0) + 1
  BY LookupFacts
<1>2. /\ conns' = [g \in kept \cup {f} |-> IF g = f THEN decision[2] ELSE conns[g]]
      /\ action' = decision[1]
      /\ rules' = rules /\ job' = <<p>>
  BY DEF ProcessPacket
<1> HIDE DEF c
<1>3. /\ IsConnection(d)
      /\ d.app = c.app /\ d.sni = c.sni /\ d.packets = c.packets
      /\ d.state \in {c.state, "ESTABLISHED", "CLOSED"}
      /\ c.state \in {"CLASSIFIED", "BLOCKED"} /\ d.state # c.state
           => Closing(p, c)
  BY <1>1, TCPStateFacts
<1> HIDE DEF d
<1>4. d.state = "BLOCKED" => ShouldBlock(f, d)
  BY <1>1, <1>3 DEF ShouldBlock
<1>5. /\ IsConnection(decision[2])
      /\ decision[2].state = "BLOCKED" <=> ShouldBlock(f, decision[2])
      /\ d.state = "BLOCKED" => decision = <<"DROP", d>>
      /\ d.state = "CLASSIFIED" \/ ~HasPayload(p)
           => decision[2].app = d.app /\ decision[2].sni = d.sni
      /\ decision[2].packets = d.packets /\ decision[1] \in {"FORWARD", "DROP"}
  BY <1>3, <1>4, DecideFacts
<1>6. ASSUME f \in Tracked, conns[f].state = "BLOCKED", ~HasPayload(p)
      PROVE  decision[1] = "DROP"
  <2>1. ShouldBlock(f, c) /\ c.state = "BLOCKED"
    BY <1>1, <1>6 DEF SameBut, Fields
  <2>2. ShouldBlock(f, d)
    BY <1>3, <2>1 DEF ShouldBlock
  <2>3. Inspected(d, p) = d
    BY <1>3, <1>6, InspectedFacts
  <2> QED
    BY <2>2, <2>3 DEF Decide
<1> HIDE DEF decision
<1>7. ASSUME f \in Tracked, ~(Closing(p, conns[f]) /\ HasPayload(p))
      PROVE  /\ conns[f].state = "BLOCKED" => decision[1] = "DROP"
             /\ conns[f].state \in {"CLASSIFIED", "BLOCKED"} =>
                  decision[2].app = conns[f].app /\ decision[2].sni = conns[f].sni
  <2>1. /\ c.state = conns[f].state /\ c.app = conns[f].app
        /\ c.sni = conns[f].sni /\ c.fin = conns[f].fin
    BY <1>1, <1>7 DEF SameBut, Fields
  <2>2. Closing(p, c) <=> Closing(p, conns[f])
    BY <2>1 DEF Closing
  <2>3. CASE ~HasPayload(p)
    BY <1>3, <1>5, <1>6, <1>7, <2>1, <2>3
  <2>4. CASE ~Closing(p, conns[f])
    BY <1>3, <1>5, <2>1, <2>2, <2>4
  <2> QED
    BY <1>7, <2>3, <2>4
<1> HIDE DEF kept
<1>8. kept \subseteq Tracked
  BY DEF kept
<1>9. /\ DOMAIN conns' = kept \cup {f}
      /\ conns' = [g \in DOMAIN conns' |-> conns'[g]]
      /\ \A g \in DOMAIN conns' \ {f} : conns'[g] = conns[g]
      /\ conns'[f] = decision[2]
  BY <1>2
<1>10. /\ conns'[f].packets = (IF f \in Tracked THEN conns[f].packets ELSE 0) + 1
       /\ action' \in {"FORWARD", "DROP"}
  BY <1>1, <1>2, <1>3, <1>5, <1>9
<1> QED
  BY <1>2, <1>5, <1>7, <1>8, <1>9, <1>10 DEF kept

LEMMA ConnInvInit == Init => ConnInv
<1> SUFFICES ASSUME Init PROVE ConnInv
  OBVIOUS
<1>1. Tracked = {}
  BY DEF Init, Tracked
<1> QED
  BY <1>1 DEF Init, ConnInv, BlockedIffRuled, Tracked

\* One step preserves the invariant and respects BlockHolds.
LEMMA ConnStep ==
    ASSUME ConnInv, [Next]_vars
    PROVE  /\ ConnInv'
           /\ [ processed' # processed /\ job'[1].flow \in Tracked =>
                  LET p == job'[1]  f == p.flow  c == conns[f]
                  IN ~(Closing(p, c) /\ HasPayload(p)) =>
                       /\ c.state = "BLOCKED" => action' = "DROP"
                       /\ c.state \in {"CLASSIFIED", "BLOCKED"} =>
                            conns'[f].app = c.app /\ conns'[f].sni = c.sni ]_vars
<1>1. ASSUME NEW p \in Packets, ProcessPacket(p)
      PROVE  /\ ConnInv'
             /\ p.flow \in Tracked /\ ~(Closing(p, conns[p.flow]) /\ HasPayload(p)) =>
                  /\ conns[p.flow].state = "BLOCKED" => action' = "DROP"
                  /\ conns[p.flow].state \in {"CLASSIFIED", "BLOCKED"} =>
                       /\ conns'[p.flow].app = conns[p.flow].app
                       /\ conns'[p.flow].sni = conns[p.flow].sni
             /\ job'[1] = p
  <2> DEFINE f == p.flow
  <2>1. /\ rules' = rules /\ job' = <<p>>
        /\ f \in DOMAIN conns' /\ DOMAIN conns' \subseteq Tracked \cup {f}
        /\ conns' = [g \in DOMAIN conns' |-> conns'[g]]
        /\ \A g \in DOMAIN conns' \ {f} : conns'[g] = conns[g]
        /\ IsConnection(conns'[f])
        /\ conns'[f].state = "BLOCKED" <=> ShouldBlock(f, conns'[f])
        /\ f \in Tracked /\ ~(Closing(p, conns[f]) /\ HasPayload(p)) =>
             /\ conns[f].state = "BLOCKED" => action' = "DROP"
             /\ conns[f].state \in {"CLASSIFIED", "BLOCKED"} =>
                  conns'[f].app = conns[f].app /\ conns'[f].sni = conns[f].sni
    BY <1>1, ProcessFacts
  <2>2. \A g \in DOMAIN conns' : IsConnection(conns'[g])
    BY <2>1 DEF ConnInv
  <2>3. \A g \in DOMAIN conns' :
          conns'[g].state = "BLOCKED" <=> ShouldBlock(g, conns[g])'
    BY <2>1 DEF ConnInv, BlockedIffRuled, ShouldBlock
  <2>4. ConnInv'
    BY <2>1, <2>2, <2>3 DEF ConnInv, BlockedIffRuled, Tracked
  <2> QED
    BY <2>1, <2>4
<1>2. CASE CleanupStale
  <2>1. PICK gone : /\ conns' = [f \in Tracked \ gone |-> conns[f]]
                    /\ rules' = rules /\ processed' = processed
    BY <1>2 DEF CleanupStale
  <2>2. ConnInv'
    BY <2>1 DEF ConnInv, BlockedIffRuled, Tracked, ShouldBlock
  <2> QED
    BY <2>1, <2>2
<1>3. CASE UNCHANGED vars
  BY <1>3 DEF vars, ConnInv, BlockedIffRuled, Tracked, ShouldBlock
<1> QED
  BY <1>1, <1>2, <1>3 DEF Next

LEMMA ConnInvHolds == Spec => []ConnInv
<1> QED
  BY ConnInvInit, ConnStep, PTL DEF Spec

\* processPacket may trust the BLOCKED state instead of the rules: it is set
\* exactly for the connections that a rule matches.
THEOREM BlockedIffRuledCorrect == Spec => []BlockedIffRuled
<1>1. ConnInv => BlockedIffRuled
  BY DEF ConnInv
<1> QED
  BY <1>1, ConnInvHolds, PTL

\* The only way through a block, or to another classification, is a packet that
\* closes the connection and has a payload.
THEOREM BlockHoldsCorrect == Spec => BlockHolds
<1> QED
  BY ConnInvHolds, ConnStep, PTL DEF Spec, BlockHolds

-----------------------------------------------------------------------------
(* The table and what it counts                                            *)

\* The packets of flows of some table c.
Sum(c, flows) == Total([f \in flows |-> c[f].packets], flows)

\* The model's sum of records is a sum of the lemmas.
LEMMA SumIs ==
    ASSUME NEW c, NEW F, IsFiniteSet(F)
    PROVE  MapThenSumSet(LAMBDA f : c[f].packets, F) = Sum(c, F)
<1> DEFINE g == [f \in F |-> c[f].packets]
           RecStep(s, e) == IF s = {} THEN 0 ELSE c[Pick(s)].packets + e[s \ {Pick(s)}]
           RecSums(e) == e = [s \in SUBSET F |-> RecStep(s, e)]
           e == CHOOSE e : RecSums(e)
<1>1. \A s \in SUBSET F : \A a : RecStep(s, a) = SumStep(g, s, a)
  <2>1. \A s \in SUBSET F : s # {} => g[Pick(s)] = c[Pick(s)].packets
    <3>1. \A s \in SUBSET F : s # {} => Pick(s) \in F
      BY PickFacts
    <3> QED
      BY <3>1
  <2> HIDE DEF g
  <2> QED
    BY <2>1 DEF SumStep
<1>2. \A a : RecSums(a) <=> IsSums(g, SUBSET F, a)
  <2> HIDE DEF g, RecStep
  <2> QED
    BY <1>1 DEF IsSums
<1>3. MapThenSumSet(LAMBDA f : c[f].packets, F) = e[F]
  BY DEF Pick, MapThenSumSet, MapThenFoldSet
<1> HIDE DEF g
<1>4. PICK a : IsSums(g, SUBSET F, a) /\ Total(g, F) = a[F]
  BY TotalIsSum
<1>5. RecSums(e)
  <2> HIDE DEF RecSums
  <2> QED
    BY <1>2, <1>4
<1> HIDE DEF e, RecSums
<1>6. IsSums(g, SUBSET F, e)
  BY <1>2, <1>5
<1>7. a[F] = e[F]
  BY <1>4, <1>6, SumsAgree
<1> QED
  BY <1>3, <1>4, <1>7 DEF Sum, g

\* A part of the flows that keep their counts, and the others.
LEMMA SumSplit ==
    ASSUME NEW c, NEW d, NEW F, IsFiniteSet(F), NEW G \in SUBSET F,
           \A f \in F : c[f].packets \in Nat,
           \A f \in G : d[f].packets = c[f].packets
    PROVE  /\ Sum(c, F) = Sum(d, G) + Sum(c, F \ G)
           /\ Sum(c, F) \in Nat /\ Sum(d, G) \in Nat /\ Sum(c, F \ G) \in Nat
<1> DEFINE g == [f \in F |-> c[f].packets]
           h == [f \in G |-> d[f].packets]
           r == [f \in F \ G |-> c[f].packets]
<1>1. /\ \A f \in F : g[f] \in Nat
      /\ \A f \in G : g[f] = h[f]
      /\ \A f \in F \ G : g[f] = r[f]
  OBVIOUS
<1>2. IsFiniteSet(G) /\ IsFiniteSet(F \ G)
  BY FS_Subset
<1> HIDE DEF g, h, r
<1>3. Total(g, G) = Total(h, G) /\ Total(g, F \ G) = Total(r, F \ G)
  BY <1>1, <1>2, TotalSame
<1>4. /\ Total(g, F) = Total(g, G) + Total(g, F \ G)
      /\ Total(g, F) \in Nat /\ Total(g, G) \in Nat /\ Total(g, F \ G) \in Nat
  BY <1>1, TotalSplit
<1> QED
  BY <1>3, <1>4 DEF Sum, g, h, r

LEMMA SumOne ==
    ASSUME NEW c, NEW f, c[f].packets \in Nat
    PROVE  Sum(c, {f}) = c[f].packets /\ Sum(c, {}) = 0
<1> DEFINE g == [x \in {f} |-> c[x].packets]
           e == [x \in {} |-> c[x].packets]
<1>1. \A x \in {f} : g[x] \in Nat
  OBVIOUS
<1>2. g[f] = c[f].packets /\ {f} \ {f} = {}
  OBVIOUS
<1>3. IsFiniteSet({f}) /\ IsFiniteSet({})
  BY FS_Singleton, FS_EmptySet
<1> HIDE DEF g, e
<1>4. Total(g, {f}) = g[f] + Total(g, {}) /\ Total(g, {}) = 0
  BY <1>1, <1>2, <1>3, TotalRemove
<1>5. Total(e, {}) = Total(g, {})
  BY <1>3, TotalSame
<1> QED
  BY <1>1, <1>2, <1>4, <1>5 DEF Sum, g, e

OrderInv == order \in Seq(Flows) /\ Distinct(order) /\ Range(order) = Tracked

\* The table within its bound, the order in which its flows were seen, and that
\* nothing that was counted is lost.
TableInv ==
    /\ OrderInv
    /\ Cardinality(Tracked) <= MaxConnections
    /\ \A f \in Tracked : conns[f].packets \in 1 .. processed
    /\ rules \in RuleSets
    /\ job \in {<<>>} \cup {<<p>> : p \in Packets}
    /\ action \in {"FORWARD", "DROP", "none"}
    /\ processed \in 0 .. MaxPackets
    /\ seen \in Nat /\ seen <= processed
    /\ emitted = [flows |-> emitted.flows, packets |-> emitted.packets]
    /\ emitted.flows \in Nat /\ emitted.packets \in Nat
    /\ seen = Cardinality(Tracked) + emitted.flows
    /\ processed = Sum(conns, Tracked) + emitted.packets

LEMMA TableFinite ==
    ASSUME OrderInv
    PROVE  IsFiniteSet(Tracked) /\ Cardinality(Tracked) = Len(order)
           /\ Tracked \subseteq Flows
<1>1. IsFiniteSet(Tracked) /\ Cardinality(Tracked) = Len(order)
  BY DistinctLength DEF OrderInv
<1>2. Tracked \subseteq Flows
  BY DEF OrderInv, Range
<1> QED
  BY <1>1, <1>2

\* What leaves the table is added to what was reported.
LEMMA EmitFacts ==
    ASSUME TableInv, NEW gone \in SUBSET Tracked, Emit(gone)
    PROVE  /\ emitted' = [flows |-> emitted'.flows, packets |-> emitted'.packets]
           /\ emitted'.flows = emitted.flows + Cardinality(gone)
           /\ emitted'.packets = emitted.packets + Sum(conns, gone)
<1>1. IsFiniteSet(gone)
  BY TableFinite, FS_Subset DEF TableInv
<1>2. PacketsOf(gone) = Sum(conns, gone)
  BY <1>1, SumIs DEF PacketsOf
<1> QED
  BY <1>2 DEF Emit

LEMMA TableInvInit == Init => TableInv
<1> SUFFICES ASSUME Init PROVE TableInv
  OBVIOUS
<1>1. Tracked = {}
  BY DEF Init, Tracked
<1>2. OrderInv
  BY <1>1 DEF Init, OrderInv, Distinct, Range
<1>3. Cardinality(Tracked) = 0
  BY <1>1, FS_EmptySet
<1>4. Sum(conns, Tracked) = 0
  <2> DEFINE c == [f \in {0} |-> [packets |-> 0]]
  <2>1. c[0].packets \in Nat
    OBVIOUS
  <2> HIDE DEF c
  <2>2. Sum(c, {}) = 0
    BY <2>1, SumOne
  <2>3. [f \in {} |-> c[f].packets] = [f \in {} |-> conns[f].packets]
    OBVIOUS
  <2> QED
    BY <1>1, <2>2, <2>3 DEF Sum
<1> QED
  BY <1>1, <1>2, <1>3, <1>4, TableAssumption DEF Init, TableInv

LEMMA ProcessTable ==
    ASSUME ConnInv, TableInv, NEW p \in Packets, ProcessPacket(p)
    PROVE  TableInv'
<1> DEFINE f == p.flow
           old == IF f \in Tracked THEN conns[f].packets ELSE 0
           E == Evicted(f)
           K == (Tracked \ E) \ {f}
           D == DOMAIN conns'
<1>1. /\ rules' = rules /\ job' = <<p>> /\ action' \in {"FORWARD", "DROP"}
      /\ \A g \in D \ {f} : conns'[g] = conns[g]
      /\ conns'[f].packets = old + 1
      /\ D = (Tracked \ E) \cup {f}
  BY ProcessFacts
<1>2. /\ processed < MaxPackets /\ processed' = processed + 1
      /\ Emit(E)
      /\ order' = Append(Kept(order, K), f)
      /\ seen' = IF f \in Tracked THEN seen ELSE seen + 1
  BY DEF ProcessPacket
<1>3. f \in Flows
  BY PacketAssumption
<1>4. /\ IsFiniteSet(Tracked) /\ Cardinality(Tracked) = Len(order)
      /\ Cardinality(Tracked) \in Nat /\ MaxConnections \in Nat \ {0}
  BY TableFinite, TableAssumption, FS_CardinalityType DEF TableInv
<1>5. \/ f \in Tracked /\ E = {}
      \/ f \notin Tracked /\ E = {} /\ Cardinality(Tracked) + 1 <= MaxConnections
      \/ f \notin Tracked /\ \E h \in Tracked : E = {h}
  <2>1. CASE f \in Tracked \/ Cardinality(Tracked) < MaxConnections
    BY <1>4, <2>1 DEF Evicted
  <2>2. CASE f \notin Tracked /\ Cardinality(Tracked) >= MaxConnections
    <3>1. E = {Head(order)}
      BY <2>2 DEF Evicted
    <3>2. order # <<>> /\ order \in Seq(Flows) /\ Range(order) = Tracked
      BY <1>4, <2>2 DEF TableInv, OrderInv
    <3>3. Head(order) = order[1] /\ 1 \in DOMAIN order
      BY <3>2
    <3>4. Head(order) \in Tracked
      BY <3>2, <3>3 DEF Range
    <3> QED
      BY <2>2, <3>1, <3>4
  <2> QED
    BY <1>4, <2>1, <2>2 DEF TableInv
<1>6. E \in SUBSET Tracked /\ f \notin E /\ f \notin K /\ D = K \cup {f}
  BY <1>1, <1>5
<1> HIDE DEF E
<1>7. OrderInv'
  <2>1. order \in Seq(Flows) /\ Distinct(order) /\ Range(order) = Tracked
    BY DEF TableInv, OrderInv
  <2> DEFINE s == Kept(order, K)
  <2>2. s \in Seq(Flows) /\ Range(s) = Tracked \cap K /\ Distinct(s)
    BY <2>1, KeptFacts
  <2> HIDE DEF s
  <2>3. Range(s) = K
    BY <2>2
  <2> HIDE DEF K, f
  <2>4. /\ Append(s, f) \in Seq(Flows) /\ Range(Append(s, f)) = Range(s) \cup {f}
        /\ Distinct(Append(s, f))
    BY <1>3, <1>6, <2>2, <2>3, DistinctAppend
  <2>5. order' = Append(s, f)
    BY <1>2 DEF s
  <2> QED
    BY <1>6, <2>3, <2>4, <2>5 DEF OrderInv, Tracked
<1>8. /\ IsFiniteSet(E) /\ Cardinality(E) \in Nat /\ IsFiniteSet(K)
      /\ Cardinality(D) = Cardinality(K) + 1
      /\ Cardinality(Tracked) = Cardinality(K) + Cardinality(E)
                                + (IF f \in Tracked THEN 1 ELSE 0)
      /\ Cardinality(D) <= MaxConnections /\ Cardinality(K) \in Nat
  <2>1. IsFiniteSet(E) /\ IsFiniteSet(K)
    BY <1>4, <1>6, FS_Subset
  <2>2. Cardinality(E) \in Nat /\ Cardinality(K) \in Nat
    BY <2>1, FS_CardinalityType
  <2>3. Cardinality(D) = Cardinality(K) + 1
    <3> HIDE DEF K, D, f
    <3> QED
      BY <1>6, <2>1, FS_AddElement
  <2>4. CASE f \in Tracked /\ E = {}
    <3>1. Cardinality(E) = 0
      BY <2>4, FS_EmptySet
    <3>2. K = Tracked \ {f}
      BY <2>4
    <3>3. Cardinality(K) = Cardinality(Tracked) - 1
      BY <1>4, <2>4, <3>2, FS_RemoveElement
    <3> QED
      BY <1>4, <2>1, <2>2, <2>3, <2>4, <3>1, <3>3 DEF TableInv
  <2>5. CASE f \notin Tracked /\ E = {} /\ Cardinality(Tracked) + 1 <= MaxConnections
    <3>1. Cardinality(E) = 0
      BY <2>5, FS_EmptySet
    <3>2. K = Tracked
      BY <2>5
    <3>3. Cardinality(K) = Cardinality(Tracked)
      BY <3>2
    <3> HIDE DEF K, D, f
    <3> QED
      BY <1>4, <2>1, <2>2, <2>3, <2>5, <3>1, <3>3
  <2>6. CASE f \notin Tracked /\ \E h \in Tracked : E = {h}
    <3>1. PICK h \in Tracked : E = {h}
      BY <2>6
    <3>2. K = Tracked \ {h}
      BY <2>6, <3>1
    <3>3. Cardinality(K) = Cardinality(Tracked) - 1
      BY <1>4, <3>2, FS_RemoveElement
    <3>4. Cardinality(E) = 1
      BY <3>1, FS_Singleton
    <3> QED
      BY <1>4, <2>1, <2>2, <2>3, <2>6, <3>3, <3>4 DEF TableInv
  <2> QED
    BY <1>5, <2>4, <2>5, <2>6
<1>9. /\ emitted' = [flows |-> emitted'.flows, packets |-> emitted'.packets]
      /\ emitted'.flows = emitted.flows + Cardinality(E)
      /\ emitted'.packets = emitted.packets + Sum(conns, E)
  BY <1>2, <1>6, EmitFacts
<1>10. /\ processed \in Nat /\ seen \in Nat /\ emitted.flows \in Nat
       /\ emitted.packets \in Nat
       /\ \A g \in Tracked : conns[g].packets \in 1 .. processed
  BY TableAssumption DEF TableInv
<1>11. old \in 0 .. processed /\ \A g \in D : conns'[g].packets \in 1 .. processed + 1
  <2>1. old \in 0 .. processed
    BY <1>10
  <2>2. \A g \in K : conns'[g] = conns[g] /\ g \in Tracked
    BY <1>1, <1>6
  <2> HIDE DEF old, K, D, f
  <2>3. \A g \in K : conns'[g].packets \in 1 .. processed + 1
    BY <1>10, <2>2
  <2> QED
    BY <1>1, <1>6, <1>10, <2>1, <2>3
<1>12. /\ Sum(conns', D) = Sum(conns, K) + old + 1
       /\ Sum(conns, Tracked) = Sum(conns, K) + old + Sum(conns, E)
       /\ Sum(conns, E) \in Nat /\ Sum(conns, K) \in Nat
  <2>1. /\ \A g \in Tracked : conns[g].packets \in Nat
        /\ \A g \in D : conns'[g].packets \in Nat
    BY <1>10, <1>11
  <2>2. \A g \in K : conns[g].packets = conns'[g].packets
    BY <1>1, <1>6
  <2>3. Sum(conns', D) = Sum(conns, K) + Sum(conns', {f}) /\ Sum(conns, K) \in Nat
    <3>1. IsFiniteSet(D) /\ K \in SUBSET D /\ D \ K = {f}
      <4>1. IsFiniteSet(K \cup {f})
        BY <1>8, FS_AddElement
      <4> QED
        BY <1>6, <4>1
    <3> HIDE DEF D, K, f
    <3>2. \A g \in D : conns'[g].packets \in Nat
      BY <2>1
    <3>3. Sum(conns', D) = Sum(conns, K) + Sum(conns', D \ K)
      BY <2>2, <3>1, <3>2, SumSplit
    <3>4. Sum(conns, K) \in Nat
      BY <2>2, <3>1, <3>2, SumSplit
    <3> QED
      BY <3>1, <3>3, <3>4
  <2>4. Sum(conns', {f}) = old + 1
    BY <1>1, <1>11, SumOne
  <2>5. /\ Sum(conns, Tracked) = Sum(conns, E) + Sum(conns, Tracked \ E)
        /\ Sum(conns, E) \in Nat
    <3>1. \A g \in Tracked : conns[g].packets \in Nat
      BY <2>1
    <3>2. \A g \in E : conns[g].packets = conns[g].packets
      OBVIOUS
    <3>3. Sum(conns, Tracked) = Sum(conns, E) + Sum(conns, Tracked \ E)
      BY <1>4, <1>6, <3>1, <3>2, SumSplit
    <3>4. Sum(conns, E) \in Nat
      BY <1>4, <1>6, <3>1, <3>2, SumSplit
    <3> QED
      BY <3>3, <3>4
  <2>6. Sum(conns, Tracked \ E) = Sum(conns, K) + old
    <3>1. CASE f \notin Tracked
      <4>1. K = Tracked \ E /\ old = 0
        BY <3>1
      <4> QED
        BY <2>3, <4>1
    <3>2. CASE f \in Tracked
      <4>1. old = conns[f].packets /\ f \in Tracked \ E /\ (Tracked \ E) \ K = {f}
            /\ K \in SUBSET (Tracked \ E)
        BY <1>6, <3>2
      <4>2. Sum(conns, {f}) = old
        BY <2>1, <3>2, <4>1, SumOne
      <4>3. IsFiniteSet(Tracked \ E)
        BY <1>4, FS_Subset
      <4> HIDE DEF K, f, old
      <4>4. \A g \in Tracked \ E : conns[g].packets \in Nat
        BY <2>1
      <4>5. \A g \in K : conns[g].packets = conns[g].packets
        OBVIOUS
      <4>6. Sum(conns, Tracked \ E) = Sum(conns, K) + Sum(conns, (Tracked \ E) \ K)
        BY <4>1, <4>3, <4>4, <4>5, SumSplit
      <4> QED
        BY <4>1, <4>2, <4>6
    <3> QED
      BY <3>1, <3>2
  <2> HIDE DEF K, old, D, f
  <2> QED
    BY <1>11, <2>3, <2>4, <2>5, <2>6
<1>13. /\ processed' \in 0 .. MaxPackets
       /\ seen' \in Nat /\ seen' <= processed'
       /\ seen' = Cardinality(D) + emitted'.flows
  <2>1. /\ processed < MaxPackets /\ MaxPackets \in Nat /\ seen <= processed
        /\ seen = Cardinality(Tracked) + emitted.flows
    BY <1>2, TableAssumption DEF TableInv
  <2>2. CASE f \in Tracked
    <3>1. /\ seen' = seen /\ Cardinality(D) = Cardinality(K) + 1
          /\ Cardinality(Tracked) = Cardinality(K) + Cardinality(E) + 1
      BY <1>2, <1>8, <2>2
    <3> HIDE DEF K, D, f
    <3>2. seen' = Cardinality(D) + emitted'.flows
      BY <1>8, <1>9, <1>10, <2>1, <3>1
    <3>3. processed' \in 0 .. MaxPackets /\ seen' \in Nat /\ seen' <= processed'
      BY <1>2, <1>10, <2>1, <3>1
    <3> QED
      BY <3>2, <3>3
  <2>3. CASE f \notin Tracked
    <3>1. /\ seen' = seen + 1 /\ Cardinality(D) = Cardinality(K) + 1
          /\ Cardinality(Tracked) = Cardinality(K) + Cardinality(E)
      BY <1>2, <1>8, <2>3
    <3> HIDE DEF K, D, f
    <3>2. seen' = Cardinality(D) + emitted'.flows
      BY <1>8, <1>9, <1>10, <2>1, <3>1
    <3>3. processed' \in 0 .. MaxPackets /\ seen' \in Nat /\ seen' <= processed'
      BY <1>2, <1>10, <2>1, <3>1
    <3> QED
      BY <3>2, <3>3
  <2> QED
    BY <2>2, <2>3
<1>14. processed' = Sum(conns', D) + emitted'.packets
  <2>1. processed = Sum(conns, Tracked) + emitted.packets
    BY DEF TableInv
  <2> HIDE DEF K, old, D, f
  <2> QED
    BY <1>2, <1>9, <1>10, <1>11, <1>12, <2>1
<1>15. /\ emitted'.flows \in Nat /\ emitted'.packets \in Nat
  BY <1>8, <1>9, <1>10, <1>12
<1>16. rules' \in RuleSets /\ job' \in {<<>>} \cup {<<q>> : q \in Packets}
  BY <1>1 DEF TableInv
<1>17. Tracked' = D /\ \A g \in D : conns'[g].packets \in 1 .. processed'
  BY <1>2, <1>11 DEF Tracked
<1> HIDE DEF D, K, old, f
<1> QED
  BY <1>1, <1>7, <1>8, <1>9, <1>13, <1>14, <1>15, <1>16, <1>17 DEF TableInv

LEMMA CleanupTable ==
    ASSUME TableInv, CleanupStale
    PROVE  TableInv'
<1>1. OrderInv /\ IsFiniteSet(Tracked) /\ Cardinality(Tracked) \in Nat
  BY TableFinite, FS_CardinalityType DEF TableInv
<1>2. PICK gone \in SUBSET Tracked :
        /\ Emit(gone)
        /\ conns' = [f \in Tracked \ gone |-> conns[f]]
        /\ order' = Kept(order, Tracked \ gone)
        /\ UNCHANGED <<rules, job, action, processed, seen>>
  <2>1. PICK n \in 0 .. Len(order) :
          LET gone == {order[i] : i \in 1 .. n}
                        \cup {f \in Tracked : conns[f].state = "CLOSED"}
          IN /\ Emit(gone)
             /\ conns' = [f \in Tracked \ gone |-> conns[f]]
             /\ order' = Kept(order, Tracked \ gone)
             /\ UNCHANGED <<rules, job, action, processed, seen>>
    BY DEF CleanupStale
  <2>2. {order[i] : i \in 1 .. n} \subseteq Tracked
    BY <1>1 DEF OrderInv, Range
  <2> QED
    BY <2>1, <2>2
<1>3. Tracked' = Tracked \ gone
  BY <1>2 DEF Tracked
<1>4. OrderInv'
  <2>1. /\ order' \in Seq(Flows) /\ Range(order') = Tracked \cap (Tracked \ gone)
        /\ Distinct(order')
    BY <1>1, <1>2, KeptFacts DEF OrderInv
  <2> QED
    BY <1>3, <2>1 DEF OrderInv
<1>5. /\ IsFiniteSet(gone) /\ Cardinality(gone) \in Nat
      /\ Cardinality(Tracked) = Cardinality(Tracked \ gone) + Cardinality(gone)
      /\ Cardinality(Tracked \ gone) \in Nat
  <2>1. IsFiniteSet(gone) /\ IsFiniteSet(Tracked \ gone)
    BY <1>1, FS_Subset
  <2>2. Cardinality(gone) \in Nat /\ Cardinality(Tracked \ gone) \in Nat
    BY <2>1, FS_CardinalityType
  <2>3. Tracked \cap gone = gone
    OBVIOUS
  <2>4. Cardinality(Tracked \ gone) = Cardinality(Tracked) - Cardinality(Tracked \cap gone)
    BY <1>1, <2>1, FS_Difference
  <2> QED
    BY <1>1, <2>1, <2>2, <2>3, <2>4
<1>6. /\ emitted' = [flows |-> emitted'.flows, packets |-> emitted'.packets]
      /\ emitted'.flows = emitted.flows + Cardinality(gone)
      /\ emitted'.packets = emitted.packets + Sum(conns, gone)
  BY <1>2, EmitFacts
<1>7. /\ processed' = processed /\ seen' = seen /\ job' = job
      /\ action' = action /\ rules' = rules
  BY <1>2
<1>8. \A f \in Tracked \ gone : conns'[f] = conns[f]
  BY <1>2
<1>9. \A f \in Tracked : conns[f].packets \in Nat
  BY TableAssumption DEF TableInv
<1>10. /\ Sum(conns, Tracked) = Sum(conns', Tracked \ gone) + Sum(conns, gone)
       /\ Sum(conns, gone) \in Nat
  <2> DEFINE left == Tracked \ gone
  <2>1. left \in SUBSET Tracked /\ Tracked \ left = gone
    OBVIOUS
  <2>2. \A f \in left : conns'[f].packets = conns[f].packets
    BY <1>8
  <2> HIDE DEF left
  <2>3. Sum(conns, Tracked) = Sum(conns', left) + Sum(conns, Tracked \ left)
    BY <1>1, <1>9, <2>1, <2>2, SumSplit
  <2>4. Sum(conns, Tracked \ left) \in Nat
    BY <1>1, <1>9, <2>1, <2>2, SumSplit
  <2> QED
    BY <2>1, <2>3, <2>4 DEF left
<1>11. Sum(conns', Tracked \ gone) \in Nat
  <2>1. /\ Tracked \ gone \in SUBSET Tracked
        /\ \A f \in Tracked \ gone : conns'[f].packets = conns[f].packets
    BY <1>8
  <2> QED
    BY <1>1, <1>9, <2>1, SumSplit
<1>12. /\ seen \in Nat /\ processed \in Nat /\ emitted.flows \in Nat
       /\ emitted.packets \in Nat
       /\ seen = Cardinality(Tracked) + emitted.flows
       /\ processed = Sum(conns, Tracked) + emitted.packets
       /\ Cardinality(Tracked) <= MaxConnections /\ MaxConnections \in Nat
  BY TableAssumption DEF TableInv
<1>13. /\ seen' = Cardinality(Tracked \ gone) + emitted'.flows
       /\ Cardinality(Tracked \ gone) <= MaxConnections
       /\ emitted'.flows \in Nat
  BY <1>5, <1>6, <1>7, <1>12
<1>14. /\ processed' = Sum(conns', Tracked \ gone) + emitted'.packets
       /\ emitted'.packets \in Nat
  BY <1>6, <1>7, <1>10, <1>11, <1>12
<1>15. \A f \in Tracked \ gone : conns'[f].packets \in 1 .. processed'
  BY <1>7, <1>8 DEF TableInv
<1>16. /\ rules' \in RuleSets /\ job' \in {<<>>} \cup {<<p>> : p \in Packets}
       /\ action' \in {"FORWARD", "DROP", "none"}
       /\ processed' \in 0 .. MaxPackets /\ seen' \in Nat /\ seen' <= processed'
  BY <1>7 DEF TableInv
<1> QED
  BY <1>3, <1>4, <1>6, <1>13, <1>14, <1>15, <1>16 DEF TableInv

LEMMA TableInvHolds == Spec => [](ConnInv /\ TableInv)
<1>1. ConnInv /\ TableInv /\ [Next]_vars => (ConnInv /\ TableInv)'
  <2> SUFFICES ASSUME ConnInv, TableInv, [Next]_vars PROVE ConnInv' /\ TableInv'
    OBVIOUS
  <2>1. ConnInv'
    BY ConnStep
  <2>2. CASE Next
    BY <2>1, <2>2, ProcessTable, CleanupTable DEF Next
  <2>3. CASE UNCHANGED vars
    BY <2>1, <2>3 DEF vars, TableInv, OrderInv, Tracked
  <2> QED
    BY <2>1, <2>2, <2>3
<1> QED
  BY <1>1, ConnInvInit, TableInvInit, PTL DEF Spec

\* The table never holds more than max_connections_, and `order', from which
\* evictOldest takes its victim, lists exactly the flows in it, each once; every
\* counter and every record stays within what was processed.
THEOREM TypeCorrect == Spec => []TypeOK
<1>1. ASSUME ConnInv, TableInv PROVE TypeOK
  <2>1. /\ IsFiniteSet(Tracked) /\ Cardinality(Tracked) = Len(order)
        /\ Tracked \subseteq Flows /\ Cardinality(Tracked) \in Nat
    BY <1>1, TableFinite, FS_CardinalityType DEF TableInv
  <2>2. {order[i] : i \in DOMAIN order} = Tracked
    BY <1>1 DEF TableInv, OrderInv, Range
  <2>3. /\ \A f \in Tracked :
             /\ conns[f].state \in States /\ conns[f].packets \in 1 .. processed
             /\ {conns[f].syn, conns[f].synAck, conns[f].fin} \subseteq BOOLEAN
    BY <1>1 DEF ConnInv, TableInv, IsConnection
  <2>4. \A f \in Tracked : conns[f].packets \in Nat
    BY <1>1, TableAssumption DEF TableInv
  <2>5. Sum(conns, Tracked) \in Nat
    BY <2>1, <2>4, SumSplit
  <2>6. emitted.flows \in 0 .. seen /\ emitted.packets \in 0 .. processed
    BY <1>1, <2>1, <2>5, TableAssumption DEF TableInv
  <2>7. emitted \in [flows : 0 .. seen, packets : 0 .. processed]
    BY <1>1, <2>6 DEF TableInv
  <2>8. seen \in 0 .. processed /\ processed \in 0 .. MaxPackets
    BY <1>1, TableAssumption DEF TableInv
  <2> QED
    BY <1>1, <2>1, <2>2, <2>3, <2>7, <2>8 DEF TypeOK, TableInv
<1> QED
  BY <1>1, TableInvHolds, PTL

\* Eviction and cleanup neither lose a packet or a connection nor report one
\* twice: what was counted is in the table or was reported when it left.
THEOREM FlowsAccountedCorrect == Spec => []FlowsAccounted
<1>1. ASSUME TableInv PROVE FlowsAccounted
  <2>1. PacketsOf(Tracked) = Sum(conns, Tracked)
    BY <1>1, TableFinite, SumIs DEF TableInv, PacketsOf
  <2> QED
    BY <1>1, <2>1 DEF TableInv, FlowsAccounted
<1> QED
  BY <1>1, TableInvHolds, PTL

-----------------------------------------------------------------------------
(* What is reported about the table                                        *)

\* Counting the connections application by application counts each of them once,
\* for every set of tables: the sum over some applications is the number of
\* connections that have one of them.
LEMMA AppsCounted ==
    ASSUME NEW tables, IsFiniteSet(Entries(tables))
    PROVE  LET apps == AppDistribution(tables)
           IN /\ IsFiniteSet(DOMAIN apps)
              /\ \A a \in DOMAIN apps : apps[a] \in Nat \ {0}
              /\ \A S \in SUBSET DOMAIN apps :
                   Total(apps, S) = Cardinality(WithApp(tables, S))
              /\ WithApp(tables, DOMAIN apps) = Entries(tables)
<1> DEFINE apps == AppDistribution(tables)
           E == Entries(tables)
           app == [e \in E |-> AppOfEntry(tables, e)]
           A == {app[e] : e \in E}
<1>1. DOMAIN apps = A /\ \A a \in A : apps[a] = Cardinality(WithApp(tables, {a}))
  BY DEF AppDistribution
<1>2. \A S : WithApp(tables, S) = {e \in E : app[e] \in S}
  BY DEF WithApp
<1> HIDE DEF apps, app
<1>3. IsFiniteSet(A)
  <2>1. [e \in E |-> app[e]] \in Surjection(E, A)
    BY DEF Surjection
  <2> QED
    BY <2>1, FS_Surjection
<1>4. \A S : IsFiniteSet(WithApp(tables, S))
  BY <1>2, FS_Subset
<1>5. \A a \in A : apps[a] \in Nat \ {0}
  <2>1. \A a \in A : WithApp(tables, {a}) # {}
    BY <1>2
  <2> QED
    BY <1>1, <1>4, <2>1, FS_CardinalityType, FS_EmptySet
<1> DEFINE Good == {n \in Nat : \A S \in SUBSET A : Cardinality(S) = n =>
                      Total(apps, S) = Cardinality(WithApp(tables, S))}
<1>6. \A S \in SUBSET A :
        /\ IsFiniteSet(S) /\ Cardinality(S) \in Nat /\ (Cardinality(S) = 0 <=> S = {})
        /\ \A a \in S : /\ S \ {a} \in SUBSET A
                        /\ Cardinality(S \ {a}) = Cardinality(S) - 1
  BY <1>3, FS_Subset, FS_CardinalityType, FS_EmptySet, FS_RemoveElement
<1>7. ASSUME NEW S \in SUBSET A
      PROVE  /\ Total(apps, S) \in Nat /\ Total(apps, {}) = 0
             /\ \A a \in S : Total(apps, S) = apps[a] + Total(apps, S \ {a})
  BY <1>5, <1>6, TotalRemove
<1>8. 0 \in Good
  <2>1. WithApp(tables, {}) = {}
    BY <1>2
  <2> QED
    BY <1>6, <1>7, <2>1, FS_EmptySet
<1>9. ASSUME NEW n \in Nat, n \in Good PROVE n + 1 \in Good
  <2>1. SUFFICES ASSUME NEW S \in SUBSET A, Cardinality(S) = n + 1
                 PROVE  Total(apps, S) = Cardinality(WithApp(tables, S))
    OBVIOUS
  <2>2. PICK a : a \in S
    BY <1>6, <2>1
  <2>3. /\ S \ {a} \in SUBSET A /\ Cardinality(S \ {a}) = n
        /\ Total(apps, S) = apps[a] + Total(apps, S \ {a})
    BY <1>6, <1>7, <2>1, <2>2
  <2>4. Total(apps, S \ {a}) = Cardinality(WithApp(tables, S \ {a}))
    BY <1>9, <2>3
  <2>5. /\ WithApp(tables, S) = WithApp(tables, {a}) \cup WithApp(tables, S \ {a})
        /\ WithApp(tables, {a}) \cap WithApp(tables, S \ {a}) = {}
    BY <1>2, <2>2
  <2>6. Cardinality(WithApp(tables, S))
          = Cardinality(WithApp(tables, {a})) + Cardinality(WithApp(tables, S \ {a}))
    <3>1. /\ Cardinality(WithApp(tables, {a})) \in Nat
          /\ Cardinality(WithApp(tables, S \ {a})) \in Nat
      BY <1>4, FS_CardinalityType
    <3>2. Cardinality(WithApp(tables, S))
            = Cardinality(WithApp(tables, {a})) + Cardinality(WithApp(tables, S \ {a}))
                - Cardinality({})
      BY <1>4, <2>5, FS_Union
    <3> QED
      BY <3>1, <3>2, FS_EmptySet
  <2> QED
    BY <1>1, <2>2, <2>3, <2>4, <2>6
<1> HIDE DEF Good
<1>10. \A S \in SUBSET A : Total(apps, S) = Cardinality(WithApp(tables, S))
  <2>1. \A n \in Nat : n \in Good
    BY <1>8, <1>9, NatSetInduction
  <2> QED
    BY <1>6, <2>1 DEF Good
<1>11. WithApp(tables, A) = E
  <2>1. \A e \in E : app[e] \in A
    OBVIOUS
  <2>2. WithApp(tables, A) = {e \in E : app[e] \in A}
    BY <1>2
  <2> HIDE DEF A, E
  <2> QED
    BY <2>1, <2>2
<1> QED
  BY <1>1, <1>3, <1>5, <1>10, <1>11 DEF apps

\* A set of numbers that is not empty has a greatest one.
LEMMA GreatestExists ==
    ASSUME NEW S, IsFiniteSet(S), S # {}, NEW g, \A x \in S : g[x] \in Nat
    PROVE  \E x \in S : \A y \in S : g[y] <= g[x]
<1> DEFINE Good == {n \in Nat : \A T \in SUBSET S : Cardinality(T) = n + 1 =>
                      \E x \in T : \A y \in T : g[y] <= g[x]}
<1>1. \A T \in SUBSET S :
        /\ IsFiniteSet(T) /\ Cardinality(T) \in Nat /\ (Cardinality(T) = 0 <=> T = {})
        /\ \A x \in T : /\ T \ {x} \in SUBSET S
                        /\ Cardinality(T \ {x}) = Cardinality(T) - 1
  BY FS_Subset, FS_CardinalityType, FS_EmptySet, FS_RemoveElement
<1>2. 0 \in Good
  <2>1. SUFFICES ASSUME NEW T \in SUBSET S, Cardinality(T) = 0 + 1
                 PROVE  \E x \in T : \A y \in T : g[y] <= g[x]
    OBVIOUS
  <2>2. PICK x : x \in T
    BY <1>1, <2>1
  <2>3. T \ {x} = {}
    <3>1. T \ {x} \in SUBSET S /\ Cardinality(T \ {x}) = 0
      BY <1>1, <2>1, <2>2
    <3> QED
      BY <1>1, <3>1
  <2> QED
    BY <2>2, <2>3
<1>3. ASSUME NEW n \in Nat, n \in Good PROVE n + 1 \in Good
  <2>1. SUFFICES ASSUME NEW T \in SUBSET S, Cardinality(T) = (n + 1) + 1
                 PROVE  \E x \in T : \A y \in T : g[y] <= g[x]
    OBVIOUS
  <2>2. PICK x : x \in T
    BY <1>1, <2>1
  <2>3. Cardinality(T \ {x}) = n + 1 /\ T \ {x} \in SUBSET S
    BY <1>1, <2>1, <2>2
  <2>4. PICK z \in T \ {x} : \A y \in T \ {x} : g[y] <= g[z]
    BY <1>3, <2>3
  <2>5. g[x] \in Nat /\ g[z] \in Nat /\ \A y \in T : g[y] \in Nat
    BY <2>2
  <2>6. CASE g[x] <= g[z]
    BY <2>2, <2>4, <2>5, <2>6
  <2>7. CASE g[z] < g[x]
    BY <2>2, <2>4, <2>5, <2>7
  <2> QED
    BY <2>5, <2>6, <2>7
<1> HIDE DEF Good
<1>4. PICK n \in Nat : Cardinality(S) = n + 1
  <2>1. Cardinality(S) \in Nat /\ Cardinality(S) # 0
    BY <1>1
  <2>2. Cardinality(S) - 1 \in Nat /\ Cardinality(S) = (Cardinality(S) - 1) + 1
    BY <2>1
  <2> QED
    BY <2>2
<1>5. n \in Good
  BY <1>2, <1>3, NatSetInduction
<1> QED
  BY <1>4, <1>5 DEF Good

\* The numbers of the summary, for every set of tables.
LEMMA SummaryFacts ==
    ASSUME NEW tables, IsFiniteSet(Entries(tables)), NEW n
    PROVE  LET json == JsonSummary(n, tables)
               unknown == WithApp(tables, {"UNKNOWN"})
               apps == json.application_distribution
           IN /\ json.total_packets = n
              /\ json.total_connections = Cardinality(Entries(tables))
              /\ json.unknown = Cardinality(unknown)
              /\ json.classified = Cardinality(Entries(tables) \ unknown)
              /\ json.classified \in Nat /\ json.unknown \in Nat
              /\ json.classified + json.unknown = Cardinality(Entries(tables))
              /\ Insights(json).top = {} <=> json.classified = 0
<1> DEFINE E == Entries(tables)
           apps == AppDistribution(tables)
           known == DOMAIN apps \ {"UNKNOWN"}
           U == WithApp(tables, {"UNKNOWN"})
           total == Total(apps, DOMAIN apps)
           unknown == IF "UNKNOWN" \in DOMAIN apps THEN apps["UNKNOWN"] ELSE 0
           shown == [a \in known |-> apps[a]]
           json == JsonSummary(n, tables)
<1>1. json = [total_packets |-> n, total_connections |-> total,
              classified |-> total - unknown, unknown |-> unknown,
              application_distribution |-> shown]
  BY DEF JsonSummary, Total
<1>2. /\ IsFiniteSet(DOMAIN apps)
      /\ \A a \in DOMAIN apps : apps[a] \in Nat \ {0}
      /\ \A S \in SUBSET DOMAIN apps : Total(apps, S) = Cardinality(WithApp(tables, S))
      /\ WithApp(tables, DOMAIN apps) = E
  BY AppsCounted
<1>3. /\ DOMAIN apps = {AppOfEntry(tables, e) : e \in E}
      /\ \A a \in DOMAIN apps : apps[a] = Cardinality(WithApp(tables, {a}))
      /\ \A S : WithApp(tables, S) = {e \in E : AppOfEntry(tables, e) \in S}
  BY DEF AppDistribution, WithApp
<1> HIDE DEF apps, json
<1>4. total = Cardinality(E)
  BY <1>2
<1>5. unknown = Cardinality(U)
  <2>1. CASE "UNKNOWN" \in DOMAIN apps
    BY <1>3, <2>1
  <2>2. CASE "UNKNOWN" \notin DOMAIN apps
    <3>1. U = {}
      BY <1>3, <2>2
    <3> QED
      BY <2>2, <3>1, FS_EmptySet
  <2> QED
    BY <2>1, <2>2
<1>6. /\ Cardinality(E) \in Nat /\ Cardinality(U) \in Nat /\ Cardinality(E \ U) \in Nat
      /\ Cardinality(E \ U) = Cardinality(E) - Cardinality(U)
  <2>1. U \in SUBSET E /\ E \cap U = U
    BY <1>3
  <2>2. IsFiniteSet(U) /\ IsFiniteSet(E \ U)
    BY <2>1, FS_Subset, FS_Difference
  <2> QED
    BY <2>1, <2>2, FS_Difference, FS_CardinalityType
<1>7. Insights(json).top = {a \in known : \A b \in known : apps[b] <= apps[a]}
  <2>1. json.application_distribution = shown
    BY <1>1
  <2>2. DOMAIN shown = known /\ \A a \in known : shown[a] = apps[a]
    OBVIOUS
  <2>3. Insights(json).top
          = {a \in DOMAIN shown : \A b \in DOMAIN shown : shown[b] <= shown[a]}
    BY <2>1 DEF Insights
  <2> HIDE DEF known, shown
  <2> QED
    BY <2>2, <2>3
<1>8. Insights(json).top = {} <=> known = {}
  <2>1. known # {} => Insights(json).top # {}
    <3>1. IsFiniteSet(known) /\ \A a \in known : apps[a] \in Nat
      BY <1>2, FS_Difference
    <3> HIDE DEF known
    <3> QED
      BY <1>7, <3>1, GreatestExists
  <2> QED
    BY <1>7, <2>1
<1>9. known = {} <=> E \ U = {}
  BY <1>3
<1>10. E \ U = {} <=> Cardinality(E \ U) = 0
  BY FS_Difference, FS_EmptySet
<1> HIDE DEF U, E, total, unknown, shown, known
<1>11. /\ json.total_packets = n /\ json.total_connections = total
       /\ json.unknown = unknown /\ json.classified = total - unknown
  BY <1>1
<1>12. json.classified = Cardinality(E \ U) /\ json.unknown = Cardinality(U)
  BY <1>4, <1>5, <1>6, <1>11
<1>13. json.classified + json.unknown = Cardinality(E)
  BY <1>6, <1>12
<1>14. /\ json.total_packets = n /\ json.total_connections = Cardinality(E)
       /\ json.classified \in Nat /\ json.unknown \in Nat
       /\ Insights(json).top = {} <=> json.classified = 0
  BY <1>4, <1>6, <1>8, <1>9, <1>10, <1>11, <1>12
<1> QED
  BY <1>12, <1>13, <1>14 DEF E, U, json

\* Shares of a whole, each rounded down, are together no more than 100 %.
LEMMA SharesAdd ==
    ASSUME NEW a \in Nat, NEW b \in Nat, NEW n \in Nat \ {0}, a + b <= n
    PROVE  /\ Percentage(a, n) \in Nat /\ Percentage(b, n) \in Nat
           /\ Percentage(a, n) + Percentage(b, n) <= 100
<1> DEFINE p == Percentage(a, n)  q == Percentage(b, n)
<1>1. p \in Nat /\ q \in Nat /\ n * p <= a * 100 /\ n * q <= b * 100
  BY DEF Percentage
<1> HIDE DEF p, q
<1>2. n * (p + q) = n * p + n * q /\ n * p \in Nat /\ n * q \in Nat
  BY <1>1
<1>3. n * (p + q) <= n * 100
  BY <1>1, <1>2
<1>4. ASSUME p + q > 100 PROVE FALSE
  <2>1. PICK d \in Nat : p + q = 100 + 1 + d
    <3>1. p + q - 101 \in Nat /\ p + q = 100 + 1 + (p + q - 101)
      BY <1>1, <1>4
    <3> QED
      BY <3>1
  <2>2. n * (p + q) = n * 100 + n + n * d /\ n * d \in Nat
    BY <2>1
  <2> QED
    BY <1>3, <2>2
<1> QED
  BY <1>1, <1>4 DEF p, q

\* The entries of all tables are the tracked connections.
LEMMA EntriesFacts ==
    ASSUME Tracked \subseteq Flows, IsFiniteSet(Tracked)
    PROVE  IsFiniteSet(Entries(Tables)) /\ Cardinality(Entries(Tables)) = Cardinality(Tracked)
<1> DEFINE E == {<<FPOf[f], f>> : f \in Tracked}
           g == [f \in Tracked |-> <<FPOf[f], f>>]
<1>1. Entries(Tables) = E
  <2>1. DOMAIN Tables = {FPOf[f] : f \in Flows}
    BY DEF Tables
  <2>2. \A i \in DOMAIN Tables : DOMAIN Tables[i] = {f \in Tracked : FPOf[f] = i}
    BY DEF Tables
  <2>3. Entries(Tables) = UNION {{<<i, f>> : f \in {h \in Tracked : FPOf[h] = i}} :
                                   i \in {FPOf[f] : f \in Flows}}
    BY <2>1, <2>2 DEF Entries
  <2> QED
    BY <2>3
<1>2. g \in Bijection(Tracked, E)
  BY DEF Bijection, Injection, Surjection, IsInjective
<1> HIDE DEF E, g
<1> QED
  BY <1>1, <1>2, FS_Bijection DEF ExistsBijection

\* The three counts of connections agree, however the flows are spread over the
\* fast paths; and what the backend makes of them is sane.
THEOREM SummaryAddsCorrect == Spec => []SummaryAdds
<1>1. ASSUME TypeOK, FlowsAccounted, ConnInv, TableInv PROVE SummaryAdds
  <2> DEFINE json == JsonSummary(processed, Tables)
             C == Cardinality(Tracked)
  <2>1. IsFiniteSet(Entries(Tables)) /\ Cardinality(Entries(Tables)) = C /\ C \in Nat
    BY <1>1, TableFinite, EntriesFacts, FS_CardinalityType DEF TypeOK, TableInv
  <2>2. /\ json.total_packets = processed
        /\ json.total_connections = C
        /\ json.unknown = Cardinality(WithApp(Tables, {"UNKNOWN"}))
        /\ json.classified = Cardinality(Entries(Tables) \ WithApp(Tables, {"UNKNOWN"}))
        /\ json.classified \in Nat /\ json.unknown \in Nat
        /\ json.classified + json.unknown = C
        /\ Insights(json).top = {} <=> json.classified = 0
    BY <2>1, SummaryFacts
  <2>3. seen - emitted.flows = C /\ C <= processed /\ processed \in Nat
    <3>1. seen \in 0 .. processed /\ emitted.flows \in 0 .. seen /\ processed \in Nat
      BY <1>1, TableAssumption DEF TypeOK
    <3> QED
      BY <1>1, <2>1, <3>1 DEF FlowsAccounted
  <2>4. LET report == ClassificationReport(Tables)
        IN json.classified = report.classified /\ json.unknown = report.unknown
    BY <2>2 DEF ClassificationReport
  <2> HIDE DEF json, C
  <2>5. ASSUME NEW rate \in Insights(json).classified
        PROVE  /\ rate + Percentage(json.unknown, processed) <= 100
               /\ RiskLevel(json) = "HIGH" => rate < 50
    <3>1. processed > 0 /\ rate = Percentage(json.classified, processed)
      BY <2>2, <2>3, <2>5 DEF Insights
    <3>2. /\ rate \in Nat /\ Percentage(json.unknown, processed) \in Nat
          /\ rate + Percentage(json.unknown, processed) <= 100
      BY <2>2, <2>3, <3>1, SharesAdd
    <3>3. RiskLevel(json) = "HIGH" => Percentage(json.unknown, processed) > 50
      BY <2>2, <3>1 DEF RiskLevel
    <3> QED
      BY <3>2, <3>3
  <2> QED
    BY <2>2, <2>3, <2>4, <2>5 DEF SummaryAdds, json
<1> QED
  BY <1>1, TypeCorrect, FlowsAccountedCorrect, TableInvHolds, PTL
=============================================================================
