--------------------------- MODULE PacketService ---------------------------
(***************************************************************************)
(* What the multi-threaded engine promises about the packets of a capture, *)
(* whatever threads and queues it uses: a packet that was accepted is      *)
(* dropped by a rule or written to the output at most once, and the output *)
(* keeps the order of the packets of one flow.  A packet may be neither:   *)
(* nothing here says that an accepted packet is ever decided.              *)
(***************************************************************************)
EXTENDS Naturals, Sequences

VARIABLES input,      \* the five-tuples of the capture's packets, in order
          accepted,   \* how many of them the engine has accepted so far
          dropped,    \* the packets a rule discarded
          written     \* the packets of the output file, in file order

vars == <<input, accepted, dropped, written>>

Written == {written[i] : i \in DOMAIN written}
Pending == (1 .. accepted) \ (dropped \cup Written)

Init == /\ accepted = 0
        /\ dropped = {}
        /\ written = <<>>

\* The next packet of the capture enters the engine.
Accept == /\ accepted < Len(input)
          /\ accepted' = accepted + 1
          /\ UNCHANGED <<input, dropped, written>>

Discard(id) == /\ id \in Pending
               /\ dropped' = dropped \cup {id}
               /\ UNCHANGED <<input, accepted, written>>

\* A pending packet is written once no earlier packet of its flow is pending.
Deliver(id) == /\ id \in Pending
               /\ \A e \in Pending : input[e] = input[id] => id <= e
               /\ written' = Append(written, id)
               /\ UNCHANGED <<input, accepted, dropped>>

Next == \/ Accept
        \/ \E id \in Pending : Discard(id) \/ Deliver(id)

Spec == Init /\ [][Next]_vars
=============================================================================
