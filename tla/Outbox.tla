------------------------------- MODULE Outbox -------------------------------
(***************************************************************************)
(* What a connection promises to the goroutines that send through it: a    *)
(* FIFO that loses, repeats and reorders nothing while it is open, and     *)
(* once it is shut has delivered a prefix of what it was given.            *)
(***************************************************************************)
EXTENDS Sequences, Naturals

CONSTANT Msg

VARIABLES
    given,      \* everything accepted, in order
    delivered,  \* everything that reached the peer, in order
    open        \* "open" or "shut"

outbox == <<given, delivered, open>>

Init == given = <<>> /\ delivered = <<>> /\ open = "open"

Accept == /\ \E m \in Msg : given' = Append(given, m)
          /\ UNCHANGED <<delivered, open>>

Deliver == /\ open = "open"
           /\ Len(delivered) < Len(given)
           /\ delivered' = Append(delivered, given[Len(delivered) + 1])
           /\ UNCHANGED <<given, open>>

Shut == /\ open = "open"
        /\ open' = "shut"
        /\ UNCHANGED <<given, delivered>>

Next == Accept \/ Deliver \/ Shut

Spec == Init /\ [][Next]_outbox
=============================================================================
