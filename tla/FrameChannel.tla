---------------------------- MODULE FrameChannel ----------------------------
(* What the framing of the RPC connections promises: a FIFO channel of whole *)
(* messages that may break, and then delivers nothing more.                  *)
EXTENDS Sequences, Naturals

CONSTANT Messages

VARIABLES sent, delivered, open

Init == sent = <<>> /\ delivered = <<>> /\ open = TRUE

Send(m) ==
    /\ sent' = Append(sent, m)
    /\ UNCHANGED <<delivered, open>>

Deliver ==
    /\ open = TRUE /\ Len(delivered) < Len(sent)
    /\ delivered' = Append(delivered, sent[Len(delivered) + 1])
    /\ UNCHANGED <<sent, open>>

Break ==
    /\ open = TRUE /\ open' = FALSE
    /\ UNCHANGED <<sent, delivered>>

Next == (\E m \in Messages : Send(m)) \/ Deliver \/ Break

Spec == Init /\ [][Next]_<<sent, delivered, open>>
=============================================================================
