----------------------------- MODULE FifoChannel -----------------------------
(***************************************************************************)
(* What the write() of a session or client promises to its callers: a      *)
(* channel that puts on the wire what it accepted, in that order, each     *)
(* item once, until the connection breaks.                                 *)
(***************************************************************************)
EXTENDS Naturals, Sequences

CONSTANT Data

VARIABLES accepted, sent, up
cvars == <<accepted, sent, up>>

ChannelInit == accepted = <<>> /\ sent = <<>> /\ up = TRUE

Accept(d) ==
    /\ accepted' = Append(accepted, d)
    /\ UNCHANGED <<sent, up>>

Deliver ==
    /\ up /\ Len(sent) < Len(accepted)
    /\ sent' = Append(sent, accepted[Len(sent) + 1])
    /\ UNCHANGED <<accepted, up>>

Break == up /\ up' = FALSE /\ UNCHANGED <<accepted, sent>>

ChannelNext == (\E d \in Data : Accept(d)) \/ Deliver \/ Break

\* The promise of safety, and with fairness that of delivery.
ChannelSpec == ChannelInit /\ [][ChannelNext]_cvars
FairChannelSpec == ChannelSpec /\ WF_cvars(Deliver)

=============================================================================
