------------------------------- MODULE BytePipe -------------------------------
(***************************************************************************)
(* What a relayed TCP flow promises the application: the segments it sent  *)
(* arrive once each and in order, and it is told so only of those that     *)
(* did.  No queue, no relay task, no packets.  RelayStream implements it.  *)
(***************************************************************************)
EXTENDS Naturals, Sequences

VARIABLES
    sent,       \* segments sent by the application
    delivered,  \* the segments that arrived, in their order
    acked       \* segments the application knows to have arrived

pipeVars == <<sent, delivered, acked>>

PipeInit ==
    /\ sent = 0
    /\ delivered = <<>>
    /\ acked = 0

SendNext ==
    /\ sent' = sent + 1
    /\ UNCHANGED <<delivered, acked>>

DeliverNext ==
    /\ Len(delivered) < sent
    /\ delivered' = Append(delivered, Len(delivered) + 1)
    /\ acked' \in acked .. Len(delivered')
    /\ UNCHANGED sent

PipeNext == SendNext \/ DeliverNext

PipeSpec == PipeInit /\ [][PipeNext]_pipeVars
=============================================================================
