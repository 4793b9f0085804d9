----------------------------- MODULE RelayStream -----------------------------
(***************************************************************************)
(* The upload direction of one TCP flow: the TCP of Windows as the client, *)
(* the dispatch loop's try_send into the flow's bounded channel, and       *)
(* relay_flow of src/src/network/dispatch.rs, which writes each message to *)
(* the proxy and then acknowledges it.                                     *)
(*                                                                         *)
(* Segments are numbered from 1; a segment's number stands for its         *)
(* sequence number.  The Wintun ring is a FIFO that the dispatch loop      *)
(* empties, so a packet is handled in the step that sends it.              *)
(***************************************************************************)
EXTENDS Integers, Sequences

CONSTANTS
    QueueSize,     \* capacity of the channel; 128 in the program
    Window,        \* segments the client sends ahead of the last ACK
    MaxSent        \* bound on the segments sent

ASSUME SizesAssumption ==
    /\ QueueSize \in Nat \ {0}
    /\ Window \in Nat \ {0}
    /\ MaxSent \in Nat

VARIABLES
    sent,     \* client: the last segment sent
    acked,    \* client: every segment up to this one is acknowledged
    fin,      \* client: has sent its FIN
    offered,  \* client: the last segment that found the flow in the table
    resent,   \* client: its timer ran out once before an ACK came
    entry,    \* the flow is in the flow table: its channel is open
    queue,    \* the messages in the channel
    task,     \* where relay_flow is
    segment,  \* the message it is writing, 0 for none
    written   \* what the connection to the proxy took, in order

streamVars == <<sent, acked, fin, offered, resent, entry, queue, task, segment,
                written>>
clientVars == <<sent, acked, fin, offered, resent>>
relayVars  == <<task, segment, written>>

Segments == 1 .. MaxSent

FlagsOK ==
    /\ fin    \in BOOLEAN
    /\ resent \in BOOLEAN
    /\ entry  \in BOOLEAN

CountsOK ==
    /\ sent    \in 0 .. MaxSent
    /\ acked   \in 0 .. MaxSent
    /\ offered \in 0 .. MaxSent
    /\ queue   \in Seq(Segments)
    /\ Len(queue) <= QueueSize
    /\ task    \in {"connect", "select", "write", "ended"}
    /\ segment \in 0 .. MaxSent
    /\ task = "write" => segment \in Segments
    /\ task = "ended" => ~entry /\ queue = <<>>
    /\ written \in Seq(Segments)

(* The channel is bounded, and a relay that is over has left the table.     *)
StreamTypeOK == FlagsOK /\ CountsOK

(* open_flow has answered the SYN, registered the flow and spawned.        *)
StreamInit ==
    /\ sent    = 0
    /\ acked   = 0
    /\ fin     = FALSE
    /\ offered = 0
    /\ resent  = FALSE
    /\ entry   = TRUE
    /\ queue   = <<>>
    /\ task    = "connect"
    /\ segment = 0
    /\ written = <<>>

-----------------------------------------------------------------------------
(* The client, and handle_packet for each packet of its *)

(* try_send: a message that finds the channel full, or closed by the end   *)
(* of relay_flow, is dropped and nobody learns of it.                      *)
TrySend(n) ==
    queue' = IF entry /\ task # "ended" /\ Len(queue) < QueueSize
             THEN Append(queue, n)
             ELSE queue

Send ==
    /\ ~fin
    /\ sent < MaxSent
    /\ sent - acked < Window
    /\ sent' = sent + 1
    /\ offered' = IF entry THEN sent + 1 ELSE offered
    /\ TrySend(sent + 1)
    /\ UNCHANGED <<acked, fin, resent, entry, relayVars>>

(* Bounded: once. *)
Retransmit(n) ==
    /\ ~resent
    /\ acked < n /\ n <= sent
    /\ resent' = TRUE
    /\ TrySend(n)
    /\ UNCHANGED <<sent, acked, fin, offered, entry, relayVars>>

(* A FIN removes the flow before the payload of its packet is looked at.   *)
Fin(d) ==
    /\ ~fin
    /\ sent + d <= MaxSent
    /\ sent + d - acked <= Window
    /\ sent'    = sent + d
    /\ fin'     = TRUE
    /\ entry'   = FALSE
    /\ UNCHANGED <<acked, offered, resent, queue, relayVars>>

(* The cleanup task finds the flow idle, 300 s without data either way, or  *)
(* the client resets it: the sender is dropped.                             *)
Removed ==
    /\ entry
    /\ entry' = FALSE
    /\ UNCHANGED <<clientVars, queue, relayVars>>

-----------------------------------------------------------------------------
(* relay_flow *)

Connected ==
    /\ task = "connect"
    /\ task' = "select"
    /\ UNCHANGED <<clientVars, entry, queue, segment, written>>

(* The task is over and its entry, if it still has one, is removed: the    *)
(* connect failed, write_all or write_tun failed, the proxy closed.        *)
End ==
    /\ task'    = "ended"
    /\ entry'   = FALSE
    /\ queue'   = <<>>
    /\ segment' = 0

ConnectFailed ==
    /\ task = "connect"
    /\ End
    /\ UNCHANGED <<clientVars, written>>

Recv ==
    /\ task = "select"
    /\ queue # <<>>
    /\ segment' = Head(queue)
    /\ queue'   = Tail(queue)
    /\ task'    = "write"
    /\ UNCHANGED <<clientVars, entry, written>>

(* Mutant of RecvNone: the task is told of the removal, not of the end of  *)
(* the channel, and forgets what is queued.                                *)
RecvNone_Undrained ==
    /\ task = "select"
    /\ ~entry
    /\ End
    /\ UNCHANGED <<clientVars, written>>

(* The channel is closed and empty: break, FIN+ACK.                        *)
RecvNone ==
    /\ task = "select"
    /\ queue = <<>>
    /\ ~entry
    /\ End
    /\ UNCHANGED <<clientVars, written>>

(* Mutant of Written: the ACK is not sent. *)
Written_NoAck ==
    /\ task = "write"
    /\ written' = Append(written, segment)
    /\ segment' = 0
    /\ task'    = "select"
    /\ UNCHANGED <<clientVars, entry, queue>>

(* write_all is done, and the client gets an ACK for all up to segment.    *)
Written ==
    /\ task = "write"
    /\ written' = Append(written, segment)
    /\ acked'   = IF segment > acked THEN segment ELSE acked
    /\ segment' = 0
    /\ task'    = "select"
    /\ UNCHANGED <<sent, fin, offered, resent, entry, queue>>

(* The ACK finds the Wintun ring full: write_tun(..)? *)
AckFailed ==
    /\ task = "write"
    /\ written' = Append(written, segment)
    /\ End
    /\ UNCHANGED clientVars

(* Mutant of WriteFailed: `let _ =` instead of `?` after write_all. *)
WriteFailed_Ignored ==
    /\ task = "write"
    /\ acked'   = IF segment > acked THEN segment ELSE acked
    /\ segment' = 0
    /\ task'    = "select"
    /\ UNCHANGED <<sent, fin, offered, resent, entry, queue, written>>

WriteFailed ==
    /\ task = "write"
    /\ End
    /\ UNCHANGED <<clientVars, written>>

(* The proxy has closed, a read fails, or a packet for the client finds the *)
(* ring full: FlowRelay says when.                                          *)
DownloadEnds ==
    /\ task = "select"
    /\ End
    /\ UNCHANGED <<clientVars, written>>

-----------------------------------------------------------------------------
Answered == Connected \/ ConnectFailed
Tried    == Written \/ AckFailed \/ WriteFailed

(* The client has closed, and the relay is over.                           *)
AllOver == fin /\ task = "ended" /\ UNCHANGED streamVars

StreamNext ==
    \/ Send
    \/ \E n \in Segments : Retransmit(n)
    \/ \E d \in 0 .. 1 : Fin(d)
    \/ Removed
    \/ Answered
    \/ Recv
    \/ RecvNone
    \/ Tried
    \/ DownloadEnds
    \/ AllOver

StreamSpec == StreamInit /\ [][StreamNext]_streamVars

-----------------------------------------------------------------------------
(* Properties *)

(* Until the client's timer runs out the relay is a BytePipe: nothing lost, *)
(* doubled or out of order, and no ACK for what the proxy did not take.     *)
(* This rests on the client never having more segments on the way than the  *)
(* channel holds.                                                           *)
Pipe == INSTANCE BytePipe WITH delivered <- written
ImplementsPipe ==
    Pipe!PipeInit /\ [][Pipe!PipeNext \/ resent]_<<sent, written, acked>>

(* When a flow is removed, by its client or by the cleanup, everything that *)
(* was sent before is forwarded first: the channel is emptied before it     *)
(* yields None.  The payload of a FIN packet comes too late: the entry is   *)
(* removed before it is looked at.                                          *)
FinDrains == [][(RecvNone /\ ~resent) => Len(written) = offered]_streamVars

(* A message in the channel is forwarded and acknowledged, also after the   *)
(* flow has left the table, unless the connection to the proxy ends.        *)
QueuedIsAcked ==
    \A n \in Segments :
       (\E i \in DOMAIN queue : queue[i] = n) ~> (acked >= n \/ task = "ended")

(* dispatch.rs:265: what the relay acknowledges is "the client's data" that *)
(* it has just written to the proxy.                                        *)
AckedIsForwarded ==
    ~resent => \A n \in 1 .. acked : \E i \in DOMAIN written : written[i] = n
=============================================================================
