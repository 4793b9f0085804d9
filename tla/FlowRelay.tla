------------------------------ MODULE FlowRelay ------------------------------
(***************************************************************************)
(* Both directions of one TCP flow: relay_flow of                          *)
(* src/src/network/dispatch.rs as a whole.  The upload direction is that   *)
(* of RelayStream; this module adds what the proxy sends, the packets that *)
(* carry it to the client, and how the client learns of the end.           *)
(*                                                                         *)
(* The unit is a chunk of at most 1400 bytes, the payload of one packet.   *)
(* Chunks are numbered from 1, and so are their sequence numbers.  A       *)
(* packet in the Wintun ring reaches the client, once and in order.        *)
(***************************************************************************)
EXTENDS RelayStream

CONSTANTS
    MaxReplies,   \* bound on the chunks the proxy sends
    BufferSize,   \* chunks in one read; 6 in the program (8192 bytes)
    ClientRoom    \* chunks the client's receive buffer holds

ASSUME ReplyAssumption ==
    /\ MaxReplies \in Nat
    /\ BufferSize \in Nat \ {0}
    /\ ClientRoom \in Nat \ {0}

VARIABLES
    replied,   \* proxy: the last chunk it sent
    proxyEnd,  \* proxy: how its connection stands
    fetched,   \* relay: the last chunk it has read
    chunks,    \* relay: chunks of this read that are still to be forwarded
    ourSeq,    \* relay: our_seq, the number of its next chunk
    got,       \* client: the chunks it took, in order
    used,      \* client: how many of them the application has consumed
    told,      \* client: what it knows of the end
    removed    \* history: the flow was removed by cleanup or reset

proxyVars == <<replied, proxyEnd>>
replyVars == <<fetched, chunks, ourSeq, got, used, told>>
allVars   == <<streamVars, proxyVars, replyVars, removed>>

Replies == 1 .. MaxReplies

ReplyTypeOK ==
    /\ replied  \in 0 .. MaxReplies
    /\ proxyEnd \in {"open", "closed", "failed"}
    /\ fetched  \in 0 .. replied
    /\ chunks   \in 0 .. fetched
    /\ chunks   <= BufferSize
    /\ ourSeq   \in 1 .. MaxReplies + 1
    /\ got      \in Seq(Replies)
    /\ used     \in 0 .. Len(got)
    /\ told     \in {"open", "fin", "rst"}
    /\ removed  \in BOOLEAN

RelayInit ==
    /\ StreamInit
    /\ replied  = 0
    /\ proxyEnd = "open"
    /\ fetched  = 0
    /\ chunks   = 0
    /\ ourSeq   = 1
    /\ got      = <<>>
    /\ used     = 0
    /\ told     = "open"
    /\ removed  = FALSE

-----------------------------------------------------------------------------
(* The client *)

(* A chunk went past the client for want of room: whatever follows it is    *)
(* out of order, and nobody sends it again.                                 *)
Hole == ourSeq # Len(got) + 1

(* After an RST the client's connection is gone. *)
ClientSends ==
    /\ told # "rst"
    /\ \/ Send
       \/ \E n \in Segments : Retransmit(n)
       \/ \E d \in 0 .. 1 : Fin(d)
    /\ UNCHANGED <<proxyVars, replyVars, removed>>

AppReads ==
    /\ used < Len(got)
    /\ used' = used + 1
    /\ UNCHANGED <<streamVars, proxyVars, fetched, chunks, ourSeq, got, told, removed>>

FlowRemoved ==
    /\ Removed
    /\ removed' = TRUE
    /\ UNCHANGED <<proxyVars, replyVars>>

-----------------------------------------------------------------------------
(* The proxy, on the other end of the stream that connect returned *)

Linked == task \notin {"connect", "ended"} /\ proxyEnd = "open"

ProxySends ==
    /\ Linked
    /\ replied < MaxReplies
    /\ replied' = replied + 1
    /\ UNCHANGED <<streamVars, proxyEnd, replyVars, removed>>

ProxyEnds(how) ==
    /\ Linked
    /\ proxyEnd' = how
    /\ UNCHANGED <<streamVars, replied, replyVars, removed>>

-----------------------------------------------------------------------------
(* relay_flow.  The loop over the chunks of a read has no await in it:      *)
(* the relay polls neither branch before it is through.                     *)

Idle == task = "select" /\ chunks = 0

(* FIN+ACK at our_seq.  That it can not be written is ignored, and the      *)
(* client takes it for the end only if it has everything before it.         *)
TellFin == told' \in {told, IF Hole THEN told ELSE "fin"}

RelayConnected == Connected /\ UNCHANGED <<proxyVars, replyVars, removed>>

RelayRefused ==
    /\ ConnectFailed
    /\ told' \in {told, "rst"}
    /\ UNCHANGED <<proxyVars, fetched, chunks, ourSeq, got, used, removed>>

RelayRecv == Idle /\ Recv /\ UNCHANGED <<proxyVars, replyVars, removed>>

RelayRecvNone ==
    /\ Idle
    /\ RecvNone
    /\ TellFin
    /\ UNCHANGED <<proxyVars, fetched, chunks, ourSeq, got, used, removed>>

RelayWrites == Tried /\ UNCHANGED <<proxyVars, replyVars, removed>>

(* Mutant of Fetch: the answer is read once the request has been written.   *)
Fetch_AfterRequest(n) ==
    /\ Idle
    /\ written # <<>>
    /\ fetched + n <= replied
    /\ fetched' = fetched + n
    /\ chunks'  = n
    /\ UNCHANGED <<streamVars, proxyVars, ourSeq, got, used, told, removed>>

(* Ok(n).  What arrived before a connection failed may be read or lost.     *)
Fetch(n) ==
    /\ Idle
    /\ fetched + n <= replied
    /\ fetched' = fetched + n
    /\ chunks'  = n
    /\ UNCHANGED <<streamVars, proxyVars, ourSeq, got, used, told, removed>>

(* Mutant of Forward: our_seq is advanced behind the loop.                  *)
Forward_SeqBehindLoop ==
    /\ task = "select"
    /\ chunks > 0
    /\ chunks' = chunks - 1
    /\ ourSeq' = IF chunks = 1 THEN ourSeq + 1 ELSE ourSeq
    /\ got'    = IF Hole \/ Len(got) - used >= ClientRoom
                 THEN got
                 ELSE Append(got, fetched - chunks + 1)
    /\ UNCHANGED <<streamVars, proxyVars, fetched, used, told, removed>>

(* One packet.  The client's window is not looked at; the client takes what *)
(* is in order and what it has room for.                                    *)
Forward ==
    /\ task = "select"
    /\ chunks > 0
    /\ chunks' = chunks - 1
    /\ ourSeq' = ourSeq + 1
    /\ got'    = IF Hole \/ Len(got) - used >= ClientRoom
                 THEN got
                 ELSE Append(got, fetched - chunks + 1)
    /\ UNCHANGED <<streamVars, proxyVars, fetched, used, told, removed>>

(* The ring is full: write_tun(..)? ends the relay, and the client is not   *)
(* told.                                                                    *)
ForwardFails ==
    /\ chunks > 0
    /\ DownloadEnds
    /\ chunks' = 0
    /\ UNCHANGED <<proxyVars, fetched, ourSeq, got, used, told, removed>>

(* Ok(0) | Err(_): one end for both, with the FIN of a clean close.         *)
FetchEnds ==
    /\ Idle
    /\ proxyEnd = "failed" \/ (proxyEnd = "closed" /\ fetched = replied)
    /\ DownloadEnds
    /\ TellFin
    /\ UNCHANGED <<proxyVars, fetched, chunks, ourSeq, got, used, removed>>

-----------------------------------------------------------------------------
RelayAnswered == RelayConnected \/ RelayRefused
Fetched       == \E n \in 1 .. BufferSize : Fetch(n)
Forwarded     == Forward \/ ForwardFails

(* Nobody has anything left to do. *)
RelayOver == task = "ended" /\ (fin \/ told = "rst") /\ UNCHANGED allVars

RelayNext ==
    \/ ClientSends
    \/ AppReads
    \/ FlowRemoved
    \/ ProxySends
    \/ \E how \in {"closed", "failed"} : ProxyEnds(how)
    \/ RelayAnswered
    \/ RelayRecv
    \/ RelayRecvNone
    \/ RelayWrites
    \/ Fetched
    \/ Forwarded
    \/ FetchEnds
    \/ RelayOver

RelaySpec == RelayInit /\ [][RelayNext]_allVars

(* As in FlowTable: select! polls its two branches in a random order, and   *)
(* the proxy answers a connect and takes what is written, or fails.  None   *)
(* for the client, its application and what the proxy chooses to send.      *)
RelayFairness ==
    /\ SF_allVars(RelayRecv)
    /\ SF_allVars(RelayRecvNone)
    /\ SF_allVars(Fetched)
    /\ WF_allVars(Forwarded)
    /\ WF_allVars(RelayAnswered)
    /\ WF_allVars(RelayWrites)

RelayFairSpec == RelaySpec /\ RelayFairness

-----------------------------------------------------------------------------
(* Properties *)

(* A client that closes nothing itself and sees its connection closed has   *)
(* the whole answer, in order: also when packets ran into a full receive    *)
(* buffer, since the FIN is numbered behind them.  The exceptions are the   *)
(* code's: a failed connection and a removed flow end with the same FIN.    *)
ReplyIsWhole ==
    /\ \A i \in DOMAIN got : got[i] = i
    /\ told = "fin" /\ ~fin /\ ~removed /\ proxyEnd # "failed"
       => proxyEnd = "closed" /\ Len(got) = replied

(* What the proxy sends reaches the client, however much the client sends   *)
(* meanwhile and whether it has sent anything yet: if it has room, and      *)
(* until the relay ends.                                                    *)
ReplyArrives ==
    \A n \in Replies :
       replied >= n ~> (Len(got) >= n \/ Hole \/ task = "ended")

(* The download direction is a BytePipe too, without conditions.  A chunk   *)
(* the client took is known to have arrived.                                *)
Back == INSTANCE BytePipe WITH sent <- replied, delivered <- got, acked <- Len(got)
ReplyIsAPipe == Back!PipeSpec
=============================================================================
