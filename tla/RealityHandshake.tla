--------------------------- MODULE RealityHandshake ---------------------------
(***************************************************************************)
(* A VLESS + REALITY connection being opened: ProxyConnector::connect of   *)
(* src/src/proxy/connector.rs with complete_tls13_handshake of             *)
(* src/src/proxy/tls13.rs as the client, and a TLS 1.3 server that keeps   *)
(* to RFC 8446 as its peer.                                                *)
(*                                                                         *)
(* Cryptography is ideal: a record opens only under its own key and        *)
(* sequence number, keys are equal when the transcripts they come from     *)
(* are, and a Finished verifies only for an equal transcript.              *)
(*                                                                         *)
(* TLS lets a server pack its handshake messages into records as it likes. *)
(* Message i of the flight is the halves 2i-1 and 2i, and a record carries *)
(* the halves lo .. hi, so that a message may be cut where a record ends.  *)
(***************************************************************************)
EXTENDS Integers, Sequences

CONSTANTS
    Flight,   \* the server's encrypted messages before its Finished
    MayCut,   \* the server may cut a message between two records
    MaxExtra  \* bound on ChangeCipherSpec records and on tickets

ASSUME FlightAssumption ==
    /\ Flight \in Seq(STRING)
    /\ \A i \in DOMAIN Flight : Flight[i] \notin {"Finished", "garbage"}
ASSUME CutAssumption   == MayCut \in BOOLEAN
ASSUME ExtraAssumption == MaxExtra \in Nat

VARIABLES
    client,      \* where connect is
    transcript,  \* ts: the messages hashed so far
    srvSeq,      \* srv_seq: records opened with the server's handshake key
    writeSeq,    \* write_seq of the Tls13Stream
    lo, hi,      \* the halves of the opened record that are not parsed yet
    server,      \* where the server is
    sentSeq,     \* records the server sealed with its present key
    sentHalves,  \* halves of its flight the server has sent
    extra,       \* ChangeCipherSpec records and tickets sent
    toClient,    \* records on their way to the client
    toServer,    \* records on their way to the server
    conn,        \* the TCP connection
    cut          \* history: a record has ended within a message

clientVars == <<client, transcript, srvSeq, writeSeq, lo, hi>>
serverVars == <<server, sentSeq, sentHalves, extra, cut>>
netVars    == <<toClient, toServer, conn>>
tlsVars    == <<clientVars, serverVars, netVars>>

Hellos      == <<"ClientHello", "ServerHello">>
Messages    == Flight \o <<"Finished">>
Halves      == 2 * Len(Messages)
BeforeFinished == Hellos \o Flight
FullTranscript == Hellos \o Messages

(* Keys, by their HKDF label and the transcript they are derived from.     *)
Key(who, label, ts) == [who |-> who, label |-> label, ts |-> ts]
Plain           == Key("none", "none", <<>>)
HsKey(who)      == Key(who, "hs traffic", Hellos)
AppKey(who, ts) == Key(who, "ap traffic", ts)

(* A record: outer type, key, sequence number, what it carries.  For a     *)
(* record of the flight `what` is "flight" and lo .. hi are its halves.    *)
Record(ct, key, seq, what) ==
    [ct |-> ct, key |-> key, seq |-> seq, what |-> what, lo |-> 1, hi |-> 0]

TlsTypeOK ==
    /\ client \in {"start", "hello", "flight", "parse", "verify", "request",
                   "connected", "failed"}
    /\ transcript \in Seq({FullTranscript[i] : i \in DOMAIN FullTranscript} \cup {"garbage"})
    /\ srvSeq   \in 0 .. Halves
    /\ writeSeq \in 0 .. 1
    /\ lo \in 1 .. Halves + 1
    /\ hi \in 0 .. Halves
    /\ lo <= hi + 1
    /\ server \in {"hello", "flight", "finished", "open", "refused"}
    /\ sentSeq    \in 0 .. Halves + MaxExtra
    /\ sentHalves \in 0 .. Halves
    /\ extra      \in 0 .. MaxExtra
    /\ conn \in {"open", "closed"}
    /\ cut  \in BOOLEAN

TlsInit ==
    /\ client = "start"
    /\ transcript = <<>>
    /\ srvSeq = 0
    /\ writeSeq = 0
    /\ lo = 1 /\ hi = 0
    /\ server = "hello"
    /\ sentSeq = 0
    /\ sentHalves = 0
    /\ extra = 0
    /\ toClient = <<>>
    /\ toServer = <<>>
    /\ conn = "open"
    /\ cut = FALSE

-----------------------------------------------------------------------------
(* The client *)

Fail ==
    /\ client' = "failed"
    /\ UNCHANGED <<transcript, srvSeq, writeSeq, lo, hi>>

(* write_all on a connection that may be closed at the other end.          *)
SendRecord(r) == toServer' = Append(toServer, r) /\ UNCHANGED <<toClient, conn>>

(* build_and_seal_client_hello: fresh keys, so that one hello is as good as *)
(* another, and a session id that is sealed for the server.                 *)
ClientHello == Record("handshake", Plain, 0, "ClientHello")

(* The first write of complete_tls13_handshake.                            *)
SendHello ==
    /\ client = "start"
    /\ client' = "hello"
    /\ transcript' = <<"ClientHello">>
    /\ SendRecord(ClientHello)
    /\ UNCHANGED <<srvSeq, writeSeq, lo, hi, serverVars>>

(* No TCP connection within CONNECT_TIMEOUT.                               *)
NoConnection ==
    /\ client = "start"
    /\ conn' = "closed"
    /\ Fail
    /\ UNCHANGED <<serverVars, toClient, toServer>>

(* The public key or the short id of the profile can not be decoded.       *)
BadProfile ==
    /\ client = "start"
    /\ Fail
    /\ UNCHANGED <<serverVars, netVars>>

(* read_record while a record is awaited.                                  *)
Awaiting == client \in {"hello", "flight"}
Read ==
    /\ Awaiting
    /\ toClient # <<>>
    /\ toClient' = Tail(toClient)
    /\ UNCHANGED <<toServer, conn, serverVars>>
Incoming == Head(toClient)

ReadFails ==
    /\ Awaiting
    /\ toClient = <<>>
    /\ conn = "closed"
    /\ Fail
    /\ UNCHANGED <<serverVars, netVars>>

(* Mutant of SkipCcs: the record is counted. *)
SkipCcs_Counted ==
    /\ Read
    /\ Incoming.ct = "ccs"
    /\ srvSeq' = srvSeq + 1
    /\ UNCHANGED <<client, transcript, writeSeq, lo, hi>>

SkipCcs ==
    /\ Read
    /\ Incoming.ct = "ccs"
    /\ UNCHANGED clientVars

ReadServerHello ==
    /\ client = "hello"
    /\ Read
    /\ Incoming.ct = "handshake" /\ Incoming.what = "ServerHello"
    /\ transcript' = Hellos
    /\ client' = "flight"
    /\ UNCHANGED <<srvSeq, writeSeq, lo, hi>>

(* Not a ServerHello, or one with a cipher suite the client can not do.    *)
ReadOther ==
    /\ Read
    /\ \/ client = "hello"  /\ Incoming.ct # "ccs" /\ Incoming.what # "ServerHello"
       \/ client = "flight" /\ Incoming.ct \notin {"ccs", "application"}
    /\ Fail

Opens(r) == r.key = HsKey("s") /\ r.seq = srvSeq

ReadFlight ==
    /\ client = "flight"
    /\ Read
    /\ Incoming.ct = "application"
    /\ IF Opens(Incoming)
       THEN /\ srvSeq' = srvSeq + 1
            /\ client' = IF Incoming.what = "flight" THEN "parse" ELSE "flight"
            /\ lo' = Incoming.lo
            /\ hi' = Incoming.hi
            /\ UNCHANGED <<transcript, writeSeq>>
       ELSE Fail

(* The loop over the messages of one record. *)
Starts  == lo % 2 = 1
Message == Messages[(lo + 1) \div 2]

(* Mutant of Complete: the length is believed. *)
Complete_Unchecked == Starts /\ lo <= hi

Complete == Starts /\ lo + 1 <= hi

(* Mutant of ParseMessage: the Finished is one more message.               *)
ParseMessage_AllAlike ==
    /\ client = "parse"
    /\ Complete
    /\ transcript' = Append(transcript, Message)
    /\ lo' = lo + 2
    /\ UNCHANGED <<client, srvSeq, writeSeq, hi, serverVars, netVars>>

ParseMessage ==
    /\ client = "parse"
    /\ Complete
    /\ IF Message = "Finished"
       THEN client' = "verify" /\ UNCHANGED transcript
       ELSE client' = client   /\ transcript' = Append(transcript, Message)
    /\ lo' = lo + 2
    /\ UNCHANGED <<srvSeq, writeSeq, hi, serverVars, netVars>>

(* The record is used up, or what is left of it is no whole message: the   *)
(* rest is dropped.                                                        *)
ParseEnds ==
    /\ client = "parse"
    /\ lo >= hi
    /\ client' = "flight"
    /\ UNCHANGED <<transcript, srvSeq, writeSeq, lo, hi, serverVars, netVars>>

(* The record starts within a message: its bytes are read as a header that *)
(* may mean anything.                                                      *)
ParseGarbage ==
    /\ client = "parse"
    /\ ~Starts /\ lo <= hi
    /\ \/ client' = "flight" /\ UNCHANGED <<transcript, lo>>
       \/ client' = "failed" /\ UNCHANGED <<transcript, lo>>
       \/ client' = "parse"  /\ lo' = lo + 1
             /\ transcript' \in {transcript, Append(transcript, "garbage")}
    /\ UNCHANGED <<srvSeq, writeSeq, hi, serverVars, netVars>>

(* Mutant of Verify: the Finished is not compared. *)
Verify_Unchecked ==
    /\ client = "verify"
    /\ transcript' = Append(transcript, "Finished")
    /\ client' = "request"
    /\ SendRecord(Record("application", HsKey("c"), 0, "Finished"))
    /\ UNCHANGED <<srvSeq, writeSeq, lo, hi, serverVars>>

(* The server's Finished is an HMAC over its transcript.  If it verifies,   *)
(* it joins the transcript, application keys come from that, and the        *)
(* client's own Finished goes out under its handshake key.                  *)
Verify ==
    /\ client = "verify"
    /\ transcript = BeforeFinished
    /\ transcript' = Append(transcript, "Finished")
    /\ client' = "request"
    /\ SendRecord(Record("application", HsKey("c"), 0, "Finished"))
    /\ UNCHANGED <<srvSeq, writeSeq, lo, hi, serverVars>>

VerifyFails ==
    /\ client = "verify"
    /\ transcript # BeforeFinished
    /\ Fail
    /\ UNCHANGED <<serverVars, netVars>>

(* send_app_data(&vless_req), into_inner.                                  *)
SendRequest ==
    /\ client = "request"
    /\ SendRecord(Record("application", AppKey("c", transcript), writeSeq, "request"))
    /\ writeSeq' = writeSeq + 1
    /\ client'   = "connected"
    /\ UNCHANGED <<transcript, srvSeq, lo, hi, serverVars>>

(* One of the writes fails.                                                *)
WriteFails ==
    /\ client \in {"verify", "request"}
    /\ conn = "closed"
    /\ Fail
    /\ UNCHANGED <<serverVars, netVars>>

-----------------------------------------------------------------------------
(* The server *)

Reply(r) == toClient' = Append(toClient, r) /\ UNCHANGED conn

ServerHello ==
    /\ server = "hello" /\ conn = "open"
    /\ toServer # <<>>
    /\ toServer' = Tail(toServer)
    /\ Reply(Record("handshake", Plain, 0, "ServerHello"))
    /\ server' = "flight"
    /\ UNCHANGED <<clientVars, sentSeq, sentHalves, extra, cut>>

(* A ServerHello without a suite or key share in common, or an alert.      *)
ServerDeclines ==
    /\ server = "hello" /\ conn = "open"
    /\ toServer # <<>>
    /\ toServer' = Tail(toServer)
    /\ \E ct \in {"handshake", "alert"} : Reply(Record(ct, Plain, 0, "unusable"))
    /\ server' = "refused"
    /\ UNCHANGED <<clientVars, sentSeq, sentHalves, extra, cut>>

ServerCcs ==
    /\ server = "flight" /\ conn = "open"
    /\ extra < MaxExtra
    /\ extra' = extra + 1
    /\ Reply(Record("ccs", Plain, 0, "ccs"))
    /\ UNCHANGED <<clientVars, toServer, server, sentSeq, sentHalves, cut>>

ServerFlight(n) ==
    /\ server = "flight" /\ conn = "open"
    /\ sentHalves < n /\ n <= Halves
    /\ MayCut \/ n % 2 = 0
    /\ Reply([ct |-> "application", key |-> HsKey("s"), seq |-> sentSeq, what |-> "flight",
              lo |-> sentHalves + 1, hi |-> n])
    /\ sentHalves' = n
    /\ cut' = (cut \/ n % 2 = 1)
    /\ server'  = IF n = Halves THEN "finished" ELSE "flight"
    /\ sentSeq' = IF n = Halves THEN 0 ELSE sentSeq + 1
    /\ UNCHANGED <<clientVars, toServer, extra>>

(* An encrypted alert, then the end of the connection.                     *)
ServerAborts ==
    /\ server = "flight" /\ conn = "open"
    /\ toClient' = Append(toClient, Record("application", HsKey("s"), sentSeq, "alert"))
    /\ conn'   = "closed"
    /\ server' = "refused"
    /\ UNCHANGED <<clientVars, toServer, sentSeq, sentHalves, extra, cut>>

Receives(r) ==
    /\ toServer # <<>>
    /\ Head(toServer) = r
    /\ toServer' = Tail(toServer)
    /\ UNCHANGED <<clientVars, toClient, conn, sentHalves, extra, cut>>

ClientFinished == Record("application", HsKey("c"), 0, "Finished")
Request        == Record("application", AppKey("c", FullTranscript), 0, "request")

ServerFinished ==
    /\ server = "finished" /\ conn = "open"
    /\ Receives(ClientFinished)
    /\ server' = "open"
    /\ UNCHANGED sentSeq

ServerRequest ==
    /\ server = "open" /\ conn = "open"
    /\ Receives(Request)
    /\ UNCHANGED <<server, sentSeq>>

(* A NewSessionTicket.                                                     *)
ServerTicket ==
    /\ server = "open" /\ conn = "open"
    /\ extra < MaxExtra
    /\ extra'   = extra + 1
    /\ sentSeq' = sentSeq + 1
    /\ Reply(Record("application", AppKey("s", FullTranscript), sentSeq, "ticket"))
    /\ UNCHANGED <<clientVars, toServer, server, sentHalves, cut>>

(* Either end of the path goes away.                                       *)
Close ==
    /\ conn = "open"
    /\ conn' = "closed"
    /\ UNCHANGED <<clientVars, serverVars, toClient, toServer>>

-----------------------------------------------------------------------------
ClientStep ==
    \/ SendHello
    \/ NoConnection
    \/ BadProfile
    \/ ReadFails
    \/ SkipCcs
    \/ ReadServerHello
    \/ ReadOther
    \/ ReadFlight
    \/ ParseMessage
    \/ ParseEnds
    \/ ParseGarbage
    \/ Verify
    \/ VerifyFails
    \/ SendRequest
    \/ WriteFails

ServerStep ==
    \/ ServerHello
    \/ ServerDeclines
    \/ \E n \in 1 .. Halves : ServerFlight(n)
    \/ ServerFinished
    \/ ServerRequest

ServerMay == ServerCcs \/ ServerAborts \/ ServerTicket

(* connect has returned and the server has nothing left to do.             *)
Over ==
    /\ client \in {"connected", "failed"}
    /\ conn = "closed"
    /\ UNCHANGED tlsVars

TlsNext == ClientStep \/ ServerStep \/ ServerMay \/ Close \/ Over

TlsSpec == TlsInit /\ [][TlsNext]_tlsVars

(* The executor polls the task, and the server does its part unless the     *)
(* connection closes: the client has no timeout once TCP is connected.      *)
TlsFairSpec == TlsSpec /\ WF_tlsVars(ClientStep) /\ WF_tlsVars(ServerStep)

-----------------------------------------------------------------------------
(* Properties *)

(* However messages are cut and packed, the server can open what the client *)
(* sends, in the order it is sent: connect never goes on with keys from a   *)
(* transcript that is not the server's, nor with a counter of its own, and  *)
(* sends nothing before the flight is complete.                             *)
ServerFollows ==
    toServer \in CASE server = "finished" ->
                        {<<>>, <<ClientFinished>>, <<ClientFinished, Request>>}
                  [] server = "open"     -> {<<>>, <<Request>>}
                  [] server = "flight"   -> {<<>>}
                  [] OTHER               -> {toServer}

(* The handshake fails only for a cause: the server refused, the connection *)
(* closed, or a message was cut between records.  No packing of whole       *)
(* messages and no ChangeCipherSpec gets the two sides out of step.         *)
FailsForCause ==
    [][(client' = "failed" /\ client \notin {"start", "failed"}) =>
          conn = "closed" \/ server = "refused" \/ cut]_tlsVars

(* connect returns, unless a message is cut: then the Finished may go by    *)
(* unseen, and the client and the server wait for each other.               *)
HandshakeEnds == <>(cut \/ client \in {"connected", "failed"})
=============================================================================
