----------------------- MODULE RealityHandshake_proofs ----------------------
(***************************************************************************)
(* Theorems of RealityHandshake, for a flight of any messages, any number  *)
(* of ChangeCipherSpec records and tickets, and any way to pack and to cut *)
(* the flight.  The invariant TlsInv relates the two ends of the           *)
(* connection: the keys and numbers of the records on their way, and what  *)
(* the client has hashed of the flight, to what the server has sent.       *)
(***************************************************************************)
EXTENDS RealityHandshake, TLAPS

(* A record on its way to the client.                     *)
ServerRecords ==
    [ct   : {"handshake", "application", "ccs", "alert"},
     key  : {Plain, HsKey("s"), AppKey("s", FullTranscript)},
     seq  : Nat,
     what : {"ServerHello", "unusable", "ccs", "flight", "alert", "ticket"},
     lo   : 1 .. Halves, hi : 0 .. Halves]

FlightRecord(r) ==
    /\ r.ct = "application" /\ r.key = HsKey("s") /\ r.seq < Halves
    /\ r.lo <= r.hi /\ r.hi <= sentHalves
    /\ ~cut => r.lo % 2 = 1 /\ r.hi % 2 = 0

WellFormed ==
    /\ toClient \in Seq(ServerRecords)
    /\ \A i \in DOMAIN toClient :
          IF toClient[i].what = "flight"
          THEN FlightRecord(toClient[i])
          ELSE /\ toClient[i].lo = 1 /\ toClient[i].hi = 0
               /\ toClient[i].key = HsKey("s") => toClient[i].seq < Halves

(* The counters of the server by its place.                                *)
ServerCounts ==
    /\ server = "hello" => sentSeq = 0 /\ sentHalves = 0 /\ toClient = <<>> /\ ~cut
    /\ server \in {"flight", "refused"} => sentSeq <= sentHalves /\ sentHalves < Halves
    /\ server \in {"finished", "open"} => sentHalves = Halves
    /\ server = "finished" => sentSeq = 0
    /\ server = "open" => sentSeq <= extra
    /\ ~cut => sentHalves % 2 = 0

(* Whose turn it is, and what is on its way to the server.                 *)
Turns ==
    /\ server = "hello" => client \in {"start", "hello", "failed"}
    /\ hi <= sentHalves
    /\ client \in {"start", "hello"} => lo = 1 /\ hi = 0 /\ srvSeq = 0
    /\ client \in {"start", "hello", "flight", "parse", "verify", "request"} => writeSeq = 0
    /\ client = "start" => server = "hello" /\ toServer = <<>>
    /\ client = "hello" =>
          toServer = IF server = "hello" THEN <<ClientHello>> ELSE <<>>
    /\ client \in {"hello", "flight", "parse"} => server # "open"
    /\ client \in {"flight", "parse"} => toServer = <<>>
    /\ client = "verify" => server = "finished" /\ toServer = <<>>
    /\ client = "request" =>
          /\ transcript = FullTranscript
          /\ \/ server = "finished" /\ toServer = <<ClientFinished>>
             \/ server = "open" /\ toServer = <<>>
    /\ client = "connected" =>
          \/ server = "finished" /\ toServer = <<ClientFinished, Request>>
          \/ server = "open" /\ toServer \in {<<Request>>, <<>>}
    /\ client = "failed" =>
          CASE server = "hello"    -> toServer \in {<<>>, <<ClientHello>>}
            [] server = "finished" -> toServer \in {<<>>, <<ClientFinished>>}
            [] OTHER               -> toServer = <<>>

(* The place in the flight, as a half and a record, after the first n records *)
(* of q, if the place before them is half h and record r.                   *)
FlightAt(q, h, r, half, seq, n) ==
    \/ /\ \A j \in 1 .. n : q[j].what # "flight"
       /\ half = h /\ seq = r
    \/ \E j \in 1 .. n :
          /\ q[j].what = "flight"
          /\ \A k \in j + 1 .. n : q[k].what # "flight"
          /\ half = q[j].hi /\ seq = q[j].seq + 1

Reading == client \in {"hello", "flight", "parse", "verify"}
Sound   == conn = "open" /\ server # "refused" /\ ~cut

(* While nothing is wrong and the client reads, what is on its way goes on   *)
(* where the client is and ends where the server is, with nothing between    *)
(* but ChangeCipherSpec.                                                     *)
Aligned ==
    /\ client \in {"flight", "parse", "verify"} =>
          \A i \in DOMAIN toClient : toClient[i].what \in {"ccs", "flight"}
    /\ (client = "hello" /\ server # "hello") =>
          /\ toClient # <<>> /\ toClient[1].what = "ServerHello"
          /\ \A i \in 2 .. Len(toClient) : toClient[i].what \in {"ccs", "flight"}
    /\ \A i \in DOMAIN toClient :
          /\ toClient[i].what = "ServerHello" => toClient[i].ct = "handshake"
          /\ toClient[i].what = "ccs" => toClient[i].ct = "ccs"
          /\ toClient[i].what = "flight" =>
                FlightAt(toClient, hi, srvSeq, toClient[i].lo - 1, toClient[i].seq, i - 1)
    /\ server = "flight" =>
          FlightAt(toClient, hi, srvSeq, sentHalves, sentSeq, Len(toClient))

(* And the client has hashed the messages up to where it is.               *)
Hashed ==
    /\ client = "hello" => transcript = <<"ClientHello">>
    /\ client \in {"flight", "parse"} =>
          /\ lo % 2 = 1 /\ hi % 2 = 0
          /\ transcript = Hellos \o SubSeq(Messages, 1, (lo - 1) \div 2)
    /\ client = "flight" => lo = hi + 1
    /\ client = "verify" => transcript = BeforeFinished

InStep == (Sound /\ Reading) => Aligned /\ Hashed

TlsInv == TlsTypeOK /\ WellFormed /\ ServerCounts /\ Turns /\ InStep

(* The names of messages. *)
Names ==
    {Flight[i] : i \in DOMAIN Flight}
      \cup {"ClientHello", "ServerHello", "Finished", "garbage"}

-----------------------------------------------------------------------------
(* The flight ends with the Finished and has no other.                     *)
LEMMA FlightFacts ==
  /\ Len(Flight) \in Nat /\ Flight \in Seq(Names) /\ Messages \in Seq(Names)
  /\ Len(Messages) = Len(Flight) + 1
  /\ \A i \in 1 .. Len(Flight) : Messages[i] # "Finished" /\ Messages[i] # "garbage"
  /\ Messages[Len(Messages)] = "Finished"
  /\ Halves \in Nat /\ Halves = 2 * Len(Messages)
<1>0. Flight \in Seq(STRING) /\ DOMAIN Flight = 1 .. Len(Flight) /\ Len(Flight) \in Nat
  BY FlightAssumption
<1>1. Flight \in Seq(Names)
  BY <1>0 DEF Names
<1>2. /\ <<"Finished">> \in Seq(Names) /\ Len(<<"Finished">>) = 1
      /\ <<"Finished">>[1] = "Finished"
  BY DEF Names
<1>3. Messages \in Seq(Names) /\ Len(Messages) = Len(Flight) + 1 /\ Len(Flight) \in Nat
  BY <1>0, <1>1, <1>2 DEF Messages
<1>4. ASSUME NEW i \in 1 .. Len(Flight) PROVE Messages[i] = Flight[i]
  BY <1>1, <1>2 DEF Messages
<1>5. \A i \in 1 .. Len(Flight) : Messages[i] # "Finished" /\ Messages[i] # "garbage"
  <2>1. DOMAIN Flight = 1 .. Len(Flight)
    BY <1>1
  <2> QED
    BY <1>4, <2>1, FlightAssumption
<1>6. Messages[Len(Messages)] = "Finished"
  BY <1>1, <1>2, <1>3 DEF Messages
<1> QED
  BY <1>1, <1>3, <1>5, <1>6 DEF Halves

(* Sequences are equal item by item. *)
LEMMA SameMessages ==
  \A S : \A a, b \in Seq(S) :
     (Len(a) = Len(b) /\ \A i \in 1 .. Len(a) : a[i] = b[i]) => a = b
<1> TAKE S
<1> TAKE a, b \in Seq(S)
<1> HAVE Len(a) = Len(b) /\ \A i \in 1 .. Len(a) : a[i] = b[i]
<1> QED OBVIOUS

(* A prefix of m grows by the next item. *)
LEMMA AppendToPrefix ==
  ASSUME NEW h \in Seq(Names), NEW m \in Seq(Names), NEW k \in 0 .. Len(m) - 1
  PROVE  Append(h \o SubSeq(m, 1, k), m[k+1]) = h \o SubSeq(m, 1, k+1)
<1> DEFINE p == SubSeq(m,1,k)
           q == SubSeq(m,1,k+1)
           x == m[k+1]
           l == Append(h \o p, x)
           r == h \o q
<1>1. Len(m) \in Nat /\ k \in Nat /\ k+1 \in 1..Len(m) /\ x \in Names /\ Len(h) \in Nat
  OBVIOUS
<1>2. p \in Seq(Names) /\ Len(p) = k /\ \A i \in 1..k : p[i] = m[i]
  BY <1>1
<1>3. q \in Seq(Names) /\ Len(q) = k+1 /\ \A i \in 1..k+1 : q[i] = m[i]
  BY <1>1
<1> HIDE DEF p, q
<1>4. h \o p \in Seq(Names) /\ Len(h \o p) = Len(h) + k
  BY <1>1, <1>2
<1>5. l \in Seq(Names) /\ Len(l) = Len(h) + k + 1
  BY <1>1, <1>4, SMTT(30)
<1>6. r \in Seq(Names) /\ Len(r) = Len(h) + k + 1
  BY <1>1, <1>3
<1>7. ASSUME NEW i \in 1 .. Len(h) + k + 1 PROVE l[i] = r[i]
  <2>1. CASE i \in 1 .. Len(h)
    <3>1. (h \o p)[i] = h[i] /\ (h \o q)[i] = h[i]
      BY <1>1, <1>2, <1>3, <2>1
    <3> QED
      BY <1>1, <1>4, <2>1, <3>1
  <2>2. CASE i \in Len(h) + 1 .. Len(h) + k
    <3>1. i - Len(h) \in 1 .. k
      BY <1>1, <2>2
    <3>2. (h \o p)[i] = p[i - Len(h)] /\ (h \o q)[i] = q[i - Len(h)]
      BY <1>1, <1>2, <1>3, <2>2
    <3> QED
      BY <1>1, <1>2, <1>3, <1>4, <2>2, <3>1, <3>2
  <2>3. CASE i = Len(h) + k + 1
    <3>1. l[i] = x
      BY <1>1, <1>4, <2>3
    <3>2. r[i] = q[k + 1]
      BY <1>1, <1>3, <2>3
    <3> QED
      BY <1>1, <1>3, <3>1, <3>2 DEF x
  <2>4. i \in 1 .. Len(h) \/ i \in Len(h) + 1 .. Len(h) + k \/ i = Len(h) + k + 1
    BY <1>1
  <2> QED
    BY <2>1, <2>2, <2>3, <2>4
<1> HIDE DEF l, r
<1>8. l = r
  <2>1. Len(l) = Len(r) /\ \A i \in 1 .. Len(l) : l[i] = r[i]
    BY <1>5, <1>6, <1>7
  <2> QED
    BY <2>1, <1>5, <1>6, SameMessages
<1> QED BY <1>8 DEF l, r, p, q


(* A transcript grows by one message at a time.                            *)
LEMMA TranscriptGrows ==
  /\ Hellos = Hellos \o SubSeq(Messages, 1, 0)
  /\ \A k \in 0 .. Len(Messages) - 1 :
        Append(Hellos \o SubSeq(Messages, 1, k), Messages[k + 1])
           = Hellos \o SubSeq(Messages, 1, k + 1)
  /\ BeforeFinished = Hellos \o SubSeq(Messages, 1, Len(Messages) - 1)
  /\ FullTranscript = Append(BeforeFinished, "Finished")
<1> DEFINE L == Len(Messages)
<1>1. Messages \in Seq(Names) /\ L \in Nat /\ L >= 1 /\ Hellos \in Seq(Names)
  BY FlightFacts DEF Hellos, Names
<1>2. Hellos = Hellos \o SubSeq(Messages, 1, 0)
  <2>1. SubSeq(Messages, 1, 0) = <<>>
    BY <1>1
  <2> QED
    BY <1>1, <2>1
<1>3. ASSUME NEW k \in 0 .. L - 1
      PROVE  Append(Hellos \o SubSeq(Messages, 1, k), Messages[k + 1])
                = Hellos \o SubSeq(Messages, 1, k + 1)
  BY <1>1, AppendToPrefix
<1>4. SubSeq(Messages, 1, L - 1) = Flight
  <2>1. Flight \in Seq(Names) /\ L - 1 = Len(Flight)
    BY FlightFacts
  <2>2. \A i \in 1 .. L - 1 : Messages[i] = Flight[i]
    BY <2>1 DEF Messages
  <2> QED
    BY <1>1, <2>1, <2>2
<1>5. BeforeFinished = Hellos \o SubSeq(Messages, 1, L - 1)
  BY <1>4 DEF BeforeFinished
<1>6. FullTranscript = Append(BeforeFinished, "Finished")
  <2>1. FullTranscript = Hellos \o SubSeq(Messages, 1, L)
    BY <1>1 DEF FullTranscript
  <2>2. L - 1 \in 0 .. L - 1 /\ (L - 1) + 1 = L
    BY <1>1
  <2>3. Messages[L] = "Finished"
    BY FlightFacts
  <2> QED
    BY <1>3, <1>5, <2>1, <2>2, <2>3
<1> QED
  BY <1>2, <1>3, <1>5, <1>6

(* A transcript is made of the names. *)
LEMMA NamesOfTranscript ==
  /\ {FullTranscript[i] : i \in DOMAIN FullTranscript} \cup {"garbage"} = Names
  /\ Hellos \in Seq(Names) /\ <<"ClientHello">> \in Seq(Names)
  /\ {"Finished", "garbage"} \subseteq Names
  /\ \A h \in 1 .. Halves : h % 2 = 1 => Messages[(h + 1) \div 2] \in Names
<1>1. Messages \in Seq(Names) /\ Len(Messages) \in Nat /\ Hellos \in Seq(Names)
  BY FlightFacts DEF Hellos, Names
<1>2. FullTranscript \in Seq(Names)
  BY <1>1 DEF FullTranscript
<1>3. {FullTranscript[i] : i \in DOMAIN FullTranscript} \cup {"garbage"} \subseteq Names
  BY <1>2 DEF Names
<1>4. Names \subseteq {FullTranscript[i] : i \in DOMAIN FullTranscript} \cup {"garbage"}
  <2>1. Len(FullTranscript) = Len(Flight) + 3 /\ Len(Flight) \in Nat /\ Len(Hellos) = 2
    BY <1>1, FlightFacts DEF FullTranscript, Hellos
  <2>2. FullTranscript[1] = "ClientHello" /\ FullTranscript[2] = "ServerHello"
    BY <1>1 DEF FullTranscript, Hellos
  <2>3. \A i \in 1 .. Len(Flight) + 1 : FullTranscript[i + 2] = Messages[i]
    BY <1>1, <2>1, FlightFacts DEF FullTranscript
  <2>4. \A i \in DOMAIN Flight : Messages[i] = Flight[i] /\ i \in 1 .. Len(Flight)
    BY FlightFacts DEF Messages
  <2>5. DOMAIN FullTranscript = 1 .. Len(Flight) + 3
    BY <1>2, <2>1
  <2>6. ASSUME NEW i \in DOMAIN Flight
        PROVE  FullTranscript[i + 2] = Flight[i] /\ i + 2 \in DOMAIN FullTranscript
    <3>1. /\ i \in 1 .. Len(Flight) /\ i \in 1 .. Len(Flight) + 1
          /\ i + 2 \in 1 .. Len(Flight) + 3
      BY <2>1, <2>4
    <3>2. FullTranscript[i + 2] = Messages[i]
      BY <2>3, <3>1
    <3> QED
      BY <2>4, <2>5, <3>1, <3>2
  <2>7. FullTranscript[Len(Flight) + 3] = "Finished"
    BY <2>1, <2>3, FlightFacts
  <2> QED
    BY <2>1, <2>2, <2>5, <2>6, <2>7 DEF Names
<1>5. \A h \in 1 .. Halves : h % 2 = 1 => Messages[(h + 1) \div 2] \in Names
  <2> TAKE h \in 1 .. Halves
  <2> HAVE h % 2 = 1
  <2>1. (h + 1) \div 2 \in 1 .. Len(Messages)
    BY <1>1, FlightFacts
  <2> QED
    BY <1>1, <2>1
<1>6. <<"ClientHello">> \in Seq(Names) /\ {"Finished", "garbage"} \subseteq Names
  BY DEF Names
<1> QED
  BY <1>1, <1>3, <1>4, <1>5, <1>6

(* The record that is read. *)
LEMMA HeadFacts ==
  ASSUME TlsTypeOK, WellFormed, toClient # <<>>
  PROVE  /\ Incoming = toClient[1] /\ Incoming \in ServerRecords
         /\ Len(toClient) \in Nat /\ Len(toClient) >= 1
         /\ Tail(toClient) \in Seq(ServerRecords) /\ Len(Tail(toClient)) = Len(toClient) - 1
         /\ \A i \in 1 .. Len(toClient) - 1 : Tail(toClient)[i] = toClient[i + 1]
         /\ IF Incoming.what = "flight"
            THEN FlightRecord(Incoming)
            ELSE /\ Incoming.lo = 1 /\ Incoming.hi = 0
                 /\ Incoming.key = HsKey("s") => Incoming.seq < Halves
<1>1. toClient \in Seq(ServerRecords)
  BY DEF WellFormed
<1>2. 1 \in DOMAIN toClient /\ Incoming = toClient[1] /\ toClient[1] \in ServerRecords
  BY <1>1 DEF Incoming
<1>3. IF Incoming.what = "flight"
      THEN FlightRecord(Incoming)
      ELSE /\ Incoming.lo = 1 /\ Incoming.hi = 0
           /\ Incoming.key = HsKey("s") => Incoming.seq < Halves
  BY <1>2 DEF WellFormed
<1> QED
  BY <1>1, <1>2, <1>3

(* Every step keeps the types.                                              *)
LEMMA TlsTypeStep ==
  ASSUME TlsInv, [TlsNext]_tlsVars
  PROVE  TlsTypeOK'
<1> USE TlsInv DEF TlsInv, TlsTypeOK
<1>0. /\ Halves \in Nat /\ Halves >= 2 /\ MaxExtra \in Nat
      /\ transcript \in Seq(Names)
      /\ (transcript' \in Seq(Names) =>
            transcript' \in Seq({FullTranscript[i] : i \in DOMAIN FullTranscript}
                                   \cup {"garbage"}))
  BY FlightFacts, NamesOfTranscript, ExtraAssumption, SMTT(30)
<1>1. CASE UNCHANGED tlsVars
  BY <1>1 DEF tlsVars, clientVars, serverVars, netVars
<1>2. CASE SendHello
  BY <1>2, <1>0, NamesOfTranscript
     DEF SendHello, SendRecord, ClientHello, Record, clientVars, serverVars, netVars
<1>3. CASE NoConnection
  BY <1>3, <1>0, NamesOfTranscript
     DEF NoConnection, Fail, clientVars, serverVars, netVars
<1>4. CASE BadProfile
  BY <1>4, <1>0, NamesOfTranscript
     DEF BadProfile, Fail, clientVars, serverVars, netVars
<1>5. CASE ReadFails
  BY <1>5, <1>0, NamesOfTranscript
     DEF ReadFails, Awaiting, Fail, clientVars, serverVars, netVars
<1>6. CASE SkipCcs
  BY <1>6, <1>0, NamesOfTranscript
     DEF SkipCcs, Read, Awaiting, Incoming, clientVars, serverVars, netVars
<1>7. CASE ReadServerHello
  BY <1>7, <1>0, NamesOfTranscript
     DEF ReadServerHello, Read, Awaiting, Incoming, clientVars, serverVars, netVars
<1>8. CASE ReadOther
  BY <1>8, <1>0, NamesOfTranscript
     DEF ReadOther, Read, Awaiting, Incoming, Fail, clientVars, serverVars, netVars
<1>9. CASE ReadFlight
  <2>1. toClient # <<>>
    BY <1>9 DEF ReadFlight, Read
  <2>2. Incoming \in ServerRecords /\ Incoming.lo <= Incoming.hi + 1
    <3>1. Incoming \in ServerRecords
      BY <2>1, HeadFacts
    <3>2. Incoming.lo \in Nat /\ Incoming.hi \in Nat
      BY <3>1, <1>0 DEF ServerRecords
    <3>3. \/ Incoming.lo <= Incoming.hi
          \/ Incoming.lo = 1 /\ Incoming.hi = 0
      BY <2>1, HeadFacts DEF FlightRecord
    <3> QED
      BY <3>1, <3>2, <3>3
  <2>3. Incoming.key = HsKey("s") => Incoming.seq < Halves
    BY <2>1, HeadFacts DEF FlightRecord
  <2>4. Incoming.lo \in 1 .. Halves + 1 /\ Incoming.hi \in 0 .. Halves
    BY <2>2, <1>0 DEF ServerRecords
  <2>5. srvSeq' \in 0 .. Halves
    BY <1>9, <2>3, <1>0 DEF ReadFlight, Opens, Fail
  <2> QED
    BY <1>9, <1>0, <2>2, <2>4, <2>5 DEF ReadFlight, Read, Fail, clientVars, serverVars
<1>10. CASE ParseMessage
  <2>1. lo \in 1 .. Halves /\ lo % 2 = 1 /\ lo + 1 <= hi
    BY <1>10, <1>0 DEF ParseMessage, Complete, Starts
  <2>2. Message \in Names
    BY <2>1, NamesOfTranscript DEF Message
  <2>3. transcript' \in Seq(Names)
    <3>1. Append(transcript, Message) \in Seq(Names)
      BY <1>0, <2>2
    <3> QED
      BY <1>10, <1>0, <3>1 DEF ParseMessage
  <2>4. lo' \in 1 .. Halves + 1 /\ lo' <= hi + 1
    BY <1>10, <1>0, <2>1 DEF ParseMessage
  <2>5. client' \in {"verify", "parse"}
    BY <1>10 DEF ParseMessage
  <2> QED
    BY <1>10, <1>0, <2>3, <2>4, <2>5 DEF ParseMessage, serverVars, netVars
<1>11. CASE ParseEnds
  BY <1>11, <1>0, NamesOfTranscript DEF ParseEnds, clientVars, serverVars, netVars
<1>12. CASE ParseGarbage
  <2>0. Append(transcript, "garbage") \in Seq(Names)
    <3>1. "garbage" \in Names
      BY DEF Names
    <3> QED
      BY <1>0, <3>1
  <2>1. transcript' \in Seq(Names)
    BY <1>12, <1>0, <2>0 DEF ParseGarbage
  <2>2. lo' \in 1 .. Halves + 1 /\ lo' <= hi + 1
    BY <1>12, <1>0 DEF ParseGarbage
  <2>3. client' \in {"flight", "failed", "parse"}
    BY <1>12 DEF ParseGarbage
  <2> QED
    BY <1>12, <1>0, <2>1, <2>2, <2>3 DEF ParseGarbage, serverVars, netVars
<1>13. CASE Verify
  BY <1>13, <1>0, NamesOfTranscript
     DEF Verify, SendRecord, Record, clientVars, serverVars, netVars
<1>14. CASE VerifyFails
  BY <1>14, <1>0, NamesOfTranscript
     DEF VerifyFails, Fail, clientVars, serverVars, netVars
<1>15. CASE SendRequest
  <2>1. writeSeq = 0
    BY <1>15 DEF SendRequest, Turns
  <2> QED
    BY <1>15, <1>0, <2>1 DEF SendRequest, SendRecord, serverVars
<1>16. CASE WriteFails
  BY <1>16, <1>0, NamesOfTranscript
     DEF WriteFails, Fail, clientVars, serverVars, netVars
<1>17. CASE ServerHello
  BY <1>17, <1>0, NamesOfTranscript
     DEF ServerHello, Reply, Record, clientVars, serverVars, netVars
<1>18. CASE ServerDeclines
  BY <1>18, <1>0, NamesOfTranscript
     DEF ServerDeclines, Reply, Record, clientVars, serverVars, netVars
<1>19. ASSUME NEW n \in 1 .. Halves, ServerFlight(n) PROVE TlsTypeOK'
  <2>1. sentSeq <= sentHalves /\ sentHalves < n /\ n <= Halves
    BY <1>19 DEF ServerFlight, ServerCounts
  <2>2. sentSeq' \in 0 .. Halves + MaxExtra /\ sentHalves' \in 0 .. Halves
    BY <1>19, <1>0, <2>1 DEF ServerFlight
  <2>3. server' \in {"finished", "flight"} /\ cut' \in BOOLEAN
    BY <1>19 DEF ServerFlight
  <2> QED
    BY <1>19, <1>0, <2>2, <2>3 DEF ServerFlight, Reply, clientVars
<1>20. CASE ServerFinished
  BY <1>20, <1>0, NamesOfTranscript
     DEF ServerFinished, Receives, clientVars, serverVars, netVars
<1>21. CASE ServerRequest
  BY <1>21, <1>0, NamesOfTranscript
     DEF ServerRequest, Receives, clientVars, serverVars, netVars
<1>22. CASE ServerCcs
  BY <1>22, <1>0, NamesOfTranscript
     DEF ServerCcs, Reply, Record, clientVars, serverVars, netVars
<1>23. CASE ServerAborts
  BY <1>23, <1>0, NamesOfTranscript
     DEF ServerAborts, Record, clientVars, serverVars, netVars
<1>24. CASE ServerTicket
  <2>1. sentSeq <= extra /\ extra < MaxExtra
    BY <1>24 DEF ServerTicket, ServerCounts
  <2>2. sentSeq' \in 0 .. Halves + MaxExtra /\ extra' \in 0 .. MaxExtra
    BY <1>24, <1>0, <2>1 DEF ServerTicket
  <2> QED
    BY <1>24, <1>0, <2>2 DEF ServerTicket, Reply, clientVars
<1>25. CASE Close
  BY <1>25, <1>0, NamesOfTranscript DEF Close, clientVars, serverVars, netVars
<1>26. CASE Over
  BY <1>26, <1>0, NamesOfTranscript DEF Over, tlsVars, clientVars, serverVars, netVars
<1> QED
  BY <1>1, <1>2, <1>3, <1>4, <1>5, <1>6, <1>7, <1>8, <1>9, <1>10, <1>11, <1>12, <1>13,
     <1>14, <1>15, <1>16, <1>17, <1>18, <1>19, <1>20, <1>21, <1>22, <1>23, <1>24,
     <1>25, <1>26
     DEF TlsNext, ClientStep, ServerStep, ServerMay

(* Keys for different ends do not meet. *)
LEMMA KeysDiffer ==
  /\ Plain # HsKey("s")
  /\ \A ts : AppKey("s", ts) # HsKey("s")
  BY DEF Plain, HsKey, AppKey, Key

(* A record that is none of the flight. *)
LEMMA OtherRecord ==
  ASSUME NEW ct \in {"handshake", "application", "ccs", "alert"},
         NEW key \in {Plain, HsKey("s"), AppKey("s", FullTranscript)},
         NEW seq \in Nat, key = HsKey("s") => seq < Halves,
         NEW what \in {"ServerHello", "unusable", "ccs", "alert", "ticket"}
  PROVE  /\ Record(ct, key, seq, what) \in ServerRecords
         /\ Record(ct, key, seq, what).what = what
         /\ Record(ct, key, seq, what).what # "flight"
         /\ Record(ct, key, seq, what).lo = 1 /\ Record(ct, key, seq, what).hi = 0
         /\ Record(ct, key, seq, what).key = HsKey("s") =>
               Record(ct, key, seq, what).seq < Halves
<1>1. Halves \in Nat /\ Halves >= 2
  BY FlightFacts
<1>2. Record(ct, key, seq, what) =
        [ct |-> ct, key |-> key, seq |-> seq, what |-> what, lo |-> 1, hi |-> 0]
  BY DEF Record
<1> HIDE DEF Record
<1> QED
  BY <1>1, <1>2 DEF ServerRecords

(* What stays true of the records when one is read, and when one is sent.  *)
LEMMA WellFormedTail ==
  ASSUME TlsTypeOK, WellFormed, toClient # <<>>, toClient' = Tail(toClient),
         UNCHANGED <<sentHalves, cut>>
  PROVE  WellFormed'
<1>1. Tail(toClient) \in Seq(ServerRecords) /\ Len(Tail(toClient)) = Len(toClient) - 1
  BY HeadFacts
<1>2. ASSUME NEW i \in DOMAIN Tail(toClient)
      PROVE  i + 1 \in DOMAIN toClient /\ Tail(toClient)[i] = toClient[i + 1]
  BY <1>1, HeadFacts DEF WellFormed
<1> QED
  BY <1>1, <1>2 DEF WellFormed, FlightRecord

(* A record that is well formed may be put behind well formed ones.         *)
LEMMA WellFormedAppend ==
  ASSUME TlsTypeOK, WellFormed, NEW r \in ServerRecords,
         IF r.what = "flight"
         THEN FlightRecord(r)'
         ELSE /\ r.lo = 1 /\ r.hi = 0
              /\ r.key = HsKey("s") => r.seq < Halves,
         toClient' = Append(toClient, r),
         sentHalves \in Nat, sentHalves' \in Nat, sentHalves <= sentHalves', cut => cut'
  PROVE  WellFormed'
<1>1. toClient \in Seq(ServerRecords) /\ toClient' \in Seq(ServerRecords)
  BY DEF WellFormed
<1>2. ASSUME NEW i \in DOMAIN toClient'
      PROVE  \/ i \in DOMAIN toClient /\ toClient'[i] = toClient[i]
             \/ toClient'[i] = r
  BY <1>1
<1>3. ASSUME NEW i \in DOMAIN toClient, toClient[i].what = "flight"
      PROVE  FlightRecord(toClient[i])'
  <2>1. FlightRecord(toClient[i]) /\ toClient[i] \in ServerRecords
    BY <1>1, <1>3 DEF WellFormed
  <2>2. toClient[i].hi \in Nat
    BY <2>1, FlightFacts DEF ServerRecords
  <2> QED
    BY <2>1, <2>2 DEF FlightRecord
<1>4. ASSUME NEW i \in DOMAIN toClient'
      PROVE  IF toClient'[i].what = "flight"
             THEN FlightRecord(toClient[i])'
             ELSE /\ toClient'[i].lo = 1 /\ toClient'[i].hi = 0
                  /\ toClient'[i].key = HsKey("s") => toClient'[i].seq < Halves
  <2>1. CASE i \in DOMAIN toClient /\ toClient'[i] = toClient[i]
    BY <1>3, <2>1 DEF WellFormed, FlightRecord
  <2>2. CASE toClient'[i] = r
    BY <2>2 DEF FlightRecord
  <2> QED
    BY <1>2, <2>1, <2>2
<1> QED
  BY <1>1, <1>4 DEF WellFormed, FlightRecord

(* Records and messages on their way stay well formed.                      *)
LEMMA WellFormedStep ==
  ASSUME TlsInv, [TlsNext]_tlsVars
  PROVE  WellFormed'
<1> USE TlsInv DEF TlsInv
<1>0. /\ Halves \in Nat /\ Halves >= 2 /\ sentHalves \in 0 .. Halves /\ cut \in BOOLEAN
      /\ sentSeq \in Nat
  BY FlightFacts, ExtraAssumption DEF TlsTypeOK
<1>1. CASE UNCHANGED tlsVars
  BY <1>1 DEF WellFormed, FlightRecord, tlsVars, clientVars, serverVars, netVars
<1>2. CASE SendHello
  BY <1>2
     DEF SendHello, WellFormed, FlightRecord, SendRecord, ClientHello, Record,
         clientVars, serverVars, netVars
<1>3. CASE NoConnection
  BY <1>3
     DEF NoConnection, WellFormed, FlightRecord, Fail, clientVars, serverVars, netVars
<1>4. CASE BadProfile
  BY <1>4
     DEF BadProfile, WellFormed, FlightRecord, Fail, clientVars, serverVars, netVars
<1>5. CASE ReadFails
  BY <1>5
     DEF ReadFails, WellFormed, FlightRecord, Awaiting, Fail, clientVars, serverVars,
         netVars
<1>6. CASE SkipCcs
  <2>1. toClient # <<>> /\ toClient' = Tail(toClient) /\ UNCHANGED <<sentHalves, cut>>
    BY <1>6 DEF SkipCcs, Read, serverVars
  <2> QED
    BY <2>1, WellFormedTail
<1>7. CASE ReadServerHello
  <2>1. toClient # <<>> /\ toClient' = Tail(toClient) /\ UNCHANGED <<sentHalves, cut>>
    BY <1>7 DEF ReadServerHello, Read, serverVars
  <2> QED
    BY <2>1, WellFormedTail
<1>8. CASE ReadOther
  <2>1. toClient # <<>> /\ toClient' = Tail(toClient) /\ UNCHANGED <<sentHalves, cut>>
    BY <1>8 DEF ReadOther, Read, serverVars
  <2> QED
    BY <2>1, WellFormedTail
<1>9. CASE ReadFlight
  <2>1. toClient # <<>> /\ toClient' = Tail(toClient) /\ UNCHANGED <<sentHalves, cut>>
    BY <1>9 DEF ReadFlight, Read, serverVars
  <2> QED
    BY <2>1, WellFormedTail
<1>10. CASE ParseMessage
  BY <1>10
     DEF ParseMessage, WellFormed, FlightRecord, Complete, Starts, Message, clientVars,
         serverVars, netVars
<1>11. CASE ParseEnds
  BY <1>11 DEF ParseEnds, WellFormed, FlightRecord, clientVars, serverVars, netVars
<1>12. CASE ParseGarbage
  BY <1>12
     DEF ParseGarbage, WellFormed, FlightRecord, Starts, clientVars, serverVars, netVars
<1>13. CASE Verify
  BY <1>13
     DEF Verify, WellFormed, FlightRecord, SendRecord, Record, clientVars, serverVars,
         netVars
<1>14. CASE VerifyFails
  BY <1>14
     DEF VerifyFails, WellFormed, FlightRecord, Fail, clientVars, serverVars, netVars
<1>15. CASE SendRequest
  BY <1>15
     DEF SendRequest, WellFormed, FlightRecord, SendRecord, Record, clientVars,
         serverVars, netVars
<1>16. CASE WriteFails
  BY <1>16
     DEF WriteFails, WellFormed, FlightRecord, Fail, clientVars, serverVars, netVars
<1>17. CASE ServerHello
  <2> DEFINE r == Record("handshake", Plain, 0, "ServerHello")
  <2>1. r \in ServerRecords /\ r.what # "flight" /\ r.lo = 1 /\ r.hi = 0
        /\ (r.key = HsKey("s") => r.seq < Halves)
    BY <1>17, <1>0, OtherRecord, KeysDiffer DEF ServerHello, ServerCounts
  <2>2. toClient' = Append(toClient, r) /\ UNCHANGED <<sentHalves, cut>>
    BY <1>17 DEF ServerHello, Reply
  <2> QED
    BY <1>0, <2>1, <2>2, WellFormedAppend
<1>18. CASE ServerDeclines
  <2>0. PICK ct \in {"handshake", "alert"} :
           toClient' = Append(toClient, Record(ct, Plain, 0, "unusable"))
    BY <1>18 DEF ServerDeclines, Reply
  <2> DEFINE r == Record(ct, Plain, 0, "unusable")
  <2>1. r \in ServerRecords /\ r.what # "flight" /\ r.lo = 1 /\ r.hi = 0
        /\ (r.key = HsKey("s") => r.seq < Halves)
    BY <1>18, <1>0, OtherRecord, KeysDiffer DEF ServerDeclines, ServerCounts
  <2>2. toClient' = Append(toClient, r) /\ UNCHANGED <<sentHalves, cut>>
    BY <1>18, <2>0 DEF ServerDeclines
  <2> QED
    BY <1>0, <2>1, <2>2, WellFormedAppend
<1>19. ASSUME NEW n \in 1 .. Halves, ServerFlight(n) PROVE WellFormed'
  <2>1. sentSeq <= sentHalves /\ sentHalves < n /\ n <= Halves /\ sentSeq < Halves
    BY <1>19, <1>0 DEF ServerFlight, ServerCounts
  <2>2. PICK r : r = [ct |-> "application", key |-> HsKey("s"), seq |-> sentSeq,
                      what |-> "flight", lo |-> sentHalves + 1, hi |-> n]
    OBVIOUS
  <2>3. toClient' = Append(toClient, r) /\ sentHalves' = n /\ cut' = (cut \/ n % 2 = 1)
    BY <1>19, <2>2 DEF ServerFlight, Reply
  <2>4. r \in ServerRecords /\ r.what = "flight"
    BY <1>0, <2>1, <2>2 DEF ServerRecords
  <2>5. ~cut' => (sentHalves + 1) % 2 = 1 /\ n % 2 = 0
    <3>1. ~cut' => ~cut
      BY <2>3
    <3>2. ~cut' => n % 2 # 1
      BY <2>3
    <3>3. ~cut => sentHalves % 2 = 0
      BY DEF ServerCounts
    <3>4. n % 2 # 1 => n % 2 = 0
      BY <1>0
    <3>5. sentHalves % 2 = 0 => (sentHalves + 1) % 2 = 1
      BY <1>0
    <3> QED
      BY <3>1, <3>2, <3>3, <3>4, <3>5
  <2>6. FlightRecord(r)'
    <3>1. /\ r.ct = "application" /\ r.key = HsKey("s") /\ r.seq < Halves
          /\ r.lo <= r.hi /\ r.hi <= sentHalves'
      BY <1>0, <2>1, <2>2, <2>3
    <3>2. ~cut' => r.lo % 2 = 1 /\ r.hi % 2 = 0
      BY <2>2, <2>5
    <3> QED
      BY <3>1, <3>2 DEF FlightRecord
  <2>7. sentHalves' \in Nat /\ sentHalves <= sentHalves'
    BY <1>0, <2>1, <2>3
  <2>8. cut => cut'
    BY <2>3
  <2> QED
    BY <1>0, <2>3, <2>4, <2>6, <2>7, <2>8, WellFormedAppend
<1>20. CASE ServerFinished
  BY <1>20
     DEF ServerFinished, WellFormed, FlightRecord, Receives, clientVars, serverVars,
         netVars
<1>21. CASE ServerRequest
  BY <1>21
     DEF ServerRequest, WellFormed, FlightRecord, Receives, clientVars, serverVars,
         netVars
<1>22. CASE ServerCcs
  <2> DEFINE r == Record("ccs", Plain, 0, "ccs")
  <2>1. r \in ServerRecords /\ r.what # "flight" /\ r.lo = 1 /\ r.hi = 0
        /\ (r.key = HsKey("s") => r.seq < Halves)
    BY <1>22, <1>0, OtherRecord, KeysDiffer DEF ServerCcs, ServerCounts
  <2>2. toClient' = Append(toClient, r) /\ UNCHANGED <<sentHalves, cut>>
    BY <1>22 DEF ServerCcs, Reply
  <2> QED
    BY <1>0, <2>1, <2>2, WellFormedAppend
<1>23. CASE ServerAborts
  <2> DEFINE r == Record("application", HsKey("s"), sentSeq, "alert")
  <2>1. r \in ServerRecords /\ r.what # "flight" /\ r.lo = 1 /\ r.hi = 0
        /\ (r.key = HsKey("s") => r.seq < Halves)
    BY <1>23, <1>0, OtherRecord, KeysDiffer DEF ServerAborts, ServerCounts
  <2>2. toClient' = Append(toClient, r) /\ UNCHANGED <<sentHalves, cut>>
    BY <1>23 DEF ServerAborts, Reply
  <2> QED
    BY <1>0, <2>1, <2>2, WellFormedAppend
<1>24. CASE ServerTicket
  <2> DEFINE r == Record("application", AppKey("s", FullTranscript), sentSeq, "ticket")
  <2>1. r \in ServerRecords /\ r.what # "flight" /\ r.lo = 1 /\ r.hi = 0
        /\ (r.key = HsKey("s") => r.seq < Halves)
    BY <1>24, <1>0, OtherRecord, KeysDiffer DEF ServerTicket, ServerCounts
  <2>2. toClient' = Append(toClient, r) /\ UNCHANGED <<sentHalves, cut>>
    BY <1>24 DEF ServerTicket, Reply
  <2> QED
    BY <1>0, <2>1, <2>2, WellFormedAppend
<1>25. CASE Close
  BY <1>25 DEF Close, WellFormed, FlightRecord, clientVars, serverVars, netVars
<1>26. CASE Over
  BY <1>26 DEF Over, WellFormed, FlightRecord, tlsVars, clientVars, serverVars, netVars
<1> QED
  BY <1>1, <1>2, <1>3, <1>4, <1>5, <1>6, <1>7, <1>8, <1>9, <1>10, <1>11, <1>12, <1>13,
     <1>14, <1>15, <1>16, <1>17, <1>18, <1>19, <1>20, <1>21, <1>22, <1>23, <1>24,
     <1>25, <1>26
     DEF TlsNext, ClientStep, ServerStep, ServerMay

(* The counters of the server stay in step with its place.                  *)
LEMMA CountsStep ==
  ASSUME TlsInv, [TlsNext]_tlsVars
  PROVE  ServerCounts'
<1> USE TlsInv DEF TlsInv, ServerCounts
<1>0. /\ Halves \in Nat /\ Halves >= 2 /\ sentHalves \in 0 .. Halves /\ cut \in BOOLEAN
      /\ sentSeq \in Nat /\ Halves % 2 = 0 /\ extra \in 0 .. MaxExtra /\ MaxExtra \in Nat
      /\ server \in {"hello", "flight", "finished", "open", "refused"}
  BY FlightFacts, ExtraAssumption DEF TlsTypeOK
<1>1. CASE UNCHANGED tlsVars
  BY <1>1 DEF tlsVars, clientVars, serverVars, netVars
<1>2. CASE SendHello
  BY <1>2, <1>0
     DEF SendHello, SendRecord, ClientHello, Record, clientVars, serverVars, netVars
<1>3. CASE NoConnection
  BY <1>3, <1>0 DEF NoConnection, Fail, clientVars, serverVars, netVars
<1>4. CASE BadProfile
  BY <1>4, <1>0 DEF BadProfile, Fail, clientVars, serverVars, netVars
<1>5. CASE ReadFails
  BY <1>5, <1>0 DEF ReadFails, Awaiting, Fail, clientVars, serverVars, netVars
<1>6. CASE SkipCcs
  BY <1>6, <1>0 DEF SkipCcs, Read, Awaiting, Incoming, clientVars, serverVars, netVars
<1>7. CASE ReadServerHello
  BY <1>7, <1>0
     DEF ReadServerHello, Read, Awaiting, Incoming, clientVars, serverVars, netVars
<1>8. CASE ReadOther
  BY <1>8, <1>0
     DEF ReadOther, Read, Awaiting, Incoming, Fail, clientVars, serverVars, netVars
<1>9. CASE ReadFlight
  BY <1>9, <1>0
     DEF ReadFlight, Read, Awaiting, Incoming, Opens, Fail, clientVars, serverVars,
         netVars
<1>10. CASE ParseMessage
  BY <1>10, <1>0
     DEF ParseMessage, Complete, Starts, Message, clientVars, serverVars, netVars
<1>11. CASE ParseEnds
  BY <1>11, <1>0 DEF ParseEnds, clientVars, serverVars, netVars
<1>12. CASE ParseGarbage
  BY <1>12, <1>0 DEF ParseGarbage, Starts, clientVars, serverVars, netVars
<1>13. CASE Verify
  BY <1>13, <1>0 DEF Verify, SendRecord, Record, clientVars, serverVars, netVars
<1>14. CASE VerifyFails
  BY <1>14, <1>0 DEF VerifyFails, Fail, clientVars, serverVars, netVars
<1>15. CASE SendRequest
  BY <1>15, <1>0 DEF SendRequest, SendRecord, Record, clientVars, serverVars, netVars
<1>16. CASE WriteFails
  BY <1>16, <1>0 DEF WriteFails, Fail, clientVars, serverVars, netVars
<1>17. CASE ServerHello
  BY <1>17, <1>0 DEF ServerHello, Reply, Record, clientVars, serverVars, netVars
<1>18. CASE ServerDeclines
  BY <1>18, <1>0 DEF ServerDeclines, Reply, Record, clientVars, serverVars, netVars
<1>19. ASSUME NEW n \in 1 .. Halves, ServerFlight(n) PROVE ServerCounts'
  <2>1. /\ server = "flight" /\ sentSeq <= sentHalves /\ sentHalves < n /\ n <= Halves
        /\ sentHalves' = n
        /\ sentSeq' = IF n = Halves THEN 0 ELSE sentSeq + 1
        /\ server' = IF n = Halves THEN "finished" ELSE "flight"
    BY <1>19 DEF ServerFlight
  <2>2. ~cut' => sentHalves' % 2 = 0
    <3>1. ~cut' => n % 2 # 1
      BY <1>19 DEF ServerFlight
    <3>2. n % 2 # 1 => n % 2 = 0
      BY <1>0
    <3> QED
      BY <2>1, <3>1, <3>2
  <2> QED
    BY <1>0, <2>1, <2>2
<1>20. CASE ServerFinished
  BY <1>20, <1>0 DEF ServerFinished, Receives, clientVars, serverVars, netVars
<1>21. CASE ServerRequest
  BY <1>21, <1>0 DEF ServerRequest, Receives, clientVars, serverVars, netVars
<1>22. CASE ServerCcs
  BY <1>22, <1>0 DEF ServerCcs, Reply, Record, clientVars, serverVars, netVars
<1>23. CASE ServerAborts
  BY <1>23, <1>0 DEF ServerAborts, Record, clientVars, serverVars, netVars
<1>24. CASE ServerTicket
  BY <1>24, <1>0 DEF ServerTicket, Reply, Record, clientVars, serverVars, netVars
<1>25. CASE Close
  BY <1>25, <1>0 DEF Close, clientVars, serverVars, netVars
<1>26. CASE Over
  BY <1>26, <1>0 DEF Over, tlsVars, clientVars, serverVars, netVars
<1> QED
  BY <1>1, <1>2, <1>3, <1>4, <1>5, <1>6, <1>7, <1>8, <1>9, <1>10, <1>11, <1>12, <1>13,
     <1>14, <1>15, <1>16, <1>17, <1>18, <1>19, <1>20, <1>21, <1>22, <1>23, <1>24,
     <1>25, <1>26
     DEF TlsNext, ClientStep, ServerStep, ServerMay

(* Short queues. *)
LEMMA QueueFacts ==
  \A x, y :
     /\ <<x>> # <<>> /\ <<x, y>> # <<>>
     /\ Append(<<>>, x) = <<x>> /\ Append(<<x>>, y) = <<x, y>>
     /\ Tail(<<x>>) = <<>> /\ Tail(<<x, y>>) = <<y>>
     /\ Head(<<x>>) = x /\ Head(<<x, y>>) = x
<1> TAKE x, y
<1>1. /\ <<x>> # <<>> /\ <<x, y>> # <<>>
      /\ Append(<<>>, x) = <<x>> /\ Tail(<<x>>) = <<>>
      /\ Head(<<x>>) = x /\ Head(<<x, y>>) = x
  OBVIOUS
<1>2. /\ <<x>> \in Seq({x, y}) /\ Len(<<x>>) = 1 /\ <<x>>[1] = x
      /\ <<y>> \in Seq({x, y}) /\ Len(<<y>>) = 1 /\ <<y>>[1] = y
      /\ <<x, y>> \in Seq({x, y}) /\ Len(<<x, y>>) = 2
      /\ <<x, y>>[1] = x /\ <<x, y>>[2] = y
  OBVIOUS
<1>3. Append(<<x>>, y) = <<x, y>>
  <2>1. /\ Append(<<x>>, y) \in Seq({x, y}) /\ Len(Append(<<x>>, y)) = 2
        /\ Append(<<x>>, y)[1] = x /\ Append(<<x>>, y)[2] = y
    BY <1>2
  <2>2. \A i \in 1 .. 2 : Append(<<x>>, y)[i] = <<x, y>>[i]
    <3>1. \A i \in 1 .. 2 : i = 1 \/ i = 2
      OBVIOUS
    <3> QED
      BY <1>2, <2>1, <3>1
  <2> QED
    BY <1>2, <2>1, <2>2, SameMessages
<1>4. Tail(<<x, y>>) = <<y>>
  <2>1. /\ Tail(<<x, y>>) \in Seq({x, y}) /\ Len(Tail(<<x, y>>)) = 1
        /\ Tail(<<x, y>>)[1] = y
    BY <1>2
  <2> QED
    BY <1>2, <2>1, SameMessages
<1> QED
  BY <1>1, <1>3, <1>4

(* Client and server stay in the turns of the handshake.                    *)
LEMMA TurnsStep ==
  ASSUME TlsInv, [TlsNext]_tlsVars
  PROVE  Turns'
<1> USE TlsInv DEF TlsInv, Turns
<1>0. /\ Halves \in Nat /\ Halves >= 2 /\ sentHalves \in 0 .. Halves
      /\ lo \in 1 .. Halves + 1 /\ hi \in 0 .. Halves /\ srvSeq \in Nat
      /\ writeSeq \in 0 .. 1 /\ lo <= hi + 1
      /\ client \in {"start", "hello", "flight", "parse", "verify", "request",
                   "connected", "failed"}
      /\ server \in {"hello", "flight", "finished", "open", "refused"}
      /\ ServerCounts
  BY FlightFacts DEF TlsTypeOK
<1> USE DEF ServerCounts
<1>1. CASE UNCHANGED tlsVars
  BY <1>1 DEF tlsVars, clientVars, serverVars, netVars
<1>2. CASE SendHello
  BY <1>2, <1>0, QueueFacts
     DEF SendHello, SendRecord, ClientHello, Record, clientVars, serverVars, netVars
<1>3. CASE NoConnection
  BY <1>3, <1>0, QueueFacts DEF NoConnection, Fail, clientVars, serverVars, netVars
<1>4. CASE BadProfile
  BY <1>4, <1>0, QueueFacts DEF BadProfile, Fail, clientVars, serverVars, netVars
<1>5. CASE ReadFails
  BY <1>5, <1>0, QueueFacts
     DEF ReadFails, Awaiting, Fail, clientVars, serverVars, netVars
<1>6. CASE SkipCcs
  BY <1>6, <1>0, QueueFacts
     DEF SkipCcs, Read, Awaiting, Incoming, clientVars, serverVars, netVars
<1>7. CASE ReadServerHello
  BY <1>7, <1>0, QueueFacts
     DEF ReadServerHello, Read, Awaiting, Incoming, clientVars, serverVars, netVars
<1>8. CASE ReadOther
  BY <1>8, <1>0, QueueFacts
     DEF ReadOther, Read, Awaiting, Incoming, Fail, clientVars, serverVars, netVars
<1>9. CASE ReadFlight
  <2>1. toClient # <<>> /\ client = "flight"
    BY <1>9 DEF ReadFlight, Read
  <2>2. Incoming.hi <= sentHalves
    BY <1>0, <2>1, HeadFacts DEF FlightRecord
  <2>3. \/ client' = "failed" /\ UNCHANGED hi
        \/ client' \in {"parse", "flight"} /\ hi' = Incoming.hi
    BY <1>9 DEF ReadFlight, Fail
  <2>4. UNCHANGED <<writeSeq, server, sentHalves, toServer>>
    BY <1>9 DEF ReadFlight, Read, Fail, serverVars
  <2> QED
    BY <1>0, <2>1, <2>2, <2>3, <2>4
<1>10. CASE ParseMessage
  <2>1. client = "parse" /\ lo % 2 = 1 /\ lo + 1 <= hi /\ lo \in Nat /\ hi \in Nat
    BY <1>10, <1>0 DEF ParseMessage, Complete, Starts
  <2>2. UNCHANGED <<writeSeq, hi, server, sentHalves, toServer>>
    BY <1>10 DEF ParseMessage, serverVars, netVars
  <2>3. CASE Message = "Finished"
    <3>1. (lo + 1) \div 2 \in 1 .. Len(Flight) + 1
      BY <1>0, <2>1, FlightFacts, SMTT(30)
    <3>2. (lo + 1) \div 2 = Len(Flight) + 1
      <4>1. (lo + 1) \div 2 \notin 1 .. Len(Flight)
        BY <2>3, FlightFacts DEF Message
      <4> QED
        BY <3>1, <4>1, FlightFacts
    <3>3. sentHalves = Halves
      BY <1>0, <2>1, <3>2, FlightFacts, SMTT(30)
    <3>4. server = "finished"
      BY <1>0, <2>1, <3>3
    <3>5. client' = "verify"
      BY <1>10, <2>3 DEF ParseMessage
    <3> QED
      BY <2>1, <2>2, <3>4, <3>5
  <2>4. CASE Message # "Finished"
    <3>1. client' = "parse"
      BY <1>10, <2>1, <2>4 DEF ParseMessage
    <3> QED
      BY <1>0, <2>1, <2>2, <3>1
  <2> QED
    BY <2>3, <2>4
<1>11. CASE ParseEnds
  BY <1>11, <1>0, QueueFacts DEF ParseEnds, clientVars, serverVars, netVars
<1>12. CASE ParseGarbage
  BY <1>12, <1>0, QueueFacts DEF ParseGarbage, Starts, clientVars, serverVars, netVars
<1>13. CASE Verify
  <2>1. transcript' = FullTranscript
    BY <1>13, TranscriptGrows DEF Verify
  <2>2. server = "finished" /\ toServer = <<>>
    BY <1>13 DEF Verify
  <2>3. toServer' = <<ClientFinished>>
    BY <1>13, <2>2, QueueFacts DEF Verify, SendRecord, ClientFinished
  <2> QED
    BY <1>13, <1>0, <2>1, <2>2, <2>3 DEF Verify, serverVars
<1>14. CASE VerifyFails
  BY <1>14, <1>0, QueueFacts DEF VerifyFails, Fail, clientVars, serverVars, netVars
<1>15. CASE SendRequest
  <2>1. transcript = FullTranscript /\ writeSeq = 0
    BY <1>15 DEF SendRequest
  <2>2. toServer' = Append(toServer, Request)
    BY <1>15, <2>1 DEF SendRequest, SendRecord, Request
  <2>3. \/ server = "finished" /\ toServer' = <<ClientFinished, Request>>
        \/ server = "open" /\ toServer' = <<Request>>
    BY <1>15, <2>2, QueueFacts DEF SendRequest
  <2> QED
    BY <1>15, <1>0, <2>3 DEF SendRequest, serverVars
<1>16. CASE WriteFails
  BY <1>16, <1>0, QueueFacts DEF WriteFails, Fail, clientVars, serverVars, netVars
<1>17. CASE ServerHello
  BY <1>17, <1>0, QueueFacts
     DEF ServerHello, Reply, Record, clientVars, serverVars, netVars
<1>18. CASE ServerDeclines
  BY <1>18, <1>0, QueueFacts
     DEF ServerDeclines, Reply, Record, clientVars, serverVars, netVars
<1>19. ASSUME NEW n \in 1 .. Halves, ServerFlight(n) PROVE Turns'
  BY <1>19, <1>0, QueueFacts
     DEF ServerFlight, Reply, Record, clientVars, serverVars, netVars
<1>20. CASE ServerFinished
  <2>1. server = "finished" /\ server' = "open" /\ Head(toServer) = ClientFinished
    BY <1>20 DEF ServerFinished, Receives
  <2>2. toServer' = Tail(toServer) /\ toServer # <<>>
    BY <1>20 DEF ServerFinished, Receives
  <2>3. UNCHANGED <<clientVars, sentHalves>>
    BY <1>20 DEF ServerFinished, Receives
  <2>4. client \in {"request", "failed"} =>
          toServer = <<ClientFinished>> /\ toServer' = <<>>
    BY <2>1, <2>2, QueueFacts
  <2>5. ASSUME client = "connected" PROVE toServer' = <<Request>>
    <3>1. toServer = <<ClientFinished, Request>>
      BY <2>1, <2>5
    <3> QED
      BY <2>2, <3>1, QueueFacts
  <2>6. client \in {"request", "failed", "connected"}
    BY <1>0, <2>1, <2>2
  <2> QED
    BY <1>0, <2>1, <2>3, <2>4, <2>5, <2>6 DEF clientVars
<1>21. CASE ServerRequest
  BY <1>21, <1>0, QueueFacts
     DEF ServerRequest, Receives, clientVars, serverVars, netVars
<1>22. CASE ServerCcs
  BY <1>22, <1>0, QueueFacts
     DEF ServerCcs, Reply, Record, clientVars, serverVars, netVars
<1>23. CASE ServerAborts
  BY <1>23, <1>0, QueueFacts DEF ServerAborts, Record, clientVars, serverVars, netVars
<1>24. CASE ServerTicket
  BY <1>24, <1>0, QueueFacts
     DEF ServerTicket, Reply, Record, clientVars, serverVars, netVars
<1>25. CASE Close
  BY <1>25, <1>0, QueueFacts DEF Close, clientVars, serverVars, netVars
<1>26. CASE Over
  BY <1>26, <1>0, QueueFacts DEF Over, tlsVars, clientVars, serverVars, netVars
<1> QED
  BY <1>1, <1>2, <1>3, <1>4, <1>5, <1>6, <1>7, <1>8, <1>9, <1>10, <1>11, <1>12, <1>13,
     <1>14, <1>15, <1>16, <1>17, <1>18, <1>19, <1>20, <1>21, <1>22, <1>23, <1>24,
     <1>25, <1>26
     DEF TlsNext, ClientStep, ServerStep, ServerMay

(* The places in the flight when a record is read, and when one is sent.   *)
LEMMA FlightAtTail ==
  ASSUME NEW q, NEW t, NEW n \in Nat \ {0}, \A i \in 1 .. n - 1 : t[i] = q[i + 1],
         NEW h, NEW r, NEW h1, NEW r1, NEW half, NEW seq,
         FlightAt(q, h, r, half, seq, n),
         IF q[1].what = "flight"
         THEN h1 = q[1].hi /\ r1 = q[1].seq + 1
         ELSE h1 = h /\ r1 = r
  PROVE  FlightAt(t, h1, r1, half, seq, n - 1)
<1>1. CASE \A j \in 1 .. n : q[j].what # "flight"
  <2>1. half = h /\ seq = r /\ h1 = h /\ r1 = r
    BY <1>1 DEF FlightAt
  <2>2. \A j \in 1 .. n - 1 : t[j].what # "flight"
    BY <1>1
  <2> QED
    BY <2>1, <2>2 DEF FlightAt
<1>2. ASSUME NEW j \in 1 .. n, q[j].what = "flight",
             \A k \in j + 1 .. n : q[k].what # "flight", half = q[j].hi, seq = q[j].seq + 1
      PROVE  FlightAt(t, h1, r1, half, seq, n - 1)
  <2>1. CASE j = 1
    <3>1. \A k \in 1 .. n - 1 : t[k].what # "flight"
      BY <1>2, <2>1
    <3> QED
      BY <1>2, <2>1, <3>1 DEF FlightAt
  <2>2. CASE j # 1
    <3>1. j - 1 \in 1 .. n - 1 /\ t[j - 1] = q[j]
      BY <2>2
    <3>2. \A k \in (j - 1) + 1 .. n - 1 : t[k].what # "flight"
      <4> TAKE k \in (j - 1) + 1 .. n - 1
      <4>1. k \in 1 .. n - 1 /\ k + 1 \in j + 1 .. n
        BY <2>2
      <4> QED
        BY <1>2, <4>1
    <3> QED
      BY <1>2, <3>1, <3>2 DEF FlightAt
  <2> QED
    BY <2>1, <2>2
<1> QED
  BY <1>1, <1>2 DEF FlightAt

(* Queues with the same records have the same place in the flight.          *)
LEMMA FlightAtSame ==
  ASSUME NEW q, NEW t, NEW n \in Nat, \A i \in 1 .. n : t[i] = q[i],
         NEW h, NEW r, NEW half, NEW seq, FlightAt(q, h, r, half, seq, n)
  PROVE  FlightAt(t, h, r, half, seq, n)
<1>1. \A j \in 1 .. n : \A k \in j + 1 .. n : k \in 1 .. n
  OBVIOUS
<1> QED
  BY <1>1 DEF FlightAt

(* A record that is not of the flight does not move the place in it.        *)
LEMMA FlightAtMore ==
  ASSUME NEW q, NEW n \in Nat, NEW h, NEW r, NEW half, NEW seq,
         FlightAt(q, h, r, half, seq, n), q[n + 1].what # "flight"
  PROVE  FlightAt(q, h, r, half, seq, n + 1)
<1>1. \A k \in 1 .. n + 1 : k \in 1 .. n \/ k = n + 1
  OBVIOUS
<1>2. CASE \A j \in 1 .. n : q[j].what # "flight"
  <2>1. half = h /\ seq = r
    BY <1>2 DEF FlightAt
  <2> QED
    BY <1>1, <1>2, <2>1 DEF FlightAt
<1>3. ASSUME NEW j \in 1 .. n, q[j].what = "flight",
             \A k \in j + 1 .. n : q[k].what # "flight", half = q[j].hi, seq = q[j].seq + 1
      PROVE  FlightAt(q, h, r, half, seq, n + 1)
  <2>1. \A k \in j + 1 .. n + 1 : q[k].what # "flight"
    BY <1>3
  <2>2. j \in 1 .. n + 1
    OBVIOUS
  <2> QED
    BY <1>3, <2>1, <2>2 DEF FlightAt
<1> QED
  BY <1>2, <1>3 DEF FlightAt

(* While nothing is wrong, the record that is read is the one that is due.  *)
LEMMA Due ==
  ASSUME TlsInv, Sound, Awaiting, toClient # <<>>
  PROVE  /\ client = "hello" =>
               /\ Incoming.what = "ServerHello" /\ Incoming.ct = "handshake"
               /\ server # "hello"
         /\ client = "flight" =>
               \/ Incoming.what = "ccs" /\ Incoming.ct = "ccs"
               \/ /\ Incoming.what = "flight" /\ Incoming.ct = "application"
                  /\ Opens(Incoming)
                  /\ Incoming.lo = hi + 1 /\ Incoming.lo % 2 = 1 /\ Incoming.hi % 2 = 0
<1>1. Aligned
  BY DEF TlsInv, InStep, Reading, Awaiting
<1>2. /\ Incoming = toClient[1] /\ Incoming \in ServerRecords
      /\ Len(toClient) >= 1 /\ 1 \in DOMAIN toClient
  BY HeadFacts DEF TlsInv, WellFormed
<1>3. server # "hello"
  BY DEF TlsInv, ServerCounts
<1>4. CASE client = "hello"
  BY <1>1, <1>2, <1>3, <1>4 DEF Aligned
<1>5. ASSUME client = "flight", Incoming.what = "flight"
      PROVE  /\ Incoming.ct = "application" /\ Opens(Incoming)
             /\ Incoming.lo = hi + 1 /\ Incoming.lo % 2 = 1 /\ Incoming.hi % 2 = 0
  <2>1. FlightRecord(Incoming)
    BY <1>5, HeadFacts DEF TlsInv
  <2>2. FlightAt(toClient, hi, srvSeq, Incoming.lo - 1, Incoming.seq, 0)
    BY <1>1, <1>2, <1>5 DEF Aligned
  <2>3. Incoming.lo - 1 = hi /\ Incoming.seq = srvSeq
    BY <2>2 DEF FlightAt
  <2>4. Incoming.lo \in Int /\ hi \in Int
    BY <1>2, FlightFacts DEF ServerRecords, TlsInv, TlsTypeOK
  <2>5. Incoming.lo = hi + 1
    BY <2>3, <2>4
  <2> QED
    BY <2>1, <2>3, <2>5 DEF FlightRecord, Opens, Sound
<1>6. CASE client = "flight"
  <2>1. /\ Incoming.what \in {"ccs", "flight"}
        /\ Incoming.what = "ccs" => Incoming.ct = "ccs"
    BY <1>1, <1>2, <1>6 DEF Aligned
  <2> QED
    BY <1>5, <1>6, <2>1
<1> QED
  BY <1>4, <1>6 DEF Awaiting

(* Reading a record that is due keeps what follows it aligned.             *)
LEMMA AlignedTail ==
  ASSUME TlsInv, Sound, Awaiting, toClient # <<>>, toClient' = Tail(toClient),
         client' \in {"flight", "parse"}, UNCHANGED <<server, sentHalves, sentSeq>>,
         IF Incoming.what = "flight"
         THEN hi' = Incoming.hi /\ srvSeq' = Incoming.seq + 1
         ELSE UNCHANGED <<hi, srvSeq>>
  PROVE  Aligned'
<1> DEFINE L == Len(toClient)
<1>1. Aligned
  BY DEF TlsInv, InStep, Reading, Awaiting
<1>2. /\ Incoming = toClient[1] /\ L \in Nat /\ L >= 1
      /\ Len(toClient') = L - 1 /\ DOMAIN toClient' = 1 .. L - 1 /\ DOMAIN toClient = 1 .. L
      /\ \A i \in 1 .. L - 1 : toClient'[i] = toClient[i + 1]
  BY HeadFacts DEF TlsInv, WellFormed
<1> HIDE DEF L
<1>3. ASSUME NEW n \in 1 .. L, NEW half, NEW seq,
             FlightAt(toClient, hi, srvSeq, half, seq, n)
      PROVE  FlightAt(toClient', hi', srvSeq', half, seq, n - 1)
  <2>1. n \in Nat \ {0} /\ \A i \in 1 .. n - 1 : toClient'[i] = toClient[i + 1]
    BY <1>2
  <2>2. IF toClient[1].what = "flight"
        THEN hi' = toClient[1].hi /\ srvSeq' = toClient[1].seq + 1
        ELSE hi' = hi /\ srvSeq' = srvSeq
    BY <1>2
  <2> QED
    BY <1>3, <2>1, <2>2, FlightAtTail
<1>4. ASSUME NEW i \in DOMAIN toClient'
      PROVE  /\ toClient'[i].what \in {"ccs", "flight"}
             /\ toClient'[i].what = "ccs" => toClient'[i].ct = "ccs"
             /\ toClient'[i].what = "flight" =>
                  FlightAt(toClient', hi', srvSeq',
                           toClient'[i].lo - 1, toClient'[i].seq, i - 1)
  <2>1. i \in 1 .. L - 1 /\ i + 1 \in 2 .. L /\ i + 1 \in DOMAIN toClient
        /\ toClient'[i] = toClient[i + 1] /\ (i + 1) - 1 = i /\ i \in 1 .. L
    BY <1>2
  <2>2. toClient[i + 1].what \in {"ccs", "flight"}
    <3>1. client \in {"hello", "flight"} /\ (client = "hello" => server # "hello")
      BY Due DEF Awaiting
    <3> QED
      BY <1>1, <2>1, <3>1 DEF Aligned, L
  <2>3. toClient[i + 1].what = "ccs" => toClient[i + 1].ct = "ccs"
    BY <1>1, <2>1 DEF Aligned
  <2>4. toClient[i + 1].what = "flight" =>
          FlightAt(toClient, hi, srvSeq, toClient[i + 1].lo - 1, toClient[i + 1].seq, i)
    BY <1>1, <2>1 DEF Aligned
  <2> QED
    BY <1>3, <2>1, <2>2, <2>3, <2>4
<1>5. server' = "flight" =>
        FlightAt(toClient', hi', srvSeq', sentHalves', sentSeq', Len(toClient'))
  <2>1. server = "flight" => FlightAt(toClient, hi, srvSeq, sentHalves, sentSeq, L)
    BY <1>1 DEF Aligned, L
  <2> QED
    BY <1>2, <1>3, <2>1, SMTT(30)
<1> QED
  BY <1>4, <1>5 DEF Aligned

(* What the server adds goes on where it was.                              *)
LEMMA AlignedAppend ==
  ASSUME TlsInv, Aligned, Reading, server = "flight", server' # "hello",
         NEW r, toClient' = Append(toClient, r), UNCHANGED <<client, hi, srvSeq>>,
         r \in ServerRecords, r.what \in {"ccs", "flight"}, r.what = "ccs" => r.ct = "ccs",
         IF r.what = "flight"
         THEN /\ r.lo - 1 = sentHalves /\ r.seq = sentSeq
              /\ server' = "flight" => sentHalves' = r.hi /\ sentSeq' = r.seq + 1
         ELSE UNCHANGED <<sentHalves, sentSeq>>
  PROVE  Aligned'
<1> DEFINE L == Len(toClient)
<1>1. /\ L \in Nat /\ DOMAIN toClient = 1 .. L /\ DOMAIN toClient' = 1 .. L + 1
      /\ Len(toClient') = L + 1 /\ toClient'[L + 1] = r
      /\ \A i \in 1 .. L : toClient'[i] = toClient[i]
      /\ toClient' # <<>>
  BY DEF TlsInv, WellFormed
<1>2. FlightAt(toClient, hi, srvSeq, sentHalves, sentSeq, L)
  BY DEF Aligned
<1> HIDE DEF L
<1>3. ASSUME NEW n \in 0 .. L, NEW half, NEW seq,
             FlightAt(toClient, hi, srvSeq, half, seq, n)
      PROVE  FlightAt(toClient', hi', srvSeq', half, seq, n)
  <2>1. n \in Nat /\ \A i \in 1 .. n : toClient'[i] = toClient[i]
    BY <1>1
  <2>2. FlightAt(toClient', hi, srvSeq, half, seq, n)
    BY <1>3, <2>1, FlightAtSame
  <2> QED
    BY <2>2
<1>4. FlightAt(toClient', hi', srvSeq', sentHalves, sentSeq, L)
  BY <1>1, <1>2, <1>3
<1>5. ASSUME NEW i \in DOMAIN toClient'
      PROVE  /\ toClient'[i].what = "ServerHello" => toClient'[i].ct = "handshake"
             /\ toClient'[i].what = "ccs" => toClient'[i].ct = "ccs"
             /\ toClient'[i].what = "flight" =>
                  FlightAt(toClient', hi', srvSeq',
                           toClient'[i].lo - 1, toClient'[i].seq, i - 1)
  <2>1. CASE i \in DOMAIN toClient
    <3>1. toClient'[i] = toClient[i] /\ i - 1 \in 0 .. L
      BY <1>1, <2>1
    <3> QED
      BY <1>3, <2>1, <3>1 DEF Aligned
  <2>2. CASE i = L + 1
    <3>1. toClient'[i] = r /\ i - 1 = L
      BY <1>1, <2>2
    <3> QED
      BY <1>4, <3>1
  <2> QED
    BY <1>1, <2>1, <2>2
<1>6. server' = "flight" =>
        FlightAt(toClient', hi', srvSeq', sentHalves', sentSeq', Len(toClient'))
  <2>1. CASE r.what = "flight" /\ server' = "flight"
    <3>1. /\ L + 1 \in 1 .. Len(toClient') /\ toClient'[L + 1].what = "flight"
          /\ \A k \in (L + 1) + 1 .. Len(toClient') : toClient'[k].what # "flight"
          /\ sentHalves' = toClient'[L + 1].hi /\ sentSeq' = toClient'[L + 1].seq + 1
      BY <1>1, <2>1
    <3> QED
      BY <3>1 DEF FlightAt
  <2>2. CASE r.what # "flight"
    <3>1. FlightAt(toClient', hi', srvSeq', sentHalves, sentSeq, L + 1)
      BY <1>1, <1>4, <2>2, FlightAtMore
    <3> QED
      BY <1>1, <2>2, <3>1
  <2> QED
    BY <2>1, <2>2
<1>7. client' \in {"flight", "parse", "verify"} =>
        \A i \in DOMAIN toClient' : toClient'[i].what \in {"ccs", "flight"}
  <2>1. client' \in {"flight", "parse", "verify"} =>
          \A i \in 1 .. L : toClient[i].what \in {"ccs", "flight"}
    BY <1>1 DEF Aligned
  <2>2. \A i \in 1 .. L + 1 : i \in 1 .. L \/ i = L + 1
    BY <1>1
  <2> QED
    BY <1>1, <2>1, <2>2
<1>8. (client' = "hello" /\ server' # "hello") =>
        /\ toClient' # <<>> /\ toClient'[1].what = "ServerHello"
        /\ \A i \in 2 .. Len(toClient') : toClient'[i].what \in {"ccs", "flight"}
  <2>1. client' = "hello" =>
          /\ L >= 1 /\ toClient[1].what = "ServerHello"
          /\ \A i \in 2 .. L : toClient[i].what \in {"ccs", "flight"}
    <3>1. toClient # <<>> => L >= 1
      BY <1>1 DEF L, TlsInv, WellFormed
    <3> QED
      BY <3>1 DEF Aligned, L
  <2>2. \A i \in 2 .. L + 1 : (i \in 2 .. L /\ i \in 1 .. L) \/ i = L + 1
    BY <1>1
  <2> QED
    BY <1>1, <2>1, <2>2
<1> QED
  BY <1>5, <1>6, <1>7, <1>8 DEF Aligned

(* The client stays in step with the flight.                                *)
LEMMA InStepStep ==
  ASSUME TlsInv, [TlsNext]_tlsVars
  PROVE  InStep'
<1> USE TlsInv DEF TlsInv
<1>0. /\ Halves \in Nat /\ Halves >= 2 /\ sentHalves \in 0 .. Halves /\ sentSeq \in Nat
      /\ lo \in Nat /\ hi \in 0 .. Halves /\ lo <= hi + 1
  BY FlightFacts, ExtraAssumption DEF TlsTypeOK
<1>1. CASE UNCHANGED tlsVars
  BY <1>1
     DEF InStep, Reading, Sound, Aligned, Hashed, tlsVars, clientVars, serverVars,
         netVars
<1>2. CASE SendHello
  <2>1. /\ client' = "hello" /\ transcript' = <<"ClientHello">>
        /\ UNCHANGED <<toClient, server>>
    BY <1>2 DEF SendHello, SendRecord, serverVars
  <2>2. server = "hello" /\ toClient = <<>>
    BY <1>2 DEF SendHello, Turns, ServerCounts
  <2>3. Aligned' /\ Hashed'
    BY <2>1, <2>2 DEF Aligned, Hashed
  <2> QED
    BY <2>3 DEF InStep
<1>3. CASE NoConnection
  BY <1>3 DEF NoConnection, Fail, InStep, Reading
<1>4. CASE BadProfile
  BY <1>4 DEF BadProfile, Fail, InStep, Reading
<1>5. CASE ReadFails
  BY <1>5 DEF ReadFails, Fail, InStep, Reading
<1>6. CASE SkipCcs
  <2> SUFFICES ASSUME Sound', Reading' PROVE Aligned' /\ Hashed'
    BY DEF InStep
  <2>1. /\ toClient # <<>> /\ toClient' = Tail(toClient) /\ Awaiting /\ Incoming.ct = "ccs"
        /\ UNCHANGED <<clientVars, server, sentHalves, sentSeq, conn, cut>>
    BY <1>6 DEF SkipCcs, Read, serverVars
  <2>2. Sound /\ Reading
    BY <2>1 DEF Sound, Reading, Awaiting
  <2>3. client = "flight" /\ Incoming.what = "ccs"
    BY <2>1, <2>2, Due DEF Awaiting
  <2>4. Aligned'
    BY <2>1, <2>2, <2>3, AlignedTail DEF clientVars
  <2>5. Hashed'
    BY <2>1, <2>2 DEF InStep, Hashed, clientVars
  <2> QED
    BY <2>4, <2>5
<1>7. CASE ReadServerHello
  <2> SUFFICES ASSUME Sound', Reading' PROVE Aligned' /\ Hashed'
    BY DEF InStep
  <2>1. /\ toClient # <<>> /\ toClient' = Tail(toClient) /\ Awaiting
        /\ client = "hello" /\ Incoming.what = "ServerHello"
        /\ client' = "flight" /\ transcript' = Hellos
        /\ UNCHANGED <<srvSeq, lo, hi, server, sentHalves, sentSeq, conn, cut>>
    BY <1>7 DEF ReadServerHello, Read, serverVars
  <2>2. Sound
    BY <2>1 DEF Sound
  <2>3. Aligned'
    BY <2>1, <2>2, AlignedTail
  <2>4. lo = 1 /\ hi = 0
    BY <2>1 DEF Turns
  <2>5. Hashed'
    BY <2>1, <2>4, TranscriptGrows DEF Hashed
  <2> QED
    BY <2>3, <2>5
<1>8. CASE ReadOther
  BY <1>8 DEF ReadOther, Fail, InStep, Reading
<1>9. CASE ReadFlight
  <2> SUFFICES ASSUME Sound', Reading' PROVE Aligned' /\ Hashed'
    BY DEF InStep
  <2>1. /\ toClient # <<>> /\ toClient' = Tail(toClient) /\ Awaiting
        /\ client = "flight" /\ Incoming.ct = "application"
        /\ UNCHANGED <<server, sentHalves, sentSeq, conn, cut>>
    BY <1>9 DEF ReadFlight, Read, serverVars
  <2>2. Sound /\ Reading
    BY <2>1 DEF Sound, Reading
  <2>3. /\ Incoming.what = "flight" /\ Opens(Incoming)
        /\ Incoming.lo = hi + 1 /\ Incoming.lo % 2 = 1 /\ Incoming.hi % 2 = 0
    BY <2>1, <2>2, Due
  <2>4. /\ srvSeq' = Incoming.seq + 1 /\ client' = "parse"
        /\ lo' = Incoming.lo /\ hi' = Incoming.hi /\ UNCHANGED transcript
    BY <1>9, <2>3 DEF ReadFlight, Opens
  <2>5. Aligned'
    BY <2>1, <2>2, <2>3, <2>4, AlignedTail
  <2>6. lo = hi + 1 /\ transcript = Hellos \o SubSeq(Messages, 1, (lo - 1) \div 2)
    BY <2>1, <2>2 DEF InStep, Hashed
  <2>7. Hashed'
    BY <2>3, <2>4, <2>6 DEF Hashed
  <2> QED
    BY <2>5, <2>7
<1>10. CASE ParseMessage
  <2> SUFFICES ASSUME Sound', Reading' PROVE Aligned' /\ Hashed'
    BY DEF InStep
  <2>1. /\ client = "parse"
        /\ UNCHANGED <<srvSeq, hi, server, sentHalves, sentSeq, toClient, conn, cut>>
    BY <1>10 DEF ParseMessage, serverVars, netVars
  <2>2. Aligned /\ Hashed
    BY <2>1 DEF InStep, Sound, Reading
  <2>3. lo % 2 = 1 /\ hi % 2 = 0 /\ lo \in Nat /\ hi \in Nat /\ lo <= hi + 1
    BY <2>1, <2>2, <1>0 DEF Hashed
  <2>4. lo + 1 <= hi /\ lo' = lo + 2
    BY <1>10 DEF ParseMessage, Complete
  <2>5. Aligned'
    <3>1. client' \in {"parse", "verify"}
      BY <1>10, <2>1 DEF ParseMessage
    <3> QED
      BY <2>1, <2>2, <3>1 DEF Aligned
  <2>6. PICK k \in 0 .. Len(Messages) - 1 :
           (lo - 1) \div 2 = k /\ (lo + 1) \div 2 = k + 1 /\ (lo' - 1) \div 2 = k + 1
    BY <1>0, <2>3, <2>4, FlightFacts
  <2>7. transcript = Hellos \o SubSeq(Messages, 1, k) /\ Message = Messages[k + 1]
    BY <2>1, <2>2, <2>6 DEF Hashed, Message
  <2>8. CASE Message = "Finished"
    <3>1. k = Len(Messages) - 1
      <4>1. k + 1 \notin 1 .. Len(Flight)
        BY <2>7, <2>8, FlightFacts
      <4>2. Len(Messages) = Len(Flight) + 1 /\ Len(Flight) \in Nat
        BY FlightFacts
      <4> QED
        BY <2>6, <4>1, <4>2
    <3>2. client' = "verify" /\ transcript' = BeforeFinished
      BY <1>10, <2>7, <2>8, <3>1, TranscriptGrows DEF ParseMessage
    <3> QED
      BY <2>5, <3>2 DEF Hashed
  <2>9. CASE Message # "Finished"
    <3>1. client' = "parse" /\ transcript' = Append(transcript, Message)
      BY <1>10, <2>1, <2>9 DEF ParseMessage
    <3>2. transcript' = Hellos \o SubSeq(Messages, 1, k + 1)
      BY <2>6, <2>7, <3>1, TranscriptGrows
    <3>3. lo' % 2 = 1
      BY <2>3, <2>4
    <3> QED
      BY <2>1, <2>3, <2>5, <2>6, <3>1, <3>2, <3>3 DEF Hashed
  <2> QED
    BY <2>8, <2>9
<1>11. CASE ParseEnds
  <2> SUFFICES ASSUME Sound', Reading' PROVE Aligned' /\ Hashed'
    BY DEF InStep
  <2>1. /\ client = "parse"
        /\ UNCHANGED <<transcript, srvSeq, lo, hi, server, sentHalves, sentSeq, toClient,
                       conn, cut>>
    BY <1>11 DEF ParseEnds, serverVars, netVars
  <2>2. Aligned /\ Hashed
    BY <2>1 DEF InStep, Sound, Reading
  <2>3. lo % 2 = 1 /\ hi % 2 = 0 /\ lo \in Nat /\ hi \in Nat /\ lo <= hi + 1
    BY <2>1, <2>2, <1>0 DEF Hashed
  <2>4. lo = hi + 1 /\ client' = "flight"
    <3>1. lo >= hi /\ client' = "flight"
      BY <1>11 DEF ParseEnds
    <3> QED
      BY <2>3, <3>1
  <2> QED
    BY <2>1, <2>2, <2>4 DEF Aligned, Hashed
<1>12. CASE ParseGarbage
  <2> SUFFICES ASSUME Sound', Reading' PROVE Aligned' /\ Hashed'
    BY DEF InStep
  <2>1. /\ client = "parse"
        /\ UNCHANGED <<server, toClient, conn, cut>>
    BY <1>12 DEF ParseGarbage, serverVars, netVars
  <2>2. Aligned /\ Hashed
    BY <2>1 DEF InStep, Sound, Reading
  <2>3. lo % 2 = 1 /\ hi % 2 = 0 /\ lo \in Nat /\ hi \in Nat /\ lo <= hi + 1
    BY <2>1, <2>2, <1>0 DEF Hashed
  <2> QED
    BY <1>12, <2>3 DEF ParseGarbage, Starts
<1>13. CASE Verify
  BY <1>13 DEF Verify, InStep, Reading
<1>14. CASE VerifyFails
  BY <1>14 DEF VerifyFails, Fail, InStep, Reading
<1>15. CASE SendRequest
  BY <1>15 DEF SendRequest, InStep, Reading
<1>16. CASE WriteFails
  BY <1>16 DEF WriteFails, Fail, InStep, Reading
<1>17. CASE ServerHello
  <2> SUFFICES ASSUME Sound', Reading' PROVE Aligned' /\ Hashed'
    BY DEF InStep
  <2> DEFINE r == Record("handshake", Plain, 0, "ServerHello")
  <2>1. /\ server = "hello" /\ server' = "flight" /\ toClient' = Append(toClient, r)
        /\ UNCHANGED <<clientVars, sentSeq, sentHalves>>
    BY <1>17 DEF ServerHello, Reply
  <2>2. /\ toClient = <<>> /\ sentSeq = 0 /\ sentHalves = 0
        /\ client = "hello" /\ hi = 0 /\ srvSeq = 0
    BY <2>1 DEF ServerCounts, Turns, Reading, clientVars
  <2>3. toClient' = <<r>>
    BY <2>1, <2>2, QueueFacts
  <2>4. r.what = "ServerHello" /\ r.ct = "handshake"
    BY DEF Record
  <2> HIDE DEF r
  <2>5. /\ toClient' # <<>> /\ toClient'[1] = r /\ Len(toClient') = 1
        /\ DOMAIN toClient' = {1}
    BY <2>3
  <2>6. FlightAt(toClient', hi', srvSeq', sentHalves', sentSeq', Len(toClient'))
    BY <2>1, <2>2, <2>4, <2>5 DEF FlightAt, clientVars
  <2>7. Aligned'
    BY <2>1, <2>2, <2>4, <2>5, <2>6 DEF Aligned, clientVars
  <2>8. Hashed'
    <3>1. transcript = <<"ClientHello">>
      BY <1>17, <2>1, <2>2 DEF ServerHello, Reply, InStep, Sound, Reading, Hashed
    <3> QED
      BY <2>1, <2>2, <3>1 DEF Hashed, clientVars
  <2> QED
    BY <2>7, <2>8
<1>18. CASE ServerDeclines
  BY <1>18 DEF ServerDeclines, InStep, Sound
<1>19. ASSUME NEW n \in 1 .. Halves, ServerFlight(n) PROVE InStep'
  <2> SUFFICES ASSUME Sound', Reading' PROVE Aligned' /\ Hashed'
    BY DEF InStep
  <2>1. PICK r : r = [ct |-> "application", key |-> HsKey("s"), seq |-> sentSeq,
                      what |-> "flight", lo |-> sentHalves + 1, hi |-> n]
    OBVIOUS
  <2>2. /\ server = "flight" /\ toClient' = Append(toClient, r) /\ sentHalves' = n
        /\ n = Halves \/ sentSeq' = sentSeq + 1
        /\ server' = IF n = Halves THEN "finished" ELSE "flight"
        /\ cut' = (cut \/ n % 2 = 1)
        /\ UNCHANGED <<clientVars, conn>>
    BY <1>19, <2>1 DEF ServerFlight, Reply
  <2>3. /\ r \in ServerRecords /\ r.what = "flight"
        /\ r.lo - 1 = sentHalves /\ r.seq = sentSeq /\ r.hi = n
    <3>1. sentHalves + 1 \in 1 .. Halves
      BY <1>19, <1>0 DEF ServerFlight
    <3> QED
      BY <1>0, <2>1, <3>1 DEF ServerRecords
  <2>4. Reading /\ Sound
    BY <2>2 DEF Reading, Sound, clientVars
  <2>5. Aligned /\ Hashed
    BY <2>4 DEF InStep
  <2>6. /\ server' # "hello"
        /\ server' = "flight" => sentHalves' = r.hi /\ sentSeq' = r.seq + 1
    BY <2>2, <2>3
  <2>7. Aligned'
    BY <2>2, <2>3, <2>4, <2>5, <2>6, AlignedAppend DEF clientVars
  <2> QED
    BY <2>2, <2>5, <2>7 DEF Hashed, clientVars
<1>20. CASE ServerFinished
  <2> SUFFICES ASSUME Sound', Reading' PROVE Aligned' /\ Hashed'
    BY DEF InStep
  <2>1. /\ server = "finished" /\ UNCHANGED client /\ toServer # <<>>
    BY <1>20 DEF ServerFinished, Receives, clientVars
  <2> QED
    BY <2>1 DEF Reading, Turns
<1>21. CASE ServerRequest
  <2> SUFFICES ASSUME Sound', Reading' PROVE Aligned' /\ Hashed'
    BY DEF InStep
  <2>1. server = "open" /\ UNCHANGED client
    BY <1>21 DEF ServerRequest, Receives, Reply, clientVars
  <2> QED
    BY <2>1, <1>0 DEF Reading, Turns
<1>22. CASE ServerCcs
  <2> SUFFICES ASSUME Sound', Reading' PROVE Aligned' /\ Hashed'
    BY DEF InStep
  <2> DEFINE r == Record("ccs", Plain, 0, "ccs")
  <2>1. /\ server = "flight" /\ server' = "flight" /\ toClient' = Append(toClient, r)
        /\ UNCHANGED <<clientVars, sentSeq, sentHalves, conn, cut>>
    BY <1>22 DEF ServerCcs, Reply
  <2>2. r \in ServerRecords /\ r.what = "ccs" /\ r.ct = "ccs"
    <3>1. r.what = "ccs" /\ r.ct = "ccs"
      BY DEF Record
    <3>2. r \in ServerRecords
      BY <1>0, OtherRecord, KeysDiffer
    <3> QED
      BY <3>1, <3>2
  <2> HIDE DEF r
  <2>3. Reading /\ Sound
    BY <2>1 DEF Reading, Sound, clientVars
  <2>4. Aligned /\ Hashed
    BY <2>3 DEF InStep
  <2>5. Aligned'
    BY <2>1, <2>2, <2>3, <2>4, AlignedAppend DEF clientVars
  <2> QED
    BY <2>1, <2>4, <2>5 DEF Hashed, clientVars
<1>23. CASE ServerAborts
  BY <1>23 DEF ServerAborts, InStep, Sound
<1>24. CASE ServerTicket
  <2> SUFFICES ASSUME Sound', Reading' PROVE Aligned' /\ Hashed'
    BY DEF InStep
  <2>1. server = "open" /\ UNCHANGED client
    BY <1>24 DEF ServerTicket, Receives, Reply, clientVars
  <2> QED
    BY <2>1, <1>0 DEF Reading, Turns
<1>25. CASE Close
  BY <1>25 DEF Close, InStep, Sound
<1>26. CASE Over
  BY <1>26
     DEF Over, InStep, Reading, Sound, Aligned, Hashed, tlsVars, clientVars,
         serverVars, netVars
<1> QED
  BY <1>1, <1>2, <1>3, <1>4, <1>5, <1>6, <1>7, <1>8, <1>9, <1>10, <1>11, <1>12, <1>13,
     <1>14, <1>15, <1>16, <1>17, <1>18, <1>19, <1>20, <1>21, <1>22, <1>23, <1>24,
     <1>25, <1>26
     DEF TlsNext, ClientStep, ServerStep, ServerMay

(* The invariant holds. *)
LEMMA TlsInvHolds == TlsSpec => []TlsInv
<1>1. TlsInit => TlsInv
  <2> SUFFICES ASSUME TlsInit PROVE TlsInv
    OBVIOUS
  <2>1. Halves \in Nat /\ Halves >= 2 /\ MaxExtra \in Nat
    BY FlightFacts, ExtraAssumption
  <2>2. TlsTypeOK
    <3>1. <<>> \in Seq({FullTranscript[i] : i \in DOMAIN FullTranscript} \cup {"garbage"})
      OBVIOUS
    <3>2. transcript = <<>>
      BY DEF TlsInit
    <3>3. transcript \in
            Seq({FullTranscript[i] : i \in DOMAIN FullTranscript} \cup {"garbage"})
      BY <3>1, <3>2
    <3>4. /\ client \in {"start", "hello", "flight", "parse", "verify", "request",
                         "connected", "failed"}
          /\ srvSeq \in 0 .. Halves /\ writeSeq \in 0 .. 1
          /\ lo \in 1 .. Halves + 1 /\ hi \in 0 .. Halves /\ lo <= hi + 1
      BY <2>1 DEF TlsInit
    <3>5. /\ server \in {"hello", "flight", "finished", "open", "refused"}
          /\ sentSeq \in 0 .. Halves + MaxExtra /\ sentHalves \in 0 .. Halves
          /\ extra \in 0 .. MaxExtra /\ conn \in {"open", "closed"}
      BY <2>1 DEF TlsInit
    <3>6. cut \in BOOLEAN
      BY DEF TlsInit
    <3> QED
      BY <3>3, <3>4, <3>5, <3>6, Zenon DEF TlsTypeOK
  <2>3. WellFormed
    BY DEF TlsInit, WellFormed
  <2>4. ServerCounts /\ Turns
    BY <2>1 DEF TlsInit, ServerCounts, Turns
  <2>5. InStep
    BY DEF TlsInit, InStep, Reading
  <2> QED
    BY <2>2, <2>3, <2>4, <2>5 DEF TlsInv
<1>2. TlsInv /\ [TlsNext]_tlsVars => TlsInv'
  BY TlsTypeStep, WellFormedStep, CountsStep, TurnsStep, InStepStep DEF TlsInv
<1> QED
  BY <1>1, <1>2, PTL DEF TlsSpec

(* The variables of both ends keep their types: the counters of records     *)
(* and the halves that connect has before it stay within the flight.        *)
THEOREM HandshakeTypes == TlsSpec => []TlsTypeOK
<1>1. TlsInv => TlsTypeOK
  BY DEF TlsInv
<1> QED
  BY <1>1, TlsInvHolds, PTL

(* The Finished that complete_tls13_handshake sends, and the request that   *)
(* send_app_data sends after it, are what the server expects: sealed with   *)
(* the keys of the server's own transcript, with the next number, in this   *)
(* order, and not before the flight is complete.                            *)
THEOREM ServerOpensAll == TlsSpec => []ServerFollows
<1>1. TlsInv => ServerFollows
  <2> SUFFICES ASSUME TlsInv PROVE ServerFollows
    OBVIOUS
  <2>1. /\ client \in {"start", "hello", "flight", "parse", "verify", "request",
                       "connected", "failed"}
        /\ server \in {"hello", "flight", "finished", "open", "refused"}
    BY DEF TlsInv, TlsTypeOK
  <2>2. server = "finished" =>
          toServer \in {<<>>, <<ClientFinished>>, <<ClientFinished, Request>>}
    BY <2>1 DEF TlsInv, Turns
  <2>3. server = "open" => toServer \in {<<>>, <<Request>>}
    BY <2>1 DEF TlsInv, Turns
  <2>4. server = "flight" => toServer \in {<<>>}
    BY <2>1 DEF TlsInv, Turns
  <2> QED
    BY <2>1, <2>2, <2>3, <2>4 DEF ServerFollows
<1> QED
  BY <1>1, TlsInvHolds, PTL

(* A step in which connect gives up has a cause outside the client: the     *)
(* connection is closed, the server has refused, or the server cuts         *)
(* messages between records.                                                *)
THEOREM HandshakeFailsForCause == TlsSpec => FailsForCause
<1> DEFINE Caused == (client' = "failed" /\ client \notin {"start", "failed"}) =>
                        conn = "closed" \/ server = "refused" \/ cut
<1>1. TlsInv /\ [TlsNext]_tlsVars => [Caused]_tlsVars
  <2> SUFFICES ASSUME TlsInv, TlsNext, Sound, client' = "failed",
                      client \notin {"start", "failed"}
               PROVE  FALSE
    BY DEF Sound, TlsInv, TlsTypeOK
  <2>1. ReadFails \/ ReadOther \/ ReadFlight \/ ParseGarbage \/ VerifyFails \/ WriteFails
    BY DEF TlsNext, ClientStep, ServerStep, ServerMay, SendHello, NoConnection, BadProfile,
           SkipCcs, ReadServerHello, ParseMessage, ParseEnds, Verify, SendRequest,
           ServerHello, ServerDeclines, ServerFlight, ServerFinished, ServerRequest,
           Receives, ServerCcs, ServerAborts, ServerTicket, Close, Over, clientVars, tlsVars
  <2>2. InStep
    BY DEF TlsInv
  <2>3. ~ReadFails /\ ~WriteFails
    BY DEF ReadFails, WriteFails, Sound
  <2>4. ~VerifyFails
    BY <2>2 DEF VerifyFails, InStep, Hashed, Reading
  <2>5. ~ParseGarbage
    BY <2>2 DEF ParseGarbage, Starts, InStep, Hashed, Reading
  <2>6. ~ReadOther
    BY Due DEF ReadOther, Read
  <2>7. ~ReadFlight
    BY Due DEF ReadFlight, Read
  <2> QED
    BY <2>1, <2>3, <2>4, <2>5, <2>6, <2>7
<1> QED
  BY <1>1, TlsInvHolds, PTL DEF TlsSpec, FailsForCause

-----------------------------------------------------------------------------
(* What has not happened while neither end gives up: the client has not gone *)
(* past the Finished, the Finished is still to come if it has been sent, and *)
(* so is the answer of a server that declines.                               *)
FinishedIsAhead ==
    (Sound /\ client \in {"hello", "flight", "parse"}) =>
        /\ lo < Halves
        /\ server = "finished" =>
              hi = Halves \/ \E j \in DOMAIN toClient :
                                toClient[j].what = "flight" /\ toClient[j].hi = Halves

RefusalIsAhead ==
    (server = "refused" /\ conn = "open") =>
        /\ client \in {"hello", "failed"}
        /\ client = "hello" =>
              /\ Len(toClient) = 1
              /\ toClient[1].what = "unusable" /\ toClient[1].ct # "ccs"

Ahead == FinishedIsAhead /\ RefusalIsAhead

(* The guards of ClientStep and of ServerStep, as far as the latter is      *)
(* about the client.                                                        *)
ClientCan ==
    \/ client \in {"start", "parse", "verify", "request"}
    \/ Awaiting /\ (toClient # <<>> \/ conn = "closed")
ServerCan ==
    conn = "open" /\ ((server = "hello" /\ toServer # <<>>) \/ server = "flight")

NeverBothWait ==
    cut \/ client \in {"connected", "failed"} \/ ClientCan \/ ServerCan

(* What is ahead stays ahead. *)
LEMMA FinishedStep ==
  ASSUME TlsInv, FinishedIsAhead, [TlsNext]_tlsVars
  PROVE  FinishedIsAhead'
<1> USE TlsInv, FinishedIsAhead DEF FinishedIsAhead, Sound
<1>0. /\ Halves \in Nat /\ Halves >= 2 /\ sentHalves \in 0 .. Halves
      /\ lo \in Nat /\ hi \in 0 .. Halves /\ toClient \in Seq(ServerRecords)
      /\ Len(toClient) \in Nat /\ DOMAIN toClient = 1 .. Len(toClient)
  BY FlightFacts DEF TlsInv, TlsTypeOK, WellFormed
<1>1. CASE UNCHANGED tlsVars
  BY <1>1 DEF tlsVars, clientVars, serverVars, netVars
<1>2. CASE SendHello
  BY <1>2, <1>0 DEF SendHello, SendRecord, serverVars, TlsInv, Turns
<1>3. ASSUME client' \notin {"hello", "flight", "parse"} PROVE FinishedIsAhead'
  BY <1>3
<1>4. CASE NoConnection \/ BadProfile \/ ReadFails \/ ReadOther \/ Verify \/ VerifyFails
           \/ SendRequest \/ WriteFails
  BY <1>3, <1>4
     DEF NoConnection, BadProfile, ReadFails, ReadOther, Fail, Verify, VerifyFails,
         SendRequest, WriteFails
<1>5. ASSUME Read, client \in {"hello", "flight"}, client' \in {"hello", "flight", "parse"},
             Sound', IF Incoming.what = "flight" THEN hi' = Incoming.hi /\ lo' = Incoming.lo
                                                 ELSE UNCHANGED <<lo, hi>>
      PROVE  FinishedIsAhead'
  <2>1. /\ toClient # <<>> /\ toClient' = Tail(toClient) /\ UNCHANGED <<conn, serverVars>>
        /\ Awaiting
    BY <1>5 DEF Read, Awaiting
  <2>2. Sound
    BY <1>5, <2>1 DEF serverVars
  <2>3. /\ Incoming = toClient[1] /\ Incoming \in ServerRecords
        /\ Len(toClient) >= 1 /\ toClient' \in Seq(ServerRecords)
        /\ Len(toClient') = Len(toClient) - 1
        /\ \A i \in 1 .. Len(toClient) - 1 : toClient'[i] = toClient[i + 1]
    BY <2>1, HeadFacts DEF TlsInv
  <2>4. Incoming.what = "flight" => client = "flight" /\ Incoming.lo = hi + 1
    BY <1>5, <2>1, <2>2, Due
  <2>5. client = "flight" => lo = hi + 1
    BY <2>2 DEF TlsInv, InStep, Reading, Hashed
  <2>6. lo' = lo
    BY <1>5, <2>4, <2>5
  <2>7. ASSUME server' = "finished"
        PROVE  hi' = Halves \/ \E j \in DOMAIN toClient' :
                  toClient'[j].what = "flight" /\ toClient'[j].hi = Halves
    <3>1. server = "finished" /\ lo < Halves
      BY <1>5, <2>1, <2>2, <2>7 DEF serverVars
    <3>2. hi # Halves
      <4>1. client = "hello" => hi = 0
        BY DEF TlsInv, Turns
      <4> QED
        BY <1>0, <1>5, <2>5, <3>1, <4>1
    <3>3. PICK j \in 1 .. Len(toClient) :
                  toClient[j].what = "flight" /\ toClient[j].hi = Halves
      BY <1>0, <1>5, <2>2, <3>1, <3>2
    <3>4. CASE j = 1
      BY <1>5, <2>3, <3>3, <3>4
    <3>5. CASE j # 1
      <4>1. j - 1 \in 1 .. Len(toClient) - 1 /\ toClient'[j - 1] = toClient[j]
        BY <1>0, <2>3, <3>5
      <4>2. j - 1 \in DOMAIN toClient'
        BY <1>0, <2>3, <4>1
      <4> QED
        BY <3>3, <4>1, <4>2
    <3> QED
      BY <3>4, <3>5
  <2>8. lo' < Halves
    BY <1>5, <2>2, <2>6
  <2> QED
    BY <2>7, <2>8
<1>6. CASE SkipCcs
  <2> SUFFICES ASSUME Sound', client' \in {"hello", "flight", "parse"} PROVE FinishedIsAhead'
    OBVIOUS
  <2>1. /\ Read /\ Awaiting /\ Sound /\ toClient # <<>> /\ Incoming.ct = "ccs"
        /\ UNCHANGED <<client, lo, hi>>
    BY <1>6 DEF SkipCcs, Read, serverVars, clientVars
  <2>2. Incoming.what # "flight"
    BY <2>1, Due DEF Awaiting
  <2> QED
    BY <1>5, <2>1, <2>2 DEF Awaiting
<1>7. CASE ReadServerHello
  <2> SUFFICES ASSUME Sound', client' \in {"hello", "flight", "parse"} PROVE FinishedIsAhead'
    OBVIOUS
  <2> QED
    BY <1>5, <1>7 DEF ReadServerHello
<1>8. CASE ReadFlight
  <2> SUFFICES ASSUME Sound', client' \in {"hello", "flight", "parse"} PROVE FinishedIsAhead'
    OBVIOUS
  <2>1. /\ Read /\ Awaiting /\ Sound /\ toClient # <<>> /\ Incoming.ct = "application"
        /\ client = "flight"
    BY <1>8 DEF ReadFlight, Read, serverVars
  <2>2. Incoming.what = "flight"
    BY <2>1, Due
  <2>3. hi' = Incoming.hi /\ lo' = Incoming.lo
    BY <1>8 DEF ReadFlight, Fail
  <2> QED
    BY <1>5, <2>1, <2>2, <2>3
<1>9. CASE ParseMessage
  <2> SUFFICES ASSUME Sound', client' = "parse" PROVE FinishedIsAhead'
    BY <1>9 DEF ParseMessage
  <2>1. /\ client = "parse" /\ lo % 2 = 1 /\ lo + 1 <= hi /\ Message # "Finished"
        /\ lo' = lo + 2
        /\ UNCHANGED <<hi, serverVars, toClient, conn>>
    BY <1>9 DEF ParseMessage, Complete, Starts, netVars
  <2>2. Sound /\ lo < Halves
    BY <2>1 DEF serverVars
  <2>3. lo # Halves - 1
    <3> SUFFICES ASSUME lo = Halves - 1 PROVE FALSE
      OBVIOUS
    <3>1. (lo + 1) \div 2 = Len(Messages)
      BY <1>0, FlightFacts
    <3> QED
      BY <2>1, <3>1, FlightFacts DEF Message
  <2>4. lo + 2 < Halves
    <3>1. Halves % 2 = 0
      BY FlightFacts
    <3> QED
      BY <1>0, <2>1, <2>2, <2>3, <3>1
  <2> QED
    BY <2>1, <2>2, <2>4 DEF serverVars
<1>10. CASE ParseEnds
  BY <1>10 DEF ParseEnds, serverVars, netVars
<1>11. CASE ParseGarbage
  BY <1>11 DEF ParseGarbage, Starts, TlsInv, InStep, Reading, Hashed, serverVars, netVars
<1>12. ASSUME NEW r, toClient' = Append(toClient, r), r \in ServerRecords,
              UNCHANGED <<client, lo, hi, cut>>, server' # "finished" \/ UNCHANGED server
       PROVE  server # "refused" /\ conn = "open" => FinishedIsAhead'
  <2>1. /\ DOMAIN toClient' = 1 .. Len(toClient) + 1
        /\ \A j \in 1 .. Len(toClient) : toClient'[j] = toClient[j]
    BY <1>0, <1>12
  <2> QED
    BY <1>0, <1>12, <2>1
<1>13. CASE ServerHello \/ ServerDeclines \/ ServerAborts
  BY <1>13
     DEF ServerHello, ServerDeclines, ServerAborts, clientVars, Reply, TlsInv, Turns
<1>14. CASE ServerCcs \/ ServerTicket
  <2>1. /\ server # "finished"
        /\ UNCHANGED <<client, server, lo, hi, cut>> /\ server' # "refused" /\ conn = "open"
    BY <1>14 DEF ServerCcs, ServerTicket, clientVars, Reply
  <2> QED
    BY <2>1
<1>15. ASSUME NEW n \in 1 .. Halves, ServerFlight(n) PROVE FinishedIsAhead'
  <2> SUFFICES ASSUME Sound', client' \in {"hello", "flight", "parse"} PROVE FinishedIsAhead'
    OBVIOUS
  <2> DEFINE r == [ct |-> "application", key |-> HsKey("s"), seq |-> sentSeq,
                   what |-> "flight", lo |-> sentHalves + 1, hi |-> n]
  <2>1. /\ toClient' = Append(toClient, r) /\ UNCHANGED <<client, lo, hi, conn>>
        /\ server' = (IF n = Halves THEN "finished" ELSE "flight") /\ server = "flight"
        /\ ~cut' => ~cut
    BY <1>15 DEF ServerFlight, Reply, clientVars
  <2>2. ~cut
    BY <1>15, FlightFacts DEF ServerFlight, TlsInv, TlsTypeOK
  <2>3. Sound /\ lo < Halves
    BY <2>1, <2>2
  <2>4. r.what = "flight" /\ r.hi = n
    OBVIOUS
  <2> HIDE DEF r
  <2>5. Len(toClient) + 1 \in DOMAIN toClient' /\ toClient'[Len(toClient) + 1] = r
    BY <1>0, <2>1
  <2>6. server' = "finished" =>
           /\ toClient'[Len(toClient) + 1].what = "flight"
           /\ toClient'[Len(toClient) + 1].hi = Halves
    BY <2>1, <2>4, <2>5
  <2> QED
    BY <2>1, <2>3, <2>5, <2>6
<1>16. CASE ServerFinished \/ ServerRequest
  BY <1>16 DEF ServerFinished, ServerRequest, Receives, clientVars
<1>17. CASE Close \/ Over
  BY <1>17 DEF Close, Over, tlsVars, clientVars, serverVars, netVars
<1> QED
  BY <1>1, <1>2, <1>4, <1>6, <1>7, <1>8, <1>9, <1>10, <1>11, <1>13, <1>14, <1>15, <1>16, <1>17
     DEF TlsNext, ClientStep, ServerStep, ServerMay

LEMMA RefusalStep ==
  ASSUME TlsInv, RefusalIsAhead, [TlsNext]_tlsVars
  PROVE  RefusalIsAhead'
<1> USE TlsInv, RefusalIsAhead DEF RefusalIsAhead
<1> SUFFICES ASSUME server' = "refused", conn' = "open"
             PROVE  /\ client' \in {"hello", "failed"}
                    /\ client' = "hello" =>
                          /\ Len(toClient') = 1
                          /\ toClient'[1].what = "unusable" /\ toClient'[1].ct # "ccs"
  OBVIOUS
<1>1. CASE ServerDeclines
  <2>1. /\ server = "hello" /\ UNCHANGED client
        /\ toServer # <<>>
        /\ \E ct \in {"handshake", "alert"} :
              toClient' = Append(toClient, Record(ct, Plain, 0, "unusable"))
    BY <1>1 DEF ServerDeclines, Reply, clientVars
  <2>2. toClient = <<>> /\ client \in {"start", "hello", "failed"} /\ client # "start"
    BY <2>1 DEF TlsInv, ServerCounts, Turns
  <2>3. PICK ct \in {"handshake", "alert"} : toClient' = <<Record(ct, Plain, 0, "unusable")>>
    BY <2>1, <2>2, QueueFacts
  <2> QED
    BY <2>1, <2>2, <2>3 DEF Record
<1>2. CASE server = "refused" /\ conn = "open"
  <2>1. client = "failed" => client' = "failed"
    BY <1>2
       DEF TlsNext, ClientStep, ServerStep, ServerMay, SendHello, NoConnection, BadProfile,
           ReadFails, SkipCcs, ReadServerHello, ReadOther, ReadFlight, Read, Awaiting, Fail,
           ParseMessage, ParseEnds, ParseGarbage, Verify, VerifyFails, SendRequest, WriteFails,
           ServerHello, ServerDeclines, ServerFlight, ServerFinished, ServerRequest, Receives,
           ServerCcs, ServerAborts, ServerTicket, Close, Over, clientVars, tlsVars
  <2>2. ASSUME client = "hello"
        PROVE  client' = "failed" \/ UNCHANGED <<client, toClient>>
    <3>1. toClient # <<>> /\ Incoming.what = "unusable" /\ Incoming.ct # "ccs"
      BY <1>2, <2>2 DEF Incoming
    <3> QED
      BY <1>2, <2>2, <3>1
       DEF TlsNext, ClientStep, ServerStep, ServerMay, SendHello, NoConnection, BadProfile,
           ReadFails, SkipCcs, ReadServerHello, ReadOther, ReadFlight, Read, Awaiting, Fail,
           ParseMessage, ParseEnds, ParseGarbage, Verify, VerifyFails, SendRequest, WriteFails,
           ServerHello, ServerDeclines, ServerFlight, ServerFinished, ServerRequest, Receives,
           ServerCcs, ServerAborts, ServerTicket, Close, Over, clientVars, netVars, tlsVars
  <2> QED
    BY <1>2, <2>1, <2>2
<1>3. ServerDeclines \/ (server = "refused" /\ conn = "open")
  BY DEF TlsNext, ClientStep, ServerStep, ServerMay, SendHello, NoConnection, BadProfile,
         ReadFails, SkipCcs, ReadServerHello, ReadOther, ReadFlight, Read, Awaiting, Fail,
         ParseMessage, ParseEnds, ParseGarbage, Verify, VerifyFails, SendRequest, WriteFails,
         ServerHello, ServerDeclines, ServerFlight, ServerFinished, ServerRequest, Receives,
         ServerCcs, ServerAborts, ServerTicket, Close, Over, SendRecord, Reply, clientVars,
         serverVars, netVars, tlsVars
<1> QED
  BY <1>1, <1>2, <1>3

(* Neither end of the handshake waits for the other while the other waits   *)
(* for it: until connect has returned, either it has something to do or the *)
(* server has something to send it, unless a message was cut between        *)
(* records.  With HandshakeStepsBounded this is why connect returns: that   *)
(* what can be done is done is the fairness of TlsFairSpec.                 *)
THEOREM NobodyWaitsForever == TlsSpec => []NeverBothWait
<1>1. TlsInit => Ahead
  BY FlightFacts DEF TlsInit, Ahead, FinishedIsAhead, RefusalIsAhead
<1>2. TlsInv /\ Ahead /\ [TlsNext]_tlsVars => Ahead'
  BY FinishedStep, RefusalStep DEF Ahead
<1>3. TlsInv /\ Ahead => NeverBothWait
  <2> SUFFICES ASSUME TlsInv, Ahead, ~cut, conn = "open", toClient = <<>>,
                      client \in {"hello", "flight"}, server # "flight",
                      ~(server = "hello" /\ toServer # <<>>)
               PROVE  FALSE
    BY DEF NeverBothWait, ClientCan, ServerCan, Awaiting, TlsInv, TlsTypeOK
  <2>1. server # "refused"
    BY DEF Ahead, RefusalIsAhead
  <2>2. server # "hello"
    BY QueueFacts DEF TlsInv, Turns
  <2>3. server # "open"
    BY DEF TlsInv, Turns
  <2>4. Sound /\ server = "finished"
    BY <2>1, <2>2, <2>3 DEF Sound, TlsInv, TlsTypeOK
  <2>5. hi = Halves /\ lo < Halves
    BY <2>4 DEF Ahead, FinishedIsAhead
  <2>6. client = "flight"
    BY <2>4 DEF TlsInv, InStep, Reading, Aligned
  <2>7. lo = hi + 1
    BY <2>4, <2>6 DEF TlsInv, InStep, Reading, Hashed
  <2> QED
    BY <2>5, <2>7, FlightFacts DEF TlsInv, TlsTypeOK
<1> QED
  BY <1>1, <1>2, <1>3, TlsInvHolds, PTL DEF TlsSpec

-----------------------------------------------------------------------------
(* What is left to do.  A record costs its reader less than RecordCost, and *)
(* a server that has declined or is through sends no more than its tickets. *)
RecordCost == 2 * Halves + 6
ClientPlace ==
    CASE client = "start"   -> 4
      [] client \in {"hello", "flight"} -> 3
      [] client = "parse"   -> 4 + (hi + 1 - lo)
      [] client = "verify"  -> 2
      [] client = "request" -> 1
      [] OTHER              -> 0
ServerPlace == CASE server = "hello" -> 2 [] server = "flight" -> 1 [] OTHER -> 0
ToSend      == (Halves - sentHalves) + (MaxExtra - extra) + ServerPlace
Waiting     == Len(toClient) + 2 * ToSend
ToClose     == IF conn = "open" THEN 1 ELSE 0
Rest        == 2 * ClientPlace + Len(toServer) + ToClose
StepsLeft   == RecordCost * Waiting + Rest
HandshakeLimit == RecordCost * (2 * (Halves + MaxExtra + 2)) + 9

(* The sequence on its way to the server. *)
LEMMA ToServerFacts ==
  ASSUME TlsInv
  PROVE  \E S : toServer \in Seq(S)
<1> DEFINE S == {ClientHello, ClientFinished, Request}
<1>1. \A x, y \in S : <<x>> \in Seq(S) /\ <<x, y>> \in Seq(S) /\ <<>> \in Seq(S)
  OBVIOUS
<1>2. ClientHello \in S /\ ClientFinished \in S /\ Request \in S
  OBVIOUS
<1> HIDE DEF S
<1>3. toServer \in {<<>>, <<ClientHello>>, <<ClientFinished>>, <<Request>>,
                    <<ClientFinished, Request>>}
  BY DEF TlsInv, Turns, TlsTypeOK
<1>4. toServer \in Seq(S)
  BY <1>1, <1>2, <1>3
<1> QED
  BY <1>4

LEMMA LessOften ==
  ASSUME NEW c \in Nat, NEW a \in Int, NEW b \in Int, b < a
  PROVE  c * b <= c * a - c /\ c * a \in Int /\ c * b \in Int
<1>1. a - b - 1 \in Nat
  OBVIOUS
<1>2. c * (a - b - 1) \in Nat
  BY <1>1
<1>3. c * (a - b - 1) = c * a - c * b - c
  OBVIOUS
<1> QED
  BY <1>2, <1>3

(* The ranges of what is counted. *)
StepsInRange ==
    /\ Halves \in Nat /\ Halves >= 2 /\ MaxExtra \in Nat
    /\ RecordCost \in Nat /\ RecordCost = 2 * Halves + 6
    /\ Len(toClient) \in Nat /\ Len(toServer) \in 0 .. 2
    /\ toClient \in Seq(ServerRecords)
    /\ lo \in 1 .. Halves + 1 /\ hi \in 0 .. Halves /\ lo <= hi + 1
    /\ sentHalves \in 0 .. Halves /\ extra \in 0 .. MaxExtra
    /\ ServerPlace \in 0 .. 2 /\ ToClose \in 0 .. 1
    /\ ToSend \in Nat /\ ClientPlace \in 0 .. Halves + 4
    /\ Waiting \in Nat /\ Rest \in Nat /\ StepsLeft \in Nat

LEMMA StepsFacts == TlsInv => StepsInRange
<1> SUFFICES ASSUME TlsInv PROVE StepsInRange
  OBVIOUS
<1>0. Halves \in Nat /\ Halves >= 2 /\ MaxExtra \in Nat
  BY FlightFacts, ExtraAssumption
<1>1. /\ lo \in 1 .. Halves + 1 /\ hi \in 0 .. Halves /\ lo <= hi + 1
      /\ sentHalves \in 0 .. Halves /\ extra \in 0 .. MaxExtra
  BY DEF TlsInv, TlsTypeOK
<1>2. toClient \in Seq(ServerRecords) /\ Len(toClient) \in Nat
  BY DEF TlsInv, WellFormed
<1>3. Len(toServer) \in 0 .. 2
  BY DEF TlsInv, Turns, TlsTypeOK
<1>4. ServerPlace \in 0 .. 2 /\ ToClose \in 0 .. 1
  BY DEF ServerPlace, ToClose
<1>5. ToSend \in Nat
  BY <1>0, <1>1, <1>4 DEF ToSend
<1>6. ClientPlace \in 0 .. Halves + 4
  BY <1>0, <1>1 DEF ClientPlace
<1>7. RecordCost \in Nat /\ RecordCost = 2 * Halves + 6
  BY <1>0 DEF RecordCost
<1>8. Waiting \in Nat /\ Rest \in Nat
  BY <1>0, <1>2, <1>3, <1>4, <1>5, <1>6 DEF Waiting, Rest
<1>9. StepsLeft \in Nat
  <2>1. RecordCost * Waiting \in Nat
    BY <1>7, <1>8
  <2> QED
    BY <1>8, <2>1 DEF StepsLeft
<1> QED
  BY <1>0, <1>1, <1>2, <1>3, <1>4, <1>5, <1>6, <1>7, <1>8, <1>9 DEF StepsInRange

LEMMA StepsFactsNext == TlsInv' => StepsInRange'
BY StepsFacts, PTL

LEMMA CostIsFixed == Halves' = Halves /\ RecordCost' = RecordCost
BY DEF RecordCost, Halves, Messages

(* Fewer records pay for whatever else there is to do.                     *)
LEMMA FewerSteps ==
  ASSUME TlsInv, TlsInv',
         \/ Waiting' < Waiting /\ Rest' < Rest + RecordCost
         \/ Waiting' = Waiting /\ Rest' < Rest
  PROVE  StepsLeft' < StepsLeft
<1>1. Waiting \in Nat /\ Rest \in Nat /\ RecordCost \in Nat
  BY StepsFacts DEF StepsInRange
<1>2. PICK w \in Nat, r \in Nat : Waiting' = w /\ Rest' = r
  BY StepsFactsNext DEF StepsInRange
<1>3. RecordCost' = RecordCost
  BY CostIsFixed
<1>4. CASE Waiting' < Waiting /\ Rest' < Rest + RecordCost
  <2>1. /\ RecordCost * w <= RecordCost * Waiting - RecordCost
        /\ RecordCost * Waiting \in Int /\ RecordCost * w \in Int
    BY <1>1, <1>2, <1>4, LessOften
  <2> QED
    BY <1>1, <1>2, <1>3, <1>4, <2>1 DEF StepsLeft
<1>5. CASE Waiting' = Waiting /\ Rest' < Rest
  <2>1. RecordCost * Waiting \in Int
    BY <1>1
  <2> QED
    BY <1>1, <1>2, <1>3, <1>5, <2>1 DEF StepsLeft
<1> QED
  BY <1>4, <1>5

LEMMA StepLowers ==
  ASSUME TlsInv, TlsInv', TlsNext, ~UNCHANGED tlsVars
  PROVE  StepsLeft' < StepsLeft
<1>0. /\ Halves \in Nat /\ Halves >= 2 /\ MaxExtra \in Nat
      /\ RecordCost \in Nat /\ RecordCost = 2 * Halves + 6
      /\ Len(toClient) \in Nat /\ Len(toServer) \in Nat
      /\ toClient \in Seq(ServerRecords)
      /\ lo \in 1 .. Halves + 1 /\ hi \in 0 .. Halves /\ lo <= hi + 1
      /\ sentHalves \in 0 .. Halves /\ extra \in 0 .. MaxExtra
      /\ ServerPlace \in 0 .. 2 /\ ToClose \in 0 .. 1
      /\ ToSend \in Nat /\ ClientPlace \in 0 .. Halves + 4
  BY StepsFacts DEF StepsInRange
<1>a. /\ Len(toServer') \in Nat /\ Len(toClient') \in Nat /\ ClientPlace' \in 0 .. Halves + 4
      /\ ToSend' \in Nat /\ ToClose' \in 0 .. 1
      /\ lo' \in 1 .. Halves + 1 /\ hi' \in 0 .. Halves /\ lo' <= hi' + 1
  BY StepsFactsNext, CostIsFixed DEF StepsInRange
<1>n. PICK w \in Nat, t \in Nat, p \in 0 .. Halves + 4, s \in Nat, o \in 0 .. 1 :
         /\ Len(toClient') = w /\ ToSend' = t /\ ClientPlace' = p
         /\ Len(toServer') = s /\ ToClose' = o
  BY <1>a
<1>b. SUFFICES \/ Waiting' < Waiting /\ Rest' < Rest + RecordCost
               \/ Waiting' = Waiting /\ Rest' < Rest
  BY FewerSteps
<1>c. /\ Waiting = Len(toClient) + 2 * ToSend /\ Waiting' = Len(toClient') + 2 * ToSend'
      /\ Rest = 2 * ClientPlace + Len(toServer) + ToClose
      /\ Rest' = 2 * ClientPlace' + Len(toServer') + ToClose'
  BY DEF Waiting, Rest
<1>g. conn' \in {conn, "closed"} => ToClose' <= ToClose
  BY DEF ToClose
<1>d. \A x : Len(Append(toServer, x)) = Len(toServer) + 1
  BY ToServerFacts
<1>e. toServer # <<>> => Len(Tail(toServer)) = Len(toServer) - 1
  BY ToServerFacts
<1>f. UNCHANGED serverVars => ToSend' = ToSend
  BY CostIsFixed DEF serverVars, ServerPlace, ToSend
(* Records are read, the client moves on, records are sent.                 *)
<1>1. ASSUME Read
      PROVE  Waiting' < Waiting /\ Rest' < Rest + RecordCost
  <2>1. /\ Len(toClient') = Len(toClient) - 1 /\ ToSend' = ToSend
        /\ Len(toServer') = Len(toServer) /\ ToClose' <= ToClose
    BY <1>0, <1>1, <1>f, <1>g DEF Read
  <2>2. ClientPlace = 3
    BY <1>1 DEF Read, Awaiting, ClientPlace
  <2> QED
    BY <1>0, <1>n, <1>c, <2>1, <2>2
<1>2. CASE SkipCcs \/ ReadServerHello \/ ReadOther \/ ReadFlight
  BY <1>1, <1>2 DEF SkipCcs, ReadServerHello, ReadOther, ReadFlight
<1>3. ASSUME ClientPlace' < ClientPlace, UNCHANGED <<serverVars, toClient>>,
             \/ UNCHANGED toServer
             \/ \E x : toServer' = Append(toServer, x),
             conn' \in {conn, "closed"}
      PROVE  Waiting' = Waiting /\ Rest' < Rest
  <2>1. Len(toClient') = Len(toClient) /\ ToSend' = ToSend /\ ToClose' <= ToClose
    BY <1>3, <1>f, <1>g
  <2>2. Len(toServer') <= Len(toServer) + 1
    BY <1>3, <1>0, <1>d
  <2> QED
    BY <1>3, <1>0, <1>n, <1>c, <2>1, <2>2
<1>4. CASE SendHello \/ Verify \/ SendRequest
  <2>1. ClientPlace' < ClientPlace
    BY <1>4 DEF SendHello, Verify, SendRequest, ClientPlace
  <2> QED
    BY <1>3, <1>4, <2>1 DEF SendHello, Verify, SendRequest, SendRecord
<1>5. CASE NoConnection \/ BadProfile \/ ReadFails \/ VerifyFails \/ WriteFails
  <2>1. ClientPlace' < ClientPlace
    BY <1>5 DEF NoConnection, BadProfile, ReadFails, VerifyFails, WriteFails, Fail, Awaiting, ClientPlace
  <2> QED
    BY <1>3, <1>5, <2>1
       DEF NoConnection, BadProfile, ReadFails, VerifyFails, WriteFails, netVars
<1>6. CASE ParseMessage \/ ParseEnds \/ ParseGarbage
  <2>1. client = "parse" /\ ClientPlace = 4 + (hi + 1 - lo)
    BY <1>6 DEF ParseMessage, ParseEnds, ParseGarbage, ClientPlace
  <2>2. \/ client' \in {"flight", "verify", "failed"}
        \/ client' = "parse" /\ hi' = hi /\ lo' > lo
    <3>1. CASE ParseMessage
      BY <1>0, <3>1 DEF ParseMessage
    <3>2. CASE ParseEnds
      BY <3>2 DEF ParseEnds
    <3>3. CASE ParseGarbage
      BY <1>0, <3>3 DEF ParseGarbage
    <3> QED
      BY <1>6, <3>1, <3>2, <3>3
  <2>3. ClientPlace' < ClientPlace
    <3>1. CASE client' \in {"flight", "verify", "failed"}
      <4>1. ClientPlace' \in {3, 2, 0}
        BY <3>1 DEF ClientPlace
      <4> QED
        BY <1>0, <2>1, <4>1
    <3>2. CASE client' = "parse" /\ hi' = hi /\ lo' > lo
      <4>1. PICK l \in Int : lo' = l
        BY <1>a
      <4>2. ClientPlace' = 4 + (hi' + 1 - lo')
        BY <3>2 DEF ClientPlace
      <4> QED
        BY <1>0, <2>1, <3>2, <4>1, <4>2
    <3> QED
      BY <2>2, <3>1, <3>2
  <2> QED
    BY <1>3, <1>6, <2>3
       DEF ParseMessage, ParseEnds, ParseGarbage, netVars
<1>7. ASSUME ToSend' < ToSend, UNCHANGED clientVars, \E x \in ServerRecords : toClient' = Append(toClient, x),
             Len(toServer') <= Len(toServer), conn' \in {conn, "closed"}
      PROVE  Waiting' < Waiting /\ Rest' < Rest + RecordCost
  <2>1. Len(toClient') = Len(toClient) + 1
    BY <1>0, <1>7
  <2>2. ClientPlace' = ClientPlace
    BY <1>0, <1>7 DEF clientVars, ClientPlace
  <2>3. ToClose' <= ToClose
    BY <1>7, <1>g
  <2> QED
    BY <1>0, <1>7, <1>n, <1>c, <2>1, <2>2, <2>3
<1>8. ASSUME NEW r, toClient' = Append(toClient, r) PROVE r \in ServerRecords
  <2>1. toClient' \in Seq(ServerRecords)
    BY DEF TlsInv, WellFormed
  <2>2. Len(toClient') = Len(toClient) + 1 /\ toClient'[Len(toClient) + 1] = r
    BY <1>0, <1>8
  <2> QED
    BY <1>0, <2>1, <2>2
<1>9. CASE ServerHello \/ ServerDeclines
  <2>1. ToSend' < ToSend
    <3>1. ServerPlace = 2 /\ ServerPlace' \in 0 .. 1 /\ UNCHANGED <<sentHalves, extra>>
      BY <1>9 DEF ServerHello, ServerDeclines, ServerPlace
    <3>2. PICK v \in 0 .. 1 : ServerPlace' = v
      BY <3>1
    <3> QED
      BY <1>0, <3>1, <3>2, CostIsFixed DEF ToSend
  <2>2. Len(toServer') <= Len(toServer)
    <3>1. toServer # <<>> /\ toServer' = Tail(toServer)
      BY <1>9 DEF ServerHello, ServerDeclines
    <3> QED
      BY <1>0, <1>e, <3>1
  <2>3. PICK r : toClient' = Append(toClient, r)
    BY <1>9 DEF ServerHello, ServerDeclines, Reply
  <2> QED
    BY <1>7, <1>8, <1>9, <2>1, <2>2, <2>3 DEF ServerHello, ServerDeclines, Reply
<1>10. CASE ServerCcs \/ ServerTicket \/ ServerAborts
  <2>1. ToSend' < ToSend
    <3>1. CASE ServerCcs \/ ServerTicket
      <4>1. UNCHANGED <<server, sentHalves>> /\ extra' = extra + 1
        BY <3>1 DEF ServerCcs, ServerTicket
      <4>2. ServerPlace' = ServerPlace
        BY <4>1 DEF ServerPlace
      <4> QED
        BY <1>0, <4>1, <4>2, CostIsFixed DEF ToSend
    <3>2. CASE ServerAborts
      <4>1. ServerPlace = 1 /\ ServerPlace' = 0 /\ UNCHANGED <<sentHalves, extra>>
        BY <3>2 DEF ServerAborts, ServerPlace
      <4> QED
        BY <1>0, <4>1, CostIsFixed DEF ToSend
    <3> QED
      BY <1>10, <3>1, <3>2
  <2>2. Len(toServer') <= Len(toServer)
    <3>1. toServer' = toServer
      BY <1>10 DEF ServerCcs, ServerTicket, ServerAborts
    <3> QED
      BY <1>0, <3>1
  <2>3. PICK r : toClient' = Append(toClient, r)
    BY <1>10 DEF ServerCcs, ServerTicket, ServerAborts, Reply
  <2> QED
    BY <1>7, <1>8, <1>10, <2>1, <2>2, <2>3 DEF ServerCcs, ServerTicket, ServerAborts, Reply
<1>11. ASSUME NEW n \in 1 .. Halves, ServerFlight(n)
       PROVE  Waiting' < Waiting /\ Rest' < Rest + RecordCost
  <2>1. ToSend' < ToSend
    <3>1. ServerPlace = 1 /\ ServerPlace' \in 0 .. 1
      BY <1>11 DEF ServerFlight, ServerPlace
    <3>2. sentHalves' = n /\ sentHalves < n /\ UNCHANGED extra
      BY <1>11 DEF ServerFlight
    <3>3. PICK v \in 0 .. 1 : ServerPlace' = v
      BY <3>1
    <3> QED
      BY <1>0, <3>1, <3>2, <3>3, CostIsFixed DEF ToSend
  <2>2. Len(toServer') <= Len(toServer)
    <3>1. toServer' = toServer
      BY <1>11 DEF ServerFlight
    <3> QED
      BY <1>0, <3>1
  <2>3. PICK r : toClient' = Append(toClient, r)
    BY <1>11 DEF ServerFlight, Reply
  <2> QED
    BY <1>7, <1>8, <1>11, <2>1, <2>2, <2>3 DEF ServerFlight, Reply
<1>12. CASE ServerFinished \/ ServerRequest
  <2>1. ToSend' = ToSend
    <3>1. ServerPlace' = ServerPlace /\ UNCHANGED <<sentHalves, extra>>
      BY <1>12 DEF ServerFinished, ServerRequest, Receives, ServerPlace
    <3> QED
      BY <3>1, CostIsFixed DEF ToSend
  <2>2. Len(toServer') = Len(toServer) - 1
    BY <1>12, <1>e DEF ServerFinished, ServerRequest, Receives
  <2>3. UNCHANGED <<toClient, conn>> /\ ClientPlace' = ClientPlace /\ ToClose' = ToClose
    BY <1>12 DEF ToClose, ServerFinished, ServerRequest, Receives, clientVars, ClientPlace
  <2> QED
    BY <1>0, <1>a, <1>c, <2>1, <2>2, <2>3
<1>13. CASE Close
  <2>1. ToSend' = ToSend /\ UNCHANGED <<toClient, toServer>> /\ ClientPlace' = ClientPlace
    BY <1>13, <1>f DEF Close, clientVars, ClientPlace
  <2>2. ToClose' = ToClose - 1
    BY <1>13 DEF Close, ToClose
  <2> QED
    BY <1>0, <1>a, <1>c, <2>1, <2>2
<1>14. ~Over
  BY DEF Over
<1> QED
  BY <1>2, <1>4, <1>5, <1>6, <1>9, <1>10, <1>11, <1>12, <1>13, <1>14
     DEF TlsNext, ClientStep, ServerStep, ServerMay

(* The handshake is over after a number of steps that the length of the     *)
(* flight gives, however the flight is cut and packed and whatever the      *)
(* network does: no step of connect, of the server or of the network can be *)
(* taken for ever.  The parse loop passes over some half in every round,    *)
(* and a record is read only once.                                          *)
THEOREM HandshakeStepsBounded ==
  TlsSpec => [](StepsLeft \in 0 .. HandshakeLimit) /\ [][StepsLeft' < StepsLeft]_tlsVars
<1>1. TlsInv /\ TlsInv' /\ [TlsNext]_tlsVars => [StepsLeft' < StepsLeft]_tlsVars
  BY StepLowers
<1>2. TlsInv => StepsLeft \in Nat
  BY StepsFacts DEF StepsInRange
<1>3. TlsInit => StepsLeft = HandshakeLimit
  <2> SUFFICES ASSUME TlsInit PROVE StepsLeft = HandshakeLimit
    OBVIOUS
  <2>1. Halves \in Nat /\ MaxExtra \in Nat
    BY FlightFacts, ExtraAssumption
  <2>2. /\ ServerPlace = 2 /\ ClientPlace = 4 /\ Len(toClient) = 0
        /\ Len(toServer) = 0 /\ ToClose = 1
    BY DEF TlsInit, ServerPlace, ClientPlace, ToClose
  <2>3. ToSend = Halves + MaxExtra + 2
    BY <2>1, <2>2 DEF TlsInit, ToSend
  <2>4. Waiting = 2 * (Halves + MaxExtra + 2) /\ Rest = 9
    BY <2>1, <2>2, <2>3 DEF Waiting, Rest
  <2> QED
    BY <2>4 DEF StepsLeft, HandshakeLimit
<1>4. HandshakeLimit' = HandshakeLimit /\ HandshakeLimit \in Nat
  <2>1. Halves \in Nat /\ MaxExtra \in Nat
    BY FlightFacts, ExtraAssumption
  <2>2. RecordCost \in Nat /\ 2 * (Halves + MaxExtra + 2) \in Nat
    BY <2>1 DEF RecordCost
  <2>3. RecordCost * (2 * (Halves + MaxExtra + 2)) \in Nat
    BY <2>2
  <2> QED
    BY <2>3 DEF HandshakeLimit, RecordCost, Halves, Messages
<1>5. TlsInit => StepsLeft <= HandshakeLimit
  BY <1>3, <1>4
<1>6. StepsLeft <= HandshakeLimit /\ TlsInv /\ TlsInv' /\ [TlsNext]_tlsVars
        => (StepsLeft <= HandshakeLimit)'
  <2> SUFFICES ASSUME StepsLeft <= HandshakeLimit, TlsInv, TlsInv', [TlsNext]_tlsVars
               PROVE  StepsLeft' <= HandshakeLimit'
    OBVIOUS
  <2>1. StepsLeft \in Nat /\ StepsLeft' \in Nat
    BY StepsFacts, StepsFactsNext DEF StepsInRange
  <2>2. CASE UNCHANGED tlsVars
    <3>1. StepsLeft' = StepsLeft
      BY <2>2
         DEF StepsLeft, Waiting, Rest, RecordCost, Halves, Messages, ToSend, ServerPlace,
             ToClose, ClientPlace, tlsVars, clientVars,
             serverVars, netVars
    <3> QED
      BY <1>4, <3>1
  <2>3. CASE ~UNCHANGED tlsVars
    BY <1>4, <2>1, <2>3, StepLowers
  <2> QED
    BY <2>2, <2>3
<1>7. TlsInv /\ StepsLeft <= HandshakeLimit => StepsLeft \in 0 .. HandshakeLimit
  BY <1>2, <1>4
<1> QED
  BY <1>1, <1>5, <1>6, <1>7, TlsInvHolds, PTL DEF TlsSpec
=============================================================================
