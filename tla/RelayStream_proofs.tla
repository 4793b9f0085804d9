-------------------------- MODULE RelayStream_proofs --------------------------
(***************************************************************************)
(* Theorems of RelayStream and FlowRelay.  The types hold for every        *)
(* setting.  That the relay is a BytePipe until the client resends is      *)
(* proved for a client that never has more segments on the way than the    *)
(* channel holds; the run relay_lost shows what happens without this       *)
(* assumption.  The download direction is one without conditions.          *)
(***************************************************************************)
EXTENDS FlowRelay, TLAPS

LEMMA SeqFacts ==
    ASSUME NEW S, NEW s \in Seq(S)
    PROVE  /\ Len(s) \in Nat
           /\ \A x \in S : Append(s, x) \in Seq(S)
           /\ s # <<>> => /\ Head(s) \in S /\ Head(s) = s[1]
                          /\ Tail(s) \in Seq(S) /\ Len(Tail(s)) = Len(s) - 1
                          /\ Len(s) > 0
OBVIOUS

LEMMA EmptySeq ==
    ASSUME NEW S
    PROVE  <<>> \in Seq(S) /\ Len(<<>>) = 0
OBVIOUS

LEMMA QueuedMessage ==
    ASSUME CountsOK, NEW n \in Segments, TrySend(n)
    PROVE  queue' \in Seq(Segments) /\ Len(queue') <= QueueSize
<1>1. CASE entry /\ task # "ended" /\ Len(queue) < QueueSize
  <2>1. queue' = Append(queue, n)
    BY <1>1 DEF TrySend
  <2> QED
    BY <1>1, <2>1, SizesAssumption DEF SizesAssumption, CountsOK
<1>2. CASE ~(entry /\ task # "ended" /\ Len(queue) < QueueSize)
  <2>1. queue' = queue
    BY <1>2 DEF TrySend
  <2> QED
    BY <2>1 DEF CountsOK
<1> QED
  BY <1>1, <1>2

(* The types of all variables, for every setting of the constants: in       *)
(* particular the channel stays within its capacity, and a relay that is    *)
(* over has left nothing in the table.                                      *)
THEOREM TypeCorrect == StreamSpec => []StreamTypeOK
<1> USE DEF Segments, streamVars, clientVars, relayVars
<1>1. StreamInit => FlagsOK
  BY Zenon DEF StreamInit, FlagsOK
<1>2. StreamInit => CountsOK
  BY SizesAssumption DEF SizesAssumption, StreamInit, CountsOK
<1>3. FlagsOK /\ [StreamNext]_streamVars => FlagsOK'
  BY Zenon DEF FlagsOK, StreamNext, Send, Retransmit, Fin, Removed, Answered, Connected,
     ConnectFailed, End, Recv, RecvNone, Tried, Written, AckFailed, WriteFailed,
     DownloadEnds, AllOver
<1>4. CountsOK /\ [StreamNext]_streamVars => CountsOK'
  <2> SUFFICES ASSUME CountsOK, [StreamNext]_streamVars PROVE CountsOK'
    OBVIOUS
  <2> USE SizesAssumption DEF SizesAssumption, CountsOK
  <2>1. CASE Send
    <3>1. sent' \in Segments /\ queue' \in Seq(Segments) /\ Len(queue') <= QueueSize
      BY <2>1, QueuedMessage DEF Send
    <3>2. task = "ended" => queue' = <<>>
      BY <2>1 DEF Send, TrySend
    <3> QED
      BY <2>1, <3>1, <3>2 DEF Send
  <2>2. ASSUME NEW n \in Segments, Retransmit(n) PROVE CountsOK'
    <3>1. queue' \in Seq(Segments) /\ Len(queue') <= QueueSize
      BY <2>2, QueuedMessage DEF Retransmit
    <3>2. task = "ended" => queue' = <<>>
      BY <2>2 DEF Retransmit, TrySend
    <3> QED
      BY <2>2, <3>1, <3>2 DEF Retransmit
  <2>3. ASSUME NEW d \in 0 .. 1, Fin(d) PROVE CountsOK'
    BY <2>3 DEF Fin
  <2>4. ASSUME End, UNCHANGED <<sent, acked, offered, written>> PROVE CountsOK'
    BY <2>4, EmptySeq DEF End
  <2>5. ASSUME End, UNCHANGED <<sent, acked, offered>>, task = "write",
               written' = Append(written, segment)
        PROVE  CountsOK'
    BY <2>5, EmptySeq, SeqFacts DEF End
  <2>6. CASE Connected
    BY <2>6 DEF Connected
  <2>7. CASE Recv
    BY <2>7, SeqFacts DEF Recv
  <2>8. CASE Written
    BY <2>8, SeqFacts DEF Written
  <2>9. CASE AllOver \/ UNCHANGED streamVars
    BY <2>9 DEF AllOver
  <2>10. CASE Removed
    BY <2>10 DEF Removed
  <2> QED
    BY <2>1, <2>2, <2>3, <2>4, <2>5, <2>6, <2>7, <2>8, <2>9, <2>10 DEF StreamNext, Answered,
       ConnectFailed, RecvNone, Tried, AckFailed, WriteFailed, DownloadEnds
<1> QED
  BY <1>1, <1>2, <1>3, <1>4, PTL DEF StreamSpec, StreamTypeOK

-----------------------------------------------------------------------------
(* What relay_flow has taken out of the channel. *)
Taken == Len(written) + (IF task = "write" THEN 1 ELSE 0)

(* The proxy has the segments in order, no ACK runs ahead of it, and only   *)
(* what found no flow is lost.                                              *)
WrittenInOrder ==
    /\ \A i \in 1 .. Len(written) : written[i] = i
    /\ acked <= Len(written)
    /\ Len(written) <= offered
    /\ offered <= sent
    /\ entry => offered = sent

(* While the relay runs, the segments that found the flow are those         *)
(* written, the one being written and those queued, in this order.          *)
AllAccounted ==
    /\ acked = Len(written)
    /\ task = "write" => segment = Taken
    /\ \A i \in 1 .. Len(queue) : queue[i] = Taken + i
    /\ Taken + Len(queue) = offered

Accounted == WrittenInOrder /\ (task # "ended" => AllAccounted)

StreamInv == resent \/ Accounted

FittingWindow == Window <= QueueSize

LEMMA TakenIsNat ==
    ASSUME CountsOK
    PROVE  /\ Taken \in Nat
           /\ Len(written) <= Taken
           /\ task # "write" => Taken = Len(written)
           /\ task = "write" => Taken = Len(written) + 1
BY DEF CountsOK, Taken

LEMMA AccountedInit == StreamInit => Accounted
BY DEF StreamInit, Accounted, WrittenInOrder, AllAccounted, Taken

LEMMA AccountedStep ==
    ASSUME FittingWindow, StreamTypeOK, Accounted, ~resent', [StreamNext]_streamVars
    PROVE  Accounted'
<1>a. CountsOK
  BY DEF StreamTypeOK
<1>b. WrittenInOrder
  BY DEF Accounted
<1> USE <1>a, SizesAssumption DEF SizesAssumption, Segments, streamVars, clientVars, relayVars
(* The relay ends: only WrittenInOrder is left to keep. *)
<1>c. ASSUME End, UNCHANGED clientVars,
             \/ UNCHANGED written
             \/ task = "write" /\ written' = Append(written, segment)
      PROVE  Accounted'
  <2>1. task' = "ended"
    BY <1>c DEF End
  <2>2. CASE UNCHANGED written
    BY <1>b, <1>c, <2>1, <2>2 DEF Accounted, WrittenInOrder, End
  <2>3. CASE task = "write" /\ written' = Append(written, segment)
    <3>1. segment = Len(written) + 1 /\ Len(written) + 1 <= offered
      BY <2>3, TakenIsNat DEF Accounted, AllAccounted, CountsOK
    <3>2. WrittenInOrder'
      BY <1>b, <1>c, <2>3, <3>1 DEF WrittenInOrder, CountsOK, End
    <3> QED
      BY <2>1, <3>2 DEF Accounted
  <2> QED
    BY <1>c, <2>2, <2>3
<1>1. CASE Send
  <2>1. /\ sent' = sent + 1 /\ sent - acked < Window
        /\ offered' = IF entry THEN sent + 1 ELSE offered
        /\ TrySend(sent + 1)
        /\ UNCHANGED <<acked, entry, task, segment, written>>
    BY <1>1 DEF Send
  <2>2. WrittenInOrder'
    BY <1>b, <2>1 DEF WrittenInOrder, CountsOK
  <2>3. CASE task # "ended" /\ ~entry
    <3>1. AllAccounted /\ UNCHANGED <<queue, offered>>
      BY <2>1, <2>3 DEF Accounted, TrySend
    <3>2. AllAccounted'
      BY <2>1, <3>1 DEF AllAccounted, Taken
    <3> QED
      BY <2>2, <3>2 DEF Accounted
  <2>4. CASE task # "ended" /\ entry
    <3>1. AllAccounted /\ offered = sent /\ offered' = sent + 1
      BY <1>b, <2>1, <2>4 DEF Accounted, WrittenInOrder
    <3>2. Len(queue) < QueueSize
      BY <2>1, <3>1, TakenIsNat DEF AllAccounted, FittingWindow, CountsOK
    <3>3. queue' = Append(queue, sent + 1)
      BY <2>1, <2>4, <3>2 DEF TrySend
    <3>4. Taken' = Taken
      BY <2>1 DEF Taken
    <3>5. /\ Len(queue') = Len(queue) + 1
          /\ \A i \in 1 .. Len(queue) : queue'[i] = queue[i]
          /\ queue'[Len(queue) + 1] = sent + 1
      BY <3>3 DEF CountsOK
    <3>6. Taken + Len(queue) = sent
      BY <3>1 DEF AllAccounted
    <3>a. Len(queue) \in Nat /\ sent \in Nat /\ Taken \in Nat
      BY TakenIsNat DEF CountsOK
    <3>7. \A i \in 1 .. Len(queue') : queue'[i] = Taken' + i
      <4> SUFFICES ASSUME NEW i \in 1 .. Len(queue') PROVE queue'[i] = Taken + i
        BY <3>4
      <4>1. CASE i \in 1 .. Len(queue)
        BY <3>1, <3>5, <4>1 DEF AllAccounted
      <4>2. CASE i = Len(queue) + 1
        BY <3>5, <3>6, <4>2, <3>a
      <4>3. i \in 1 .. Len(queue) \/ i = Len(queue) + 1
        BY <3>5 DEF CountsOK
      <4> QED
        BY <4>1, <4>2, <4>3
    <3>8. Taken' + Len(queue') = offered'
      BY <3>1, <3>4, <3>5, <3>6, <3>a
    <3>9. AllAccounted'
      BY <2>1, <3>1, <3>4, <3>7, <3>8 DEF AllAccounted
    <3> QED
      BY <2>2, <3>9 DEF Accounted
  <2> QED
    BY <2>1, <2>2, <2>3, <2>4 DEF Accounted
<1>2. ASSUME NEW n \in Segments, Retransmit(n) PROVE Accounted'
  BY <1>2 DEF Retransmit
<1>3. CASE (\E d \in 0 .. 1 : Fin(d)) \/ Removed
  <2>1. /\ sent' \in {sent, sent + 1} /\ entry' = FALSE
        /\ UNCHANGED <<acked, offered, queue, task, segment, written>>
    BY <1>3 DEF Fin, Removed, CountsOK
  <2>2. Taken' = Taken
    BY <2>1 DEF Taken
  <2>3. WrittenInOrder'
    BY <1>b, <2>1 DEF WrittenInOrder, CountsOK
  <2>4. AllAccounted => AllAccounted'
    BY <2>1, <2>2 DEF AllAccounted
  <2> QED
    BY <2>1, <2>3, <2>4 DEF Accounted
<1>4. CASE Connected
  BY <1>4 DEF Connected, Accounted, WrittenInOrder, AllAccounted, Taken
<1>5. CASE Recv
  <2>1. /\ task = "select" /\ task' = "write" /\ queue # <<>>
        /\ queue' = Tail(queue) /\ segment' = Head(queue)
        /\ UNCHANGED <<sent, acked, offered, entry, written>>
    BY <1>5 DEF Recv
  <2>2. /\ Len(queue) > 0 /\ segment' = queue[1]
        /\ Len(queue') = Len(queue) - 1
        /\ \A i \in 1 .. Len(queue') : queue'[i] = queue[i + 1]
    BY <2>1 DEF CountsOK
  <2>3. AllAccounted /\ Taken' = Taken + 1
    BY <2>1 DEF Accounted, Taken, CountsOK
  <2>4. \A i \in 1 .. Len(queue) : queue[i] = Taken + i
    BY <2>3 DEF AllAccounted
  <2>5. segment' = Taken'
    BY <2>2, <2>3, <2>4, TakenIsNat DEF CountsOK
  <2>6. \A i \in 1 .. Len(queue') : queue'[i] = Taken' + i
    <3> SUFFICES ASSUME NEW i \in 1 .. Len(queue') PROVE queue'[i] = Taken + 1 + i
      BY <2>3
    <3>1. i + 1 \in 1 .. Len(queue)
      BY <2>2 DEF CountsOK
    <3>2. queue[i + 1] = Taken + (i + 1)
      BY <2>4, <3>1
    <3> QED
      BY <2>2, <3>2, TakenIsNat
  <2>7. Taken' + Len(queue') = offered'
    BY <2>1, <2>2, <2>3, TakenIsNat DEF AllAccounted, CountsOK
  <2>8. AllAccounted'
    BY <2>1, <2>3, <2>5, <2>6, <2>7 DEF AllAccounted
  <2> QED
    BY <1>b, <2>1, <2>8 DEF Accounted, WrittenInOrder
<1>6. CASE Written
  <2>1. /\ task = "write" /\ task' = "select" /\ written' = Append(written, segment)
        /\ acked' = (IF segment > acked THEN segment ELSE acked)
        /\ UNCHANGED <<sent, offered, entry, queue>>
    BY <1>6 DEF Written
  <2>2. AllAccounted /\ segment = Len(written) + 1 /\ Taken = Len(written) + 1
    BY <2>1, TakenIsNat DEF Accounted, AllAccounted
  <2>3. /\ Len(written') = Len(written) + 1
        /\ \A i \in 1 .. Len(written) : written'[i] = written[i]
        /\ written'[Len(written) + 1] = Len(written) + 1
    BY <2>1, <2>2 DEF CountsOK
  <2>4. acked' = Len(written') /\ Taken' = Taken
    BY <2>1, <2>2, <2>3 DEF AllAccounted, CountsOK, Taken
  <2>5. Len(written') <= offered'
    BY <2>1, <2>2, <2>3 DEF AllAccounted, CountsOK
  <2>6. WrittenInOrder'
    BY <1>b, <2>1, <2>3, <2>4, <2>5 DEF WrittenInOrder, CountsOK
  <2>7. AllAccounted'
    BY <2>1, <2>2, <2>4 DEF AllAccounted
  <2> QED
    BY <2>6, <2>7 DEF Accounted
<1>7. CASE AllOver \/ UNCHANGED streamVars
  <2>1. UNCHANGED <<sent, acked, offered, entry, queue, task, segment, written>>
    BY <1>7 DEF AllOver
  <2>2. Taken' = Taken
    BY <2>1 DEF Taken
  <2>3. WrittenInOrder' /\ (AllAccounted => AllAccounted')
    BY <1>b, <2>1, <2>2 DEF WrittenInOrder, AllAccounted
  <2> QED
    BY <2>1, <2>3 DEF Accounted
<1>8. CASE ConnectFailed \/ RecvNone \/ WriteFailed \/ DownloadEnds
  <2>1. End /\ UNCHANGED clientVars /\ UNCHANGED written
    BY <1>8 DEF ConnectFailed, RecvNone, WriteFailed, DownloadEnds
  <2> QED
    BY <1>c, <2>1
<1>9. CASE AckFailed
  <2>1. /\ End /\ UNCHANGED clientVars
        /\ task = "write" /\ written' = Append(written, segment)
    BY <1>9 DEF AckFailed
  <2> QED
    BY <1>c, <2>1
<1> QED
  BY <1>1, <1>2, <1>3, <1>4, <1>5, <1>6, <1>7, <1>8, <1>9 DEF StreamNext, Answered, Tried

LEMMA ResentStays ==
    ASSUME resent, [StreamNext]_streamVars
    PROVE  resent'
BY Zenon DEF StreamNext, Send, Retransmit, Fin, Removed, Answered, Connected, ConnectFailed,
   Recv, RecvNone, Tried, Written, AckFailed, WriteFailed, DownloadEnds, AllOver,
   clientVars, streamVars

LEMMA AlwaysAccounted ==
    ASSUME FittingWindow
    PROVE  StreamSpec => []StreamInv
<1>1. StreamInit => StreamInv
  BY AccountedInit DEF StreamInv
<1>2. StreamTypeOK /\ StreamInv /\ [StreamNext]_streamVars => StreamInv'
  BY AccountedStep, ResentStays DEF StreamInv
<1> QED
  BY <1>1, <1>2, TypeCorrect, PTL DEF StreamSpec

-----------------------------------------------------------------------------
(* Until its client resends, a relay whose client fits the channel          *)
(* implements BytePipe: relay_flow loses, doubles and reorders nothing, and *)
(* its cumulative ACK covers only what write_all has handed to the proxy.   *)
THEOREM RelayIsAPipe ==
    ASSUME FittingWindow
    PROVE  StreamSpec => ImplementsPipe
<1>1. StreamInit => Pipe!PipeInit
  BY DEF StreamInit, Pipe!PipeInit
<1>2. StreamTypeOK /\ StreamInv /\ [StreamNext]_streamVars
      => [Pipe!PipeNext \/ resent]_<<sent, written, acked>>
  <2> SUFFICES ASSUME CountsOK, Accounted, [StreamNext]_streamVars
               PROVE  Pipe!PipeNext \/ UNCHANGED <<sent, written, acked>>
    BY DEF StreamInv, StreamTypeOK
  <2> USE DEF Pipe!PipeNext, clientVars, relayVars
  <2>1. CASE Send
    BY <2>1 DEF Send, Pipe!SendNext
  <2>2. ASSUME NEW n \in Segments, Retransmit(n)
        PROVE  UNCHANGED <<sent, written, acked>>
    BY <2>2 DEF Retransmit
  <2>3. ASSUME NEW d \in 0 .. 1, Fin(d)
        PROVE  Pipe!SendNext \/ UNCHANGED <<sent, written, acked>>
    BY <2>3 DEF Fin, Pipe!SendNext, CountsOK
  <2>4. CASE Answered
    BY <2>4 DEF Answered, Connected, ConnectFailed
  <2>5. CASE Recv \/ RecvNone \/ DownloadEnds \/ WriteFailed
    BY <2>5 DEF Recv, RecvNone, DownloadEnds, WriteFailed
  <2>6. CASE Written \/ AckFailed
    <3>1. task = "write" /\ written' = Append(written, segment) /\ UNCHANGED sent
      BY <2>6 DEF Written, AckFailed
    <3>2. segment = Len(written) + 1 /\ Len(written) + 1 <= sent /\ acked = Len(written)
      BY <3>1, TakenIsNat DEF Accounted, WrittenInOrder, AllAccounted, CountsOK
    <3>3. Len(written') = Len(written) + 1
      BY <3>1 DEF CountsOK
    <3>4. acked' = Len(written) \/ acked' = Len(written) + 1
      BY <2>6, <3>2 DEF Written, AckFailed
    <3>5. acked' \in acked .. Len(written')
      BY <3>2, <3>3, <3>4 DEF CountsOK
    <3>6. Len(written) < sent
      BY <3>2 DEF CountsOK
    <3> QED
      BY <3>1, <3>2, <3>5, <3>6 DEF Pipe!DeliverNext
  <2>7. CASE Removed \/ AllOver \/ UNCHANGED streamVars
    BY <2>7 DEF Removed, AllOver, streamVars
  <2> QED
    BY <2>1, <2>2, <2>3, <2>4, <2>5, <2>6, <2>7 DEF StreamNext, Tried
<1> QED
  BY <1>1, <1>2, TypeCorrect, AlwaysAccounted, PTL DEF StreamSpec, ImplementsPipe

(* Under the same assumption the end of the channel is answered only when   *)
(* everything that found the flow in the table was forwarded.               *)
THEOREM FinForwardsAll ==
    ASSUME FittingWindow
    PROVE  StreamSpec => FinDrains
<1>1. StreamTypeOK /\ StreamInv /\ [StreamNext]_streamVars
      => [(RecvNone /\ ~resent) => Len(written) = offered]_streamVars
  <2> SUFFICES ASSUME CountsOK, Accounted, RecvNone PROVE Len(written) = offered
    BY DEF StreamInv, StreamTypeOK
  <2>1. task = "select" /\ Len(queue) = 0
    BY DEF RecvNone, CountsOK
  <2>2. Taken = Len(written) /\ Taken + Len(queue) = offered
    BY <2>1, TakenIsNat DEF Accounted, AllAccounted
  <2> QED
    BY <2>1, <2>2 DEF CountsOK
<1> QED
  BY <1>1, TypeCorrect, AlwaysAccounted, PTL DEF StreamSpec, FinDrains

(* Under the same assumption every segment that was acknowledged has been   *)
(* written to the proxy: what the run relay_lost shows is due to the window *)
(* alone.                                                                   *)
THEOREM AcksAreTrue ==
    ASSUME FittingWindow
    PROVE  StreamSpec => []AckedIsForwarded
<1>1. StreamTypeOK /\ StreamInv => AckedIsForwarded
  BY DEF StreamTypeOK, CountsOK, StreamInv, Accounted, WrittenInOrder, AckedIsForwarded, Segments
<1> QED
  BY <1>1, TypeCorrect, AlwaysAccounted, PTL
-----------------------------------------------------------------------------
(* While the relay goes on, what is in the channel stays in its place or     *)
(* moves on by one, the first of it to be written next.                     *)
QueueMovesOn ==
    \A i \in DOMAIN queue :
       \/ i \in DOMAIN queue' /\ queue'[i] = queue[i]
       \/ i - 1 \in DOMAIN queue' /\ queue'[i - 1] = queue[i]
       \/ i = 1 /\ task' = "write" /\ segment' = queue[i]

(* And what is being written is written on, or acknowledged.                *)
WriteMovesOn ==
    task = "write" => (task' = "write" /\ segment' = segment) \/ acked' >= segment

MovesOn == task' = "ended" \/ (QueueMovesOn /\ WriteMovesOn /\ acked' >= acked)

LEMMA QueueKept ==
  ASSUME CountsOK, UNCHANGED queue \/ \E n \in Segments : TrySend(n)
  PROVE  QueueMovesOn
<1>1. queue \in Seq(Segments)
  BY DEF CountsOK
<1>2. UNCHANGED queue \/ \E n \in Segments : queue' = Append(queue, n)
  BY DEF TrySend
<1>3. \A i \in DOMAIN queue : i \in DOMAIN queue' /\ queue'[i] = queue[i]
  BY <1>1, <1>2
<1> QED
  BY <1>3 DEF QueueMovesOn

LEMMA StepMovesOn == CountsOK /\ [StreamNext]_streamVars => MovesOn
<1> SUFFICES ASSUME CountsOK, [StreamNext]_streamVars PROVE MovesOn
  OBVIOUS
<1>0. acked \in Nat /\ sent \in Nat /\ segment \in Nat /\ queue \in Seq(Segments)
  BY SizesAssumption DEF CountsOK
<1>1. ASSUME UNCHANGED <<task, segment, acked>>,
             UNCHANGED queue \/ \E n \in Segments : TrySend(n)
      PROVE  MovesOn
  BY <1>0, <1>1, QueueKept DEF MovesOn, WriteMovesOn
<1>2. CASE Send
  <2>1. sent + 1 \in Segments
    BY <1>0, <1>2, SizesAssumption DEF Send, Segments
  <2> QED
    BY <1>1, <1>2, <2>1 DEF Send, relayVars
<1>3. ASSUME NEW n \in Segments, Retransmit(n) PROVE MovesOn
  BY <1>1, <1>3 DEF Retransmit, relayVars
<1>4. ASSUME NEW d \in 0 .. 1, Fin(d) PROVE MovesOn
  BY <1>1, <1>4 DEF Fin, relayVars
<1>5. CASE Removed
  BY <1>1, <1>5 DEF Removed, clientVars, relayVars
<1>6. CASE AllOver \/ UNCHANGED streamVars
  BY <1>1, <1>6 DEF AllOver, streamVars
<1>7. CASE Connected
  <2>1. task = "connect" /\ UNCHANGED <<queue, acked>>
    BY <1>7 DEF Connected, clientVars
  <2> QED
    BY <1>0, <2>1, QueueKept DEF MovesOn, WriteMovesOn
<1>8. CASE End
  BY <1>8 DEF End, MovesOn
<1>9. CASE Recv
  <2>1. /\ task = "select" /\ task' = "write" /\ queue # <<>> /\ UNCHANGED acked
        /\ segment' = Head(queue) /\ queue' = Tail(queue)
    BY <1>9 DEF Recv, clientVars
  <2>2. \A i \in DOMAIN queue :
           \/ i - 1 \in DOMAIN queue' /\ queue'[i - 1] = queue[i]
           \/ i = 1 /\ segment' = queue[i]
    BY <1>0, <2>1
  <2> QED
    BY <1>0, <2>1, <2>2 DEF MovesOn, QueueMovesOn, WriteMovesOn
<1>10. CASE Written
  <2>1. UNCHANGED queue /\ acked' >= segment /\ acked' >= acked
    BY <1>0, <1>10 DEF Written
  <2> QED
    BY <2>1, QueueKept DEF MovesOn, WriteMovesOn
<1> QED
  BY <1>2, <1>3, <1>4, <1>5, <1>6, <1>7, <1>8, <1>9, <1>10
     DEF StreamNext, Answered, ConnectFailed, RecvNone, Tried, AckFailed, WriteFailed,
         DownloadEnds

(* A message in the channel is never dropped, overtaken or taken back while *)
(* relay_flow goes on, resent segments and a client with any window         *)
(* included: each step leaves it in its place or moves it on, to the head,  *)
(* to the write and to its ACK.  This is what QueuedIsAcked rests on next   *)
(* to the fairness of select!.                                              *)
THEOREM MessagesMoveOn == StreamSpec => [][MovesOn]_streamVars
<1>1. StreamTypeOK /\ [StreamNext]_streamVars => [MovesOn]_streamVars
  BY StepMovesOn DEF StreamTypeOK
<1> QED
  BY <1>1, TypeCorrect, PTL DEF StreamSpec

-----------------------------------------------------------------------------
(* FlowRelay *)

LEMMA RelayStreamStep == [RelayNext]_allVars => [StreamNext]_streamVars
<1> SUFFICES ASSUME RelayNext PROVE StreamNext \/ UNCHANGED streamVars
  BY DEF allVars
<1>1. CASE ClientSends
  BY <1>1 DEF ClientSends, StreamNext
<1>2. CASE FlowRemoved
  BY <1>2 DEF FlowRemoved, StreamNext
<1>3. CASE RelayAnswered
  BY <1>3 DEF RelayAnswered, RelayConnected, RelayRefused, StreamNext, Answered
<1>4. CASE RelayRecv \/ RelayRecvNone \/ RelayWrites
  BY <1>4 DEF RelayRecv, RelayRecvNone, RelayWrites, StreamNext
<1>5. CASE ForwardFails \/ FetchEnds
  BY <1>5 DEF ForwardFails, FetchEnds, StreamNext
<1>6. CASE AppReads \/ ProxySends \/ \E how \in {"closed", "failed"} : ProxyEnds(how)
  BY <1>6 DEF AppReads, ProxySends, ProxyEnds
<1>7. CASE Fetched \/ Forward \/ RelayOver
  BY <1>7 DEF Fetched, Fetch, Forward, RelayOver, allVars
<1> QED
  BY <1>1, <1>2, <1>3, <1>4, <1>5, <1>6, <1>7 DEF RelayNext, Forwarded

(* The whole relay behaves in its upload direction as RelayStream, so that  *)
(* the theorems above hold of relay_flow with both its directions.          *)
THEOREM RelayIsAStream == RelaySpec => StreamSpec
<1>1. RelayInit => StreamInit
  BY DEF RelayInit
<1> QED
  BY <1>1, RelayStreamStep, PTL DEF RelaySpec, StreamSpec

(* our_seq counts the chunks that were forwarded, and is ahead of what the  *)
(* client took.                                                             *)
ReplyOrdered ==
    /\ \A i \in 1 .. Len(got) : got[i] = i
    /\ Len(got) < ourSeq
    /\ ourSeq <= fetched + 1
    /\ task # "ended" => ourSeq = fetched - chunks + 1

(* A relay whose entry is gone is over or has a reason to end, and no FIN   *)
(* comes from a relay that goes on.                                         *)
EndHasCause ==
    /\ entry \/ fin \/ removed \/ task = "ended"
    /\ told = "fin" => task = "ended"
    /\ told = "fin" /\ ~fin /\ ~removed /\ proxyEnd # "failed"
       => proxyEnd = "closed" /\ Len(got) = replied

ReplyInv == ReplyTypeOK /\ ReplyOrdered /\ EndHasCause

(* What the steps of the upload direction leave alone and what they keep. *)
LEMMA UploadKeeps ==
    ASSUME ClientSends \/ RelayConnected \/ RelayRecv \/ RelayWrites
    PROVE  /\ UNCHANGED <<proxyVars, replyVars, removed>>
           /\ task = "ended" => task' = "ended"
           /\ fin => fin'
           /\ entry => entry' \/ fin' \/ task' = "ended"
<1> USE DEF clientVars, relayVars
<1>1. CASE ClientSends
  <2>1. UNCHANGED <<proxyVars, replyVars, removed>>
    BY <1>1 DEF ClientSends
  <2>2. CASE Send
    BY <2>1, <2>2 DEF Send
  <2>3. ASSUME NEW n \in Segments, Retransmit(n)
        PROVE  UNCHANGED <<task, fin, entry>>
    BY <2>3 DEF Retransmit
  <2>4. ASSUME NEW d \in 0 .. 1, Fin(d)
        PROVE  UNCHANGED task /\ fin'
    BY <2>4 DEF Fin
  <2> QED
    BY <1>1, <2>1, <2>2, <2>3, <2>4 DEF ClientSends
<1>2. CASE RelayConnected
  BY <1>2, Zenon DEF RelayConnected, Connected
<1>3. CASE RelayRecv
  BY <1>3, Zenon DEF RelayRecv, Idle, Recv
<1>4. CASE RelayWrites
  <2>1. CASE Written
    BY <1>4, <2>1 DEF RelayWrites, Written
  <2>2. CASE AckFailed \/ WriteFailed
    <3>1. task' = "ended" /\ UNCHANGED fin
      BY <2>2 DEF AckFailed, WriteFailed, End
    <3> QED
      BY <1>4, <3>1 DEF RelayWrites
  <2> QED
    BY <1>4, <2>1, <2>2 DEF RelayWrites, Tried
<1> QED
  BY <1>1, <1>2, <1>3, <1>4

LEMMA ReplyInit == RelayInit => ReplyInv
<1> SUFFICES ASSUME RelayInit PROVE ReplyInv
  OBVIOUS
<1>1. ReplyTypeOK
  <2>1. got \in Seq(Replies) /\ Len(got) = 0
    BY EmptySeq DEF RelayInit
  <2>2. /\ proxyEnd \in {"open", "closed", "failed"}
        /\ told \in {"open", "fin", "rst"} /\ removed \in BOOLEAN
    BY Zenon DEF RelayInit
  <2>3. /\ replied \in 0 .. MaxReplies /\ fetched \in 0 .. replied /\ chunks \in 0 .. fetched
        /\ chunks <= BufferSize /\ ourSeq \in 1 .. MaxReplies + 1 /\ used \in 0 .. Len(got)
    BY <2>1, ReplyAssumption DEF ReplyAssumption, RelayInit
  <2> QED
    BY <2>1, <2>2, <2>3, Zenon DEF ReplyTypeOK
<1>2. ReplyOrdered
  BY EmptySeq DEF RelayInit, ReplyOrdered
<1>3. EndHasCause
  BY Zenon DEF RelayInit, StreamInit, EndHasCause
<1> QED
  BY <1>1, <1>2, <1>3 DEF ReplyInv

LEMMA ReplyStep == ReplyInv /\ [RelayNext]_allVars => ReplyInv'
<1> SUFFICES ASSUME ReplyTypeOK, ReplyOrdered, EndHasCause, [RelayNext]_allVars
             PROVE  ReplyInv'
  BY DEF ReplyInv
<1> USE ReplyAssumption
    DEF ReplyAssumption, ReplyTypeOK, Replies, allVars, proxyVars, replyVars
(* Steps that change none of the reply's variables. *)
<1>a. ASSUME UNCHANGED <<proxyVars, replyVars, removed>>,
             task = "ended" => task' = "ended",
             fin => fin',
             entry => entry' \/ fin' \/ task' = "ended"
      PROVE  ReplyInv'
  BY <1>a DEF ReplyInv, ReplyOrdered, EndHasCause
<1>1. CASE ClientSends \/ RelayConnected \/ RelayRecv \/ RelayWrites
  BY <1>1, <1>a, UploadKeeps
<1>2. CASE RelayOver \/ UNCHANGED allVars
  BY <1>2, <1>a DEF RelayOver, streamVars
<1>3. CASE AppReads
  BY <1>3 DEF AppReads, streamVars, ReplyInv, ReplyOrdered, EndHasCause
<1>4. CASE FlowRemoved
  BY <1>4 DEF FlowRemoved, Removed, clientVars, relayVars, ReplyInv, ReplyOrdered, EndHasCause
<1>5. CASE ProxySends
  BY <1>5 DEF ProxySends, Linked, streamVars, ReplyInv, ReplyOrdered, EndHasCause
<1>6. ASSUME NEW how \in {"closed", "failed"}, ProxyEnds(how) PROVE ReplyInv'
  BY <1>6 DEF ProxyEnds, Linked, streamVars, ReplyInv, ReplyOrdered, EndHasCause
<1>7. CASE RelayRefused
  BY <1>7 DEF RelayRefused, ConnectFailed, End, clientVars, ReplyInv, ReplyOrdered, EndHasCause
<1>8. CASE RelayRecvNone
  BY <1>8 DEF RelayRecvNone, RecvNone, Idle, TellFin, End, clientVars, ReplyInv,
     ReplyOrdered, EndHasCause
<1>9. ASSUME NEW n \in 1 .. BufferSize, Fetch(n) PROVE ReplyInv'
  BY <1>9 DEF Fetch, Idle, streamVars, ReplyInv, ReplyOrdered, EndHasCause
<1>10. CASE Forward
  <2>1. /\ task = "select" /\ chunks > 0 /\ chunks' = chunks - 1 /\ ourSeq' = ourSeq + 1
        /\ UNCHANGED <<streamVars, proxyVars, fetched, used, told, removed>>
        /\ ourSeq = fetched - chunks + 1
    BY <1>10 DEF Forward, ReplyOrdered
  <2>2. \/ got' = got
        \/ ~Hole /\ got' = Append(got, fetched - chunks + 1)
    BY <1>10 DEF Forward
  <2>3. /\ got' \in Seq(Replies) /\ Len(got) <= Len(got') /\ Len(got') < ourSeq'
        /\ \A i \in 1 .. Len(got') : got'[i] = i
    <3>1. CASE got' = got
      BY <2>1, <3>1 DEF ReplyOrdered
    <3>2. CASE ~Hole /\ got' = Append(got, fetched - chunks + 1)
      <4>1. fetched - chunks + 1 = Len(got) + 1 /\ fetched - chunks + 1 \in Replies
        BY <2>1, <3>2 DEF Hole
      <4> QED
        BY <2>1, <3>2, <4>1 DEF ReplyOrdered
    <3> QED
      BY <2>2, <3>1, <3>2
  <2>4. ReplyTypeOK'
    BY <2>1, <2>3 DEF streamVars
  <2>5. ReplyOrdered'
    BY <2>1, <2>3 DEF streamVars, ReplyOrdered
  <2>6. EndHasCause'
    BY <2>1 DEF streamVars, EndHasCause
  <2> QED
    BY <2>4, <2>5, <2>6 DEF ReplyInv
<1>11. CASE ForwardFails
  BY <1>11 DEF ForwardFails, DownloadEnds, End, clientVars, ReplyInv, ReplyOrdered, EndHasCause
<1>12. CASE FetchEnds
  <2>1. /\ task = "select" /\ chunks = 0 /\ task' = "ended" /\ UNCHANGED clientVars
        /\ proxyEnd = "failed" \/ (proxyEnd = "closed" /\ fetched = replied)
        /\ told' = "fin" => told = "fin" \/ ~Hole
        /\ told' \in {told, "fin"}
        /\ UNCHANGED <<proxyVars, fetched, chunks, ourSeq, got, used, removed>>
    BY <1>12 DEF FetchEnds, Idle, DownloadEnds, End, TellFin
  <2>2. ReplyTypeOK' /\ ReplyOrdered'
    BY <2>1 DEF ReplyOrdered
  <2>3. EndHasCause'
    BY <2>1 DEF Hole, ReplyOrdered, EndHasCause, clientVars
  <2> QED
    BY <2>2, <2>3 DEF ReplyInv
<1> QED
  BY <1>1, <1>2, <1>3, <1>4, <1>5, <1>6, <1>7, <1>8, <1>9, <1>10, <1>11, <1>12
     DEF RelayNext, RelayAnswered, Fetched, Forwarded

LEMMA AlwaysReplyInv == RelaySpec => []ReplyInv
BY ReplyInit, ReplyStep, PTL DEF RelaySpec

(* The types of the download direction: in particular the relay never       *)
(* forwards a chunk it has not read, nor numbers one beyond those it read.  *)
THEOREM ReplyTypeCorrect == RelaySpec => []ReplyTypeOK
<1>1. ReplyInv => ReplyTypeOK
  BY DEF ReplyInv
<1> QED
  BY <1>1, AlwaysReplyInv, PTL

(* A clean close that the client did not ask for means that it has the      *)
(* whole answer, whatever the sizes of the answer, the relay's buffer and   *)
(* the client's.                                                            *)
THEOREM CloseMeansWhole == RelaySpec => []ReplyIsWhole
<1>1. ReplyInv => ReplyIsWhole
  BY DEF ReplyInv, ReplyTypeOK, ReplyOrdered, EndHasCause, ReplyIsWhole
<1> QED
  BY <1>1, AlwaysReplyInv, PTL

(* The download direction implements BytePipe, with no assumption on the    *)
(* client.                                                                  *)
THEOREM ReplyPipes == RelaySpec => ReplyIsAPipe
<1>1. RelayInit => Back!PipeInit
  BY EmptySeq DEF RelayInit, Back!PipeInit
<1>2. ReplyInv /\ [RelayNext]_allVars => [Back!PipeNext]_Back!pipeVars
  <2> SUFFICES ASSUME ReplyInv, [RelayNext]_allVars
               PROVE  Back!PipeNext \/ UNCHANGED <<replied, got>>
    BY DEF Back!pipeVars
  <2> USE DEF proxyVars, replyVars, Back!PipeNext
  <2>1. CASE ProxySends
    BY <2>1 DEF ProxySends, Back!SendNext
  <2>2. CASE Forward
    <3>1. CASE got' = got
      BY <2>2, <3>1 DEF Forward
    <3>2. CASE ~Hole /\ got' = Append(got, fetched - chunks + 1)
      <4>1. /\ fetched - chunks + 1 = Len(got) + 1 /\ Len(got) < replied
            /\ Len(got) \in Nat
        BY <2>2, <3>2 DEF Forward, Hole, ReplyInv, ReplyTypeOK, ReplyOrdered
      <4>2. got' = Append(got, Len(got) + 1) /\ Len(got') = Len(got) + 1
        BY <3>2, <4>1 DEF ReplyInv, ReplyTypeOK
      <4>3. Len(got') \in Len(got) .. Len(got')
        BY <4>1, <4>2
      <4> QED
        BY <2>2, <4>1, <4>2, <4>3 DEF Forward, Back!DeliverNext
    <3> QED
      BY <2>2, <3>1, <3>2 DEF Forward
  <2>3. CASE ClientSends \/ RelayConnected \/ RelayRecv \/ RelayWrites
    BY <2>3, UploadKeeps
  <2>4. CASE AppReads \/ FlowRemoved \/ RelayRefused \/ RelayRecvNone
    BY <2>4 DEF AppReads, FlowRemoved, RelayRefused, RelayRecvNone
  <2>5. CASE Fetched \/ ForwardFails \/ FetchEnds
    BY <2>5 DEF Fetched, Fetch, ForwardFails, FetchEnds
  <2>6. ASSUME NEW how \in {"closed", "failed"}, ProxyEnds(how)
        PROVE  UNCHANGED <<replied, got>>
    BY <2>6 DEF ProxyEnds
  <2>7. CASE RelayOver \/ UNCHANGED allVars
    BY <2>7 DEF RelayOver, allVars
  <2> QED
    BY <2>1, <2>2, <2>3, <2>4, <2>5, <2>6, <2>7 DEF RelayNext, RelayAnswered, Forwarded
<1> QED
  BY <1>1, <1>2, AlwaysReplyInv, PTL DEF RelaySpec, ReplyIsAPipe, Back!PipeSpec
=============================================================================
