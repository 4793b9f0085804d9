--------------------------- MODULE FlowTable_proofs ---------------------------
(***************************************************************************)
(* What holds of the flow table for any number of 4-tuples and relay tasks *)
(* and any channel capacity.                                               *)
(***************************************************************************)
EXTENDS FlowTable, TLAPS

LEMMA AnyKeyIsKey == AnyKey \in Keys
  BY KeysAssumption DEF AnyKey

LEMMA TypeStep == FlowTypeOK /\ [FlowNext]_flowVars => FlowTypeOK'
<1> SUFFICES ASSUME FlowTypeOK, [FlowNext]_flowVars PROVE FlowTypeOK'
  OBVIOUS
<1> USE QueueAssumption, NoFlowAssumption DEF FlowTypeOK, Tasks, Goto, TakeOut, Relays
<1>1. CASE UNCHANGED flowVars
  BY <1>1 DEF flowVars
<1>2. CASE AbortLoop \/ AllOver
  BY <1>2 DEF AbortLoop, AllOver, flowVars
<1>3. ASSUME NEW k \in Keys, FinOrRst(k) PROVE FlowTypeOK'
  BY <1>3 DEF FinOrRst
<1>4. ASSUME NEW k \in Keys, Data(k) PROVE FlowTypeOK'
  BY <1>4 DEF Data
<1>5. ASSUME NEW k \in Keys, Cleanup(k) PROVE FlowTypeOK'
  BY <1>5 DEF Cleanup
<1>6. ASSUME NEW k \in Keys, NEW f \in Flows, Syn(k, f) PROVE FlowTypeOK'
  BY <1>6 DEF Syn
<1>7. ASSUME NEW f \in Flows, GoesIdle(f) PROVE FlowTypeOK'
  BY <1>7 DEF GoesIdle
<1>8. ASSUME NEW f \in Flows, Answered(f) PROVE FlowTypeOK'
  BY <1>8 DEF Answered, Connected, ConnectFailed
<1>9. ASSUME NEW f \in Flows, Recv(f) PROVE FlowTypeOK'
  BY <1>9 DEF Recv
<1>10. ASSUME NEW f \in Flows, RecvNone(f) PROVE FlowTypeOK'
  BY <1>10 DEF RecvNone
<1>11. ASSUME NEW f \in Flows, Sent(f) PROVE FlowTypeOK'
  BY <1>11 DEF Sent, Written, WriteFailed
<1>12. ASSUME NEW f \in Flows, Download(f) PROVE FlowTypeOK'
  BY <1>12 DEF Download
<1>13. ASSUME NEW f \in Flows, DownloadEnds(f) PROVE FlowTypeOK'
  BY <1>13 DEF DownloadEnds
<1>14. ASSUME NEW f \in Flows, Remove(f) PROVE FlowTypeOK'
  BY <1>14 DEF Remove
<1> QED
  BY <1>1, <1>2, <1>3, <1>4, <1>5, <1>6, <1>7, <1>8, <1>9, <1>10, <1>11,
     <1>12, <1>13, <1>14 DEF FlowNext

(* The state stays well formed: no channel ever holds more messages than    *)
(* its capacity.                                                            *)
THEOREM TypeCorrect == FlowSpec => []FlowTypeOK
<1>1. FlowInit => FlowTypeOK
  BY AnyKeyIsKey, QueueAssumption DEF FlowInit, FlowTypeOK, Tasks
<1> QED
  BY <1>1, TypeStep, PTL DEF FlowSpec

-----------------------------------------------------------------------------
(* EntryHasRelay is inductive: a task is registered in the step that spawns *)
(* it, under a key it keeps, and on its way out it removes the entry of     *)
(* that key, be it its own or, wrongly, a later one.                        *)
LEMMA EntryStep ==
  FlowTypeOK /\ EntryHasRelay /\ [FlowNext]_flowVars => EntryHasRelay'
<1> SUFFICES ASSUME FlowTypeOK, EntryHasRelay, [FlowNext]_flowVars
             PROVE  EntryHasRelay'
  OBVIOUS
<1> USE NoFlowAssumption DEF FlowTypeOK, EntryHasRelay, Relays, Goto, TakeOut
<1>1. CASE UNCHANGED flowVars
  BY <1>1 DEF flowVars
<1>2. CASE AbortLoop \/ AllOver
  BY <1>2 DEF AbortLoop, AllOver, flowVars
<1>3. ASSUME NEW k \in Keys, FinOrRst(k) PROVE EntryHasRelay'
  BY <1>3 DEF FinOrRst
<1>4. ASSUME NEW k \in Keys, Data(k) PROVE EntryHasRelay'
  BY <1>4 DEF Data
<1>5. ASSUME NEW k \in Keys, Cleanup(k) PROVE EntryHasRelay'
  BY <1>5 DEF Cleanup
<1>6. ASSUME NEW k \in Keys, NEW f \in Flows, Syn(k, f) PROVE EntryHasRelay'
  BY <1>6 DEF Syn
<1>7. ASSUME NEW f \in Flows, GoesIdle(f) PROVE EntryHasRelay'
  BY <1>7 DEF GoesIdle
<1>8. ASSUME NEW f \in Flows, Answered(f) PROVE EntryHasRelay'
  BY <1>8 DEF Answered, Connected, ConnectFailed
<1>9. ASSUME NEW f \in Flows, Recv(f) PROVE EntryHasRelay'
  BY <1>9 DEF Recv
<1>10. ASSUME NEW f \in Flows, RecvNone(f) PROVE EntryHasRelay'
  BY <1>10 DEF RecvNone
<1>11. ASSUME NEW f \in Flows, Sent(f) PROVE EntryHasRelay'
  BY <1>11 DEF Sent, Written, WriteFailed
<1>12. ASSUME NEW f \in Flows, Download(f) PROVE EntryHasRelay'
  BY <1>12 DEF Download
<1>13. ASSUME NEW f \in Flows, DownloadEnds(f) PROVE EntryHasRelay'
  BY <1>13 DEF DownloadEnds
<1>14. ASSUME NEW f \in Flows, Remove(f) PROVE EntryHasRelay'
  BY <1>14 DEF Remove
<1> QED
  BY <1>1, <1>2, <1>3, <1>4, <1>5, <1>6, <1>7, <1>8, <1>9, <1>10, <1>11,
     <1>12, <1>13, <1>14 DEF FlowNext

(* Every entry of the table stands for a relay task of its own 4-tuple that *)
(* is not over, whatever relays, SYNs and the cleanup task remove.          *)
THEOREM EntriesHaveRelays == FlowSpec => []EntryHasRelay
<1>1. FlowInit => FlowTypeOK /\ EntryHasRelay
  BY AnyKeyIsKey, QueueAssumption DEF FlowInit, FlowTypeOK, Tasks, EntryHasRelay
<1>2. FlowTypeOK /\ EntryHasRelay /\ [FlowNext]_flowVars
        => (FlowTypeOK /\ EntryHasRelay)'
  BY TypeStep, EntryStep
<1> QED
  BY <1>1, <1>2, PTL DEF FlowSpec

-----------------------------------------------------------------------------
(* Which relay task is whose: remove(&key) at the end of a relay can meet   *)
(* another's entry only if a SYN came for a 4-tuple whose relay was not over. *)
FreshSyns ==
    \A k \in Keys, f \in Flows : Syn(k, f) => \A g \in Relays : key[g] # k

OneRelayPerKey ==
    /\ \A f, g \in Relays : key[f] = key[g] => f = g
    /\ robbed = {}

LEMMA OneRelayStep ==
  ASSUME FlowTypeOK, EntryHasRelay, OneRelayPerKey, [FlowNext]_flowVars, [FreshSyns]_flowVars
  PROVE  OneRelayPerKey'
<1> USE NoFlowAssumption
        DEF FlowTypeOK, EntryHasRelay, OneRelayPerKey, Relays, Goto, TakeOut
<1>1. CASE UNCHANGED flowVars
  BY <1>1 DEF flowVars
<1>2. CASE AbortLoop \/ AllOver
  BY <1>2 DEF AbortLoop, AllOver, flowVars
<1>3. ASSUME NEW k \in Keys, FinOrRst(k) PROVE OneRelayPerKey'
  BY <1>3 DEF FinOrRst
<1>4. ASSUME NEW k \in Keys, Data(k) PROVE OneRelayPerKey'
  BY <1>4 DEF Data
<1>5. ASSUME NEW k \in Keys, Cleanup(k) PROVE OneRelayPerKey'
  BY <1>5 DEF Cleanup
<1>6. ASSUME NEW k \in Keys, NEW g \in Flows, Syn(k, g) PROVE OneRelayPerKey'
  <2>1. FreshSyns
    BY <1>6 DEF Syn, flowVars
  <2>2. \A h \in Relays : key[h] # k
    BY <1>6, <2>1 DEF FreshSyns
  <2> QED
    BY <1>6, <2>2 DEF Syn
<1>7. ASSUME NEW g \in Flows, GoesIdle(g) PROVE OneRelayPerKey'
  BY <1>7 DEF GoesIdle
<1>8. ASSUME NEW g \in Flows, Answered(g) PROVE OneRelayPerKey'
  BY <1>8 DEF Answered, Connected, ConnectFailed
<1>9. ASSUME NEW g \in Flows, Recv(g) PROVE OneRelayPerKey'
  BY <1>9 DEF Recv
<1>10. ASSUME NEW g \in Flows, RecvNone(g) PROVE OneRelayPerKey'
  BY <1>10 DEF RecvNone
<1>11. ASSUME NEW g \in Flows, Sent(g) PROVE OneRelayPerKey'
  BY <1>11 DEF Sent, Written, WriteFailed
<1>12. ASSUME NEW g \in Flows, Download(g) PROVE OneRelayPerKey'
  BY <1>12 DEF Download
<1>13. ASSUME NEW g \in Flows, DownloadEnds(g) PROVE OneRelayPerKey'
  BY <1>13 DEF DownloadEnds
<1>14. ASSUME NEW g \in Flows, Remove(g) PROVE OneRelayPerKey'
  BY <1>14 DEF Remove
<1> QED
  BY <1>1, <1>2, <1>3, <1>4, <1>5, <1>6, <1>7, <1>8, <1>9, <1>10, <1>11,
     <1>12, <1>13, <1>14 DEF FlowNext

(* As long as no SYN repeats a 4-tuple whose relay is not over, no relay     *)
(* closes another's channel by its own end: the repeated SYN is what it     *)
(* takes, whatever FINs, idle flows and disconnects do.                     *)
THEOREM OnlyRepeatedSynsRob ==
  FlowSpec /\ [][FreshSyns]_flowVars => []ClosedByItsOwn
<1>1. FlowInit => OneRelayPerKey
  BY DEF FlowInit, OneRelayPerKey, Relays
<1>2. FlowTypeOK /\ EntryHasRelay /\ OneRelayPerKey /\ [FlowNext]_flowVars /\ [FreshSyns]_flowVars
        => OneRelayPerKey'
  BY OneRelayStep
<1>3. OneRelayPerKey => ClosedByItsOwn
  BY DEF OneRelayPerKey, ClosedByItsOwn
<1> QED
  BY <1>1, <1>2, <1>3, TypeCorrect, EntriesHaveRelays, PTL DEF FlowSpec

-----------------------------------------------------------------------------
(* How many steps a relay task has before it, if it is sent no more: two for *)
(* each message and those to its end.                                       *)
Place == [unused |-> 3, connect |-> 3, select |-> 2, write |-> 3, remove |-> 1, ended |-> 0]
StepsLeft(f) == 2 * queue[f] + Place[task[f]]

(* Nobody sends to f any more: its channel is closed, or the loop is over.  *)
CutOff(f) == f \in Relays /\ (~Registered(f) \/ ~loop)

OwnStep(f) == Answered(f) \/ Recv(f) \/ RecvNone(f) \/ Sent(f) \/ DownloadEnds(f) \/ Remove(f)

(* f is cut off for good, and its own steps bring it nearer to its end.      *)
WindsDown(f) ==
    /\ f \in Relays' => CutOff(f)'
    /\ StepsLeft(f)' <= StepsLeft(f)
    /\ OwnStep(f) => StepsLeft(f)' < StepsLeft(f)

LEMMA WindsDownStep ==
  ASSUME FlowTypeOK, EntryHasRelay, [FlowNext]_flowVars, NEW f \in Flows, CutOff(f)
  PROVE  WindsDown(f)
<1> USE NoFlowAssumption, QueueAssumption
        DEF FlowTypeOK, EntryHasRelay, Relays, Goto, TakeOut, Tasks, CutOff, Registered,
            StepsLeft, Place
<1>a. OwnStep(f) => StepsLeft(f)' < StepsLeft(f)
  <2>1. CASE Answered(f)
    BY <2>1 DEF Answered, Connected, ConnectFailed
  <2>2. CASE Recv(f)
    BY <2>2 DEF Recv
  <2>3. CASE RecvNone(f)
    BY <2>3 DEF RecvNone
  <2>4. CASE Sent(f)
    BY <2>4 DEF Sent, Written, WriteFailed
  <2>5. CASE DownloadEnds(f)
    BY <2>5 DEF DownloadEnds
  <2>6. CASE Remove(f)
    BY <2>6 DEF Remove
  <2> QED
    BY <2>1, <2>2, <2>3, <2>4, <2>5, <2>6 DEF OwnStep
<1> DEFINE Goal == (f \in Relays' => CutOff(f)') /\ StepsLeft(f)' <= StepsLeft(f)
<1>b. StepsLeft(f) \in Nat
  BY DEF Tasks
<1>1. ASSUME UNCHANGED flowVars PROVE Goal
  <2>1. StepsLeft(f)' = StepsLeft(f) /\ (CutOff(f)' <=> CutOff(f))
    BY <1>1, Zenon DEF flowVars
  <2> HIDE DEF StepsLeft, CutOff
  <2> QED
    BY <1>b, <2>1 DEF Goal
<1>2. ASSUME AbortLoop \/ AllOver PROVE Goal
  <2>1. StepsLeft(f)' = StepsLeft(f) /\ CutOff(f)'
    BY <1>2, Zenon DEF AbortLoop, AllOver, flowVars
  <2> HIDE DEF StepsLeft, CutOff
  <2> QED
    BY <1>b, <2>1 DEF Goal
<1>3. ASSUME NEW k \in Keys, FinOrRst(k) PROVE Goal
  BY <1>3 DEF FinOrRst
<1>4. ASSUME NEW k \in Keys, Data(k) PROVE Goal
  BY <1>4 DEF Data
<1>5. ASSUME NEW k \in Keys, Cleanup(k) PROVE Goal
  BY <1>5 DEF Cleanup
<1>6. ASSUME NEW k \in Keys, NEW g \in Flows, Syn(k, g) PROVE Goal
  BY <1>6 DEF Syn
<1>7. ASSUME NEW g \in Flows, GoesIdle(g) PROVE Goal
  BY <1>7 DEF GoesIdle
<1>8. ASSUME NEW g \in Flows, Answered(g) PROVE Goal
  BY <1>8 DEF Answered, Connected, ConnectFailed
<1>9. ASSUME NEW g \in Flows, Recv(g) PROVE Goal
  BY <1>9 DEF Recv
<1>10. ASSUME NEW g \in Flows, RecvNone(g) PROVE Goal
  BY <1>10 DEF RecvNone
<1>11. ASSUME NEW g \in Flows, Sent(g) PROVE Goal
  BY <1>11 DEF Sent, Written, WriteFailed
<1>12. ASSUME NEW g \in Flows, Download(g) PROVE Goal
  BY <1>12 DEF Download
<1>13. ASSUME NEW g \in Flows, DownloadEnds(g) PROVE Goal
  BY <1>13 DEF DownloadEnds
<1>14. ASSUME NEW g \in Flows, Remove(g) PROVE Goal
  BY <1>14 DEF Remove
<1> HIDE DEF Goal, FlowTypeOK, EntryHasRelay, Relays, Goto, TakeOut, Tasks, CutOff,
             Registered, StepsLeft, Place
<1>15. Goal
  BY <1>1, <1>2, <1>3, <1>4, <1>5, <1>6, <1>7, <1>8, <1>9, <1>10, <1>11,
     <1>12, <1>13, <1>14 DEF FlowNext
<1> QED
  BY <1>a, <1>15 DEF WindsDown, Goal

(* A relay whose sender was dropped, or that outlived the dispatch loop, is  *)
(* never sent to again and has 2 * QueueSize + 3 steps at the most before it *)
(* is over; nothing gives it more.                                          *)
THEOREM CutOffRelaysWindDown ==
  FlowSpec => [][\A f \in Flows : CutOff(f) =>
                    WindsDown(f) /\ StepsLeft(f) \in 0 .. (2 * QueueSize + 3)]_flowVars
<1>1. ASSUME FlowTypeOK, NEW f \in Flows PROVE StepsLeft(f) \in 0 .. (2 * QueueSize + 3)
  <2>1. queue[f] \in 0 .. QueueSize /\ Place[task[f]] \in 0 .. 3 /\ QueueSize \in Nat
    BY <1>1, QueueAssumption DEF FlowTypeOK, Tasks, Place
  <2> QED
    BY <2>1 DEF StepsLeft
<1>2. FlowTypeOK /\ EntryHasRelay /\ [FlowNext]_flowVars
        => [\A f \in Flows : CutOff(f) =>
               WindsDown(f) /\ StepsLeft(f) \in 0 .. (2 * QueueSize + 3)]_flowVars
  BY <1>1, WindsDownStep
<1> QED
  BY <1>2, TypeCorrect, EntriesHaveRelays, PTL DEF FlowSpec
=============================================================================
