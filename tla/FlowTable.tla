------------------------------ MODULE FlowTable ------------------------------
(***************************************************************************)
(* The TCP flow table of src/src/network/dispatch.rs: run_dispatch with    *)
(* handle_packet and open_flow, the idle-flow cleanup task, and the life   *)
(* of the relay tasks.                                                     *)
(*                                                                         *)
(* The dispatch loop handles one packet at a time.  It keeps, under the    *)
(* 4-tuple of a flow, the only sender of the channel of the flow's relay   *)
(* task: to remove or replace an entry is to close a channel.  Relay tasks *)
(* and the cleanup task run beside the loop and outlive it.  What a relay  *)
(* forwards is the subject of FlowRelay; here a message is counted.        *)
(***************************************************************************)
EXTENDS Integers

CONSTANTS
    Keys,       \* FlowKey values: 4-tuples in the FakeIP range
    Flows,      \* relay tasks, each spawned at most once
    NoFlow,
    QueueSize   \* capacity of a flow's channel; 128 in the program

ASSUME QueueAssumption  == QueueSize \in Nat \ {0}
ASSUME NoFlowAssumption == NoFlow \notin Flows
ASSUME KeysAssumption   == Keys # {}

VARIABLES
    table,  \* flows: the relay task whose sender is stored under a 4-tuple
    loop,   \* the dispatch loop runs
    key,    \* key[f]: the 4-tuple f was spawned for
    task,   \* task[f]: where relay task f is
    queue,  \* queue[f]: messages in f's channel
    idle,   \* relay tasks with last_active 300 s ago or more
    robbed  \* history: relay tasks whose entry another relay task removed

flowVars == <<table, loop, key, task, queue, idle, robbed>>

(* A relay task: it connects, waits in select!, writes a message to the    *)
(* proxy, and when relay_flow has returned removes the entry of its key.   *)
Tasks   == {"unused", "connect", "select", "write", "remove", "ended"}
Relays  == {f \in Flows : task[f] \notin {"unused", "ended"}}
AnyKey  == CHOOSE k \in Keys : TRUE

FlowTypeOK ==
    /\ table  \in [Keys -> Flows \cup {NoFlow}]
    /\ loop   \in BOOLEAN
    /\ key    \in [Flows -> Keys]
    /\ task   \in [Flows -> Tasks]
    /\ queue  \in [Flows -> 0 .. QueueSize]
    /\ idle   \subseteq Flows
    /\ robbed \subseteq Flows

FlowInit ==
    /\ table  = [k \in Keys |-> NoFlow]
    /\ loop   = TRUE
    /\ key    = [f \in Flows |-> AnyKey]
    /\ task   = [f \in Flows |-> "unused"]
    /\ queue  = [f \in Flows |-> 0]
    /\ idle   = {}
    /\ robbed = {}

Goto(f, to) == task' = [task EXCEPT ![f] = to]

Registered(f) == table[key[f]] = f

(* Dropping the entry of k, if there is one, drops its sender.             *)
TakeOut(k) == table' = [table EXCEPT ![k] = NoFlow]

-----------------------------------------------------------------------------
(* The dispatch loop: handle_packet *)

(* open_flow: answer, insert, spawn, with no await in between.  A SYN that *)
(* cannot be answered (no name, no profile, ring full) changes nothing.    *)
Syn(k, f) ==
    /\ loop
    /\ task[f] = "unused"
    /\ table' = [table EXCEPT ![k] = f]
    /\ key'   = [key EXCEPT ![f] = k]
    /\ Goto(f, "connect")
    /\ UNCHANGED <<loop, queue, idle, robbed>>

(* A FIN or an RST of the client.                                          *)
FinOrRst(k) ==
    /\ loop
    /\ table[k] # NoFlow
    /\ TakeOut(k)
    /\ UNCHANGED <<loop, key, task, queue, idle, robbed>>

(* try_send: a message for a full channel, or for a relay that has gone    *)
(* but not yet removed its entry, is dropped without a word.               *)
Data(k) ==
    /\ loop
    /\ table[k] # NoFlow
    /\ task[table[k]] # "remove"
    /\ queue[table[k]] < QueueSize
    /\ queue' = [queue EXCEPT ![table[k]] = @ + 1]
    /\ UNCHANGED <<table, loop, key, task, idle, robbed>>

(* Disconnecting aborts the loop, and nothing else of this module.         *)
AbortLoop ==
    /\ loop
    /\ loop' = FALSE
    /\ UNCHANGED <<table, key, task, queue, idle, robbed>>

-----------------------------------------------------------------------------
(* The cleanup task: flows.retain, every 60 s. *)

(* Time: 300 s pass in which f relays nothing.                             *)
GoesIdle(f) ==
    /\ f \in Relays
    /\ f \notin idle
    /\ idle' = idle \cup {f}
    /\ UNCHANGED <<table, loop, key, task, queue, robbed>>

(* Mutant of Cleanup: the task ends with the loop that spawned it.         *)
Cleanup_DiesWithLoop(k) ==
    /\ loop
    /\ table[k] \in idle
    /\ TakeOut(k)
    /\ UNCHANGED <<loop, key, task, queue, idle, robbed>>

Cleanup(k) ==
    /\ table[k] \in idle
    /\ TakeOut(k)
    /\ UNCHANGED <<loop, key, task, queue, idle, robbed>>

-----------------------------------------------------------------------------
(* relay_flow *)

Connected(f) ==
    /\ task[f] = "connect"
    /\ Goto(f, "select")
    /\ UNCHANGED <<table, loop, key, queue, idle, robbed>>

(* An RST for the client.                                                  *)
ConnectFailed(f) ==
    /\ task[f] = "connect"
    /\ Goto(f, "remove")
    /\ UNCHANGED <<table, loop, key, queue, idle, robbed>>

Recv(f) ==
    /\ task[f] = "select"
    /\ queue[f] > 0
    /\ queue' = [queue EXCEPT ![f] = @ - 1]
    /\ Goto(f, "write")
    /\ UNCHANGED <<table, loop, key, idle, robbed>>

(* Mutant of RecvNone: the closed channel is not looked at.                *)
RecvNone_Ignored(f) ==
    /\ task[f] = "select"
    /\ queue[f] = 0
    /\ ~Registered(f)
    /\ UNCHANGED flowVars

(* A closed channel yields None once it is empty: break, FIN, return.      *)
RecvNone(f) ==
    /\ task[f] = "select"
    /\ queue[f] = 0
    /\ ~Registered(f)
    /\ Goto(f, "remove")
    /\ UNCHANGED <<table, loop, key, queue, idle, robbed>>

(* write_all is done: ACK, last_active.                                    *)
Written(f) ==
    /\ task[f] = "write"
    /\ Goto(f, "select")
    /\ idle' = idle \ {f}
    /\ UNCHANGED <<table, loop, key, queue, robbed>>

(* write_all or the ACK fails: relay_flow returns at once.                 *)
WriteFailed(f) ==
    /\ task[f] = "write"
    /\ Goto(f, "remove")
    /\ UNCHANGED <<table, loop, key, queue, idle, robbed>>

Download(f) ==
    /\ task[f] = "select"
    /\ f \in idle
    /\ idle' = idle \ {f}
    /\ UNCHANGED <<table, loop, key, task, queue, robbed>>

(* The proxy has closed, a read fails, or a packet can not be written.     *)
DownloadEnds(f) ==
    /\ task[f] = "select"
    /\ Goto(f, "remove")
    /\ UNCHANGED <<table, loop, key, queue, idle, robbed>>

(* Mutant of Remove: the entry is left to the cleanup task.                *)
Remove_Skipped(f) ==
    /\ task[f] = "remove"
    /\ Goto(f, "ended")
    /\ queue' = [queue EXCEPT ![f] = 0]
    /\ idle'  = idle \ {f}
    /\ UNCHANGED <<table, loop, key, robbed>>

(* flows_c.remove(&key_c), whatever entry is under that key by now.        *)
Remove(f) ==
    /\ task[f] = "remove"
    /\ TakeOut(key[f])
    /\ robbed' = robbed \cup ({table[key[f]]} \ {f, NoFlow})
    /\ Goto(f, "ended")
    /\ queue' = [queue EXCEPT ![f] = 0]
    /\ idle'  = idle \ {f}
    /\ UNCHANGED <<loop, key>>

-----------------------------------------------------------------------------
Answered(f) == Connected(f) \/ ConnectFailed(f)
Sent(f)     == Written(f) \/ WriteFailed(f)

(* After a disconnect, when the last relay is over.                         *)
AllOver == ~loop /\ Relays = {} /\ UNCHANGED flowVars

FlowNext ==
    \/ AbortLoop
    \/ AllOver
    \/ \E k \in Keys :
          \/ FinOrRst(k)
          \/ Data(k)
          \/ Cleanup(k)
          \/ \E f \in Flows : Syn(k, f)
    \/ \E f \in Flows :
          \/ GoesIdle(f)
          \/ Answered(f)
          \/ Recv(f)
          \/ RecvNone(f)
          \/ Sent(f)
          \/ Download(f)
          \/ DownloadEnds(f)
          \/ Remove(f)

FlowSpec == FlowInit /\ [][FlowNext]_flowVars

(* The executor runs the tasks, and time passes.  select! polls the channel *)
(* and the proxy in a random order, so a channel that has something to say  *)
(* is heard however much the proxy sends: strong fairness.  That an attempt *)
(* to connect or to write ends is the proxy's doing: there are no timeouts. *)
FlowFairness ==
    /\ \A k \in Keys : WF_flowVars(Cleanup(k))
    /\ \A f \in Flows :
          /\ SF_flowVars(Recv(f))
          /\ SF_flowVars(RecvNone(f))
          /\ WF_flowVars(Remove(f))
          /\ WF_flowVars(GoesIdle(f))
ProxyFairness == \A f \in Flows : WF_flowVars(Answered(f)) /\ WF_flowVars(Sent(f))

FlowFairSpec == FlowSpec /\ FlowFairness /\ ProxyFairness

-----------------------------------------------------------------------------
(* Properties *)

(* Whatever removes, replaces and ends: an entry stands for a relay task of *)
(* its own 4-tuple that is not over, so that no packet is ever taken for a  *)
(* flow that nobody relays, with no cleanup needed.                         *)
EntryHasRelay ==
    \A k \in Keys : table[k] # NoFlow => table[k] \in Relays /\ key[table[k]] = k

(* When the sender of a flow is dropped (the client closed, the flow was    *)
(* idle, its 4-tuple was taken) its relay task comes to an end: if the      *)
(* proxy answers connects and takes what is written to it.                  *)
ClosedRelayEnds ==
    \A f \in Flows : (f \in Relays /\ ~Registered(f)) ~> task[f] = "ended"

(* After a disconnect the relay tasks wind down by themselves, unless the   *)
(* proxy keeps sending: nothing else would ever let go of the session.      *)
RelaysWindDown ==
    \A f \in Flows :
       \/ []<><<Download(f)>>_flowVars
       \/ (~loop /\ f \in Relays) ~> task[f] = "ended"

(* dispatch.rs:262: the channel of a relay that runs ends with "flow removed *)
(* (FIN/RST) or channel closed": by its client, the cleanup or the end of   *)
(* the loop, not by the end of another relay task.                          *)
ClosedByItsOwn == robbed = {}
=============================================================================
