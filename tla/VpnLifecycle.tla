---------------------------- MODULE VpnLifecycle ----------------------------
(***************************************************************************)
(* Connecting and disconnecting: toggle_vpn_impl of src/src/commands.rs,   *)
(* the "quit" entry of the tray menu (src/src/lib.rs), the WintunAdapter   *)
(* they drive (src/src/network/tun.rs), the fields of AppState they share, *)
(* and the settings of Windows they change through child processes.        *)
(*                                                                         *)
(* Each call of toggle_vpn_impl is a task of its own: the window and the   *)
(* tray both start them, and nothing makes one wait for another but the    *)
(* mutex around AppState.tunnel.  An action is one access to shared state  *)
(* or one child process.  A server stands for the profile that names it,   *)
(* for its address and for the /32 route that excludes it from the tunnel. *)
(***************************************************************************)
EXTENDS Integers, Sequences

CONSTANTS
    Toggles,          \* the calls made, each used once
    Servers,
    NoServer,
    Nobody,           \* no toggle
    ConnectsAlone,    \* no other call is made or runs while a connect runs
    PortHolders,      \* who may hold port 53 at the start
    MayFail,          \* which outside operations may fail
    MayQuit,          \* the user may choose "quit"
    MayRelay,         \* applications use the tunnel: relay tasks run
    MayCrash,         \* the process may die and be started again, once
    ExclusiveSession  \* Wintun refuses a second session on the adapter

(* The operations outside the program whose failure the code handles. *)
Outside == {"activate", "resolve", "configure", "undo", "sc_stop", "poll", "sc_start"}

ASSUME FlagsAssumption  == {ConnectsAlone, MayQuit, MayRelay, MayCrash, ExclusiveSession} \subseteq BOOLEAN
ASSUME MayFailAssumption == MayFail \subseteq Outside
ASSUME PortAssumption    == PortHolders \subseteq {"free", "dnscache", "other"}
ASSUME NamesAssumption  ==
    /\ NoServer \notin Servers
    /\ Nobody \notin Toggles
    /\ Servers # {}
    /\ Servers \cap {"low", "high", "dns"} = {}
    /\ Toggles \cap {"free", "dnscache", "other"} = {}

VARIABLES
    \* AppState
    status,        \* VpnStatus
    tunnel,        \* the call whose adapter is stored, or Nobody
    tunnel_lock,   \* the call that holds the mutex of tunnel
    proxy_ip,
    task_handles,  \* registered background tasks <<kind, call>>
    \* the calls
    pc,
    kind,          \* "connect", "disconnect" or "quit"
    server,        \* the profile's server; the proxy_ip read by an undo
    step,          \* position in RoutingPlan
    \* the program's background tasks and Wintun sessions
    live,          \* background tasks that run
    sessions,      \* calls whose Wintun session is open
    flows,         \* calls whose dispatch loop left relay tasks that run
    draining,      \* calls whose session, shut down, is held by those relays
    \* Windows
    netconf,       \* routes and interface DNS installed
    dnscache,      \* the Dnscache service runs
    port53,        \* holder of 127.0.0.1:53
    process        \* "fresh", "restarted" or "gone"

appVars  == <<status, tunnel, tunnel_lock, proxy_ip, task_handles>>
callVars == <<pc, kind, server, step>>
taskVars == <<live, sessions, flows, draining>>
osVars   == <<netconf, dnscache, port53, process>>
vars     == <<appVars, callVars, taskVars, osVars>>

Statuses == {"Disconnected", "Connecting", "Connected", "Disconnecting"}
ConnectSteps ==
    {"activate", "resolve", "configure", "keep_ip", "store", "port", "poll",
     "spawn_dns", "register_dns", "spawn_dispatch", "register_dispatch", "finish"}
DisconnectSteps ==
    {"abort", "lock", "read_ip", "undo", "deactivate", "start_dnscache", "forget_ip", "settle"}
Tasks == {"dns", "dispatch"} \X Toggles

(* Mutant of RoutingPlan: the exclusion follows the routes it makes good. *)
RoutingPlan_HalvesFirst(s) == <<"low", "high", s, "dns">>

(* configure_routing in its order; the metric of the interface, set before *)
(* the two halves of the default route, is never undone and left out.      *)
RoutingPlan(s) == <<s, "low", "high", "dns">>

TypeOK ==
    /\ status       \in Statuses
    /\ tunnel       \in Toggles \cup {Nobody}
    /\ tunnel_lock  \in Toggles \cup {Nobody}
    /\ proxy_ip     \in Servers \cup {NoServer}
    /\ task_handles \subseteq Tasks
    /\ pc     \in [Toggles -> {"new", "ended"} \cup ConnectSteps \cup DisconnectSteps]
    /\ kind   \in [Toggles -> {"connect", "disconnect", "quit"}]
    /\ server \in [Toggles -> Servers \cup {NoServer}]
    /\ step   \in [Toggles -> 1 .. 4]
    /\ \A t \in Toggles :
          pc[t] \in ConnectSteps \cup {"undo"} => server[t] \in Servers
    /\ live     \subseteq Tasks
    /\ sessions \subseteq Toggles
    /\ flows    \subseteq Toggles
    /\ draining \subseteq flows
    /\ netconf  \subseteq Servers \cup {"low", "high", "dns"}
    /\ dnscache \in BOOLEAN
    /\ port53   \in Toggles \cup {"free", "dnscache", "other"}
    /\ process  \in {"fresh", "restarted", "gone"}

Init ==
    /\ status = "Disconnected"
    /\ tunnel = Nobody
    /\ tunnel_lock = Nobody
    /\ proxy_ip = NoServer
    /\ task_handles = {}
    /\ pc     = [t \in Toggles |-> "new"]
    /\ kind   = [t \in Toggles |-> "connect"]
    /\ server = [t \in Toggles |-> NoServer]
    /\ step   = [t \in Toggles |-> 1]
    /\ live = {}
    /\ sessions = {}
    /\ flows = {}
    /\ draining = {}
    /\ netconf = {}
    /\ dnscache = TRUE
    /\ port53 \in PortHolders
    /\ process = "fresh"

Running == {t \in Toggles : pc[t] \notin {"new", "ended"}}
Goto(t, to) == pc' = [pc EXCEPT ![t] = to]
At(t, p) == process # "gone" /\ pc[t] = p

-----------------------------------------------------------------------------
(* The user, through the window or the tray. *)

MayStart(t) ==
    /\ At(t, "new")
    /\ ConnectsAlone => \A u \in Toggles : pc[u] \notin ConnectSteps

Connect(t, s) ==
    /\ MayStart(t)
    /\ ConnectsAlone => Running = {}
    /\ status' = "Connecting"
    /\ Goto(t, "activate")
    /\ server' = [server EXCEPT ![t] = s]
    /\ UNCHANGED <<tunnel, tunnel_lock, proxy_ip, task_handles, kind, step, taskVars, osVars>>

Disconnect(t) ==
    /\ MayStart(t)
    /\ status' = "Disconnecting"
    /\ Goto(t, "abort")
    /\ kind' = [kind EXCEPT ![t] = "disconnect"]
    /\ UNCHANGED <<tunnel, tunnel_lock, proxy_ip, task_handles, server, step, taskVars, osVars>>

Quit(t) ==
    /\ MayQuit
    /\ MayStart(t)
    /\ Goto(t, "abort")
    /\ kind' = [kind EXCEPT ![t] = "quit"]
    /\ UNCHANGED <<appVars, server, step, taskVars, osVars>>

-----------------------------------------------------------------------------
(* toggle_vpn_impl(true) *)

Activated(t) ==
    /\ At(t, "activate")
    /\ ExclusiveSession => sessions \cup draining = {}
    /\ sessions' = sessions \cup {t}
    /\ Goto(t, "resolve")
    /\ UNCHANGED <<appVars, kind, server, step, live, flows, draining, osVars>>

(* The adapter, never stored, is dropped with its session. *)
ActivateFailed(t) ==
    /\ At(t, "activate")
    /\ "activate" \in MayFail \/ (ExclusiveSession /\ sessions \cup draining # {})
    /\ status' = "Disconnected"
    /\ Goto(t, "ended")
    /\ UNCHANGED <<tunnel, tunnel_lock, proxy_ip, task_handles, kind, server, step, taskVars, osVars>>

Resolved(t) ==
    /\ At(t, "resolve")
    /\ Goto(t, "configure")
    /\ UNCHANGED <<appVars, kind, server, step, taskVars, osVars>>

(* No address for the server: a warning, and no routing at all. *)
ResolveFailed(t) ==
    /\ At(t, "resolve")
    /\ "resolve" \in MayFail
    /\ Goto(t, "store")
    /\ UNCHANGED <<appVars, kind, server, step, taskVars, osVars>>

(* What a helper of RouteManager that sets or takes back one route or       *)
(* setting does to Windows, if its child process succeeds.                 *)
Install(setting) == netconf' = netconf \cup {setting}
Remove(setting)  == netconf' = netconf \ {setting}

ConfigureStep(t) ==
    /\ At(t, "configure")
    /\ Install(RoutingPlan(server[t])[step[t]])
    /\ IF step[t] = 4
       THEN Goto(t, "keep_ip") /\ step' = [step EXCEPT ![t] = 1]
       ELSE step' = [step EXCEPT ![t] = @ + 1] /\ UNCHANGED pc
    /\ UNCHANGED <<appVars, kind, server, taskVars, dnscache, port53, process>>

(* Mutant of ConfigureFailed: set_proxy_ip belongs to the Ok branch only. *)
ConfigureFailed_ForgetsIp(t) ==
    /\ At(t, "configure")
    /\ "configure" \in MayFail
    /\ Goto(t, "store")
    /\ step' = [step EXCEPT ![t] = 1]
    /\ UNCHANGED <<appVars, kind, server, taskVars, osVars>>

(* The `?` of configure_routing stops it; its caller logs and goes on. *)
ConfigureFailed(t) ==
    /\ At(t, "configure")
    /\ "configure" \in MayFail
    /\ Goto(t, "keep_ip")
    /\ step' = [step EXCEPT ![t] = 1]
    /\ UNCHANGED <<appVars, kind, server, taskVars, osVars>>

(* Mutant of KeepIp: set_proxy_ip is forgotten. *)
KeepIp_Skipped(t) ==
    /\ At(t, "keep_ip")
    /\ Goto(t, "store")
    /\ UNCHANGED <<appVars, kind, server, step, taskVars, osVars>>

KeepIp(t) ==
    /\ At(t, "keep_ip")
    /\ proxy_ip' = server[t]
    /\ Goto(t, "store")
    /\ UNCHANGED <<status, tunnel, tunnel_lock, task_handles, kind, server, step, taskVars, osVars>>

(* The Arc of a session is held by the connect that opened it, then by its *)
(* dispatch loop and by each relay task of that loop.                      *)
Held(t) ==
    \/ t \in flows
    \/ <<"dispatch", t>> \in live
    \/ pc[t] \in ConnectSteps

(* An adapter that was there is dropped, not shut down: its session ends   *)
(* if nobody else holds it.                                                *)
Store(t) ==
    /\ At(t, "store")
    /\ tunnel_lock = Nobody
    /\ tunnel' = t
    /\ sessions' = IF tunnel # Nobody /\ Held(tunnel) THEN sessions ELSE sessions \ {tunnel}
    /\ Goto(t, "port")
    /\ UNCHANGED <<status, tunnel_lock, proxy_ip, task_handles, kind, server, step,
                   live, flows, draining, osVars>>

(* ensure_dns_port_free: the trial bind succeeds, at first or on a poll. *)
PortFree(t) ==
    /\ At(t, "port") \/ At(t, "poll")
    /\ port53 = "free"
    /\ Goto(t, "spawn_dns")
    /\ UNCHANGED <<appVars, kind, server, step, taskVars, osVars>>

(* Mutant of StopDnscache: no wait for the service to let the port go. *)
StopDnscache_NoWait(t) ==
    /\ At(t, "port")
    /\ port53 # "free"
    /\ dnscache
    /\ dnscache' = FALSE
    /\ Goto(t, "spawn_dns")
    /\ UNCHANGED <<appVars, kind, server, step, taskVars, netconf, port53, process>>

StopDnscache(t) ==
    /\ At(t, "port")
    /\ port53 # "free"
    /\ dnscache
    /\ dnscache' = FALSE
    /\ Goto(t, "poll")
    /\ UNCHANGED <<appVars, kind, server, step, taskVars, netconf, port53, process>>

(* sc stop fails (always so if the service is stopped), or the port is    *)
(* still held after the last poll: the error path of toggle_vpn_impl.      *)
PortTaken(t) ==
    /\ \/ At(t, "port") /\ (~dnscache \/ "sc_stop" \in MayFail)
       \/ At(t, "poll") /\ (port53 # "dnscache" \/ dnscache \/ "poll" \in MayFail)
    /\ port53 # "free"
    /\ status' = "Disconnected"
    /\ Goto(t, "ended")
    /\ UNCHANGED <<tunnel, tunnel_lock, proxy_ip, task_handles, kind, server, step, taskVars, osVars>>

Spawn(t, task, next) ==
    /\ live' = live \cup {<<task, t>>}
    /\ Goto(t, next)
    /\ UNCHANGED <<appVars, kind, server, step, sessions, flows, draining, osVars>>

Register(t, task, next) ==
    /\ task_handles' = task_handles \cup {<<task, t>>}
    /\ Goto(t, next)
    /\ UNCHANGED <<status, tunnel, tunnel_lock, proxy_ip, kind, server, step, taskVars, osVars>>

SpawnDns(t)         == At(t, "spawn_dns") /\ Spawn(t, "dns", "register_dns")
RegisterDns(t)      == At(t, "register_dns") /\ Register(t, "dns", "spawn_dispatch")
SpawnDispatch(t)    == At(t, "spawn_dispatch") /\ Spawn(t, "dispatch", "register_dispatch")
(* Mutant of RegisterDispatch: the handle is not registered. *)
RegisterDispatch_Skipped(t) ==
    /\ At(t, "register_dispatch")
    /\ Goto(t, "finish")
    /\ UNCHANGED <<appVars, kind, server, step, taskVars, osVars>>

RegisterDispatch(t) == At(t, "register_dispatch") /\ Register(t, "dispatch", "finish")

Finish(t) ==
    /\ At(t, "finish")
    /\ status' = "Connected"
    /\ Goto(t, "ended")
    /\ UNCHANGED <<tunnel, tunnel_lock, proxy_ip, task_handles, kind, server, step, taskVars, osVars>>

-----------------------------------------------------------------------------
(* toggle_vpn_impl(false), and the "quit" branch of handle_tray_menu.      *)

AbortTasks(t) ==
    /\ At(t, "abort")
    /\ live' = live \ task_handles
    /\ port53' = IF <<"dns", port53>> \in task_handles THEN "free" ELSE port53
    /\ task_handles' = {}
    /\ Goto(t, "lock")
    /\ UNCHANGED <<status, tunnel, tunnel_lock, proxy_ip, kind, server, step, sessions,
                   flows, draining, netconf, dnscache, process>>

(* The process ends: Windows frees its port and its Wintun sessions.       *)
ProcessEnds ==
    /\ live' = {}
    /\ sessions' = {}
    /\ flows' = {}
    /\ draining' = {}
    /\ port53' = IF port53 \in Toggles THEN "free" ELSE port53

Exit == ProcessEnds /\ process' = "gone" /\ UNCHANGED <<netconf, dnscache>>

(* Mutant of TakeTunnel: the guard is dropped as soon as it was used. *)
TakeTunnel_DropsGuard(t) ==
    /\ At(t, "lock")
    /\ tunnel_lock = Nobody
    /\ tunnel # Nobody
    /\ step' = [step EXCEPT ![t] = 1]
    /\ Goto(t, "read_ip")
    /\ UNCHANGED <<appVars, kind, server, taskVars, osVars>>

(* tunnel.take(): the guard is kept up to deactivate, so that the stored   *)
(* value is out of sight until then and is reset with the guard.           *)
TakeTunnel(t) ==
    /\ At(t, "lock")
    /\ tunnel_lock = Nobody
    /\ tunnel # Nobody
    /\ tunnel_lock' = t
    /\ step' = [step EXCEPT ![t] = 1]
    /\ Goto(t, "read_ip")
    /\ UNCHANGED <<status, tunnel, proxy_ip, task_handles, kind, server, taskVars, osVars>>

NoTunnel(t) ==
    /\ At(t, "lock")
    /\ tunnel_lock = Nobody
    /\ tunnel = Nobody
    /\ IF kind[t] = "quit"
       THEN Goto(t, "ended") /\ Exit
       ELSE Goto(t, "start_dnscache") /\ UNCHANGED <<taskVars, osVars>>
    /\ UNCHANGED <<appVars, kind, server, step>>

(* Mutant of ReadIp: the undo does not depend on a proxy_ip. *)
ReadIp_Unchecked(t) ==
    /\ At(t, "read_ip")
    /\ server' = [server EXCEPT ![t] = proxy_ip]
    /\ Goto(t, "undo")
    /\ UNCHANGED <<appVars, kind, step, taskVars, osVars>>

(* Without a proxy_ip there is nothing to undo, the code supposes. *)
ReadIp(t) ==
    /\ At(t, "read_ip")
    /\ server' = [server EXCEPT ![t] = proxy_ip]
    /\ Goto(t, IF proxy_ip = NoServer THEN "deactivate" ELSE "undo")
    /\ UNCHANGED <<appVars, kind, step, taskVars, osVars>>

(* restore_routing: every step is tried, whatever became of the others.    *)
UndoStep(t) ==
    /\ At(t, "undo")
    /\ \/ Remove(RoutingPlan(server[t])[step[t]])
       \/ "undo" \in MayFail /\ UNCHANGED netconf
    /\ IF step[t] = 4
       THEN Goto(t, "deactivate") /\ step' = [step EXCEPT ![t] = 1]
       ELSE step' = [step EXCEPT ![t] = @ + 1] /\ UNCHANGED pc
    /\ UNCHANGED <<appVars, kind, server, taskVars, dnscache, port53, process>>

(* Mutant of Deactivate: the mutex stays locked. *)
Deactivate_KeepsGuard(t) ==
    /\ At(t, "deactivate")
    /\ tunnel' = Nobody
    /\ IF kind[t] = "quit"
       THEN Goto(t, "ended") /\ Exit
       ELSE /\ sessions' = sessions \ {tunnel}
            /\ draining' = draining \cup ({tunnel} \cap flows)
            /\ Goto(t, "start_dnscache")
            /\ UNCHANGED <<live, flows, osVars>>
    /\ UNCHANGED <<status, tunnel_lock, proxy_ip, task_handles, kind, server, step>>

(* deactivate, and the end of the mutex guard's scope.  Shutting a session *)
(* down stops its receive; it ends when no relay task holds it any more.   *)
Deactivate(t) ==
    /\ At(t, "deactivate")
    /\ tunnel' = Nobody
    /\ tunnel_lock' = Nobody
    /\ IF kind[t] = "quit"
       THEN Goto(t, "ended") /\ Exit
       ELSE /\ sessions' = sessions \ {tunnel}
            /\ draining' = draining \cup ({tunnel} \cap flows)
            /\ Goto(t, "start_dnscache")
            /\ UNCHANGED <<live, flows, osVars>>
    /\ UNCHANGED <<status, proxy_ip, task_handles, kind, server, step>>

(* Mutant of StartDnscache: restore_dnscache is not called. *)
StartDnscache_Skipped(t) ==
    /\ At(t, "start_dnscache")
    /\ Goto(t, "forget_ip")
    /\ UNCHANGED <<appVars, kind, server, step, taskVars, osVars>>

(* restore_dnscache: the service, started, may take the port; whether sc    *)
(* could start it is not asked.                                            *)
StartDnscache(t) ==
    /\ At(t, "start_dnscache")
    /\ \/ /\ dnscache' = TRUE
          /\ port53' \in IF port53 = "free" THEN {"free", "dnscache"} ELSE {port53}
       \/ "sc_start" \in MayFail /\ UNCHANGED <<dnscache, port53>>
    /\ Goto(t, "forget_ip")
    /\ UNCHANGED <<appVars, kind, server, step, taskVars, netconf, process>>

ForgetIp(t) ==
    /\ At(t, "forget_ip")
    /\ proxy_ip' = NoServer
    /\ Goto(t, "settle")
    /\ UNCHANGED <<status, tunnel, tunnel_lock, task_handles, kind, server, step, taskVars, osVars>>

(* clear_cache (see DnsProxy) and the final status.                        *)
Settle(t) ==
    /\ At(t, "settle")
    /\ status' = "Disconnected"
    /\ Goto(t, "ended")
    /\ UNCHANGED <<tunnel, tunnel_lock, proxy_ip, task_handles, kind, server, step, taskVars, osVars>>

-----------------------------------------------------------------------------
(* The background tasks and Windows *)

DnsBinds(t) ==
    /\ process # "gone"
    /\ <<"dns", t>> \in live
    /\ port53 = "free"
    /\ port53' = t
    /\ UNCHANGED <<appVars, callVars, taskVars, netconf, dnscache, process>>

(* "DNS proxy остановлен": the bind fails, which nothing but the log tells. *)
DnsDies(t) ==
    /\ process # "gone"
    /\ <<"dns", t>> \in live
    /\ port53 \notin {"free", t}
    /\ live' = live \ {<<"dns", t>>}
    /\ UNCHANGED <<appVars, callVars, sessions, flows, draining, osVars>>

(* receive_blocking fails once the session is shut down. *)
DispatchEnds(t) ==
    /\ process # "gone"
    /\ <<"dispatch", t>> \in live
    /\ t \notin sessions
    /\ live' = live \ {<<"dispatch", t>>}
    /\ UNCHANGED <<appVars, callVars, sessions, flows, draining, osVars>>

(* open_flow spawns relay tasks, which no disconnect aborts (see FlowTable). *)
FlowsOpen(t) ==
    /\ MayRelay
    /\ process # "gone"
    /\ <<"dispatch", t>> \in live
    /\ t \in sessions
    /\ flows' = flows \cup {t}
    /\ UNCHANGED <<appVars, callVars, live, sessions, draining, osVars>>

(* The last relay task of the loop is over. *)
FlowsEnd(t) ==
    /\ process # "gone"
    /\ t \in flows
    /\ flows' = flows \ {t}
    /\ draining' = draining \ {t}
    /\ UNCHANGED <<appVars, callVars, live, sessions, osVars>>

DnscacheReleases ==
    /\ ~dnscache
    /\ port53 = "dnscache"
    /\ port53' = "free"
    /\ UNCHANGED <<appVars, callVars, taskVars, netconf, dnscache, process>>

(* The process dies and is started again: AppState is new, Windows is not. *)
Crash ==
    /\ MayCrash
    /\ process = "fresh"
    /\ process' = "restarted"
    /\ ProcessEnds
    /\ status' = "Disconnected"
    /\ tunnel' = Nobody
    /\ tunnel_lock' = Nobody
    /\ proxy_ip' = NoServer
    /\ task_handles' = {}
    /\ pc' = [t \in Toggles |-> IF pc[t] = "new" THEN "new" ELSE "ended"]
    /\ UNCHANGED <<kind, server, step, netconf, dnscache>>

-----------------------------------------------------------------------------
Proceed(t) ==
    \/ Activated(t) \/ ActivateFailed(t) \/ Resolved(t) \/ ResolveFailed(t)
    \/ ConfigureStep(t) \/ ConfigureFailed(t) \/ KeepIp(t) \/ Store(t)
    \/ PortFree(t) \/ StopDnscache(t) \/ PortTaken(t)
    \/ SpawnDns(t) \/ RegisterDns(t) \/ SpawnDispatch(t) \/ RegisterDispatch(t)
    \/ Finish(t)
    \/ AbortTasks(t) \/ TakeTunnel(t) \/ NoTunnel(t) \/ ReadIp(t) \/ UndoStep(t)
    \/ Deactivate(t) \/ StartDnscache(t) \/ ForgetIp(t) \/ Settle(t)

Start(t) == Disconnect(t) \/ Quit(t) \/ \E s \in Servers : Connect(t, s)

Background ==
    \/ DnscacheReleases
    \/ Crash
    \/ \E t \in Toggles :
          DnsBinds(t) \/ DnsDies(t) \/ DispatchEnds(t) \/ FlowsOpen(t) \/ FlowsEnd(t)

(* The calls of the instance are used up, or the program is gone. *)
AllEnded ==
    /\ process = "gone" \/ \A t \in Toggles : pc[t] = "ended"
    /\ UNCHANGED vars

Next == Background \/ AllEnded \/ \E t \in Toggles : Start(t) \/ Proceed(t)

Spec == Init /\ [][Next]_vars

(* The executor runs every task, nothing a call waits for outside is       *)
(* unbounded, and a stopped service gives its port back.                   *)
Fairness == WF_vars(DnscacheReleases) /\ \A t \in Toggles : WF_vars(Proceed(t))
FairSpec == Spec /\ Fairness

-----------------------------------------------------------------------------
(* Properties *)

InRollback(t) == pc[t] \in {"read_ip", "undo", "deactivate"}

(* Disconnects, a quit and a connect that stores its adapter may overlap at *)
(* will: one of them at a time is between taking the adapter and shutting   *)
(* it down, so that no rollback acts on another call's adapter.             *)
RollbackExclusive ==
    \A t \in Toggles : InRollback(t) =>
       /\ tunnel_lock = t
       /\ tunnel # Nobody
       /\ \A u \in Toggles : InRollback(u) => u = t

(* However calls overlap, a background task that runs can be aborted by the *)
(* next disconnect: it is registered, or its connect is about to do so.     *)
NoOrphanTasks ==
    \A task \in live :
       \/ task \in task_handles
       \/ task[1] = "dns" /\ pc[task[2]] = "register_dns"
       \/ task[1] = "dispatch" /\ pc[task[2]] = "register_dispatch"

(* With no call beside a connect: once "Connected" is shown, packets         *)
(* and DNS queries are served, by the adapter that is stored.               *)
ConnectedMeansServed ==
    (Running = {} /\ status = "Connected" /\ process # "gone") =>
       /\ tunnel \in sessions
       /\ {<<"dns", tunnel>>, <<"dispatch", tunnel>>} \subseteq live

AdapterRoutes == {"low", "high", "dns"}

(* With no call beside a connect: once "Connected" is shown, every           *)
(* route and setting this process made belongs to the server that the next  *)
(* disconnect will undo, whatever failed or half failed on the way.         *)
ConnectedIsUndoable ==
    (Running = {} /\ status = "Connected" /\ process = "fresh") =>
       netconf \subseteq IF proxy_ip = NoServer THEN {} ELSE AdapterRoutes \cup {proxy_ip}

(* With no call beside a connect: while a half of the default route          *)
(* leads into the tunnel, outside an undo, the /32 route is there that      *)
(* keeps the connections to the proxy in use out of it: no order of steps,  *)
(* failure or earlier connect sends the tunnel's traffic into the tunnel.   *)
ProxyNotTunnelled ==
    LET configuring == {t \in Toggles : At(t, "configure") \/ At(t, "keep_ip")}
        inUse       == {proxy_ip} \cup {server[t] : t \in configuring}
    IN  (/\ process = "fresh"
         /\ \A t \in Toggles : ~At(t, "undo")
         /\ netconf \cap {"low", "high"} # {}) => netconf \cap inUse # {}

(* The adapter is shut down only when no route or DNS setting is left that  *)
(* leads into it: whatever failed or was half done before, a disconnect or  *)
(* a quit leaves Windows as it was.  After a crash this takes a server      *)
(* whose address is known, and routes to other servers may be left.         *)
RoutesGoFirst ==
    [][\A t \in Toggles : Deactivate(t) =>
          /\ process = "fresh" => netconf = {}
          /\ server[t] # NoServer => netconf \cap (AdapterRoutes \cup {server[t]}) = {}]_vars

(* A disconnect that ends leaves nothing of this program behind: no task,   *)
(* no open session and, unless it could not be started, Dnscache running.   *)
DisconnectEndsAll ==
    [][\A t \in Toggles : Settle(t) =>
          /\ live = {} /\ sessions = {} /\ tunnel = Nobody
          /\ "sc_start" \notin MayFail => dnscache]_vars

(* Every call comes to an end, also when it waits for the tunnel mutex      *)
(* while another one restores the routes.                                   *)
CallsEnd == \A t \in Toggles : t \in Running ~> (t \notin Running \/ process = "gone")

(* README.md:35: "on disconnect aborts tasks, restores routing".            *)
RoutingRestored ==
    [][\A t \in Toggles : (Settle(t) /\ Running = {t}) => netconf = {}]_vars
=============================================================================
