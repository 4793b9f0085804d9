# TunK: a TLA+ model of the VPN client

TunK (`src/`) is a VPN client for Windows: a Rust backend in a Tauri window. It
answers DNS queries with addresses of its own (FakeIP), sends the FakeIP range
into a Wintun adapter, and relays each TCP flow it finds there to a proxy. This
directory models the parts of it in which several actors share state, checks
them with TLC and proves the main facts with TLAPS.

All paths below are relative to `src/src/`; `README.md:n` is the repository's
`src/README.md`.

## 1. The system

| component | code | state | operations | what is hard |
|---|---|---|---|---|
| FakeIP allocator | `network/dns.rs` `FakeIpManager` | three concurrent maps: used, forward, reverse | `resolve_to_fake_ip`, `release_ip` | each map is atomic, their combination is not; exhaustion |
| DNS proxy | `network/dns.rs` `DnsProxy`, `state.rs` | FakeIP tables of `AppState`, an allocator per session | receive loop, a task per query, `clear_cache` | handlers outlive a disconnect; two tables, two inserts |
| VPN lifecycle | `commands.rs`, `lib.rs`, `state.rs` | status, stored adapter, proxy address, task list | `toggle_vpn`, tray quit | calls overlap; every step can fail; crash |
| Wintun adapter, routes | `network/tun.rs`, `network/route.rs` | session, routes, interface DNS | activate, configure, restore, deactivate | order of undoing; half done configurations |
| Packet dispatch | `network/dispatch.rs` | flow table | packets, `open_flow`, idle cleanup | tasks end in any order; a key is used again |
| Flow relay | `network/dispatch.rs` `relay_flow` | bounded channel, sequence numbers | queue, write, ACK, read, forward, close | drops, cumulative ACKs, close while queued; holes in the answer, one FIN for every end |
| Proxy connector | `proxy/connector.rs` | the layers of a connection, nonces of the AEAD | `connect`, `measure_latency`, `seal`, `open` | five kinds of profile, two address encodings, three layers; which layer is handed on |
| TLS 1.3 client | `proxy/tls13.rs` | handshake state, transcript, counters | `complete_tls13_handshake`, `send_app_data` | records and messages do not line up; no timeout |
| Readers of foreign bytes | `network/dns.rs`, `network/dispatch.rs`, `proxy/tls13.rs`, `proxy/sniffer.rs` | an offset into a buffer | DNS question, IPv4 and TCP headers, ServerHello, handshake messages, SNI | lengths in the buffer lie; a slice past the end panics |
| Profiles, subscriptions | `config.rs`, `state.rs`, `commands.rs` | profile list, selection, file | parse, add, select, load, save | overlapping updates, a save that is not atomic, ids of a list that is gone; links with delimiters in the wrong place |
| Statistics, log | `state.rs`, `utils/logger.rs` | counters, ring of 100 entries | add, read, write back | a write back loses what relays added |
| REALITY hello, obfuscation, helpers | `proxy/`, `utils/` | none | pure functions | byte layout |
| Window, tray | `public/src/App.tsx`, `lib.rs` | shown status | starts commands | acts on a status it polled |

How they interact. `toggle_vpn` drives the adapter and the routes and spawns the
two background tasks of a session: the DNS receive loop and the dispatch loop.
The DNS handlers write the FakeIP tables of `AppState`; `open_flow` reads the
reverse one for each SYN, reads the selected profile, registers the flow and
spawns its relay; the relay calls `connect` and then moves data. Disconnecting
aborts the two loops, undoes the routes, shuts the session down and clears the
tables. Relays, DNS handlers and the cleanup task are not aborted.

What makes each part correct: an address never means two names and what a client
was told leads back to its name (DNS); whatever was set up is undone in order and
nothing keeps running (lifecycle); an entry of the flow table stands for a live
relay and every relay ends (dispatch); no data is lost, doubled or acknowledged
in vain (relay); both ends agree on keys and counters (TLS, Shadowsocks), and the
proxy connects where the flow wanted to go (connector); no reader leaves its
buffer; an id never comes to mean another server, and a restart finds the list that
the user had (profiles).

## 2. Modules

| module | models | composes |
|---|---|---|
| `FakeIpManager` | the allocator, one map operation a step | |
| `DnsProxy` | receive loop, handler tasks, `AppState` tables, sessions | extends `FakeIpManager`; implements `FakeNames` |
| `FakeNames` | abstract: an address has one owner for good, clients hear only owners | |
| `VpnLifecycle` | overlapping `toggle_vpn` calls, quit, adapter, routes, Dnscache, crash | |
| `FlowTable` | dispatch loop, cleanup task, lives of the relay tasks | |
| `RelayStream` | upload direction of one flow | implements `BytePipe` |
| `FlowRelay` | both directions of one flow, and how it ends | extends `RelayStream`; implements it, and `BytePipe` from the proxy to the client |
| `BytePipe` | abstract: segments arrive once, in order, ACKs are true | |
| `ProxySession` | `connect` for each kind of profile, the relay that writes to its stream, the proxy | takes the next two as layers |
| `RealityHandshake` | `connect` for VLESS + REALITY against an RFC 8446 server | |
| `ShadowsocksCipher` | `seal` and `open` at both ends of a stream cut anywhere | |
| `ByteReaders` | five readers, offset by offset | |
| `Profiles` | the list in memory, file and window; selection; crashes | takes `Subscription` as the constant `Parsed` |
| `Subscription` | what a pasted text is parsed into | |
| `MCUnits` | the stand-alone modules, one of them in each behaviour | extends `FakeIpManager`, `RealityHandshake`, `ByteReaders`, `ShadowsocksCipher`, `ProxySession`, `Profiles`, `Subscription` |
| `DnsProxy_proofs`, `VpnLifecycle_proofs`, `FlowTable_proofs`, `RealityHandshake_proofs` | theorems | extend the module they are about, the first also `FakeIpManager` |
| `RelayStream_proofs` | theorems about `RelayStream` and `FlowRelay` | extends `FlowRelay` |
| `ProxyLayers_proofs` | theorems about `ByteReaders`, `ProxySession` and `ShadowsocksCipher` | extends the three |
| `Profiles_proofs` | theorems about `Profiles` and `Subscription` | extends both |
| `Units_proofs` | that `MCUnits` runs each unit as its own specification | extends `MCUnits` and the four modules of theorems about its units |
| `MC*` | model values, symmetry | extend the module they instantiate |

### FakeIpManager, DnsProxy

The variables `used_ips`, `domain_to_ip`, `ip_to_domain` are the three maps of
`FakeIpManager`, `pc` the place of a call between two of them. `allocate_ip` scans
one address per step (`ScanTaken`, `ScanFree`, `ScanEnd`); the insert that finds
the address free is the atomic decision. In `DnsProxy` a handler goes through
`Recv`, `CheckHit`/`CheckMiss`, the allocator's steps, `PutForward`, `PutReverse`,
`Answer`. `AbortLoop`, `ClearForward`, `ClearReverse` are the disconnect. A
DashMap operation is one step, as its shard lock makes it; `clear`, which takes
one shard lock after the other, is one step too, since an insertion is ordered
before or after the emptying of its own shard. `overlapped` is a history variable:
a `clear_cache` ran while handlers or another session were at work.
`Release` is `release_ip`, which only the tests call: it is an operation of
`FakeIpManager` in the run `units` and in the theorems, and no step of `DnsProxy`.

### VpnLifecycle

`pc[t]` walks through `toggle_vpn_impl` with one action for each access to
`AppState` or child process (`ConnectSteps`, `DisconnectSteps` list them in
order). `netconf` is the set of routes and DNS settings in Windows, `RoutingPlan`
the order in which `configure_routing` installs them. `server[t]` is the proxy
address a call works with; `tunnel` the call whose adapter is stored. `Quit` runs
the tray's own shorter rollback. `Outside` names what may fail; each failure
follows the error path of the code. A disconnect ignores a failed `sc start`
(`commands.rs:62`), so `DisconnectEndsAll` asks for Dnscache only where it could
be started. `Crash` ends the process at any point and a
new one starts with a fresh `AppState` and what Windows kept. `flows` and
`draining` hold a session open as relay tasks do, each with an `Arc` of it.

### FlowTable, RelayStream, FlowRelay

`table` maps a 4-tuple to the relay whose channel's sender it holds; removing or
replacing an entry is what closes a channel. `task[f]` is the relay's place in
`relay_flow`, "remove" being the time between its return and `flows_c.remove`.
`RelayStream` looks into one flow: `queue` is the channel with the segments'
sequence numbers, `written` what `write_all` handed over, `acked` the cumulative
ACK. There the return of the relay and the removal of its entry are one step
(`End`): what happens in between is the subject of `FlowTable`. `Retransmit`
models the client's timer, once. `Removed` is the cleanup of an idle flow, or an RST;
`offered` remembers how far the client had come when its flow left the table.

`FlowRelay` conjoins what the same step does to the other direction. `Fetch` is a read
of up to six chunks, `Forward` one packet of the loop over them: while `chunks` are left
the relay polls nothing, but client and dispatch loop go on. `ourSeq` is `our_seq`; the
client takes a chunk that is next in order if it has room, and there is no window in the
code and nothing is sent twice, so that a chunk without room leaves a `Hole` for good.
`told` is what the client knows: a FIN (`TellFin`) counts for it only behind everything
before it. A read of 0 bytes, a failed read (`FetchEnds`) and a removed flow
(`RelayRecvNone`) end alike; a full ring (`ForwardFails`) ends without a word.

### RealityHandshake

`client` is the place in `connect`; `transcript` the messages hashed into `ts`;
`srvSeq`, `writeSeq` the counters of the nonces. The server is external: it packs
its flight into records as TLS allows. A message is two halves, so that records
may end within one; what the client makes of a record that starts within a
message is left open (`ParseGarbage`), as its bytes could be anything.
Cryptography is ideal.

### ProxySession, ShadowsocksCipher

`ProxySession` follows one call of `connect`: the TCP connection, the handshake of
the kinds that have one, the request with the target, and the `ProxyStream` it
returns. An item on its way to the server carries the layer it was sent in, the
number `encode_address` gave to the type of the target, and the address. The
server is external: it understands one layer and one numbering, by the protocol of
the profile, and refuses everything else. `StreamLayer` is the layer of the stream
that is returned, which is not always that of the request (divergence 5).

`ShadowsocksCipher` puts the cipher at both ends: `Seal` writes a salt once, then a
sealed length and payload, each under the next nonce; `open` is called when any
number of items has arrived. A nonce is a number of `NonceBytes` digits that is
incremented digit by digit with its carries, as `increment_nonce` does. Tests alone
call `open`.

### ByteReaders

One reader per initial state walks a buffer of any length whose fields hold any
value. `pos` is the offset, `reach` the end of the furthest read; the variables
`body`, `exts`, `ext`, `names` are the ends the SNI reader has computed. A check of
the code is a guard, a read moves `reach`, and a length that was read is a value
chosen from `Lengths`. No byte is read twice, so that loses nothing. Tests alone
call the sniffer.

### Profiles, Subscription

`profiles`, `profile_id` are those of `AppState`, `file` is `profiles.json`, `shown`
the window's list. An `add_subscription` call parses, replaces the list in memory,
truncates the file and writes it, in steps between which other calls run and the
process may die (`Restart` loads what is left). `had` is the list the user has, by the
last answer of a call, and survives a restart as the user does, whatever the file then
holds; `lapse` is what has come between the two. Every parsed entry is given an id
of its own (a random UUID in the code, the number of the list and the entry here).
`Subscription` takes a link as a sequence of delimiters, digits and words and
parses it as `config.rs` does, by the first or last delimiter; documents and pages
of links are sequences of entries.

### MCUnits

The modules above interact with the rest of the system only through a parameter or
a result, so that composing them would multiply states and show nothing. `MCUnits`
checks them in one run: the initial state chooses a unit, whose specification then
runs, while the variables of the others keep one initial value. The properties of a
module quantify over its own variables and hold in those pinned states, so the run
shows what seven separate runs would. That it does so is a theorem (`UnitsRunTheirOwn`).

## 3. Runs

| run | instance | shows |
|---|---|---|
| `dns_session` | 2 handlers, 2 names, 2 addresses, 1 session | `OneDomainPerIp`, `ExhaustedOnlyWhenFull`, `CallReturns`, `AnswersLeadBack`, `AnswerComesTrue`, and `FakeNames` is implemented |
| `dns_reconnect` | 2 sessions | `AnswersExclusive`, `TablesPaired`: a fresh allocator over cleared tables never gives an address two meanings, if `clear_cache` ran alone |
| `dns_cleared` | 1 session | violation: entries outlive the disconnect |
| `vpn_serial` | 4 calls, a connect alone, disconnects and quits overlapping; 2 servers, all failures but those of an undo and of starting Dnscache, flows, quit, one crash | `ConnectedMeansServed`, `ConnectedIsUndoable`, `RoutesGoFirst`, `ProxyNotTunnelled`, `DisconnectEndsAll` |
| `vpn_overlap` | 3 overlapping calls, Dnscache may not start | `RollbackExclusive`, `NoOrphanTasks`, `CallsEnd` |
| `vpn_race` | 2 overlapping calls | violation: routes stay after the disconnect |
| `flow_relays` | 2 four-tuples, 2 relays, channels of 2 | `EntryHasRelay`, `ClosedRelayEnds`, `RelaysWindDown` |
| `flow_another` | 1 four-tuple, 2 relays | violation: a relay's end closes another flow |
| `relay_window` | `FlowRelay`: channel 2, window 2, 4 segments; 3 chunks, reads of 2, client with room for 2 | `ImplementsPipe`, `FinDrains`, `QueuedIsAcked`, `ReplyIsWhole`, `ReplyArrives` |
| `relay_lost` | channel 2, window 4 | violation: a dropped segment is acknowledged |
| `units` | one unit at a time, see below | allocator with releases: `BoundOnce`, `TablesAgree`; handshake: `ServerFollows`, `FailsForCause`, `UnitsEnd`; readers: `ReadsInBounds`, `LoopsMoveOn`, `NameInItsExtension`; cipher: `NonceFresh`, `OnlyEarlyOpenBreaks`; session: `ServedAsAsked`; profiles: `StartBringsBack`, `SelectionMeansIt`; texts: `ParsedAsWritten` |
| `proxy_ready` | every kind of profile and target | violation: the stream is not in the layer of its server |

Each module has one type invariant, and each is proved. `TypeOK` of the lifecycle and `UnitsTypeOK`, which
joins those of the units, are also checked in a run; `DnsProxy` keeps the allocator's and is typed by
its proof.

Why the bounds are enough. Two names and two addresses give every race for a name,
for an address and for the last address; a third task adds the bystander that a
release races with. Two sessions are the smallest number in which a table can be
stale. Three overlapping calls are a connect, a disconnect and one that waits for
the mutex; four with a connect alone reach a second server and a disconnect after a failed
connect. Two relays are the one that ends late and the one that took its key; a
channel of two has an empty, a partial and a full state. A window equal to the
channel is the largest that fits. Three chunks in reads of two make a read of one
packet and a read of two, and one more than the client has room for. Four messages
with eight halves give every way to cut the first, a middle and the last message.

The units have bounds of their own. Three tasks, two of which release, on two
addresses; a handshake flight in halves with two extra records. Readers get buffers
up to 64 bytes with length fields up to 66, above every fixed header (the SNI
reader needs 43 bytes before its first length) and one beyond every check; labels
and key shares are shorter than the program's. The cipher's nonces have three binary
digits, so that six increments carry through each of them. Two `add_subscription`
calls and one user of an id, with two texts that share a server and one that is bad,
and three lists in all, reach a stale id, overlapping saves and a restart in
between. Links are up to seven tokens after the scheme, documents and pages three
entries: enough for a delimiter before, between and after every part, and a
duplicate with something between.

Abstractions a reader should know: a name, an address, a server, a segment is a
value without inner structure; log entries, statistics and texts are left out;
time appears as steps that may happen (an idle flow, a port that stays taken).

## 4. Fairness

* DNS: each handler task runs on (`WF` of `Handle(h)`): the executor polls it and
  it waits for nothing.
* Lifecycle: each call runs on, and a stopped Dnscache gives its port back. Child
  processes end; a failing one is an action of its own. The mutex needs no strong
  fairness, since each holder lets it go within a bounded number of steps and the
  number of calls is bounded.
* Dispatch and relay: `select!` polls its branches in random order, so a branch that
  is ready again and again is taken (`SF` of `Recv`, `RecvNone`, and of `Fetched` in
  `FlowRelay`). The cleanup ticks and time passes. `ProxyFairness` (and its like in
  `FlowRelay`) is an assumption about the other side: a connect is answered and a
  write is taken or fails. The code has a timeout for the TCP connect alone.
* TLS: the client is polled, and the server answers or the connection closes. It is
  the only fairness of `units`; the other units promise no progress there.

No fairness is assumed of users, of packets of the client, of crashes or of the
closing of a connection.

## 5. Theorems

All for every value of the constants. The proofs cite the assumptions on constants
that each module names (`PoolAssumption`, `NoFlowAssumption`, `SizesAssumption`, `TextsAssumption`...).

* `DnsProxy_proofs`, the allocator. `ExclusiveAllocation` proves `BoundOnce`; it is not
  inductive alone and is strengthened with `HeldOnce` (a task with an address in
  its hands excludes all others) and `BoundIsUsed`. `OneDomain`,
  `ReverseEntriesStay` and `ExhaustionIsReal` hold when nothing is released, as in
  the program (`ProgramUse`). Their invariant adds that a claimed address is used
  and that a scan leaves only used addresses behind. `ReverseEntriesStay` has no run.
* The same, the proxy. `FirstSessionKeepsItsPromise`: `DnsSpec` implements `FakeNames`,
  a successful `used_ips.insert` being `Assign`, an answer `Tell`, and every other
  step a stutter. `AnswersStayExclusive`, `AnswersAlwaysLeadBack` and
  `TablesStayPaired` hold in every session. The invariant `DnsInv` rests on three
  ideas: a claim is never taken back (`ClaimsSolid`: behind every forward entry and
  every result there is a reverse entry, or the handler about to write it); what
  handlers and the forward table carry was claimed from the allocator of the running
  session (`Owned`); what they carry leads back, or will through the handler that
  put it there (`LedBack`). The last two hold in a later session only when no
  `clear_cache` was overlapped, which is where `overlapped` comes from. `UsesAllocator`
  hands the allocator's theorems to `DnsProxy`.
* Both, the way to the end. `CallsOnlyAdvance`, `HandlersOnlyAdvance`: a call of the
  allocator is `PoolSize + 5` steps from its end at the most, a handler `PoolSize + 8`;
  each of its own steps brings it nearer and no step of others takes it back, however
  they race for the addresses in front of its scan.
* `VpnLifecycle_proofs`. `RollbacksExclude`: who is between taking the adapter and
  shutting it down holds the mutex, for any number of overlapping calls.
  `NoTaskEscapes`: a live task is registered, or about to be by the call that
  spawned it. `WaitsAreForRollbacks`: whoever waits for the mutex waits for another
  call in its rollback, never for itself or for one that has ended or waits too.
  `CallsOnlyAdvance`: no call goes back, and each has 16 steps at the most. These four
  hold for calls that overlap in any way. The other five assume that no call is made
  beside a connect, disconnects and quits overlapping as they like, and that
  the adapter admits one session (`ConnectsApart`). `SessionInv` ties the one session to the
  call that is about to store its adapter, then to the stored adapter, and the running
  tasks to it; port 53 is the stored adapter's or free from the moment a connect has
  tested it. From it follow `ConnectedIsServed` and `DisconnectLeavesNothing`.
  `ConnectedCanBeUndone`, `ProxyStaysOutside` and `RoutesAreUndoneFirst` rest on
  `RouteInv`: while a connect configures, Windows holds exactly the steps of
  `RoutingPlan` it has made (`Before`); afterwards, routes imply a known proxy address
  and are among those that address undoes, the exclusion with the halves; and an undo
  has left only the steps it has not come to (`From`). They assume that no undo fails,
  since the code has no second try. With a call beside
  a connect none of the five holds: two or three calls refute each (divergence 2).
* `FlowTable_proofs`. `EntriesHaveRelays`: an entry stands for a relay of its own
  4-tuple that has not ended, because a relay's last act removes whatever is
  there. `OnlyRepeatedSynsRob` is the other half of divergence 3: if no SYN repeats a
  4-tuple whose relay is not over (`FreshSyns`), every channel is closed by its own relay,
  a FIN, its idleness or a disconnect, since there is then one relay to a 4-tuple
  (`OneRelayPerKey`). `CutOffRelaysWindDown`: a relay without a sender, or one that
  outlived the loop, is given nothing more and is over after `2 * QueueSize + 3` steps.
* `RelayStream_proofs`. `RelayIsAPipe`: with `Window <= QueueSize` the relay
  implements `BytePipe` until the client resends. The inductive invariant
  `Accounted` says that the segments that found the flow in the table are exactly
  those written, the one being written and those queued, in this order; it makes
  `Len(queue) < QueueSize` whenever the client may send, which is why nothing is
  dropped. `FinForwardsAll` and `AcksAreTrue` follow from it. `MessagesMoveOn` needs no
  bound on the window and allows resends: while `relay_flow` goes on, each step leaves a
  queued message where it is or moves it on towards its ACK.
  `RelayIsAStream` carries them over to `FlowRelay`. There `ReplyInv` says that `ourSeq`
  counts the chunks forwarded and is ahead of what the client took, so that a chunk
  with the client's next number is the next chunk (`ReplyPipes`) and a FIN that it takes
  stands behind the whole answer (`CloseMeansWhole`).
* `RealityHandshake_proofs`. `ServerOpensAll` (`ServerFollows`) and `HandshakeFailsForCause`
  (`FailsForCause`), for a flight of any messages in any packing. Neither is inductive: the
  first needs to know what the client had hashed when it computed its keys, the second
  that the next record on its way is the one the client can open. `TlsInv` says so in
  five parts: the types; every record on its way is well formed (`WellFormed`), with
  whole messages unless one was cut; the server's counters by its place
  (`ServerCounts`); whose turn it is and what is on its way to the server (`Turns`); and,
  while the connection is sound and the client reads, `InStep`: what is on its way goes on
  at the half and the number where the client is and ends where the server is
  (`Aligned`), and the transcript is the messages up to there (`Hashed`).
  `NobodyWaitsForever`: as long as no message was cut between records, the two ends
  do not wait for each other. It adds what each has still to send at the Finished and at
  a refusal (`FinishedIsAhead`, `RefusalIsAhead`). `HandshakeStepsBounded`: the
  handshake ends after a number of steps that the length of the flight gives, each of
  them lowering `StepsLeft`.
* `ProxyLayers_proofs`, the session. `ServedAsAskedAlways`: the request is the first item,
  is read once, and its type number is read back as it was written (`TypeReadBack`).
* The same, the cipher. `NoncesAreFresh`: an array of digits stands for a number by their
  place values (`Place`, `StandsFor`), and `increment_nonce` with its carries adds one to
  that number until all places are full. So a nonce *is* the number of items sealed
  before it, and two of one direction differ, as long as there are nonces for them
  (`2 * MaxChunks <= Place[NonceBytes]`: the code's 12 bytes outlast every connection);
  the salts keep the two directions apart. `EarlyOpenBreaks`: `CipherInv` ties both
  counters to the items sealed and opened (`SealedChunks`, `OpenedChunks`). Until `open` is
  called with part of a chunk the opener stands where the sealer stood when it sealed
  what comes next (`InPlace`); afterwards it never does again (`LostPlace`).
* The same, the readers. `StaysInBounds`, `ReadersMoveOn` and `NameEnclosed`, for
  buffers and fields of any size: the invariant states for each part how the offset
  and the ends computed so far are ordered, which is what the checks before it have
  established.
* `Profiles_proofs`. `SelectionIsMeant`: every list, in memory, file or window, holds
  entries as they were parsed, and an id determines its entry; so the server an id
  leads to is the one it was shown with, whichever list has replaced which.
  `StartsBringBack`: at each moment it is known what a start would find. `Saving` follows a
  call that runs alone through memory and file, and says whose list is in the file before it
  is truncated, in between (nobody's) and after it was written. Only a failed save and
  overlapping calls leave the file unknown, until the next save that succeeds alone.
* The same, the texts. `TextsReadAsWritten` proves `ParsedAsWritten` for texts of any length.
  A link: `FirstFacts` and `LastFacts` say what `split_once` and `rsplit_once` find,
  `Inner` that a part of a part is a part, and `LinksAsWritten` that the one reading the
  grammar allows is the one the cuts arrive at, the last ":" being the right one
  because digits and nothing else may stand behind it. A document, a page: both loops are
  functions over the number of entries read (`Loops` shows that there is such a function),
  and the place of an entry in the list is its rank among the first ones of their address
  and port (`Rank`), or among the good lines.
* `Units_proofs`. `UnitsRunTheirOwn`: `UnitsSpec` implies the specification of each unit,
  so the theorems above hold in `MCUnits`; `UnitsTyped` joins their types.
* Each of these modules also proves its type invariants; `Subscription` has none, its one
  step being described completely by `ParsedAsWritten`.

Induction. Where a proof needs it (places of digits, ranks in a list, the loops of a
parser) it is on sets of numbers: `Upwards` (`PlacesUpwards` in `Profiles_proofs`) says that a set with 0 and with the successor
of each of its members up to n holds all of `0 .. n`, and follows from the fact that `<`
on `Nat` is well founded (`LeastOf`, `LeastPlace`). Recursive definitions that are proved about are
recursive functions.

Only model-checked: what needs fairness (`CallReturns`, `AnswerComesTrue`, `CallsEnd`,
`ClosedRelayEnds`, `RelaysWindDown`, `QueuedIsAcked`, `ReplyArrives`, `UnitsEnd`). Liveness
and `ENABLED` are out of this prover's reach. What is proved of seven of them is the part
that no scheduler contributes, as safety:

| checked in a run | proved | left to fairness |
|---|---|---|
| `CallReturns` | `CallsOnlyAdvance` of the allocator | a call that can step does |
| `AnswerComesTrue` | `HandlersOnlyAdvance` | the same for handlers |
| `CallsEnd` | `CallsOnlyAdvance` of the lifecycle, `WaitsAreForRollbacks` | the same for calls, and that child processes end |
| `ClosedRelayEnds`, `RelaysWindDown` | `CutOffRelaysWindDown` | the proxy's answer or failure, the cleanup's ticks |
| `QueuedIsAcked` | `MessagesMoveOn` | the fair choice of `select!` |
| `UnitsEnd` | `HandshakeStepsBounded`, `NobodyWaitsForever` | each end does what it can |

`NobodyWaitsForever` spells out the guards of both ends (`ClientCan`, `ServerCan`), in the
place of `ENABLED`.

## 6. Divergences

Runs with `expect: violation` show where the code does not do what its texts say:

1. `dns_cleared`: a handler in flight writes after `clear_cache` (`state.rs:207`).
2. `vpn_race`: a disconnect during a connect leaves the routes (`commands.rs:161`).
3. `flow_another`: an ending relay removes a newer flow (`network/dispatch.rs:219`).
4. `relay_lost`: a segment the full channel dropped is covered by the next ACK
   (`network/dispatch.rs:266`).
5. `proxy_ready`: a Shadowsocks or REALITY profile gets the TCP stream under the
   layer in which the request was sent, and the server refuses what is written to it
   (`proxy/connector.rs:492`, `:439`).

Met while modelling, with no run of their own (they are straight paths or follow
from constants): two overlapping first lookups give a name two addresses
(`network/dns.rs:54`); a query can be answered before the reverse entry exists
(`network/dns.rs:292`); the pool contains the adapter's own address
(`network/dns.rs:12`); the port 53 error path undoes nothing (`commands.rs:123`);
quit does not start Dnscache again (`lib.rs:149`); a disconnect
ignores a Dnscache that does not start (`commands.rs:62`); a connect that ends after an
overlapping disconnect shows Connected (`commands.rs:158`); relays hold the Wintun
session after `deactivate` (`network/tun.rs:113`); a handshake message cut between
records is lost (`proxy/tls13.rs:153`); a profile selected while connected is used by the
next flow, though only the address of the first one is routed around the tunnel
(`network/dispatch.rs:175`); the latency test writes back counters that relays add
to (`commands.rs:319`); a failed save of the profiles is not reported
(`commands.rs:242`); a process that dies after `std::fs::write` has truncated the file and
before it has written it loses the saved list (`config.rs:456`), where the repository's
README.md:31 says that profiles are restored on startup (`StartBringsBack` states this
case and shows that there is no other); a failed read and an idle removal end in the same FIN as a clean
close (`network/dispatch.rs:283`), and the window the client announces is not read
(`network/dispatch.rs:286`).

## 7. Not modelled, and why

* Building packets, checksums, the REALITY ClientHello's layout, the arguments of
  `route` and `netsh` and the filter over the output of `route print`: wording and
  byte layout with no state and no lengths taken from outside.
* The content of what a relay moves: the VLESS response header, which the relay passes
  to the client with the data, is a chunk like others.
* Statistics and log: three counters and a ring for the window.
* The DoH client, `DnsManager`, `Tls13Stream`'s `AsyncRead`/`AsyncWrite`, the map of
  the sniffer, obfuscation: nothing in the program calls them.
* The window's status: it only starts commands, and `VpnLifecycle` lets any command
  start at any time. Its list of profiles is in `Profiles`.
* Wintun, Windows' TCP, the TLS server, Dnscache: external, as the code uses them.

## 8. Plan

Done: FakeIP and DNS, lifecycle, dispatch, the relay, REALITY handshake, every
kind of `connect`, Shadowsocks chunks, the readers of foreign bytes, profiles and
subscriptions; the refinements of `FakeNames` and `BytePipe` proved, and every safety
property.

1. The waiting of both ends in `relay_flow`: a proxy that reads only after it was read
   from; and the response header in the data.
2. Composition of `DnsProxy` and `FlowTable`: a SYN finds the name its client was
   told, across reconnects; which server a flow dials, against the routes of the
   session.
3. Statistics: read and write back while relays count.
4. Proofs: every invariant and every action property of the runs, and every refinement,
   is proved. Next is what the composition of item 2 needs, `EntryHasRelay` beside the
   tables of `DnsProxy`, and a measure for `ReplyArrives` like those of the other
   liveness properties.
