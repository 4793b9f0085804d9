---------------------------- MODULE ProxySession ----------------------------
(***************************************************************************)
(* One connection to a proxy server: ProxyConnector::connect and            *)
(* measure_latency of src/src/proxy/connector.rs, for each kind of profile, *)
(* the relay task that writes to the ProxyStream it gets, and a server that *)
(* goes on speaking what the request was sent in.                          *)
(*                                                                         *)
(* What is sent is an item each, with the layer it is sent in: plain TCP,   *)
(* the TLS of the operating system, the TLS 1.3 of tls13.rs, or the AEAD of *)
(* Shadowsocks.  RealityHandshake and ShadowsocksCipher have the latter two.*)
(***************************************************************************)
EXTENDS Integers, Sequences

CONSTANTS
    Targets,   \* records [type, address]: what a flow or a ping may ask for
    NoTarget,
    TooLong,   \* the targets whose domain is longer than 255 bytes
    MaxData    \* bound on the data that is relayed

ASSUME TargetAssumption ==
    /\ \A t \in Targets : /\ t.type \in {"ipv4", "domain", "ipv6"}
                          /\ t = [type |-> t.type, address |-> t.address]
    /\ NoTarget \notin Targets /\ TooLong \subseteq Targets
    /\ MaxData \in Nat

VARIABLES
    profile,    \* the kind of the profile
    target,     \* what connect was asked for
    call,       \* where connect is
    layer,      \* the layer of the ProxyStream
    upstream,   \* items on their way to the server
    relayed,    \* data written to the ProxyStream
    proxy,      \* where the server is
    dialled,    \* the target the server connected to
    delivered,  \* data the target received
    socket      \* the TCP connection

sessionVars == <<profile, target, call, layer, upstream, relayed, proxy, dialled,
                 delivered, socket>>
proxyVars   == <<proxy, dialled, delivered>>

(* ProtocolType; "vless tls" and "vless reality" by the fields of a profile. *)
Kinds  == {"vless", "vless tls", "vless reality", "trojan", "shadowsocks"}
Layers == {"tcp", "tls", "tls13", "aead"}

SessionTypeOK ==
    /\ profile \in Kinds /\ target \in Targets
    /\ call  \in {"start", "open", "secure", "returned", "dropped", "failed"}
    /\ layer \in Layers
    /\ \A i \in DOMAIN upstream : upstream[i].layer \in Layers
    /\ delivered <= relayed /\ relayed <= MaxData
    /\ proxy \in {"waits", "serves", "refused"}
    /\ dialled \in Targets \cup {NoTarget}
    /\ socket  \in {"open", "closed"}

SessionInit ==
    /\ profile \in Kinds /\ target \in Targets
    /\ call = "start" /\ layer = "tcp" /\ upstream = <<>> /\ relayed = 0
    /\ proxy = "waits" /\ dialled = NoTarget /\ delivered = 0
    /\ socket = "closed"

-----------------------------------------------------------------------------
(* The layer of the request. *)
RequestLayer ==
    CASE profile = "vless tls"     -> "tls"
      [] profile = "vless reality" -> "tls13"
      [] profile = "shadowsocks"   -> "aead"
      [] OTHER                     -> "tcp"

(* Mutant of StreamLayer: the inner stream is returned for both kinds of TLS. *)
StreamLayer_Inner == "tcp"

(* ProxyStream::Tls holds the TLS stream, every ProxyStream::Plain the TCP  *)
(* stream; for REALITY that is into_inner().                               *)
StreamLayer == IF profile = "vless tls" THEN "tls" ELSE "tcp"

Types(scheme) == IF scheme = "vless" THEN <<"ipv4", "domain", "ipv6">>
                 ELSE <<"ipv4", "", "domain", "ipv6">>

(* Mutant of Scheme: one address encoding for all. *)
Scheme_Socks == "socks5"

Scheme == IF profile \in {"trojan", "shadowsocks"} THEN "socks5" ELSE "vless"

(* encode_address: the number of the type, and the address.                *)
Atyp(t) == CHOOSE n \in DOMAIN Types(Scheme) : Types(Scheme)[n] = t.type

Item(lay, what, n, address) ==
    [layer |-> lay, what |-> what, atyp |-> n, address |-> address]

Fails == call' = "failed" /\ socket' = "closed"

Connect ==
    /\ call = "start"
    /\ \/ call' = "open" /\ socket' = "open"
       \/ Fails                                  \* or CONNECT_TIMEOUT
    /\ UNCHANGED <<profile, target, layer, upstream, relayed, proxyVars>>

(* A missing or malformed field of the profile, or a domain too long.  The  *)
(* TLS handshakes fail here too.                                           *)
ConnectFails ==
    /\ call = "open"
    /\ Fails
    /\ UNCHANGED <<profile, target, layer, upstream, relayed, proxyVars>>

Secure ==
    /\ call = "open" /\ target \notin TooLong
    /\ profile \in {"vless tls", "vless reality"}
    /\ call' = "secure"
    /\ UNCHANGED <<profile, target, layer, upstream, relayed, proxyVars, socket>>

SendTarget ==
    /\ target \notin TooLong
    /\ call = IF profile \in {"vless tls", "vless reality"} THEN "secure" ELSE "open"
    /\ \/ /\ upstream' = Append(upstream, Item(RequestLayer, "request", Atyp(target),
                                               target.address))
          /\ call' = "returned" /\ layer' = StreamLayer
          /\ UNCHANGED socket
       \/ Fails /\ UNCHANGED <<upstream, layer>>
    /\ UNCHANGED <<profile, target, relayed, proxyVars>>

(* relay_flow writes a segment of the client's.                            *)
RelayData ==
    /\ call = "returned" /\ socket = "open"
    /\ relayed < MaxData
    /\ upstream' = Append(upstream, Item(layer, "data", 0, target.address))
    /\ relayed'  = relayed + 1
    /\ UNCHANGED <<profile, target, call, layer, proxyVars, socket>>

(* measure_latency drops the stream at once, a relay when it ends.         *)
DropStream ==
    /\ call = "returned"
    /\ call' = "dropped"
    /\ UNCHANGED <<profile, target, layer, upstream, relayed, proxyVars, socket>>

-----------------------------------------------------------------------------
(* The server *)

Takes == socket = "open" /\ upstream # <<>> /\ upstream' = Tail(upstream)

(* It reads the type by its own scheme.                                    *)
ReadType(n) ==
    LET own == Types(IF profile \in {"trojan", "shadowsocks"} THEN "socks5" ELSE "vless")
    IN  IF n \in DOMAIN own THEN own[n] ELSE ""

Understood(item) ==
    /\ item.layer = RequestLayer
    /\ item.what = "request" <=> proxy = "waits"
    /\ item.what = "request"
          => [type |-> ReadType(item.atyp), address |-> item.address] \in Targets

ServerDials ==
    /\ Takes
    /\ Understood(Head(upstream)) /\ proxy = "waits"
    /\ dialled' = [type |-> ReadType(Head(upstream).atyp), address |-> Head(upstream).address]
    /\ proxy' = "serves"
    /\ UNCHANGED <<profile, target, call, layer, relayed, delivered, socket>>

ServerForwards ==
    /\ Takes
    /\ Understood(Head(upstream)) /\ proxy = "serves"
    /\ delivered' = delivered + 1
    /\ UNCHANGED <<profile, target, call, layer, relayed, proxy, dialled, socket>>

(* What does not authenticate, or is no request, ends the connection.      *)
ServerRefuses ==
    /\ Takes
    /\ ~Understood(Head(upstream))
    /\ proxy' = "refused" /\ socket' = "closed"
    /\ UNCHANGED <<profile, target, call, layer, relayed, dialled, delivered>>

SessionNext ==
    \/ Connect \/ ConnectFails \/ Secure \/ SendTarget \/ RelayData \/ DropStream
    \/ ServerDials \/ ServerForwards \/ ServerRefuses

SessionSpec == SessionInit /\ [][SessionNext]_sessionVars

-----------------------------------------------------------------------------
(* Properties *)

(* Whatever the kind of profile and the form of the target, the server      *)
(* connects to the target that was asked for; and what a relay writes to    *)
(* the stream of a VLESS, a VLESS-over-TLS or a Trojan profile is in the    *)
(* layer its server listens to.                                            *)
ServedAsAsked ==
    /\ dialled \in {NoTarget, target}
    /\ profile \in {"vless", "vless tls", "trojan"} => proxy # "refused"

(* connector.rs:408 of every profile: the stream is "ready to transfer      *)
(* data", so that no server refuses what is written to it.                  *)
ReadyForData == proxy # "refused"
=============================================================================
