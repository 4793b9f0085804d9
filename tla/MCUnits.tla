------------------------------ MODULE MCUnits ------------------------------
(***************************************************************************)
(* Small instances of the modules that are checked on their own: the       *)
(* allocator, the REALITY handshake, the readers of foreign bytes, the     *)
(* Shadowsocks cipher, the session with a proxy, the profiles and the      *)
(* texts they are made of.  The initial state chooses one of these units,  *)
(* which runs alone: the others keep the one initial state that is pinned. *)
(* So the behaviours of each unit are those of its own specification.      *)
(***************************************************************************)
EXTENDS FakeIpManager, RealityHandshake, ByteReaders, ShadowsocksCipher,
        ProxySession, Profiles, Subscription

VARIABLE unit

Units == {"allocator", "handshake", "reader", "cipher", "session", "profiles",
          "subscription"}

-----------------------------------------------------------------------------
(* Constants *)

MCFlight == <<"EncryptedExtensions", "Certificate", "CertificateVerify">>

MCTargets == [type : {"ipv4", "ipv6", "domain"}, address : {"a"}]
                \cup [type : {"domain"}, address : {"long"}]
MCTooLong == {t \in MCTargets : t.address = "long"}

MCParsed == [t \in Texts |-> CASE t = "two" -> <<"s1", "s2">>
                               [] t = "one" -> <<"s2">>
                               [] OTHER     -> <<>>]

Strings(S, n) == UNION {[1 .. k -> S] : k \in 0 .. n}

(* Words, digits and delimiters in any order, then a query and a fragment. *)
MCLinks ==
    {[kind |-> "link", scheme |-> s, rest |-> authority \o tail] :
        s         \in {"vless", "ss"},
        authority \in Strings({"@", ":", Letters, Digits}, 5),
        tail      \in Strings({"@", ":", "?", "#", Letters}, 2)}

MCOutbounds ==
    [protocol : {"vless"}, server : {"h1", "h2"}, port : {1, 2}, security : {"tls"}, key : {"k"}]
      \cup {[protocol |-> "other", server |-> "h1", port |-> 1, security |-> "none", key |-> "k"],
            [protocol |-> "vless", server |-> "", port |-> 1, security |-> "none", key |-> "k"],
            [protocol |-> "vless", server |-> "h1", port |-> 65536, security |-> "none", key |-> "k"],
            [protocol |-> "vless", server |-> "h1", port |-> 1, security |-> "reality", key |-> "k"]}
MCDocuments == [kind : {"json"}, outbounds : Strings(MCOutbounds, 3)]
MCPages     == [kind : {"lines"}, lines : Strings({"blank", "good", "bad"}, 3)]

-----------------------------------------------------------------------------
(* One unit at a time.  A variable with many initial values has one of     *)
(* them while another unit runs.                                            *)
While(u, values, one) == IF unit = u THEN values ELSE {one}

UnitsInit ==
    /\ unit    \in Units
    /\ reader  \in While("reader", Readers, "dns")
    /\ len     \in While("reader", 0 .. MaxLen, 0)
    /\ profile \in While("session", Kinds, "vless")
    /\ target  \in While("session", Targets, [type |-> "ipv4", address |-> "a"])
    /\ FimInit /\ TlsInit /\ ReadInit /\ CipherInit /\ SessionInit /\ ProfInit
    /\ IF unit = "subscription"
       THEN SubInit
       ELSE input = [kind |-> "lines", lines |-> <<>>] /\ output = <<>> /\ parsed = FALSE

AllocatorRuns ==
    /\ unit = "allocator" /\ FimNext
    /\ UNCHANGED <<unit, tlsVars, readVars, cipherVars, sessionVars, profVars, subVars>>

ClientRuns ==
    /\ unit = "handshake" /\ ClientStep
    /\ UNCHANGED <<unit, fimVars, readVars, cipherVars, sessionVars, profVars, subVars>>

ServerRuns ==
    /\ unit = "handshake" /\ ServerStep
    /\ UNCHANGED <<unit, fimVars, readVars, cipherVars, sessionVars, profVars, subVars>>

NetworkRuns ==
    /\ unit = "handshake" /\ (ServerMay \/ Close)
    /\ UNCHANGED <<unit, fimVars, readVars, cipherVars, sessionVars, profVars, subVars>>

ReaderRuns ==
    /\ unit = "reader" /\ ReadNext
    /\ UNCHANGED <<unit, fimVars, tlsVars, cipherVars, sessionVars, profVars, subVars>>

CipherRuns ==
    /\ unit = "cipher" /\ CipherNext
    /\ UNCHANGED <<unit, fimVars, tlsVars, readVars, sessionVars, profVars, subVars>>

SessionRuns ==
    /\ unit = "session" /\ SessionNext
    /\ UNCHANGED <<unit, fimVars, tlsVars, readVars, cipherVars, profVars, subVars>>

ProfilesRun ==
    /\ unit = "profiles" /\ ProfNext
    /\ UNCHANGED <<unit, fimVars, tlsVars, readVars, cipherVars, sessionVars, subVars>>

SubscriptionRuns ==
    /\ unit = "subscription" /\ Add
    /\ UNCHANGED <<unit, fimVars, tlsVars, readVars, cipherVars, sessionVars, profVars>>

UnitsNext ==
    \/ AllocatorRuns \/ ClientRuns \/ ServerRuns \/ NetworkRuns \/ ReaderRuns
    \/ CipherRuns \/ SessionRuns \/ ProfilesRun \/ SubscriptionRuns

unitsVars == <<unit, fimVars, tlsVars, readVars, cipherVars, sessionVars, profVars, subVars>>

(* The fairness of TlsFairSpec. *)
UnitsSpec ==
    UnitsInit /\ [][UnitsNext]_unitsVars /\ WF_unitsVars(ClientRuns) /\ WF_unitsVars(ServerRuns)

-----------------------------------------------------------------------------
(* Properties *)

(* The types of the unit that runs, with the locals that each place in a   *)
(* method needs.                                                            *)
UnitsTypeOK ==
    CASE unit = "allocator" -> FimTypeOK
      [] unit = "handshake" -> TlsTypeOK
      [] unit = "reader"    -> ReadTypeOK
      [] unit = "cipher"    -> CipherTypeOK
      [] unit = "session"   -> SessionTypeOK
      [] unit = "profiles"  -> ProfTypeOK
      [] unit = "subscription" -> parsed \in BOOLEAN

(* connect of the REALITY handshake returns unless a message is cut: see    *)
(* HandshakeEnds.                                                           *)
UnitsEnd == unit = "handshake" => HandshakeEnds
=============================================================================
