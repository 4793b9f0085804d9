----------------------------- MODULE ByteReaders -----------------------------
(***************************************************************************)
(* The hand-written readers of bytes that come from outside, each walking  *)
(* over a buffer by lengths it finds in the buffer itself:                 *)
(*                                                                         *)
(*   "dns"     parse_dns_question, and the response built from the query   *)
(*             (src/src/network/dns.rs)                                    *)
(*   "packet"  parse_ipv4, parse_tcp and the payload of handle_packet      *)
(*             (src/src/network/dispatch.rs)                               *)
(*   "hello"   parse_server_hello (src/src/proxy/tls13.rs)                 *)
(*   "flight"  the messages of an opened record, in                        *)
(*             complete_tls13_handshake (src/src/proxy/tls13.rs)           *)
(*   "sni"     analyze_tls_handshake and parse_server_name_extension       *)
(*             (src/src/proxy/sniffer.rs)                                  *)
(*                                                                         *)
(* No byte is read twice, so the buffer is its length, and a field yields  *)
(* any value.  A slice or an index past the end panics in Rust: of every   *)
(* read the model keeps how far it reached.                                *)
(***************************************************************************)
EXTENDS Integers

CONSTANTS
    MaxLen,      \* the longest buffer
    MaxField,    \* the largest value of a length field
    MaxLabel,    \* the longest DNS label; 63 in the program
    Word,        \* the unit of the IHL and data-offset fields; 4 in the program
    MinHeader,   \* the shortest IPv4 or TCP header; 20 in the program
    Share        \* the length of an X25519 key_share entry; 36 in the program

ASSUME ReadersAssumption ==
    /\ MaxLen \in Nat /\ MaxField \in Nat
    /\ MaxLabel \in Nat /\ Word \in Nat \ {0}
    /\ MinHeader \in Nat /\ MinHeader >= 14
    /\ Share \in Nat /\ Share >= 4

VARIABLES
    reader,   \* which of the five
    at,       \* the part it reads next
    len,      \* length of the buffer
    pos,      \* the offset in it
    body,     \* end of the message in the buffer
    exts,     \* end of its list of extensions
    ext,      \* end of the server_name extension in that list
    names,    \* end of the list of names in that extension
    reach,    \* how far reads went
    found,    \* a label, a key share or a host name has been seen
    stuck     \* history: the last step went back, or round a loop in place

readVars == <<reader, at, len, pos, body, exts, ext, names, reach, found, stuck>>
ends     == <<body, exts, ext, names>>

Readers == {"dns", "packet", "hello", "flight", "sni"}
Lengths == 0 .. MaxField
Parts   == {"start", "label", "qtype", "respond", "tcp", "session", "suite",
            "ciphers", "compression", "extensions", "extension", "names", "name",
            "accepted", "rejected"}

(* The types; of the numbers, that they never go below zero.               *)
ReadTypeOK ==
    /\ reader \in Readers
    /\ at     \in Parts
    /\ len    \in 0 .. MaxLen
    /\ pos    \in Nat
    /\ body   \in Nat /\ exts \in Nat /\ ext \in Nat /\ names \in Nat
    /\ reach  \in Nat
    /\ found  \in BOOLEAN /\ stuck \in BOOLEAN

ReadInit ==
    /\ reader \in Readers
    /\ at     = "start"
    /\ len    \in 0 .. MaxLen
    /\ pos    = 0
    /\ body = len /\ exts = len /\ ext = len /\ names = len
    /\ reach  = 0
    /\ found  = FALSE /\ stuck = FALSE

Least(a, b) == IF a <= b THEN a ELSE b

-----------------------------------------------------------------------------
(* Goes(p, r, part): a read went up to r, and `part` is read next, from p. *)
Goes(p, r, part) ==
    /\ pos'   = p
    /\ reach' = IF r > reach THEN r ELSE reach
    /\ at'    = part
    /\ stuck' = (p < pos \/ (p = pos /\ part = at))
    /\ UNCHANGED <<reader, len>>

Only(p, r, part) == Goes(p, r, part) /\ UNCHANGED <<ends, found>>

(* None or Err, after a read up to r. *)
Rejects(r) == Only(pos, r, "rejected")
Reject     == Rejects(reach)

-----------------------------------------------------------------------------
(* parse_dns_question *)

DnsHeader ==
    /\ reader = "dns" /\ at = "start"
    /\ \/ len < 12 /\ Reject
       \/ len >= 12 /\ Rejects(6)                     \* QDCOUNT = 0
       \/ len >= 12 /\ Only(12, 6, "label")

(* Mutant of LabelFits: the length byte itself is left out. *)
LabelFits_OffByOne(n) == n <= MaxLabel /\ pos + n <= len

LabelFits(n) == n <= MaxLabel /\ pos + 1 + n <= len

DnsLabel ==
    /\ reader = "dns" /\ at = "label"
    /\ \/ pos >= len /\ Reject
       \/ pos < len /\ \E n \in Lengths :
             \/ n = 0 /\ Only(pos + 1, pos + 1, "qtype")
             \/ n > 0 /\ ~LabelFits(n) /\ Rejects(pos + 1)
             \/ /\ n > 0 /\ LabelFits(n)
                /\ Goes(pos + 1 + n, pos + 1 + n, "label")
                /\ found' = TRUE /\ UNCHANGED ends

DnsType ==
    /\ reader = "dns" /\ at = "qtype"
    /\ \/ (~found \/ pos + 4 > len) /\ Reject
       \/ found /\ pos + 4 <= len /\ Only(pos + 4, pos + 2, "respond")

(* build_a_response and build_nxdomain_response copy query[12..]: the       *)
(* question and whatever follows it.                                        *)
DnsRespond ==
    /\ reader = "dns" /\ at = "respond"
    /\ Only(pos, len, "accepted")

-----------------------------------------------------------------------------
(* handle_packet: parse_ipv4, then parse_tcp for a TCP packet *)

Ipv4Header ==
    /\ reader = "packet" /\ at = "start"
    /\ \/ len < MinHeader /\ Reject
       \/ len >= MinHeader /\ Rejects(MinHeader)      \* not IPv4, or not TCP
       \/ len >= MinHeader /\ \E n \in Lengths :
             \/ len < n * Word /\ Rejects(1)
             \/ len >= n * Word /\ Only(n * Word, MinHeader, "tcp")

(* Mutant of TcpHeaderFits: the options are not checked against the packet. *)
TcpHeaderFits_NoOptions(size) == size >= MinHeader

TcpHeaderFits(size) == size >= MinHeader /\ len - pos >= size

(* What is accepted is cut at pos: the payload is bytes[payload_start..].   *)
TcpHeader ==
    /\ reader = "packet" /\ at = "tcp"
    /\ \/ len - pos < MinHeader /\ Reject
       \/ len - pos >= MinHeader /\ \E n \in Lengths :
             \/ ~TcpHeaderFits(n * Word) /\ Rejects(pos + 13)
             \/ TcpHeaderFits(n * Word) /\ Only(pos + n * Word, pos + 14, "accepted")

-----------------------------------------------------------------------------
(* parse_server_hello *)

HelloHeader ==
    /\ reader = "hello" /\ at = "start"
    /\ \/ len < 4 /\ Reject
       \/ len >= 4 /\ Rejects(1)                      \* not a ServerHello
       \/ len >= 4 /\ \E n \in Lengths :
             \/ (4 + n > len \/ n < 35) /\ Rejects(4)
             \/ /\ 4 + n <= len /\ n >= 35
                /\ Goes(4 + 34, 4, "session")
                /\ body' = 4 + n /\ UNCHANGED <<exts, ext, names, found>>

HelloSession ==
    /\ reader = "hello" /\ at = "session"
    /\ \E n \in Lengths :
          \/ pos + 1 + n + 3 > body /\ Rejects(pos + 1)
          \/ pos + 1 + n + 3 <= body /\ Only(pos + 1 + n, pos + 1, "suite")

HelloSuite ==
    /\ reader = "hello" /\ at = "suite"
    /\ \/ pos + 3 + 2 > body /\ Rejects(pos + 2)
       \/ pos + 3 + 2 <= body /\ \E n \in Lengths :
             /\ Goes(pos + 5, pos + 5, "extension")
             /\ exts' = Least(pos + 5 + n, body) /\ UNCHANGED <<body, ext, names, found>>

(* The loop runs up to the end of the list; an extension may run past it,  *)
(* but not past the message.                                               *)
HelloExtension ==
    /\ reader = "hello" /\ at = "extension"
    /\ \/ pos + 4 > exts /\ Only(pos, reach, IF found THEN "accepted" ELSE "rejected")
       \/ pos + 4 <= exts /\ \E n \in Lengths :
             \/ pos + 4 + n > body /\ Rejects(pos + 4)
             \/ pos + 4 + n <= body /\ Only(pos + 4 + n, pos + 4, "extension")
             \/ /\ pos + 4 + n <= body /\ n >= Share
                /\ Goes(pos + 4 + n, pos + 4 + Share, "extension")
                /\ found' = TRUE /\ UNCHANGED ends

(* The loop over the messages of a record: a Finished ends it, and so does  *)
(* a message that the record does not hold whole.                          *)
FlightMessage ==
    /\ reader = "flight" /\ at = "start"
    /\ \/ pos + 4 > len /\ Only(pos, reach, "accepted")
       \/ pos + 4 <= len /\ \E n \in Lengths :
             \/ pos + 4 + n > len /\ Only(pos, pos + 4, "accepted")
             \/ pos + 4 + n <= len /\ \E part \in {"start", "accepted"} :
                    Only(pos + 4 + n, pos + 4 + n, part)

-----------------------------------------------------------------------------
(* analyze_tls_handshake *)

(* The record must be complete; then the handshake header and the version, *)
(* and over the random.                                                    *)
SniHeader ==
    /\ reader = "sni" /\ at = "start"
    /\ \/ len < 5 /\ Reject
       \/ len >= 5 /\ Rejects(5)                      \* no handshake, or not all of it
       \/ len >= 5 + 4 /\ Rejects(6)                  \* no ClientHello
       \/ len >= 9 + 2 /\ Rejects(11)                 \* the version, or no random
       \/ len >= 11 + 32 /\ Only(11 + 32, 11, "session")

(* Over a field behind its length, which takes w bytes. *)
SniSkip(part, w, next) ==
    /\ reader = "sni" /\ at = part
    /\ \/ pos + w > len /\ Reject
       \/ pos + w <= len /\ \E n \in Lengths :
             \/ pos + w + n > len /\ Rejects(pos + w)
             \/ pos + w + n <= len /\ Only(pos + w + n, pos + w, next)

SniLists ==
    \/ SniSkip("session", 1, "ciphers")
    \/ SniSkip("ciphers", 2, "compression")
    \/ SniSkip("compression", 1, "extensions")

SniExtensions ==
    /\ reader = "sni" /\ at = "extensions"
    /\ \/ pos + 2 > len /\ Reject
       \/ pos + 2 <= len /\ \E n \in Lengths :
             /\ Goes(pos + 2, pos + 2, "extension")
             /\ exts' = Least(pos + 2 + n, len) /\ UNCHANGED <<body, ext, names, found>>

(* Out of the loop, over an extension, or into server_name.                *)
SniExtension ==
    /\ reader = "sni" /\ at = "extension"
    /\ \/ pos + 4 > exts /\ Reject
       \/ pos + 4 <= exts /\ \E n \in Lengths :
             \/ pos + 4 + n > exts /\ Rejects(pos + 4)
             \/ pos + 4 + n <= exts /\ Only(pos + 4 + n, pos + 4, "extension")
             \/ /\ pos + 4 + n <= exts
                /\ Goes(pos + 4, pos + 4 + n, "names")
                /\ ext' = pos + 4 + n /\ UNCHANGED <<body, exts, names, found>>

(* parse_server_name_extension found no host name: on with the loop.       *)
SniResume(r) == Only(ext, r, "extension")

(* Mutant of NamesEnd: the list's length is taken at its word. *)
NamesEnd_Unclipped(n) == pos + 2 + n

NamesEnd(n) == Least(pos + 2 + n, ext)

SniNames ==
    /\ reader = "sni" /\ at = "names"
    /\ \/ pos + 2 > ext /\ SniResume(reach)
       \/ pos + 2 <= ext /\ \E n \in Lengths :
             /\ Goes(pos + 2, pos + 2, "name")
             /\ names' = NamesEnd(n) /\ UNCHANGED <<body, exts, ext, found>>

(* Mutant of NextName: the offset is not moved on. *)
NextName_Stuck(n) == pos

NextName(n) == pos + 3 + n

(* Past a name of another type, at a host name, or at the end of the list. *)
SniName ==
    /\ reader = "sni" /\ at = "name"
    /\ \/ pos + 3 > names /\ SniResume(reach)
       \/ pos + 3 <= names /\ \E n \in Lengths :
             \/ pos + 3 + n > names /\ SniResume(pos + 3)
             \/ pos + 3 + n <= names /\ Only(NextName(n), pos + 3, "name")
             \/ pos + 3 + n <= names /\ SniResume(pos + 3 + n)   \* not UTF-8
             \/ /\ pos + 3 + n <= names
                /\ Goes(pos + 3 + n, pos + 3 + n, "accepted")
                /\ found' = TRUE /\ UNCHANGED ends

-----------------------------------------------------------------------------
ReadDns    == DnsHeader \/ DnsLabel \/ DnsType \/ DnsRespond
ReadPacket == Ipv4Header \/ TcpHeader
ReadHello  == HelloHeader \/ HelloSession \/ HelloSuite \/ HelloExtension
ReadSni    == SniHeader \/ SniLists \/ SniExtensions \/ SniExtension \/ SniNames \/ SniName
ReadNext   == ReadDns \/ ReadPacket \/ ReadHello \/ FlightMessage \/ ReadSni

ReadSpec == ReadInit /\ [][ReadNext]_readVars

-----------------------------------------------------------------------------
(* Properties *)

(* Whatever lengths a buffer claims, no reader indexes or slices past its   *)
(* end: a panic would end the dispatch loop, a DNS handler or a relay task  *)
(* without a trace in the log.                                              *)
ReadsInBounds == reach <= len /\ pos <= len

(* The host name the sniffer returns lies within each of the four lengths   *)
(* that enclose it: name list, extension, list of extensions, buffer.       *)
NameInItsExtension ==
    (reader = "sni" /\ at = "accepted") =>
       pos <= names /\ names <= ext /\ ext <= exts /\ exts <= len

(* No length, not even zero or one that lies, keeps one of the loops over   *)
(* labels, extensions, names or messages where it is, or takes it back: a   *)
(* reader that only moves on, within the buffer, comes to an end.           *)
LoopsMoveOn == ~stuck
=============================================================================
