---------------------------- MODULE Subscription ----------------------------
(***************************************************************************)
(* What a user may paste, and the profiles add_subscription makes of it:    *)
(* parse_singbox_json and parse_subscription_url with its helpers           *)
(* (src/src/config.rs), and add_subscription_impl over both                 *)
(* (src/src/commands.rs).                                                  *)
(*                                                                         *)
(* The rest of a link after its scheme is a sequence of the delimiters, a   *)
(* number that is a port, and a word.  Percent- and base64-decoding are     *)
(* left out but for whether they succeed.                                  *)
(***************************************************************************)
EXTENDS Integers, Sequences, FiniteSets

CONSTANTS
    Links,      \* links: [kind |-> "link", scheme, rest]
    Documents,  \* JSON documents: [kind |-> "json", outbounds]
    Pages       \* lines: [kind |-> "lines", lines], each "blank", "good" or "bad"

Letters == "word"   \* a word, and base64 of "method:password"
Digits  == "443"    \* digits that make a u16

Tokens    == {"@", ":", "?", "#", Letters, Digits}
Outbounds == [protocol : STRING, server : STRING, port : Nat, security : STRING, key : STRING]

ASSUME TextsAssumption ==
    /\ \A l \in Links     : l.kind = "link"  /\ l.rest \in Seq(Tokens)
    /\ \A d \in Documents : d.kind = "json"  /\ d.outbounds \in Seq(Outbounds)
    /\ \A p \in Pages     : p.kind = "lines" /\ p.lines \in Seq({"blank", "good", "bad"})

VARIABLES
    input,    \* what was pasted
    output,   \* the profiles that were made of it; none for an error
    parsed    \* add_subscription has returned

subVars == <<input, output, parsed>>

SubInit == input \in Links \cup Documents \cup Pages /\ output = <<>> /\ parsed = FALSE

-----------------------------------------------------------------------------
(* Links *)

Places(text, c) == {i \in 1 .. Len(text) : text[i] = c}

(* 0 if c is not in the text. *)
FirstOf(text, c) ==
    IF Places(text, c) = {} THEN 0
    ELSE CHOOSE i \in Places(text, c) : \A j \in Places(text, c) : i <= j

LastOf(text, c) ==
    IF Places(text, c) = {} THEN 0
    ELSE CHOOSE i \in Places(text, c) : \A j \in Places(text, c) : j <= i

Before(text, n) == SubSeq(text, 1, n - 1)
After(text, n)  == SubSeq(text, n + 1, Len(text))

(* text.split(c).next() *)
Until(text, c) == IF FirstOf(text, c) = 0 THEN text ELSE Before(text, FirstOf(text, c))

(* Mutant of StripQueryAndFragment: the fragment alone. *)
StripQueryAndFragment_Fragment(rest) == Until(rest, "#")

StripQueryAndFragment(rest) == Until(Until(rest, "#"), "?")

(* parse_query_params of a link without its fragment.                      *)
QueryOf(rest) ==
    LET text == Until(rest, "#")
    IN  IF FirstOf(text, "?") = 0 THEN {} ELSE {After(text, FirstOf(text, "?"))}

(* extract_fragment_name *)
NameOf(rest, host) ==
    IF FirstOf(rest, "#") = 0 THEN host ELSE After(rest, FirstOf(rest, "#"))

(* A UUID or a password must not be empty; the user info of a Shadowsocks   *)
(* link must decode to something with a colon in it.                       *)
Credentials(scheme, user) == IF scheme = "ss" THEN user = <<Letters>> ELSE user # <<>>

Profile(scheme, user, host, rest) ==
    [protocol |-> scheme, user |-> user, server |-> host, name |-> NameOf(rest, host),
     params |-> IF scheme = "vless" THEN QueryOf(rest) ELSE {}]

(* Mutant of HostEnd: split_once instead of rsplit_once. *)
HostEnd_First(text) == FirstOf(text, ":")

(* split_host_port: rsplit_once(':').                                      *)
HostEnd(text) == LastOf(text, ":")

ParseLink(scheme, rest) ==
    LET body == StripQueryAndFragment(rest)
        at   == FirstOf(body, "@")
        user == Before(body, at)
        text == After(body, at)
        host == Before(text, HostEnd(text))
        port == After(text, HostEnd(text))
    IN  IF \/ at = 0 \/ ~Credentials(scheme, user)
           \/ HostEnd(text) = 0 \/ port # <<Digits>> \/ host = <<>>
        THEN <<>>
        ELSE <<Profile(scheme, user, host, rest)>>

-----------------------------------------------------------------------------
(* sing-box JSON: outbounds [protocol, server, port, security, key], where  *)
(* "" stands for a field that is absent, empty or of another type.          *)

Usable(o) == o.protocol = "vless" /\ o.server # "" /\ o.port \in 0 .. 65535

Outbound(o) ==
    [server |-> o.server, port |-> o.port, tls |-> o.security = "tls",
     pbk |-> IF o.security = "reality" THEN o.key ELSE ""]

(* Mutant of IsNew: the address alone. *)
IsNew_Address(seen, o) == \A s \in seen : s[1] # o.server

IsNew(seen, o) == <<o.server, o.port>> \notin seen

Taken(acc, o) ==
    IF Usable(o) /\ IsNew(acc.seen, o)
    THEN [seen |-> acc.seen \cup {<<o.server, o.port>>}, list |-> Append(acc.list, Outbound(o))]
    ELSE acc

ParseSingbox(outbounds) ==
    LET acc[i \in 0 .. Len(outbounds)] ==
            IF i = 0 THEN [seen |-> {}, list |-> <<>>] ELSE Taken(acc[i - 1], outbounds[i])
    IN  acc[Len(outbounds)].list

-----------------------------------------------------------------------------
(* add_subscription_impl: a document with a usable outbound; or else lines   *)
(* that are links, every one of them, and one at least.  A document is no   *)
(* link.                                                                   *)
ParseLines(lines) ==
    LET links[i \in 0 .. Len(lines)] ==
            IF i = 0 THEN <<>>
            ELSE IF lines[i] = "blank" THEN links[i - 1] ELSE Append(links[i - 1], lines[i])
    IN  IF \E i \in DOMAIN lines : lines[i] = "bad" THEN <<>> ELSE links[Len(lines)]

Add ==
    /\ ~parsed /\ parsed' = TRUE
    /\ output' = CASE input.kind = "link" -> ParseLink(input.scheme, input.rest)
                   [] input.kind = "json"  -> ParseSingbox(input.outbounds)
                   [] input.kind = "lines" -> ParseLines(input.lines)
    /\ UNCHANGED input

SubSpec == SubInit /\ [][Add]_subVars

-----------------------------------------------------------------------------
(* Properties *)

(* A link as it is written: user@host:port, the user up to the first "@",   *)
(* the port behind the last ":", then a query and a fragment.              *)
Written(scheme, rest) ==
    LET n     == Len(rest)
        hash  == {i \in 1 .. n : rest[i] = "#"}
        stops == {i \in 1 .. n : rest[i] \in {"?", "#"}}
        ends  == IF stops = {} THEN n + 1 ELSE CHOOSE i \in stops : \A j \in stops : i <= j
        mark  == IF hash = {} THEN n + 1 ELSE CHOOSE i \in hash : \A j \in hash : i <= j
        part(i, j) == SubSeq(rest, i + 1, j - 1)
    IN  {[protocol |-> scheme, user |-> part(0, p[1]), server |-> part(p[1], p[2]),
          name   |-> IF hash = {} THEN part(p[1], p[2]) ELSE part(mark, n + 1),
          params |-> IF scheme = "vless" /\ ends < mark /\ ends <= n
                     THEN {part(ends, mark)} ELSE {}] :
            p \in {q \in (1 .. ends - 1) \X (1 .. ends - 1) :
                     /\ rest[q[1]] = "@" /\ rest[q[2]] = ":" /\ q[1] + 1 < q[2]
                     /\ \A i \in 1 .. q[1] - 1 : rest[i] # "@"
                     /\ part(q[2], ends) = <<Digits>>
                     /\ Credentials(scheme, part(0, q[1]))}}

(* The list of a document has one entry for each address and port of a      *)
(* usable outbound, made from the first of them, in their order.           *)
ListsOnce(list, outbounds) ==
    LET same(i, j) == <<outbounds[i].server, outbounds[i].port>>
                        = <<outbounds[j].server, outbounds[j].port>>
        firsts == {i \in DOMAIN outbounds :
                     /\ Usable(outbounds[i])
                     /\ \A j \in 1 .. i - 1 : Usable(outbounds[j]) => ~same(i, j)}
    IN  /\ Len(list) = Cardinality(firsts)
        /\ \A i \in firsts :
              list[Cardinality({j \in firsts : j <= i})] = Outbound(outbounds[i])

(* What is added is what the text says, and an error if it says nothing:    *)
(* links with delimiters anywhere, documents with duplicates and outbounds   *)
(* of other kinds, pages with one bad line.                                 *)
ParsedAsWritten ==
    parsed =>
       CASE input.kind = "link"  ->
              /\ Len(output) = Cardinality(Written(input.scheme, input.rest))
              /\ \A p \in Written(input.scheme, input.rest) : output = <<p>>
         [] input.kind = "json"  -> ListsOnce(output, input.outbounds)
         [] input.kind = "lines" ->
              Len(output) = IF \E i \in DOMAIN input.lines : input.lines[i] = "bad" THEN 0
                            ELSE Cardinality({i \in DOMAIN input.lines : input.lines[i] = "good"})
=============================================================================
