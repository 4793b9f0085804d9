------------------------- MODULE ProxyLayers_proofs -------------------------
(***************************************************************************)
(* What holds of the code that speaks a protocol: of the readers of bytes  *)
(* that another program wrote, for buffers of every length, every value of *)
(* every length field and every limit; of a session with the proxy, for    *)
(* any set of targets and any amount of data; and of the Shadowsocks       *)
(* cipher, one of its layers, for a nonce of any number of digits in any   *)
(* base, and for as many chunks as there are nonces for.                   *)
(***************************************************************************)
EXTENDS ByteReaders, ProxySession, ShadowsocksCipher, TLAPS, WellFoundedInduction

-----------------------------------------------------------------------------
(* The readers. *)

(* What each part of a message relies on when its turn comes: the checks   *)
(* made before it.                                                         *)
Checked ==
    /\ body <= len /\ exts <= len
    /\ at = "start" /\ reader # "flight" => pos = 0
    /\ reader = "hello" /\ at = "session" => pos + 1 <= body
    /\ at = "suite"   => pos + 3 <= body
    /\ at = "names"   => pos <= ext /\ ext <= exts
    /\ at = "name"    => pos <= names /\ names <= ext /\ ext <= exts
    /\ reader = "sni" /\ at = "accepted" =>
          pos <= names /\ names <= ext /\ ext <= exts

ReadInv == ReadTypeOK /\ ReadsInBounds /\ Checked

(* A header of n words has a length.                                       *)
LEMMA WordsAreNat == \A n \in Lengths : n * Word \in Nat
  BY ReadersAssumption, SMT DEF Lengths

LEMMA ReadInitHolds == ReadInit => ReadInv
<1> SUFFICES ASSUME ReadInit PROVE ReadInv
  OBVIOUS
<1> USE ReadersAssumption DEF ReadInit
<1>1. len \in Nat /\ pos \in Nat /\ reach \in Nat /\ body \in Nat /\ exts \in Nat
      /\ ext \in Nat /\ names \in Nat
  BY SMT
<1>2. ReadTypeOK
  BY <1>1 DEF ReadTypeOK, Parts
<1>3. ReadsInBounds
  BY <1>1, SMT DEF ReadsInBounds
<1>4. Checked
  BY <1>1, SMT DEF Checked
<1> QED BY <1>2, <1>3, <1>4 DEF ReadInv

(* A reader that gives up, or that only moves on, has a buffer to its name *)
(* and no new limit: what counts is how far it read and where it is.       *)
LEMMA MovesOn ==
  ASSUME ReadInv, NEW p \in Nat, NEW r \in Nat, NEW part \in Parts, Only(p, r, part),
         p <= len, r <= len,
         reader = "hello" /\ part = "session" => p + 1 <= body,
         part = "suite" => p + 3 <= body,
         part # "names", ~(reader = "sni" /\ part = "accepted"),
         part = "start" => reader = "flight",
         part = "name" => p <= names /\ names <= ext /\ ext <= exts
  PROVE  ReadInv'
<1> USE DEF ReadInv, ReadTypeOK, ReadsInBounds, Checked, Only, Goes, ends
<1>1. ReadTypeOK'
  BY SMT
<1>2. ReadsInBounds'
  BY SMT
<1>3. Checked'
  BY SMT
<1> QED BY <1>1, <1>2, <1>3

LEMMA GivesUp ==
  ASSUME ReadInv, NEW r \in Nat, r <= len, Rejects(r)
  PROVE  ReadInv'
<1>1. pos \in Nat /\ pos <= len /\ Only(pos, r, "rejected") /\ "rejected" \in Parts
  BY DEF ReadInv, ReadTypeOK, ReadsInBounds, Rejects, Parts
<1> QED BY <1>1, MovesOn

LEMMA GivesUpHere ==
  ASSUME ReadInv, Reject
  PROVE  ReadInv'
<1>1. reach \in Nat /\ reach <= len /\ Rejects(reach)
  BY DEF ReadInv, ReadTypeOK, ReadsInBounds, Reject
<1> QED BY <1>1, GivesUp

-----------------------------------------------------------------------------
LEMMA DnsHolds == ReadInv /\ ReadDns => ReadInv'
<1> SUFFICES ASSUME ReadInv, ReadDns PROVE ReadInv'
  OBVIOUS
<1>0. len \in Nat /\ pos \in Nat /\ pos <= len
  BY ReadersAssumption, SMT DEF ReadInv, ReadTypeOK, ReadsInBounds
<1>a. {"label", "qtype", "accepted", "respond"} \subseteq Parts
  BY DEF Parts
<1>1. CASE DnsHeader
  <2>1. CASE Reject
    BY <2>1, GivesUpHere
  <2>2. CASE len >= 12 /\ Rejects(6)
    <3>1. 6 \in Nat /\ 6 <= len
      BY <1>0, <2>2, SMT
    <3> QED BY <2>2, <3>1, GivesUp
  <2>3. CASE len >= 12 /\ Only(12, 6, "label")
    <3>1. 6 \in Nat /\ 12 \in Nat /\ 6 <= len /\ 12 <= len
      BY <1>0, <2>3, SMT
    <3> QED BY <1>a, <2>3, <3>1, MovesOn
  <2> QED BY <1>1, <2>1, <2>2, <2>3 DEF DnsHeader
<1>2. CASE DnsLabel
  <2>1. CASE Reject
    BY <2>1, GivesUpHere
  <2>2. ASSUME pos < len, NEW n \in Lengths,
               \/ n = 0 /\ Only(pos + 1, pos + 1, "qtype")
               \/ n > 0 /\ ~LabelFits(n) /\ Rejects(pos + 1)
               \/ /\ n > 0 /\ LabelFits(n)
                  /\ Goes(pos + 1 + n, pos + 1 + n, "label")
                  /\ found' = TRUE /\ UNCHANGED ends
        PROVE  ReadInv'
    <3>1. n \in Nat /\ pos + 1 \in Nat /\ pos + 1 <= len
      BY <1>0, <2>2, ReadersAssumption, SMT DEF Lengths
    <3>2. CASE Only(pos + 1, pos + 1, "qtype")
      BY <1>a, <3>1, <3>2, MovesOn
    <3>3. CASE Rejects(pos + 1)
      BY <3>1, <3>3, GivesUp
    <3>4. CASE /\ LabelFits(n)
               /\ Goes(pos + 1 + n, pos + 1 + n, "label")
               /\ found' = TRUE /\ UNCHANGED ends
      <4>1. pos + 1 + n \in Nat /\ pos + 1 + n <= len
        BY <1>0, <3>1, <3>4, SMT DEF LabelFits
      <4> QED BY <1>a, <3>4, <4>1, SMT
              DEF ReadInv, ReadTypeOK, ReadsInBounds, Checked, Goes, ends
    <3> QED BY <2>2, <3>2, <3>3, <3>4
  <2> QED BY <1>2, <2>1, <2>2 DEF DnsLabel
<1>3. CASE DnsType
  <2>1. CASE Reject
    BY <2>1, GivesUpHere
  <2>2. CASE pos + 4 <= len /\ Only(pos + 4, pos + 2, "respond")
    <3>1. pos + 4 \in Nat /\ pos + 2 \in Nat /\ pos + 2 <= len
      BY <1>0, <2>2, SMT
    <3> QED BY <1>a, <2>2, <3>1, MovesOn
  <2> QED BY <1>3, <2>1, <2>2 DEF DnsType
<1>4. CASE DnsRespond
  <2>1. reader # "sni" /\ Only(pos, len, "accepted") /\ len <= len
    BY <1>0, <1>4, SMT DEF DnsRespond
  <2> QED BY <1>0, <1>a, <2>1, MovesOn
<1> QED BY <1>1, <1>2, <1>3, <1>4 DEF ReadDns

LEMMA PacketHolds == ReadInv /\ ReadPacket => ReadInv'
<1> SUFFICES ASSUME ReadInv, ReadPacket PROVE ReadInv'
  OBVIOUS
<1>0. len \in Nat /\ pos \in Nat /\ pos <= len /\ MinHeader \in Nat /\ MinHeader >= 14
  BY ReadersAssumption, SMT DEF ReadInv, ReadTypeOK, ReadsInBounds
<1>a. {"tcp", "accepted"} \subseteq Parts
  BY DEF Parts
<1>1. CASE Ipv4Header
  <2>1. CASE Reject
    BY <2>1, GivesUpHere
  <2>2. CASE len >= MinHeader /\ Rejects(MinHeader)
    BY <1>0, <2>2, GivesUp
  <2>3. ASSUME len >= MinHeader, NEW n \in Lengths, NEW w \in Nat, w = n * Word,
               \/ len < w /\ Rejects(1)
               \/ len >= w /\ Only(w, MinHeader, "tcp")
        PROVE  ReadInv'
    <3>1. CASE Rejects(1)
      <4>1. 1 \in Nat /\ 1 <= len
        BY <1>0, <2>3, SMT
      <4> QED BY <3>1, <4>1, GivesUp
    <3>2. CASE len >= w /\ Only(w, MinHeader, "tcp")
      <4>1. w <= len /\ MinHeader <= len
        BY <1>0, <2>3, <3>2, SMT
      <4> QED BY <1>0, <1>a, <2>3, <3>2, <4>1, MovesOn
    <3> QED BY <2>3, <3>1, <3>2
  <2> QED BY <1>1, <2>1, <2>2, <2>3, WordsAreNat DEF Ipv4Header
<1>2. CASE TcpHeader
  <2>1. CASE Reject
    BY <2>1, GivesUpHere
  <2>2. ASSUME len - pos >= MinHeader, NEW n \in Lengths, NEW w \in Nat, w = n * Word,
               \/ ~TcpHeaderFits(w) /\ Rejects(pos + 13)
               \/ TcpHeaderFits(w) /\ Only(pos + w, pos + 14, "accepted")
        PROVE  ReadInv'
    <3>0. reader = "packet" /\ pos + 13 \in Nat /\ pos + 14 \in Nat /\ pos + w \in Nat
      BY <1>0, <1>2, <2>2, SMT DEF TcpHeader
    <3>1. CASE Rejects(pos + 13)
      <4>1. pos + 13 <= len
        BY <1>0, <2>2, SMT
      <4> QED BY <3>0, <3>1, <4>1, GivesUp
    <3>2. CASE TcpHeaderFits(w) /\ Only(pos + w, pos + 14, "accepted")
      <4>1. pos + w <= len /\ pos + 14 <= len
        BY <1>0, <2>2, <3>2, SMT DEF TcpHeaderFits
      <4> QED BY <1>a, <3>0, <3>2, <4>1, MovesOn
    <3> QED BY <2>2, <3>1, <3>2
  <2> QED BY <1>2, <2>1, <2>2, WordsAreNat DEF TcpHeader
<1> QED BY <1>1, <1>2 DEF ReadPacket

LEMMA HelloHolds == ReadInv /\ ReadHello => ReadInv'
<1> SUFFICES ASSUME ReadInv, ReadHello PROVE ReadInv'
  OBVIOUS
<1>0. /\ len \in Nat /\ pos \in Nat /\ body \in Nat /\ exts \in Nat /\ reach \in Nat
      /\ pos <= len /\ body <= len /\ exts <= len /\ reach <= len /\ Share \in Nat
  BY ReadersAssumption, SMT DEF ReadInv, ReadTypeOK, ReadsInBounds, Checked
<1>a. {"session", "suite", "extension", "accepted", "rejected"} \subseteq Parts
  BY DEF Parts
<1>b. \A n \in Lengths : n \in Nat
  BY ReadersAssumption, SMT DEF Lengths
<1>1. CASE HelloHeader
  <2>1. CASE Reject
    BY <2>1, GivesUpHere
  <2>2. CASE len >= 4 /\ Rejects(1)
    <3>1. 1 \in Nat /\ 1 <= len
      BY <1>0, <2>2, SMT
    <3> QED BY <2>2, <3>1, GivesUp
  <2>3. ASSUME len >= 4, NEW n \in Lengths,
               \/ (4 + n > len \/ n < 35) /\ Rejects(4)
               \/ /\ 4 + n <= len /\ n >= 35
                  /\ Goes(4 + 34, 4, "session")
                  /\ body' = 4 + n /\ UNCHANGED <<exts, ext, names, found>>
        PROVE  ReadInv'
    <3>1. CASE Rejects(4)
      <4>1. 4 \in Nat /\ 4 <= len
        BY <2>3, SMT
      <4> QED BY <3>1, <4>1, GivesUp
    <3>2. CASE /\ 4 + n <= len /\ n >= 35
               /\ Goes(4 + 34, 4, "session")
               /\ body' = 4 + n /\ UNCHANGED <<exts, ext, names, found>>
      <4>1. n \in Nat /\ 4 + n \in Nat /\ 38 <= len /\ 38 + 1 <= 4 + n /\ 38 = 4 + 34
        BY <1>0, <1>b, <3>2, SMT
      <4> QED BY <1>0, <1>a, <2>3, <3>2, <4>1, SMT
              DEF ReadInv, ReadTypeOK, ReadsInBounds, Checked, Goes
    <3> QED BY <2>3, <3>1, <3>2
  <2> QED BY <1>1, <2>1, <2>2, <2>3 DEF HelloHeader
<1>2. CASE HelloSession
  <2>0. pos + 1 <= body
    BY <1>2, SMT DEF HelloSession, ReadInv, Checked
  <2>1. ASSUME NEW n \in Lengths,
               \/ pos + 1 + n + 3 > body /\ Rejects(pos + 1)
               \/ pos + 1 + n + 3 <= body /\ Only(pos + 1 + n, pos + 1, "suite")
        PROVE  ReadInv'
    <3>1. pos + 1 \in Nat /\ pos + 1 <= len /\ pos + 1 + n \in Nat
      BY <1>0, <1>b, <2>0, SMT
    <3>2. CASE Rejects(pos + 1)
      BY <3>1, <3>2, GivesUp
    <3>3. CASE pos + 1 + n + 3 <= body /\ Only(pos + 1 + n, pos + 1, "suite")
      <4>1. pos + 1 + n + 3 <= body /\ pos + 1 + n <= len
        BY <1>0, <1>b, <3>3, SMT
      <4> QED BY <1>a, <3>1, <3>3, <4>1, MovesOn
    <3> QED BY <2>1, <3>2, <3>3
  <2> QED BY <1>2, <2>1 DEF HelloSession
<1>3. CASE HelloSuite
  <2>1. CASE Rejects(pos + 2)
    <3>1. pos + 2 \in Nat /\ pos + 2 <= len
      BY <1>0, <1>3, SMT DEF HelloSuite, ReadInv, Checked
    <3> QED BY <2>1, <3>1, GivesUp
  <2>2. ASSUME pos + 3 + 2 <= body, NEW n \in Lengths,
               Goes(pos + 5, pos + 5, "extension"),
               exts' = Least(pos + 5 + n, body), UNCHANGED <<body, ext, names, found>>
        PROVE  ReadInv'
    <3>1. pos + 5 \in Nat /\ pos + 5 <= len /\ exts' \in Nat /\ exts' <= len
      BY <1>0, <1>b, <2>2, SMT DEF Least
    <3> QED BY <1>0, <1>a, <2>2, <3>1, SMT
            DEF ReadInv, ReadTypeOK, ReadsInBounds, Checked, Goes
  <2> QED BY <1>3, <2>1, <2>2 DEF HelloSuite
<1>4. CASE HelloExtension
  <2>0. reader = "hello"
    BY <1>4 DEF HelloExtension
  <2>1. CASE Only(pos, reach, IF found THEN "accepted" ELSE "rejected")
    <3>1. CASE found
      BY <1>0, <1>a, <2>0, <2>1, <3>1, MovesOn
    <3>2. CASE ~found
      BY <1>0, <1>a, <2>0, <2>1, <3>2, MovesOn
    <3> QED BY <3>1, <3>2
  <2>2. ASSUME pos + 4 <= exts, NEW n \in Lengths,
               \/ pos + 4 + n > body /\ Rejects(pos + 4)
               \/ pos + 4 + n <= body /\ Only(pos + 4 + n, pos + 4, "extension")
               \/ /\ pos + 4 + n <= body /\ n >= Share
                  /\ Goes(pos + 4 + n, pos + 4 + Share, "extension")
                  /\ found' = TRUE /\ UNCHANGED ends
        PROVE  ReadInv'
    <3>1. pos + 4 \in Nat /\ pos + 4 <= len /\ pos + 4 + n \in Nat
      BY <1>0, <1>b, <2>2, SMT
    <3>2. CASE Rejects(pos + 4)
      BY <3>1, <3>2, GivesUp
    <3>3. CASE pos + 4 + n <= body /\ Only(pos + 4 + n, pos + 4, "extension")
      <4>1. pos + 4 + n <= len
        BY <1>0, <1>b, <3>3, SMT
      <4> QED BY <1>a, <3>1, <3>3, <4>1, MovesOn
    <3>4. CASE /\ pos + 4 + n <= body /\ n >= Share
               /\ Goes(pos + 4 + n, pos + 4 + Share, "extension")
               /\ found' = TRUE /\ UNCHANGED ends
      <4>1. /\ pos + 4 + Share \in Nat /\ pos + 4 + Share <= len
            /\ pos + 4 + n <= len
        BY <1>0, <1>b, <3>4, SMT
      <4> QED BY <1>a, <2>0, <3>1, <3>4, <4>1, SMT
              DEF ReadInv, ReadTypeOK, ReadsInBounds, Checked, Goes, ends
    <3> QED BY <2>2, <3>2, <3>3, <3>4
  <2> QED BY <1>4, <2>1, <2>2 DEF HelloExtension
<1> QED BY <1>1, <1>2, <1>3, <1>4 DEF ReadHello

LEMMA FlightHolds == ReadInv /\ FlightMessage => ReadInv'
<1> SUFFICES ASSUME ReadInv, FlightMessage PROVE ReadInv'
  OBVIOUS
<1>0. len \in Nat /\ pos \in Nat /\ pos <= len /\ reach \in Nat /\ reach <= len
  BY ReadersAssumption, SMT DEF ReadInv, ReadTypeOK, ReadsInBounds
<1>a. {"start", "accepted"} \subseteq Parts /\ reader = "flight"
  BY DEF Parts, FlightMessage
<1>1. CASE Only(pos, reach, "accepted")
  BY <1>0, <1>a, <1>1, MovesOn
<1>2. ASSUME pos + 4 <= len, NEW n \in Lengths,
             \/ Only(pos, pos + 4, "accepted")
             \/ pos + 4 + n <= len /\ \E part \in {"start", "accepted"} :
                    Only(pos + 4 + n, pos + 4 + n, part)
      PROVE  ReadInv'
  <2>1. pos + 4 \in Nat /\ pos + 4 + n \in Nat
    BY <1>0, ReadersAssumption, SMT DEF Lengths
  <2>2. CASE Only(pos, pos + 4, "accepted")
    BY <1>0, <1>2, <1>a, <2>1, <2>2, MovesOn
  <2>3. ASSUME pos + 4 + n <= len, NEW part \in {"start", "accepted"},
               Only(pos + 4 + n, pos + 4 + n, part)
        PROVE  ReadInv'
    BY <1>a, <2>1, <2>3, MovesOn
  <2> QED BY <1>2, <2>2, <2>3
<1> QED BY <1>1, <1>2 DEF FlightMessage

(* A field behind its length, within the record.                           *)
LEMMA SkipHolds ==
  ASSUME ReadInv, NEW part, NEW w \in Nat,
         NEW next \in {"ciphers", "compression", "extensions"}, SniSkip(part, w, next)
  PROVE  ReadInv'
<1>0. len \in Nat /\ pos \in Nat /\ next \in Parts
  BY ReadersAssumption, SMT DEF ReadInv, ReadTypeOK, Parts
<1>1. CASE Reject
  BY <1>1, GivesUpHere
<1>2. ASSUME pos + w <= len, NEW n \in Lengths,
             \/ pos + w + n > len /\ Rejects(pos + w)
             \/ pos + w + n <= len /\ Only(pos + w + n, pos + w, next)
      PROVE  ReadInv'
  <2>1. n \in Nat /\ pos + w \in Nat /\ pos + w + n \in Nat
    BY <1>0, ReadersAssumption, SMT DEF Lengths
  <2>2. CASE Rejects(pos + w)
    BY <1>2, <2>1, <2>2, GivesUp
  <2>3. CASE pos + w + n <= len /\ Only(pos + w + n, pos + w, next)
    <3>1. next # "session" /\ next # "suite" /\ next # "names" /\ next # "accepted"
          /\ next # "name" /\ next # "start"
      OBVIOUS
    <3> QED BY <1>0, <1>2, <2>1, <2>3, <3>1, MovesOn
  <2> QED BY <1>2, <2>2, <2>3
<1> QED BY <1>1, <1>2 DEF SniSkip

(* After a server_name without a host name the loop goes on behind it.     *)
LEMMA ResumeHolds ==
  ASSUME ReadInv, at \in {"names", "name"}, NEW r \in Nat, r <= len, SniResume(r)
  PROVE  ReadInv'
<1>1. ext \in Nat /\ ext <= len /\ "extension" \in Parts
  BY ReadersAssumption, SMT DEF ReadInv, ReadTypeOK, Checked, Parts
<1>2. Only(ext, r, "extension")
  BY DEF SniResume
<1> QED BY <1>1, <1>2, MovesOn

LEMMA SniHolds == ReadInv /\ ReadSni => ReadInv'
<1> SUFFICES ASSUME ReadInv, ReadSni PROVE ReadInv'
  OBVIOUS
<1>0. /\ len \in Nat /\ pos \in Nat /\ exts \in Nat /\ ext \in Nat /\ names \in Nat
      /\ reach \in Nat /\ pos <= len /\ exts <= len /\ reach <= len
  BY ReadersAssumption, SMT DEF ReadInv, ReadTypeOK, ReadsInBounds, Checked
<1>a. {"session", "extension", "names", "name", "accepted"} \subseteq Parts
  BY DEF Parts
<1>b. \A n \in Lengths : n \in Nat
  BY ReadersAssumption, SMT DEF Lengths
<1>1. CASE SniHeader
  <2>0. reader # "hello"
    BY <1>1 DEF SniHeader
  <2>1. CASE Reject
    BY <2>1, GivesUpHere
  <2>2. CASE len >= 5 /\ Rejects(5)
    BY <1>0, <2>2, GivesUp
  <2>3. CASE len >= 5 + 4 /\ Rejects(6)
    <3>1. 6 \in Nat /\ 6 <= len
      BY <1>0, <2>3, SMT
    <3> QED BY <2>3, <3>1, GivesUp
  <2>4. CASE len >= 9 + 2 /\ Rejects(11)
    <3>1. 11 \in Nat /\ 11 <= len
      BY <1>0, <2>4, SMT
    <3> QED BY <2>4, <3>1, GivesUp
  <2>5. CASE len >= 11 + 32 /\ Only(11 + 32, 11, "session")
    <3>1. 11 \in Nat /\ 11 + 32 \in Nat /\ 11 <= len /\ 11 + 32 <= len
      BY <1>0, <2>5, SMT
    <3> QED BY <1>a, <2>0, <2>5, <3>1, MovesOn
  <2> QED BY <1>1, <2>1, <2>2, <2>3, <2>4, <2>5 DEF SniHeader
<1>2. CASE SniLists
  <2>1. 1 \in Nat /\ 2 \in Nat
    BY SMT
  <2> QED BY <1>2, <2>1, SkipHolds DEF SniLists
<1>3. CASE SniExtensions
  <2>1. CASE Reject
    BY <2>1, GivesUpHere
  <2>2. ASSUME pos + 2 <= len, NEW n \in Lengths,
               Goes(pos + 2, pos + 2, "extension"),
               exts' = Least(pos + 2 + n, len), UNCHANGED <<body, ext, names, found>>
        PROVE  ReadInv'
    <3>1. pos + 2 \in Nat /\ exts' \in Nat /\ exts' <= len
      BY <1>0, <1>b, <2>2, SMT DEF Least
    <3> QED BY <1>0, <1>a, <2>2, <3>1, SMT
            DEF ReadInv, ReadTypeOK, ReadsInBounds, Checked, Goes
  <2> QED BY <1>3, <2>1, <2>2 DEF SniExtensions
<1>4. CASE SniExtension
  <2>1. CASE Reject
    BY <2>1, GivesUpHere
  <2>2. ASSUME pos + 4 <= exts, NEW n \in Lengths,
               \/ pos + 4 + n > exts /\ Rejects(pos + 4)
               \/ pos + 4 + n <= exts /\ Only(pos + 4 + n, pos + 4, "extension")
               \/ /\ pos + 4 + n <= exts
                  /\ Goes(pos + 4, pos + 4 + n, "names")
                  /\ ext' = pos + 4 + n /\ UNCHANGED <<body, exts, names, found>>
        PROVE  ReadInv'
    <3>1. /\ n \in Nat /\ pos + 4 \in Nat /\ pos + 4 <= len /\ pos + 4 + n \in Nat
          /\ pos + 4 <= pos + 4 + n
      BY <1>0, <1>b, <2>2, SMT
    <3>2. CASE Rejects(pos + 4)
      BY <3>1, <3>2, GivesUp
    <3>3. CASE pos + 4 + n <= exts /\ Only(pos + 4 + n, pos + 4, "extension")
      <4>1. pos + 4 + n <= len
        BY <1>0, <3>1, <3>3, SMT
      <4> QED BY <1>a, <3>1, <3>3, <4>1, MovesOn
    <3>4. CASE /\ pos + 4 + n <= exts
               /\ Goes(pos + 4, pos + 4 + n, "names")
               /\ ext' = pos + 4 + n /\ UNCHANGED <<body, exts, names, found>>
      <4>1. pos + 4 + n <= len
        BY <1>0, <3>1, <3>4, SMT
      <4> QED BY <1>0, <1>a, <3>1, <3>4, <4>1, SMT
              DEF ReadInv, ReadTypeOK, ReadsInBounds, Checked, Goes
    <3> QED BY <2>2, <3>2, <3>3, <3>4
  <2> QED BY <1>4, <2>1, <2>2 DEF SniExtension
<1>5. CASE SniNames
  <2>0. at = "names" /\ pos <= ext /\ ext <= exts /\ ext <= len
    BY <1>0, <1>5, SMT DEF SniNames, ReadInv, Checked
  <2>1. CASE SniResume(reach)
    BY <1>0, <2>0, <2>1, ResumeHolds
  <2>2. ASSUME pos + 2 <= ext, NEW n \in Lengths,
               Goes(pos + 2, pos + 2, "name"),
               names' = NamesEnd(n), UNCHANGED <<body, exts, ext, found>>
        PROVE  ReadInv'
    <3>1. /\ pos + 2 \in Nat /\ pos + 2 <= len
          /\ names' \in Nat /\ names' <= ext /\ pos + 2 <= names'
      BY <1>0, <1>b, <2>0, <2>2, SMT DEF NamesEnd, Least
    <3> QED BY <1>0, <1>a, <2>0, <2>2, <3>1, SMT
            DEF ReadInv, ReadTypeOK, ReadsInBounds, Checked, Goes
  <2> QED BY <1>5, <2>1, <2>2 DEF SniNames
<1>6. CASE SniName
  <2>0. /\ at = "name" /\ pos <= names /\ names <= ext /\ ext <= exts /\ names <= len
    BY <1>0, <1>6, SMT DEF SniName, ReadInv, Checked
  <2>1. CASE SniResume(reach)
    BY <1>0, <2>0, <2>1, ResumeHolds
  <2>2. ASSUME pos + 3 <= names, NEW n \in Lengths,
               \/ pos + 3 + n > names /\ SniResume(pos + 3)
               \/ pos + 3 + n <= names /\ Only(NextName(n), pos + 3, "name")
               \/ pos + 3 + n <= names /\ SniResume(pos + 3 + n)
               \/ /\ pos + 3 + n <= names
                  /\ Goes(pos + 3 + n, pos + 3 + n, "accepted")
                  /\ found' = TRUE /\ UNCHANGED ends
        PROVE  ReadInv'
    <3>1. n \in Nat /\ pos + 3 \in Nat /\ pos + 3 <= len /\ pos + 3 + n \in Nat
      BY <1>0, <1>b, <2>0, <2>2, SMT
    <3>2. CASE SniResume(pos + 3)
      BY <2>0, <3>1, <3>2, ResumeHolds
    <3>3. ASSUME pos + 3 + n <= names PROVE pos + 3 + n <= len
      BY <1>0, <2>0, <3>1, <3>3, SMT
    <3>4. CASE pos + 3 + n <= names /\ Only(NextName(n), pos + 3, "name")
      <4>1. Only(pos + 3 + n, pos + 3, "name")
        BY <3>4 DEF NextName
      <4>2. pos + 3 + n <= names /\ pos + 3 + n <= len
        BY <3>3, <3>4
      <4> QED BY <1>a, <2>0, <3>1, <4>1, <4>2, MovesOn
    <3>5. CASE pos + 3 + n <= names /\ SniResume(pos + 3 + n)
      BY <2>0, <3>1, <3>3, <3>5, ResumeHolds
    <3>6. CASE /\ pos + 3 + n <= names
               /\ Goes(pos + 3 + n, pos + 3 + n, "accepted")
               /\ found' = TRUE /\ UNCHANGED ends
      <4>1. pos + 3 + n <= names /\ pos + 3 + n <= len
        BY <3>3, <3>6
      <4> QED BY <1>0, <1>a, <2>0, <3>1, <3>6, <4>1, SMT
              DEF ReadInv, ReadTypeOK, ReadsInBounds, Checked, Goes, ends
    <3> QED BY <2>2, <3>2, <3>4, <3>5, <3>6
  <2> QED BY <1>6, <2>1, <2>2 DEF SniName
<1> QED BY <1>1, <1>2, <1>3, <1>4, <1>5, <1>6 DEF ReadSni

-----------------------------------------------------------------------------
(* A step that goes on, or to another part, is no idle turn of a loop.     *)
LEMMA StepForward ==
  ASSUME pos \in Nat, NEW p \in Nat, NEW r, NEW part, Goes(p, r, part),
         p > pos \/ (p = pos /\ part # at)
  PROVE  LoopsMoveOn'
<1>1. ~(p < pos) /\ ~(p = pos /\ part = at)
  BY SMT
<1> QED BY <1>1, Zenon DEF Goes, LoopsMoveOn

LEMMA StepsForward ==
  ASSUME ReadInv, ReadNext
  PROVE  LoopsMoveOn'
<1> USE StepForward
<1>0. /\ len \in Nat /\ pos \in Nat /\ ext \in Nat /\ names \in Nat /\ Word \in Nat /\ MinHeader \in Nat
      /\ \A n \in Lengths : n \in Nat /\ n * Word \in Nat
  BY ReadersAssumption, WordsAreNat, SMT DEF ReadInv, ReadTypeOK, Lengths
<1>1. CASE DnsHeader
  BY <1>0, <1>1, SMT DEF DnsHeader, Reject, Rejects, Only, ReadInv, Checked
<1>2. CASE DnsLabel
  BY <1>0, <1>2, SMT DEF DnsLabel, LabelFits, Reject, Rejects, Only
<1>3. CASE DnsType
  BY <1>0, <1>3, SMT DEF DnsType, Reject, Rejects, Only
<1>4. CASE DnsRespond
  BY <1>0, <1>4, SMT DEF DnsRespond, Only
<1>5. CASE Ipv4Header
  BY <1>0, <1>5, SMT DEF Ipv4Header, Reject, Rejects, Only, ReadInv, Checked
<1>6. CASE TcpHeader
  BY <1>0, <1>6, SMT DEF TcpHeader, Reject, Rejects, Only
<1>7. CASE HelloHeader
  BY <1>0, <1>7, SMT DEF HelloHeader, Reject, Rejects, Only, ReadInv, Checked
<1>8. CASE HelloSession
  BY <1>0, <1>8, SMT DEF HelloSession, Reject, Rejects, Only
<1>9. CASE HelloSuite
  BY <1>0, <1>9, SMT DEF HelloSuite, Reject, Rejects, Only
<1>10. CASE HelloExtension
  BY <1>0, <1>10, SMT DEF HelloExtension, Reject, Rejects, Only
<1>11. CASE FlightMessage
  BY <1>0, <1>11, SMT DEF FlightMessage, Only
<1>12. CASE SniHeader
  BY <1>0, <1>12, SMT DEF SniHeader, Reject, Rejects, Only, ReadInv, Checked
<1>13. CASE SniLists
  BY <1>0, <1>13, SMT DEF SniLists, SniSkip, Reject, Rejects, Only
<1>14. CASE SniExtensions
  BY <1>0, <1>14, SMT DEF SniExtensions, Reject, Rejects, Only
<1>15. CASE SniExtension
  BY <1>0, <1>15, SMT DEF SniExtension, Reject, Rejects, Only
<1>16. CASE SniNames
  BY <1>0, <1>16, SMT DEF SniNames, SniResume, Only, ReadInv, Checked
<1>17. CASE SniName
  BY <1>0, <1>17, SMT DEF SniName, NextName, SniResume, Only, ReadInv, Checked
<1> QED
  BY <1>1, <1>2, <1>3, <1>4, <1>5, <1>6, <1>7, <1>8, <1>9, <1>10, <1>11, <1>12, <1>13,
     <1>14, <1>15, <1>16, <1>17
     DEF ReadNext, ReadDns, ReadPacket, ReadHello, ReadSni

-----------------------------------------------------------------------------
LEMMA StepHolds == ReadInv /\ [ReadNext]_readVars => ReadInv'
<1>1. ReadInv /\ UNCHANGED readVars => ReadInv'
  BY DEF ReadInv, ReadTypeOK, ReadsInBounds, Checked, readVars
<1> QED BY <1>1, DnsHolds, PacketHolds, HelloHolds, FlightHolds, SniHolds DEF ReadNext

LEMMA ReadInvHolds == ReadSpec => []ReadInv
  BY ReadInitHolds, StepHolds, PTL DEF ReadSpec

(* The offsets and limits of the readers stay numbers of no less than zero: *)
(* no subtraction in dispatch.rs or sniffer.rs wraps around.                *)
THEOREM ReadersTyped == ReadSpec => []ReadTypeOK
<1>1. ReadInv => ReadTypeOK
  BY DEF ReadInv
<1> QED BY <1>1, ReadInvHolds, PTL

(* No reader indexes or slices past the end of its buffer, whatever the     *)
(* lengths in it claim.                                                     *)
THEOREM StaysInBounds == ReadSpec => []ReadsInBounds
<1>1. ReadInv => ReadsInBounds
  BY DEF ReadInv
<1> QED BY <1>1, ReadInvHolds, PTL

(* No turn of a loop over labels, extensions, names or messages leaves its  *)
(* reader in place, and no step takes it back.                              *)
THEOREM ReadersMoveOn == ReadSpec => []LoopsMoveOn
<1>1. ReadInit => LoopsMoveOn
  BY DEF ReadInit, LoopsMoveOn
<1>2. ReadInv /\ LoopsMoveOn /\ [ReadNext]_readVars => LoopsMoveOn'
  BY StepsForward DEF LoopsMoveOn, readVars
<1> QED BY <1>1, <1>2, ReadInvHolds, PTL DEF ReadSpec

(* The host name the sniffer accepts lies within the lengths around it.     *)
THEOREM NameEnclosed == ReadSpec => []NameInItsExtension
<1>1. ReadInv => NameInItsExtension
  BY DEF ReadInv, Checked, NameInItsExtension
<1> QED BY <1>1, ReadInvHolds, PTL

-----------------------------------------------------------------------------
(* The session. *)
PlainKinds == {"vless", "vless tls", "trojan"}

Requests == [layer : {RequestLayer}, what : {"request"},
             atyp : {Atyp(target)}, address : {target.address}]

Sendable == [layer : Layers, what : {"request", "data"}, atyp : Nat, address : {target.address}]

(* The request is the first item on its way until the server has read it,  *)
(* and the only one; of what follows it nothing is lost but with the        *)
(* connection, and nothing is in another layer than the stream's.           *)
InOrder ==
    /\ \A i \in DOMAIN upstream :
          /\ upstream[i].what = "request" <=> (i = 1 /\ proxy = "waits")
          /\ upstream[i].what = "request" => upstream[i] \in Requests
          /\ profile \in PlainKinds => upstream[i].layer = RequestLayer
    /\ call \in {"start", "open", "secure"} => upstream = <<>> /\ proxy = "waits"
    /\ (call \in {"returned", "dropped"} /\ proxy = "waits") => upstream # <<>>
    /\ call = "returned" => layer = StreamLayer

Counted ==
    /\ proxy = "waits" => delivered = 0
    /\ delivered + Len(upstream) <= relayed + (IF proxy = "waits" THEN 1 ELSE 0)

Typed ==
    /\ profile \in Kinds /\ target \in Targets
    /\ call  \in {"start", "open", "secure", "returned", "dropped", "failed"}
    /\ layer \in Layers
    /\ upstream \in Seq(Sendable)
    /\ delivered \in Nat /\ relayed \in 0 .. MaxData
    /\ proxy \in {"waits", "serves", "refused"}
    /\ dialled \in {NoTarget, target}
    /\ socket  \in {"open", "closed"}

SessionInv ==
    /\ Typed /\ InOrder /\ Counted
    /\ profile \in PlainKinds => proxy # "refused"

-----------------------------------------------------------------------------
(* The type of an address is read as it was written.                       *)
LEMMA TypeReadBack ==
  ASSUME profile \in Kinds, target \in Targets
  PROVE  Atyp(target) \in Nat /\ ReadType(Atyp(target)) = target.type
<1>1. target.type \in {"ipv4", "domain", "ipv6"}
  BY TargetAssumption
<1>2. CASE Scheme = "vless"
  <2> DEFINE T == <<"ipv4", "domain", "ipv6">>
  <2>1. Types(Scheme) = T
    BY <1>2 DEF Types
  <2>2. /\ DOMAIN T = 1 .. 3
        /\ T[1] = "ipv4" /\ T[2] = "domain" /\ T[3] = "ipv6"
    OBVIOUS
  <2>3. 1 \in 1 .. 3 /\ 2 \in 1 .. 3 /\ 3 \in 1 .. 3 /\ 3 \in 1 .. 3 /\ 1 .. 3 \subseteq Nat
    OBVIOUS
  <2> HIDE DEF T
  <2>4. \E i \in DOMAIN T : T[i] = target.type
    BY <1>1, <2>2, <2>3
  <2>5. Atyp(target) = CHOOSE i \in DOMAIN T : T[i] = target.type
    BY <2>1 DEF Atyp
  <2>6. Atyp(target) \in DOMAIN T /\ T[Atyp(target)] = target.type
    BY <2>4, <2>5
  <2>7. \A i : ReadType(i) = IF i \in DOMAIN T THEN T[i] ELSE ""
    BY <2>1 DEF ReadType, Scheme
  <2> QED
    BY <2>2, <2>3, <2>6, <2>7
<1>3. CASE Scheme = "socks5"
  <2> DEFINE T == <<"ipv4", "", "domain", "ipv6">>
  <2>1. Types(Scheme) = T
    BY <1>3 DEF Types
  <2>2. /\ DOMAIN T = 1 .. 4
        /\ T[1] = "ipv4" /\ T[2] = "" /\ T[3] = "domain" /\ T[4] = "ipv6"
    OBVIOUS
  <2>3. 1 \in 1 .. 4 /\ 2 \in 1 .. 4 /\ 3 \in 1 .. 4 /\ 4 \in 1 .. 4 /\ 1 .. 4 \subseteq Nat
    OBVIOUS
  <2> HIDE DEF T
  <2>4. \E i \in DOMAIN T : T[i] = target.type
    BY <1>1, <2>2, <2>3
  <2>5. Atyp(target) = CHOOSE i \in DOMAIN T : T[i] = target.type
    BY <2>1 DEF Atyp
  <2>6. Atyp(target) \in DOMAIN T /\ T[Atyp(target)] = target.type
    BY <2>4, <2>5
  <2>7. \A i : ReadType(i) = IF i \in DOMAIN T THEN T[i] ELSE ""
    BY <2>1 DEF ReadType, Scheme
  <2> QED
    BY <2>2, <2>3, <2>6, <2>7
<1> QED
  BY <1>2, <1>3 DEF Scheme

(* A request asks for the target, and the server understands it.           *)
LEMMA RequestMeansTarget ==
  ASSUME profile \in Kinds, target \in Targets, NEW r \in Requests
  PROVE  /\ [type |-> ReadType(r.atyp), address |-> r.address] = target
         /\ proxy = "waits" => Understood(r)
<1>1. [type |-> ReadType(r.atyp), address |-> r.address] = target
  BY TypeReadBack, TargetAssumption DEF Requests
<1> QED
  BY <1>1 DEF Requests, Understood

(* A plain stream stays in the layer of the request.                       *)
LEMMA PlainLayer == profile \in PlainKinds => StreamLayer = RequestLayer
  BY DEF PlainKinds, StreamLayer, RequestLayer

(* Request and stream are in layers.                                        *)
LEMMA LayersAre == RequestLayer \in Layers /\ StreamLayer \in Layers
  BY DEF RequestLayer, StreamLayer, Layers

-----------------------------------------------------------------------------
(* A new session has nothing on its way.                                    *)
LEMMA SessionInitHolds == SessionInit => SessionInv
<1> SUFFICES ASSUME SessionInit PROVE SessionInv
  OBVIOUS
<1>1. upstream \in Seq(Sendable) /\ Len(upstream) = 0 /\ DOMAIN upstream = {}
  BY DEF SessionInit
<1>2. Typed
  BY <1>1, TargetAssumption DEF SessionInit, Typed, Layers
<1>3. InOrder /\ Counted
  BY <1>1 DEF SessionInit, InOrder, Counted
<1> QED
  BY <1>2, <1>3 DEF SessionInit, SessionInv

(* The steps of connect before the request is sent, and the drop.          *)
LEMMA ConnectHolds ==
  ASSUME SessionInv, Connect \/ ConnectFails \/ Secure \/ DropStream
  PROVE  SessionInv'
<1>1. UNCHANGED <<profile, target, layer, upstream, relayed, proxyVars>>
  BY DEF Connect, ConnectFails, Secure, DropStream
<1>2. UNCHANGED <<RequestLayer, StreamLayer, Requests, Sendable>>
  BY <1>1 DEF RequestLayer, StreamLayer, Requests, Sendable, Atyp, Scheme
<1>3. Typed'
  BY <1>1, <1>2 DEF SessionInv, Typed, proxyVars, Connect, ConnectFails, Secure,
                    DropStream, Fails
<1>4. InOrder'
  BY <1>1, <1>2 DEF SessionInv, InOrder, proxyVars, Connect, ConnectFails, Secure,
                    DropStream, Fails
<1> QED
  BY <1>1, <1>3, <1>4 DEF SessionInv, Counted, proxyVars

(* The request is the first item.                                           *)
LEMMA RequestHolds == SessionInv /\ SendTarget => SessionInv'
<1> SUFFICES ASSUME SessionInv, SendTarget PROVE SessionInv'
  OBVIOUS
<1>1. UNCHANGED <<profile, target, relayed, proxyVars>>
  BY DEF SendTarget
<1>2. UNCHANGED <<RequestLayer, StreamLayer, Requests, Sendable>>
  BY <1>1 DEF RequestLayer, StreamLayer, Requests, Sendable, Atyp, Scheme
<1>3. upstream = <<>> /\ proxy = "waits" /\ call \in {"open", "secure"}
  BY DEF SendTarget, SessionInv, InOrder
<1>4. CASE Fails /\ UNCHANGED <<upstream, layer>>
  BY <1>1, <1>2, <1>3, <1>4
     DEF SessionInv, Typed, InOrder, Counted, Fails, proxyVars
<1>5. ASSUME upstream' = Append(upstream,
                  Item(RequestLayer, "request", Atyp(target), target.address)),
             call' = "returned", layer' = StreamLayer, UNCHANGED socket
      PROVE  SessionInv'
  <2> DEFINE r == Item(RequestLayer, "request", Atyp(target), target.address)
  <2>1. r \in Requests /\ r \in Sendable /\ r.what = "request" /\ r.layer = RequestLayer
    BY TypeReadBack, LayersAre DEF SessionInv, Typed, Item, Requests, Sendable
  <2>2. upstream' = <<r>> /\ Len(upstream') = 1 /\ DOMAIN upstream' = {1} /\ upstream'[1] = r
    BY <1>3, <1>5
  <2>3. Typed'
    BY <1>1, <1>2, <1>5, <2>1, <2>2, LayersAre DEF SessionInv, Typed, proxyVars
  <2>4. InOrder'
    BY <1>1, <1>2, <1>3, <1>5, <2>1, <2>2 DEF InOrder, proxyVars
  <2>5. Counted'
    BY <1>1, <1>3, <2>2 DEF SessionInv, Typed, Counted, proxyVars
  <2> QED
    BY <1>1, <2>3, <2>4, <2>5 DEF SessionInv, proxyVars
<1> QED
  BY <1>4, <1>5 DEF SendTarget

(* Data follow it in the layer of the stream.                               *)
LEMMA RelayHolds == SessionInv /\ RelayData => SessionInv'
<1> SUFFICES ASSUME SessionInv, RelayData PROVE SessionInv'
  OBVIOUS
<1> DEFINE d == Item(layer, "data", 0, target.address)
<1>1. UNCHANGED <<profile, target, call, layer, proxyVars, socket>>
  BY DEF RelayData
<1>2. UNCHANGED <<RequestLayer, StreamLayer, Requests, Sendable>>
  BY <1>1 DEF RequestLayer, StreamLayer, Requests, Sendable, Atyp, Scheme
<1>3. d \in Sendable /\ d.what = "data" /\ d.layer = layer
  BY DEF SessionInv, Typed, Item, Sendable
<1>4. profile \in PlainKinds => layer = RequestLayer
  BY PlainLayer DEF SessionInv, InOrder, RelayData
<1>5. /\ upstream' = Append(upstream, d)
      /\ upstream \in Seq(Sendable) /\ upstream' \in Seq(Sendable)
      /\ Len(upstream') = Len(upstream) + 1
  BY <1>3 DEF RelayData, SessionInv, Typed
<1>6. proxy = "waits" => Len(upstream) >= 1
  BY <1>5 DEF RelayData, SessionInv, InOrder
<1>7. Typed'
  BY <1>1, <1>2, <1>5, TargetAssumption DEF RelayData, SessionInv, Typed, proxyVars
<1>8. InOrder'
  <2>1. ASSUME NEW i \in DOMAIN upstream'
        PROVE  /\ upstream'[i].what = "request" <=> (i = 1 /\ proxy = "waits")
               /\ upstream'[i].what = "request" => upstream'[i] \in Requests
               /\ profile \in PlainKinds => upstream'[i].layer = RequestLayer
    <3>1. CASE i \in DOMAIN upstream
      BY <1>5, <3>1 DEF SessionInv, InOrder
    <3>2. CASE i = Len(upstream) + 1
      <4>1. upstream'[i] = d
        BY <1>5, <3>2
      <4>2. i = 1 => proxy # "waits"
        BY <1>5, <1>6, <3>2
      <4> QED
        BY <1>3, <1>4, <4>1, <4>2
    <3> QED
      BY <1>5, <3>1, <3>2
  <2>2. upstream' # <<>>
    BY <1>5
  <2>3. \A i \in DOMAIN upstream' :
          /\ upstream'[i].what = "request" <=> (i = 1 /\ proxy' = "waits")
          /\ upstream'[i].what = "request" => upstream'[i] \in Requests'
          /\ profile' \in PlainKinds => upstream'[i].layer = RequestLayer'
    BY <1>1, <1>2, <2>1 DEF proxyVars
  <2>4. call' = "returned" /\ layer' = StreamLayer'
    BY <1>1, <1>2 DEF RelayData, SessionInv, InOrder
  <2> QED
    BY <2>2, <2>3, <2>4 DEF InOrder
<1>9. Counted'
  BY <1>1, <1>5 DEF RelayData, SessionInv, Typed, Counted, proxyVars
<1> QED
  BY <1>1, <1>7, <1>8, <1>9 DEF SessionInv, proxyVars

-----------------------------------------------------------------------------
(* Reading an item leaves the others in their order, one place further on. *)
LEMMA TakeHolds ==
  ASSUME SessionInv, Takes, UNCHANGED <<profile, target, call, layer, relayed>>,
         proxy' \in {"serves", "refused"}
  PROVE  /\ InOrder'
         /\ upstream' \in Seq(Sendable) /\ Len(upstream') = Len(upstream) - 1
         /\ Head(upstream) = upstream[1] /\ 1 \in DOMAIN upstream
         /\ UNCHANGED <<RequestLayer, StreamLayer, Requests, Sendable>>
<1>1. /\ upstream \in Seq(Sendable) /\ upstream # <<>> /\ upstream' = Tail(upstream)
      /\ upstream' \in Seq(Sendable) /\ Len(upstream') = Len(upstream) - 1
      /\ Head(upstream) = upstream[1] /\ 1 \in DOMAIN upstream
      /\ \A i \in DOMAIN upstream' : i + 1 \in DOMAIN upstream /\ i + 1 # 1
                                     /\ upstream'[i] = upstream[i + 1]
  BY DEF Takes, SessionInv, Typed
<1>2. UNCHANGED <<RequestLayer, StreamLayer, Requests, Sendable>>
  BY DEF RequestLayer, StreamLayer, Requests, Sendable, Atyp, Scheme
<1>3. call \notin {"start", "open", "secure"}
  BY <1>1 DEF SessionInv, InOrder
<1>4. \A i \in DOMAIN upstream' :
         /\ upstream'[i].what # "request"
         /\ profile \in PlainKinds => upstream'[i].layer = RequestLayer
  BY <1>1 DEF SessionInv, InOrder
<1> QED
  BY <1>1, <1>2, <1>3, <1>4 DEF SessionInv, InOrder

(* The server reads one item, or refuses it.                                *)
LEMMA ServerHolds ==
  ASSUME SessionInv, ServerDials \/ ServerForwards \/ ServerRefuses
  PROVE  SessionInv'
<1>1. /\ Takes /\ UNCHANGED <<profile, target, call, layer, relayed>>
      /\ proxy' \in {"serves", "refused"}
  BY DEF ServerDials, ServerForwards, ServerRefuses
<1>2. /\ InOrder'
      /\ upstream' \in Seq(Sendable) /\ Len(upstream') = Len(upstream) - 1
      /\ Head(upstream) = upstream[1] /\ 1 \in DOMAIN upstream
      /\ UNCHANGED <<RequestLayer, StreamLayer, Requests, Sendable>>
  BY <1>1, TakeHolds
<1>3. Len(upstream) \in Nat /\ Len(upstream) >= 1
  BY <1>2 DEF SessionInv, Typed
<1>4. CASE ServerDials
  <2>1. Head(upstream) \in Requests /\ proxy = "waits" /\ proxy' = "serves"
    BY <1>2, <1>4 DEF ServerDials, SessionInv, InOrder
  <2>2. dialled' = target
    BY <1>4, <2>1, RequestMeansTarget DEF ServerDials, SessionInv, Typed
  <2>3. Typed'
    BY <1>1, <1>2, <1>4, <2>1, <2>2 DEF ServerDials, SessionInv, Typed
  <2>4. Counted'
    BY <1>1, <1>2, <1>3, <1>4, <2>1 DEF ServerDials, SessionInv, Typed, Counted
  <2> QED
    BY <1>2, <2>1, <2>3, <2>4 DEF SessionInv
<1>5. CASE ServerForwards
  <2>1. proxy' = "serves" /\ proxy = "serves"
    BY <1>5 DEF ServerForwards
  <2>2. Typed'
    BY <1>1, <1>2, <1>5, <2>1 DEF ServerForwards, SessionInv, Typed
  <2>3. Counted'
    BY <1>1, <1>2, <1>3, <1>5, <2>1 DEF ServerForwards, SessionInv, Typed, Counted
  <2> QED
    BY <1>2, <2>1, <2>2, <2>3 DEF SessionInv
<1>6. CASE ServerRefuses
  <2>1. proxy' = "refused" /\ UNCHANGED <<dialled, delivered>>
    BY <1>6 DEF ServerRefuses
  <2>2. profile \notin PlainKinds
    <3> SUFFICES ASSUME profile \in PlainKinds PROVE FALSE
      OBVIOUS
    <3>1. proxy # "refused" /\ ~Understood(Head(upstream))
      BY <1>6 DEF ServerRefuses, SessionInv
    <3>2. Head(upstream).layer = RequestLayer
      BY <1>2 DEF SessionInv, InOrder
    <3>3. Head(upstream).what = "request" <=> proxy = "waits"
      BY <1>2 DEF SessionInv, InOrder
    <3>4. CASE Head(upstream).what = "request"
      <4>1. Head(upstream) \in Requests /\ proxy = "waits"
        BY <1>2, <3>4 DEF SessionInv, InOrder
      <4> QED
        BY <3>1, <4>1, RequestMeansTarget DEF SessionInv, Typed
    <3>5. CASE Head(upstream).what # "request"
      BY <3>1, <3>2, <3>3, <3>5 DEF Understood
    <3> QED
      BY <3>4, <3>5
  <2>3. Typed'
    BY <1>1, <1>2, <1>6, <2>1 DEF ServerRefuses, SessionInv, Typed
  <2>4. Counted'
    BY <1>1, <1>2, <1>3, <2>1 DEF SessionInv, Typed, Counted
  <2> QED
    BY <1>1, <1>2, <2>2, <2>3, <2>4 DEF SessionInv
<1> QED
  BY <1>4, <1>5, <1>6

(* SessionInv is inductive.                                                 *)
LEMMA SessionInvHolds == SessionSpec => []SessionInv
<1>1. SessionInv /\ [SessionNext]_sessionVars => SessionInv'
  <2> SUFFICES ASSUME SessionInv, [SessionNext]_sessionVars PROVE SessionInv'
    OBVIOUS
  <2>1. CASE UNCHANGED sessionVars
    BY <2>1, ZenonT(30) DEF sessionVars, SessionInv, Typed, InOrder, Counted, Requests, Sendable,
                Atyp, Scheme, RequestLayer, StreamLayer
  <2>2. CASE SessionNext
    BY <2>2, ConnectHolds, RequestHolds, RelayHolds, ServerHolds DEF SessionNext
  <2> QED
    BY <2>1, <2>2
<1> QED
  BY <1>1, SessionInitHolds, PTL DEF SessionSpec

-----------------------------------------------------------------------------
(* What the target has received was relayed before; no data is made up.    *)
THEOREM SessionTyped == SessionSpec => []SessionTypeOK
<1>1. SessionInv => SessionTypeOK
  <2> SUFFICES ASSUME SessionInv PROVE SessionTypeOK
    OBVIOUS
  <2>1. \A i \in DOMAIN upstream : upstream[i] \in Sendable
    BY DEF SessionInv, Typed
  <2>2. delivered <= relayed
    BY DEF SessionInv, Typed, Counted
  <2> QED
    BY <2>1, <2>2, TargetAssumption DEF SessionInv, Typed, SessionTypeOK, Sendable
<1> QED
  BY <1>1, SessionInvHolds, PTL

(* The server connects where it was asked to, for every kind of profile and *)
(* every form of target; and the server of a VLESS, VLESS-over-TLS or       *)
(* Trojan profile understands all that a relay writes to its stream.       *)
THEOREM ServedAsAskedAlways == SessionSpec => []ServedAsAsked
<1>1. SessionInv => ServedAsAsked
  BY DEF SessionInv, Typed, ServedAsAsked, PlainKinds
<1> QED
  BY <1>1, SessionInvHolds, PTL

-----------------------------------------------------------------------------
(* The cipher. *)
(* The nonces that a counter goes through. *)
Nth[i \in 0 .. 2 * MaxChunks] == IF i = 0 THEN Zero ELSE Increment(Nth[i - 1])

(* s adds up the bytes of nonce n by their weights; n stands for v. *)
Sums(n, s) ==
    /\ s \in [0 .. NonceBytes -> Nat] /\ s[0] = 0
    /\ \A i \in 1 .. NonceBytes : s[i] = s[i - 1] + n[i] * Place[i - 1]
StandsFor(n, v) == \E s : Sums(n, s) /\ s[NonceBytes] = v

(* Chunk j of what e has sealed. *)
ChunkAt(e, j) ==
    /\ wire[e][2 * j].kind = "length" /\ wire[e][2 * j + 1].kind = "payload"
    /\ wire[e][2 * j].key = e /\ wire[e][2 * j + 1].key = e
    /\ wire[e][2 * j].nonce = Nth[2 * j - 2] /\ wire[e][2 * j + 1].nonce = Nth[2 * j - 1]
    /\ wire[e][2 * j].value = wire[e][2 * j + 1].value

(* e has sealed c chunks. *)
SealedChunks(e, c) ==
    /\ Len(wire[e]) = IF c = 0 THEN 0 ELSE 2 * c + 1
    /\ sealKey[e]   = IF c = 0 THEN NoKey ELSE e
    /\ sealNonce[e] = Nth[2 * c]
    /\ c > 0 => wire[e][1].kind = "salt" /\ wire[e][1].key = e
    /\ \A j \in 1 .. c : ChunkAt(e, j)

(* e has opened k chunks and is ready for the next, or has lost its place:   *)
(* it has the key and looks for a length where the salt is, or its nonce is  *)
(* one ahead.                                                               *)
InPlace(e, k) ==
    /\ ~broken[e]
    /\ openKey[e]   = IF k = 0 THEN NoKey ELSE Peer(e)
    /\ openNonce[e] = Nth[2 * k]

LostPlace(e, k) ==
    /\ openKey[e] # NoKey
    /\ k = 0 \/ (openNonce[e] = Nth[2 * k + 1] /\ 2 * k + 2 <= arrived[Peer(e)])

OpenedChunks(e, k) ==
    /\ k = Len(opened[e])
    /\ taken[e] = IF k = 0 THEN 0 ELSE 2 * k + 1
    /\ taken[e] <= arrived[Peer(e)] /\ arrived[Peer(e)] <= Len(wire[Peer(e)])
    /\ \A j \in 1 .. k : opened[e][j] = wire[Peer(e)][2 * j + 1]
    /\ IF early[e] THEN LostPlace(e, k) ELSE InPlace(e, k)

CipherTypes ==
    /\ sealKey \in [Ends -> Ends \cup {NoKey}] /\ openKey \in [Ends -> Ends \cup {NoKey}]
    /\ sealNonce \in [Ends -> Nonces] /\ openNonce \in [Ends -> Nonces]
    /\ wire \in [Ends -> Seq(Items)] /\ opened \in [Ends -> Seq(Items)]
    /\ arrived \in [Ends -> Nat] /\ taken \in [Ends -> Nat]
    /\ broken \in [Ends -> BOOLEAN] /\ early \in [Ends -> BOOLEAN]

CipherInv ==
    /\ CipherTypes
    /\ \A e \in Ends : \E c \in 0 .. MaxChunks : SealedChunks(e, c)
    /\ \A e \in Ends : \E k \in 0 .. MaxChunks : OpenedChunks(e, k)

(* A set of numbers has a least one.                                        *)
LEMMA LeastOf ==
  ASSUME NEW T, T \subseteq Nat, T # {}
  PROVE  \E m \in T : \A n \in T : m <= n
<1> DEFINE Less == {p \in Nat \X Nat : p[1] < p[2]}
<1>1. IsWellFoundedOn(Less, Nat)
  BY NatLessThanWellFounded DEF OpToRel
<1>2. PICK m \in T : \A n \in T : <<n, m>> \notin Less
  <2> HIDE DEF Less
  <2> QED BY <1>1, WFMin
<1>3. ASSUME NEW n \in T PROVE m <= n
  <2>1. <<n, m>> \in Nat \X Nat /\ <<n, m>>[1] = n /\ <<n, m>>[2] = m
    OBVIOUS
  <2>2. ~(n < m)
    BY <1>2, <2>1
  <2> QED
    BY <2>2
<1> QED
  BY <1>3

(* Induction up to n: what holds of 0, and of a number after another.       *)
LEMMA Upwards ==
  ASSUME NEW n \in Nat, NEW S, 0 \in S, \A k \in 0 .. n - 1 : k \in S => k + 1 \in S
  PROVE  0 .. n \subseteq S
<1> DEFINE T == {k \in 0 .. n : k \notin S}
<1> SUFFICES ASSUME T # {} PROVE FALSE
  OBVIOUS
<1>0. T \subseteq Nat
  OBVIOUS
<1>1. PICK m \in T : \A k \in T : m <= k
  <2> HIDE DEF T
  <2> QED BY <1>0, LeastOf
<1>2. m \in 0 .. n /\ m \notin S /\ m # 0
  OBVIOUS
<1>3. m - 1 \in 0 .. n - 1 /\ m - 1 \notin T
  BY <1>1, <1>2
<1>4. m - 1 \in S
  BY <1>3
<1>5. (m - 1) + 1 \in S
  BY <1>3, <1>4
<1>6. (m - 1) + 1 = m
  BY <1>2
<1> QED
  BY <1>2, <1>5, <1>6

(* Sequences with the same elements are the same.                           *)
LEMMA SameSequence ==
  \A S : \A a, b \in Seq(S) :
     (Len(a) = Len(b) /\ \A i \in 1 .. Len(a) : a[i] = b[i]) => a = b
<1> TAKE S
<1> TAKE a, b \in Seq(S)
<1> HAVE Len(a) = Len(b) /\ \A i \in 1 .. Len(a) : a[i] = b[i]
<1> QED OBVIOUS

(* There is a function over 0 .. n that starts with a and goes on with g.   *)
Iterated(n, T, a, g) ==
    \E f \in [0 .. n -> T] : f[0] = a /\ \A i \in 1 .. n : f[i] = g[f[i - 1]]

(* Such a function exists, by induction on its length.                      *)
LEMMA Iterates ==
  ASSUME NEW n \in Nat, NEW T, NEW a \in T, NEW g \in [T -> T]
  PROVE  Iterated(n, T, a, g)
<1> DEFINE Upto(f, k) == f[0] = a /\ \A i \in 1 .. k : f[i] = g[f[i - 1]]
           S == {k \in Nat : \E f \in [0 .. k -> T] : Upto(f, k)}
<1>1. 0 \in S
  <2>1. [i \in 0 .. 0 |-> a] \in [0 .. 0 -> T] /\ Upto([i \in 0 .. 0 |-> a], 0)
    OBVIOUS
  <2> QED
    BY <2>1
<1>2. ASSUME NEW k \in 0 .. n - 1, k \in S PROVE k + 1 \in S
  <2>1. PICK f \in [0 .. k -> T] : Upto(f, k)
    BY <1>2
  <2> DEFINE h == [i \in 0 .. k + 1 |-> IF i \in 0 .. k THEN f[i] ELSE g[f[k]]]
  <2>2. k \in Nat /\ k \in 0 .. k
    OBVIOUS
  <2>3. h \in [0 .. k + 1 -> T]
    BY <2>2
  <2>4. h[0] = a
    BY <2>1, <2>2
  <2>5. ASSUME NEW i \in 1 .. k + 1 PROVE h[i] = g[h[i - 1]]
    <3>1. CASE i \in 1 .. k
      <4>1. i - 1 \in 0 .. k /\ i - 1 \in 0 .. k + 1 /\ i \in 0 .. k /\ i \in 0 .. k + 1
        BY <2>2, <3>1
      <4>2. h[i] = f[i] /\ h[i - 1] = f[i - 1]
        BY <4>1
      <4> QED
        BY <2>1, <3>1, <4>2
    <3>2. CASE i = k + 1
      <4>1. i - 1 = k /\ k \in 0 .. k + 1 /\ i \notin 0 .. k /\ i \in 0 .. k + 1
        BY <2>2, <3>2
      <4>2. h[i] = g[f[k]] /\ h[i - 1] = f[k]
        BY <2>2, <4>1
      <4> QED
        BY <4>2
    <3>3. i \in 1 .. k \/ i = k + 1
      BY <2>2
    <3> QED
      BY <3>1, <3>2, <3>3
  <2> HIDE DEF h
  <2>6. \E r \in [0 .. k + 1 -> T] : Upto(r, k + 1)
    BY <2>3, <2>4, <2>5
  <2> QED
    BY <2>2, <2>6
<1>3. n \in S
  <2> HIDE DEF S
  <2>1. 0 .. n \subseteq S
    BY <1>1, <1>2, Upwards
  <2> QED
    BY <2>1
<1> QED
  BY <1>3 DEF Iterated

(* The weights of the bytes. *)
LEMMA PlaceFacts ==
  /\ Place[0] = 1
  /\ \A i \in 1 .. NonceBytes : Place[i] = Base * Place[i - 1]
  /\ \A i \in 0 .. NonceBytes : Place[i] \in Nat
<1>1. NonceBytes \in Nat /\ Base \in Nat
  BY CipherAssumption
<1>2. Place = [i \in 0 .. NonceBytes |-> IF i = 0 THEN 1 ELSE Base * Place[i - 1]]
  <2> DEFINE g == [x \in Nat |-> Base * x]
  <2>1. g \in [Nat -> Nat] /\ 1 \in Nat /\ NonceBytes \in Nat
    BY <1>1
  <2>2. \A x \in Nat : g[x] = Base * x
    OBVIOUS
  <2> HIDE DEF g
  <2>3. PICK f \in [0 .. NonceBytes -> Nat] :
           f[0] = 1 /\ \A i \in 1 .. NonceBytes : f[i] = g[f[i - 1]]
    <3>1. Iterated(NonceBytes, Nat, 1, g)
      BY <2>1, Iterates
    <3> QED
      BY <3>1 DEF Iterated
  <2>4. ASSUME NEW i \in 0 .. NonceBytes
        PROVE  f[i] = IF i = 0 THEN 1 ELSE Base * f[i - 1]
    <3>1. CASE i = 0
      BY <2>3, <3>1
    <3>2. CASE i # 0
      <4>1. i \in 1 .. NonceBytes /\ i - 1 \in 0 .. NonceBytes
        BY <1>1, <3>2
      <4>2. f[i] = g[f[i - 1]] /\ f[i - 1] \in Nat
        BY <2>3, <4>1
      <4> QED
        BY <2>2, <3>2, <4>2
    <3> QED
      BY <3>1, <3>2
  <2>5. f = [i \in 0 .. NonceBytes |-> IF i = 0 THEN 1 ELSE Base * f[i - 1]]
    BY <2>4
  <2> QED
    BY <2>5 DEF Place
<1>3. Place[0] = 1 /\ \A i \in 1 .. NonceBytes : Place[i] = Base * Place[i - 1]
  <2>1. \A i \in 0 .. NonceBytes : Place[i] = IF i = 0 THEN 1 ELSE Base * Place[i - 1]
    BY <1>2, Zenon
  <2> QED
    BY <1>1, <2>1
<1>4. 0 .. NonceBytes \subseteq {k \in 0 .. NonceBytes : Place[k] \in Nat}
  <2> DEFINE S == {k \in 0 .. NonceBytes : Place[k] \in Nat}
  <2>1. 0 \in S
    BY <1>1, <1>3
  <2>2. ASSUME NEW k \in 0 .. NonceBytes - 1, k \in S PROVE k + 1 \in S
    <3>1. k + 1 \in 1 .. NonceBytes /\ (k + 1) - 1 = k
      BY <1>1
    <3>2. Place[k + 1] = Base * Place[k] /\ Place[k] \in Nat
      BY <1>3, <2>2, <3>1
    <3> QED
      BY <1>1, <3>1, <3>2
  <2> HIDE DEF S
  <2>3. 0 .. NonceBytes \subseteq S
    BY <1>1, <2>1, <2>2, Upwards
  <2> QED
    BY <2>3 DEF S
<1> QED
  BY <1>3, <1>4

(* A nonce after another. *)
LEMMA IncrementFacts ==
  /\ Zero \in Nonces /\ \A n \in Nonces : Increment(n) \in Nonces
  /\ \A n \in Nonces : \A i \in 1 .. NonceBytes :
        Increment(n)[i] = IF \A j \in 1 .. i - 1 : n[j] = Base - 1
                          THEN (n[i] + 1) % Base
                          ELSE n[i]
<1>1. NonceBytes \in Nat /\ Base \in Nat /\ Base > 1
  BY CipherAssumption
<1>2. Zero \in Nonces
  BY <1>1 DEF Zero, Nonces
<1>3. ASSUME NEW n \in Nonces, NEW i \in 1 .. NonceBytes
      PROVE  /\ Increment(n)[i] = IF \A j \in 1 .. i - 1 : n[j] = Base - 1
                                  THEN (n[i] + 1) % Base
                                  ELSE n[i]
             /\ Increment(n)[i] \in 0 .. Base - 1
  <2>1. DOMAIN n = 1 .. NonceBytes /\ n[i] \in 0 .. Base - 1
    BY DEF Nonces
  <2>2. (n[i] + 1) % Base \in 0 .. Base - 1
    BY <1>1, <2>1
  <2> QED
    BY <2>1, <2>2 DEF Increment
<1>4. ASSUME NEW n \in Nonces PROVE Increment(n) \in Nonces
  <2>1. DOMAIN n = 1 .. NonceBytes
    BY DEF Nonces
  <2>2. Increment(n) = [i \in 1 .. NonceBytes |-> Increment(n)[i]]
    BY <2>1 DEF Increment
  <2> HIDE DEF Increment
  <2> QED
    BY <1>3, <2>2 DEF Nonces
<1> QED
  BY <1>2, <1>3, <1>4

(* The nonces that a counter goes through are nonces.                       *)
LEMMA NthFacts ==
  /\ Nth[0] = Zero
  /\ \A i \in 1 .. 2 * MaxChunks : Nth[i] = Increment(Nth[i - 1])
  /\ \A i \in 0 .. 2 * MaxChunks : Nth[i] \in Nonces
<1> DEFINE M == 2 * MaxChunks
<1>1. M \in Nat
  BY CipherAssumption
<1>2. Nth = [i \in 0 .. M |-> IF i = 0 THEN Zero ELSE Increment(Nth[i - 1])]
  <2> DEFINE g == [x \in Nonces |-> Increment(x)]
  <2>1. g \in [Nonces -> Nonces] /\ Zero \in Nonces
    BY IncrementFacts
  <2>2. \A x \in Nonces : g[x] = Increment(x)
    OBVIOUS
  <2> HIDE DEF g, M
  <2>3. PICK f \in [0 .. M -> Nonces] :
           f[0] = Zero /\ \A i \in 1 .. M : f[i] = g[f[i - 1]]
    <3>1. Iterated(M, Nonces, Zero, g)
      BY <1>1, <2>1, Iterates
    <3> QED
      BY <3>1 DEF Iterated
  <2>4. ASSUME NEW i \in 0 .. M
        PROVE  f[i] = IF i = 0 THEN Zero ELSE Increment(f[i - 1])
    <3>1. CASE i = 0
      BY <2>3, <3>1
    <3>2. CASE i # 0
      <4>1. i \in 1 .. M /\ i - 1 \in 0 .. M
        BY <1>1, <3>2
      <4>2. f[i] = g[f[i - 1]] /\ f[i - 1] \in Nonces
        BY <2>3, <4>1
      <4> QED
        BY <2>2, <3>2, <4>2
    <3> QED
      BY <3>1, <3>2
  <2>5. f = [i \in 0 .. M |-> IF i = 0 THEN Zero ELSE Increment(f[i - 1])]
    BY <2>4
  <2> QED
    BY <2>5 DEF Nth, M
<1> HIDE DEF M
<1>3. Nth[0] = Zero /\ \A i \in 1 .. M : Nth[i] = Increment(Nth[i - 1])
  <2>1. \A i \in 0 .. M : Nth[i] = IF i = 0 THEN Zero ELSE Increment(Nth[i - 1])
    BY <1>2, Zenon
  <2> QED
    BY <1>1, <2>1
<1>4. 0 .. M \subseteq {k \in 0 .. M : Nth[k] \in Nonces}
  <2> DEFINE S == {k \in 0 .. M : Nth[k] \in Nonces}
  <2>1. 0 \in S
    BY <1>1, <1>3, IncrementFacts
  <2>2. ASSUME NEW k \in 0 .. M - 1, k \in S PROVE k + 1 \in S
    <3>1. k + 1 \in 1 .. M /\ (k + 1) - 1 = k
      BY <1>1
    <3>2. Nth[k + 1] = Increment(Nth[k]) /\ Nth[k] \in Nonces
      BY <1>3, <2>2, <3>1
    <3> QED
      BY <1>1, <3>1, <3>2, IncrementFacts
  <2> HIDE DEF S
  <2>3. 0 .. M \subseteq S
    BY <1>1, <2>1, <2>2, Upwards
  <2> QED
    BY <2>3 DEF S
<1> QED
  BY <1>3, <1>4 DEF M

(* A nonce stands for one number. *)
LEMMA OneNumber ==
  ASSUME NEW n, NEW v, NEW w, StandsFor(n, v), StandsFor(n, w)
  PROVE  v = w
<1>1. NonceBytes \in Nat
  BY CipherAssumption
<1>2. PICK s : Sums(n, s) /\ s[NonceBytes] = v
  BY DEF StandsFor
<1>3. PICK t : Sums(n, t) /\ t[NonceBytes] = w
  BY DEF StandsFor
<1> DEFINE S == {k \in 0 .. NonceBytes : s[k] = t[k]}
<1>4. 0 \in S
  BY <1>1, <1>2, <1>3 DEF Sums
<1>5. ASSUME NEW k \in 0 .. NonceBytes - 1, k \in S PROVE k + 1 \in S
  <2>1. k + 1 \in 1 .. NonceBytes /\ k + 1 \in 0 .. NonceBytes /\ (k + 1) - 1 = k
    BY <1>1
  <2>2. s[k + 1] = s[k] + n[k + 1] * Place[k] /\ t[k + 1] = t[k] + n[k + 1] * Place[k]
    BY <1>2, <1>3, <2>1 DEF Sums
  <2> QED
    BY <1>5, <2>1, <2>2
<1> HIDE DEF S
<1>6. 0 .. NonceBytes \subseteq S
  BY <1>1, <1>4, <1>5, Upwards
<1> QED
  BY <1>1, <1>2, <1>3, <1>6 DEF S

(* The nonce after n stands for one more, unless n is the last one.        *)
LEMMA OneMore ==
  ASSUME NEW n \in Nonces, NEW v, StandsFor(n, v), v + 1 < Place[NonceBytes]
  PROVE  StandsFor(Increment(n), v + 1)
<1> DEFINE N == NonceBytes
           AllMax(k) == \A j \in 1 .. k : n[j] = Base - 1
<1>1. N \in Nat /\ N > 0 /\ Base \in Nat /\ Base > 1
  BY CipherAssumption
<1>2. PICK s : Sums(n, s) /\ s[N] = v
  BY DEF StandsFor
<1>3. \A i \in 0 .. N : s[i] \in Nat /\ Place[i] \in Nat
  BY <1>2, PlaceFacts DEF Sums
<1>4. \A i \in 1 .. N : n[i] \in 0 .. Base - 1
  BY DEF Nonces
<1>5. ASSUME NEW i \in 1 .. N
      PROVE  /\ i - 1 \in 0 .. N /\ i \in 0 .. N
             /\ s[i] = s[i - 1] + n[i] * Place[i - 1]
             /\ Place[i] = Base * Place[i - 1]
             /\ AllMax(i) <=> AllMax(i - 1) /\ n[i] = Base - 1
  <2>1. \A j \in 1 .. i : j \in 1 .. i - 1 \/ j = i
    OBVIOUS
  <2>2. AllMax(i) <=> AllMax(i - 1) /\ n[i] = Base - 1
    BY <2>1
  <2> QED
    BY <1>1, <1>2, <2>2, PlaceFacts, SMTT(30) DEF Sums
(* While all bytes are at their largest, so is their sum. *)
<1>6. \A k \in 0 .. N : AllMax(k) => s[k] = Place[k] - 1
  <2> DEFINE S == {k \in 0 .. N : AllMax(k) => s[k] = Place[k] - 1}
  <2>1. 0 \in S
    BY <1>1, <1>2, PlaceFacts DEF Sums
  <2>2. ASSUME NEW k \in 0 .. N - 1, k \in S PROVE k + 1 \in S
    <3>1. k + 1 \in 1 .. N /\ k + 1 \in 0 .. N /\ (k + 1) - 1 = k
      BY <1>1
    <3>2. ASSUME AllMax(k + 1) PROVE s[k + 1] = Place[k + 1] - 1
      <4>1. AllMax(k) /\ n[k + 1] = Base - 1
        BY <1>5, <3>1, <3>2
      <4>2. s[k] = Place[k] - 1
        BY <2>2, <4>1
      <4>3. /\ s[k + 1] = s[k] + (Base - 1) * Place[k]
            /\ Place[k + 1] = Base * Place[k] /\ Place[k] \in Nat
        BY <1>3, <1>5, <3>1, <4>1
      <4>4. (Base - 1) * Place[k] = Base * Place[k] - Place[k]
        BY <1>1, <4>3
      <4> HIDE DEF AllMax
      <4> QED
        BY <1>1, <4>2, <4>3, <4>4
    <3> HIDE DEF AllMax
    <3> QED
      BY <3>1, <3>2
  <2> HIDE DEF S
  <2>3. 0 .. N \subseteq S
    BY <1>1, <2>1, <2>2, Upwards
  <2> QED
    BY <2>3 DEF S
<1> DEFINE m == Increment(n)
           t == [i \in 0 .. N |-> IF AllMax(i) THEN 0 ELSE s[i] + 1]
<1>7. \A i \in 1 .. N : m[i] = IF AllMax(i - 1) THEN (n[i] + 1) % Base ELSE n[i]
  BY IncrementFacts
<1>8. \A i \in 0 .. N : t[i] = IF AllMax(i) THEN 0 ELSE s[i] + 1
  OBVIOUS
<1>9. t \in [0 .. N -> Nat]
  BY <1>3
<1> HIDE DEF m, t
<1>10. t[0] = 0
  <2>1. AllMax(0) /\ 0 \in 0 .. N
    BY <1>1
  <2> QED
    BY <1>8, <2>1
<1>11. ASSUME NEW i \in 1 .. N PROVE t[i] = t[i - 1] + m[i] * Place[i - 1]
  <2> DEFINE P == Place[i - 1]
  <2>0. /\ P \in Nat /\ s[i - 1] \in Nat /\ s[i] \in Nat /\ n[i] \in 0 .. Base - 1
        /\ s[i] = s[i - 1] + n[i] * P
        /\ t[i] = IF AllMax(i) THEN 0 ELSE s[i] + 1
        /\ t[i - 1] = IF AllMax(i - 1) THEN 0 ELSE s[i - 1] + 1
    BY <1>3, <1>4, <1>5, <1>8
  <2>1. CASE AllMax(i)
    <3>1. AllMax(i - 1) /\ n[i] = Base - 1
      BY <1>5, <2>1
    <3>2. m[i] = (n[i] + 1) % Base
      BY <1>7, <3>1
    <3>3. m[i] = 0
      BY <1>1, <3>1, <3>2
    <3>4. t[i] = 0 /\ t[i - 1] = 0
      BY <2>0, <2>1, <3>1
    <3> QED
      BY <2>0, <3>3, <3>4
  <2>2. CASE AllMax(i - 1) /\ ~AllMax(i)
    <3>1. n[i] # Base - 1
      BY <1>5, <2>2
    <3>2. m[i] = (n[i] + 1) % Base
      BY <1>7, <2>2
    <3>3. m[i] = n[i] + 1
      <4>1. n[i] + 1 \in Nat /\ n[i] + 1 < Base
        BY <1>1, <2>0, <3>1
      <4> QED
        BY <1>1, <3>2, <4>1
    <3>4. s[i - 1] = P - 1
      BY <1>5, <1>6, <2>2
    <3>5. t[i - 1] = 0 /\ t[i] = s[i] + 1
      BY <2>0, <2>2
    <3>6. (n[i] + 1) * P = n[i] * P + P
      BY <2>0
    <3> HIDE DEF AllMax, P
    <3>7. n[i] * P \in Int
      BY <2>0
    <3>8. t[i] = t[i - 1] + m[i] * P
      BY <2>0, <3>3, <3>4, <3>5, <3>6, <3>7
    <3> QED
      BY <3>8 DEF P
  <2>3. CASE ~AllMax(i - 1)
    <3>1. ~AllMax(i)
      BY <1>5, <2>3
    <3>2. m[i] = n[i]
      BY <1>7, <2>3
    <3>3. t[i - 1] = s[i - 1] + 1 /\ t[i] = s[i] + 1
      BY <2>0, <2>3, <3>1
    <3> HIDE DEF AllMax, P
    <3>4. n[i] * P \in Int
      BY <2>0
    <3>5. t[i] = t[i - 1] + m[i] * P
      BY <2>0, <3>2, <3>3, <3>4
    <3> QED
      BY <3>5 DEF P
  <2> QED
    BY <2>1, <2>2, <2>3
<1>12. t[N] = v + 1
  <2>1. N \in 0 .. N
    BY <1>1
  <2>2. ~AllMax(N)
    <3> HIDE DEF AllMax
    <3> SUFFICES ASSUME AllMax(N) PROVE FALSE
      OBVIOUS
    <3>1. v = Place[N] - 1 /\ Place[N] \in Nat
      BY <1>2, <1>3, <1>6, <2>1
    <3> QED
      BY <3>1
  <2> QED
    BY <1>2, <1>8, <2>1, <2>2
<1>13. Sums(m, t)
  BY <1>9, <1>10, <1>11 DEF Sums
<1> QED
  BY <1>12, <1>13 DEF StandsFor, m

(* No nonce comes twice while the counter does not run out.                *)
LEMMA NoNonceTwice ==
  \A i, j \in 0 .. 2 * MaxChunks - 1 : Nth[i] = Nth[j] => i = j
<1> DEFINE M == 2 * MaxChunks
           S == {k \in Nat : StandsFor(Nth[k], k)}
<1>1. M \in Nat /\ NonceBytes \in Nat /\ M <= Place[NonceBytes] /\ Place[NonceBytes] \in Nat
  BY CipherAssumption, PlaceFacts
<1> SUFFICES ASSUME M > 0 PROVE \A i, j \in 0 .. M - 1 : Nth[i] = Nth[j] => i = j
  BY <1>1
<1> HIDE DEF M
<1>2. 0 \in S
  <2> DEFINE s == [i \in 0 .. NonceBytes |-> 0]
  <2>1. \A i \in 1 .. NonceBytes : Zero[i] * Place[i - 1] = 0
    <3> TAKE i \in 1 .. NonceBytes
    <3>1. Place[i - 1] \in Nat /\ Zero[i] = 0
      BY <1>1, PlaceFacts DEF Zero
    <3> QED
      BY <3>1
  <2>2. Sums(Zero, s) /\ s[NonceBytes] = 0
    BY <1>1, <2>1 DEF Sums
  <2> HIDE DEF s
  <2> QED
    BY <2>2, NthFacts DEF StandsFor
<1>3. ASSUME NEW k \in 0 .. M - 1 - 1, k \in S PROVE k + 1 \in S
  <2>1. k \in 0 .. M /\ k + 1 \in 1 .. M /\ (k + 1) - 1 = k /\ k + 1 < Place[NonceBytes]
    BY <1>1
  <2>2. Nth[k] \in Nonces /\ Nth[k + 1] = Increment(Nth[k])
    BY <2>1, NthFacts DEF M
  <2>3. StandsFor(Nth[k + 1], k + 1)
    BY <1>3, <2>1, <2>2, OneMore
  <2> QED
    BY <2>1, <2>3
<1> HIDE DEF S
<1>4. 0 .. M - 1 \subseteq S
  BY <1>1, <1>2, <1>3, Upwards
<1>5. \A i \in 0 .. M - 1 : StandsFor(Nth[i], i)
  BY <1>4 DEF S
<1> QED
  BY <1>5, OneNumber

(* Two more items. *)
LEMMA TwoMore ==
  ASSUME NEW S, NEW x \in Seq(S), NEW a \in S, NEW b \in S
  PROVE  /\ x \o <<a, b>> \in Seq(S) /\ Len(x \o <<a, b>>) = Len(x) + 2
         /\ \A i \in 1 .. Len(x) : (x \o <<a, b>>)[i] = x[i]
         /\ (x \o <<a, b>>)[Len(x) + 1] = a /\ (x \o <<a, b>>)[Len(x) + 2] = b
  OBVIOUS

(* The peer of an end is the other one.                                     *)
LEMMA PeerFacts ==
  \A e \in Ends : Peer(e) \in Ends /\ Peer(e) # e /\ Peer(Peer(e)) = e /\ e # NoKey
<1>1. Peer("local") = "remote"
  <2>1. "remote" \in Ends /\ \A p \in Ends : p # "local" <=> p = "remote"
    BY DEF Ends
  <2> QED
    BY <2>1 DEF Peer
<1>2. Peer("remote") = "local"
  <2>1. "local" \in Ends /\ \A p \in Ends : p # "remote" <=> p = "local"
    BY DEF Ends
  <2> QED
    BY <2>1 DEF Peer
<1> QED
  BY <1>1, <1>2 DEF Ends, NoKey

(* What seal writes. *)
LEMMA SealWrites ==
  ASSUME CipherInv, NEW a \in Ends, NEW size \in Sizes,
         Len(wire[a]) < 2 * MaxChunks, Seal(a, size)
  PROVE  /\ CipherTypes'
         /\ \A e \in Ends \ {a} : wire'[e] = wire[e] /\ sealKey'[e] = sealKey[e]
                                    /\ sealNonce'[e] = sealNonce[e]
         /\ Len(wire[a]) <= Len(wire'[a])
         /\ \A i \in 1 .. Len(wire[a]) : wire'[a][i] = wire[a][i]
         /\ \E c \in 0 .. MaxChunks : SealedChunks(a, c)'
<1>0. CipherTypes
  BY DEF CipherInv
<1>1. PICK c \in 0 .. MaxChunks : SealedChunks(a, c)
  BY DEF CipherInv
<1>2. MaxChunks \in Nat /\ MaxPayload \in Nat /\ size \in Nat
  BY CipherAssumption
<1> DEFINE w     == wire[a]
           first == IF sealKey[a] = NoKey THEN <<Salt(a)>> ELSE <<>>
           n1    == sealNonce[a]
           n2    == Increment(n1)
           v     == size % (MaxPayload + 1)
           l     == Sealed("length", a, n1, v)
           p     == Sealed("payload", a, n2, size)
           x     == w \o first
<1>3. /\ wire' = [wire EXCEPT ![a] = x \o <<l, p>>]
      /\ sealNonce' = [sealNonce EXCEPT ![a] = Increment(n2)]
      /\ sealKey' = [sealKey EXCEPT ![a] = a]
      /\ size <= MaxPayload
      /\ UNCHANGED <<arrived, openVars>>
  BY DEF Seal, PayloadFits
<1>4. w \in Seq(Items) /\ Len(w) = (IF c = 0 THEN 0 ELSE 2 * c + 1)
      /\ sealKey[a] = (IF c = 0 THEN NoKey ELSE a) /\ n1 = Nth[2 * c] /\ n1 \in Nonces
  BY <1>0, <1>1 DEF CipherTypes, SealedChunks
<1>5. c + 1 \in 1 .. MaxChunks /\ 2 * c + 2 <= 2 * MaxChunks
  <2>1. c \in Nat /\ MaxChunks \in Nat /\ c <= MaxChunks
    BY <1>2
  <2>2. (IF c = 0 THEN 0 ELSE 2 * c + 1) < 2 * MaxChunks
    BY <1>4
  <2>3. c < MaxChunks
    BY <2>1, <2>2
  <2> QED
    BY <2>1, <2>3
<1>6. n2 = Nth[2 * c + 1] /\ Increment(n2) = Nth[2 * c + 2] /\ n2 \in Nonces
      /\ Increment(n2) \in Nonces
  <2>1. /\ 2 * c + 1 \in 1 .. 2 * MaxChunks /\ (2 * c + 1) - 1 = 2 * c
        /\ 2 * c + 2 \in 1 .. 2 * MaxChunks /\ (2 * c + 2) - 1 = 2 * c + 1
    <3>1. c \in Nat /\ MaxChunks \in Nat
      BY <1>2
    <3> QED
      BY <1>5, <3>1
  <2> QED
    BY <1>4, <2>1, NthFacts, IncrementFacts
<1>7. v = size
  BY <1>2, <1>3
<1>8. /\ l \in Items /\ l.kind = "length" /\ l.key = a /\ l.nonce = n1 /\ l.value = size
      /\ p \in Items /\ p.kind = "payload" /\ p.key = a /\ p.nonce = n2 /\ p.value = size
  BY <1>2, <1>4, <1>6, <1>7 DEF Sealed, Items
<1>9. /\ x \in Seq(Items) /\ Len(x) = 2 * c + 1
      /\ \A i \in 1 .. Len(w) : x[i] = w[i]
      /\ x[1].kind = "salt" /\ x[1].key = a
  <2>1. CASE c = 0
    <3>1. Salt(a) \in Items /\ Salt(a).kind = "salt" /\ Salt(a).key = a
      BY IncrementFacts DEF Salt, Items
    <3>2. first = <<Salt(a)>>
      BY <1>4, <2>1
    <3>3. w = <<>>
      BY <1>4, <2>1
    <3> HIDE DEF w, first
    <3>4. x \in Seq(Items) /\ Len(x) = 1 /\ x[1] = Salt(a)
      BY <3>1, <3>2, <3>3
    <3> QED
      BY <2>1, <3>1, <3>3, <3>4
  <2>2. CASE c # 0
    <3>1. first = <<>> /\ Len(w) = 2 * c + 1
      BY <1>4, <2>2, PeerFacts
    <3>2. w[1].kind = "salt" /\ w[1].key = a
      BY <1>1, <2>2 DEF SealedChunks
    <3> HIDE DEF w, first
    <3>3. x = w
      BY <1>4, <3>1
    <3>4. 2 * c + 1 \in Nat /\ 1 \in 1 .. 2 * c + 1
      BY <1>2
    <3> HIDE DEF x
    <3> QED
      BY <1>4, <3>1, <3>2, <3>3, <3>4
  <2> QED
    BY <2>1, <2>2
<1>10. wire'[a] = x \o <<l, p>>
  BY <1>0, <1>3 DEF CipherTypes
<1> HIDE DEF x, l, p, w, n1, n2, v
<1>12. /\ wire'[a] \in Seq(Items) /\ Len(wire'[a]) = 2 * c + 3
       /\ \A i \in 1 .. 2 * c + 1 : wire'[a][i] = x[i]
       /\ wire'[a][2 * c + 2] = l /\ wire'[a][2 * c + 3] = p
  <2>1. /\ x \o <<l, p>> \in Seq(Items) /\ Len(x \o <<l, p>>) = Len(x) + 2
        /\ \A i \in 1 .. Len(x) : (x \o <<l, p>>)[i] = x[i]
        /\ (x \o <<l, p>>)[Len(x) + 1] = l /\ (x \o <<l, p>>)[Len(x) + 2] = p
    BY <1>8, <1>9, TwoMore
  <2>4. (2 * c + 1) + 1 = 2 * c + 2 /\ (2 * c + 1) + 2 = 2 * c + 3
    BY <1>2
  <2> QED
    BY <1>9, <1>10, <2>1, <2>4
<1>13. \A i \in 1 .. Len(w) : wire'[a][i] = w[i]
  BY <1>2, <1>4, <1>9, <1>12
<1>14. CipherTypes'
  BY <1>0, <1>3, <1>6, <1>12 DEF CipherTypes, openVars
<1>15. \A j \in 1 .. c + 1 : ChunkAt(a, j)'
  <2> TAKE j \in 1 .. c + 1
  <2>1. CASE j \in 1 .. c
    <3>1. 2 * j \in 1 .. Len(w) /\ 2 * j + 1 \in 1 .. Len(w)
      BY <1>2, <1>4, <2>1
    <3>2. ChunkAt(a, j)
      BY <1>1, <2>1 DEF SealedChunks
    <3> QED
      BY <1>13, <3>1, <3>2 DEF ChunkAt, w
  <2>2. CASE j = c + 1
    <3>1. 2 * j = 2 * c + 2 /\ 2 * j + 1 = 2 * c + 3 /\ 2 * j - 2 = 2 * c /\ 2 * j - 1 = 2 * c + 1
      BY <1>2, <2>2
    <3> QED
      BY <1>4, <1>6, <1>8, <1>12, <3>1 DEF ChunkAt
  <2>3. j \in 1 .. c \/ j = c + 1
    BY <1>2
  <2> QED
    BY <2>1, <2>2, <2>3
<1>16. SealedChunks(a, c + 1)'
  <2>1. /\ c + 1 # 0 /\ Len(wire'[a]) = 2 * (c + 1) + 1 /\ 2 * (c + 1) = 2 * c + 2
        /\ 1 \in 1 .. 2 * c + 1
    BY <1>2, <1>12
  <2>2. wire'[a][1].kind = "salt" /\ wire'[a][1].key = a
    BY <1>9, <1>12, <2>1
  <2>3. sealKey'[a] = a /\ sealNonce'[a] = Nth[2 * c + 2]
    BY <1>0, <1>3, <1>6 DEF CipherTypes
  <2> QED
    BY <1>15, <2>1, <2>2, <2>3 DEF SealedChunks
<1>17. \A e \in Ends \ {a} : wire'[e] = wire[e] /\ sealKey'[e] = sealKey[e]
                               /\ sealNonce'[e] = sealNonce[e]
  BY <1>0, <1>3 DEF CipherTypes
<1>18. Len(w) <= Len(wire'[a])
  BY <1>2, <1>4, <1>12
<1> QED
  BY <1>5, <1>13, <1>14, <1>16, <1>17, <1>18 DEF w

(* A part of a sequence. *)
LEMMA PartOf ==
  ASSUME NEW S, NEW w \in Seq(S), NEW m \in Nat, NEW n \in Nat, m <= n, n <= Len(w)
  PROVE  /\ SubSeq(w, m + 1, n) \in Seq(S)
         /\ Len(SubSeq(w, m + 1, n)) = n - m
         /\ \A i \in 1 .. n - m : SubSeq(w, m + 1, n)[i] = w[m + i]
<1>1. \A i \in m + 1 .. n : w[i] \in S
  OBVIOUS
<1>2. SubSeq(w, m + 1, n) \in Seq(S)
  BY <1>1
<1>3. Len(SubSeq(w, m + 1, n)) = n - m
  OBVIOUS
<1>4. \A i \in 1 .. n - m : SubSeq(w, m + 1, n)[i] = w[m + i]
  <2> TAKE i \in 1 .. n - m
  <2>1. i + (m + 1) - 1 = m + i
    OBVIOUS
  <2> QED
    BY <2>1
<1> QED
  BY <1>2, <1>3, <1>4

(* What has arrived and is not consumed. *)
LEMMA DataFacts ==
  ASSUME CipherInv, NEW e \in Ends
  PROVE  /\ Data(e) \in Seq(Items) /\ Len(Data(e)) \in Nat
         /\ Len(Data(e)) = arrived[Peer(e)] - taken[e]
         /\ \A i \in 1 .. Len(Data(e)) : Data(e)[i] = wire[Peer(e)][taken[e] + i]
         /\ Len(Data(e)) >= 1 => Head(Data(e)) = Data(e)[1]
<1> DEFINE p == Peer(e)
<1>1. p \in Ends
  BY PeerFacts
<1>2. wire[p] \in Seq(Items) /\ arrived[p] \in Nat /\ taken[e] \in Nat
  BY <1>1 DEF CipherInv, CipherTypes
<1>3. taken[e] <= arrived[p] /\ arrived[p] <= Len(wire[p])
  BY DEF CipherInv, OpenedChunks
<1>4. Data(e) = SubSeq(wire[p], taken[e] + 1, arrived[p])
  BY DEF Data
<1> HIDE DEF p
<1>5. /\ SubSeq(wire[p], taken[e] + 1, arrived[p]) \in Seq(Items)
      /\ Len(SubSeq(wire[p], taken[e] + 1, arrived[p])) = arrived[p] - taken[e]
      /\ \A i \in 1 .. arrived[p] - taken[e] :
            SubSeq(wire[p], taken[e] + 1, arrived[p])[i] = wire[p][taken[e] + i]
  BY <1>2, <1>3, PartOf, SMTT(30)
<1>6. Data(e) \in Seq(Items) /\ Len(Data(e)) = arrived[p] - taken[e] /\ Len(Data(e)) \in Nat
  BY <1>2, <1>3, <1>4, <1>5
<1>7. Len(Data(e)) >= 1 => Head(Data(e)) = Data(e)[1]
  BY <1>6
<1> QED
  BY <1>4, <1>5, <1>6, <1>7 DEF p

(* The chunk after the first k ones has arrived, in part or in whole.      *)
LEMMA NextChunk ==
  ASSUME CipherInv, NEW e \in Ends, NEW k \in 0 .. MaxChunks, OpenedChunks(e, k),
         2 * k + 2 <= arrived[Peer(e)]
  PROVE  /\ k + 1 \in 1 .. MaxChunks
         /\ wire[Peer(e)][1].key = Peer(e) /\ wire[Peer(e)][1].kind = "salt"
         /\ wire[Peer(e)][2 * k + 2].kind = "length"
         /\ wire[Peer(e)][2 * k + 3].kind = "payload"
         /\ wire[Peer(e)][2 * k + 2].key = Peer(e) /\ wire[Peer(e)][2 * k + 3].key = Peer(e)
         /\ wire[Peer(e)][2 * k + 2].nonce = Nth[2 * k]
         /\ wire[Peer(e)][2 * k + 3].nonce = Nth[2 * k + 1]
         /\ wire[Peer(e)][2 * k + 2].value = wire[Peer(e)][2 * k + 3].value
<1>1. MaxChunks \in Nat
  BY CipherAssumption
<1>2. Peer(e) \in Ends /\ arrived[Peer(e)] \in Nat
  BY PeerFacts DEF CipherInv, CipherTypes
<1>3. PICK c \in 0 .. MaxChunks : SealedChunks(Peer(e), c)
  BY <1>2 DEF CipherInv
<1>4. Len(wire[Peer(e)]) = (IF c = 0 THEN 0 ELSE 2 * c + 1) /\ 2 * k + 2 <= Len(wire[Peer(e)])
  <2>1. arrived[Peer(e)] <= Len(wire[Peer(e)])
    BY DEF OpenedChunks
  <2>2. Len(wire[Peer(e)]) = (IF c = 0 THEN 0 ELSE 2 * c + 1)
    BY <1>3 DEF SealedChunks
  <2> QED
    BY <1>1, <1>2, <2>1, <2>2
<1>5. k + 1 \in 1 .. c /\ c > 0
  BY <1>1, <1>4
<1>6. ChunkAt(Peer(e), k + 1)
  BY <1>3, <1>5 DEF SealedChunks
<1>7. /\ 2 * (k + 1) = 2 * k + 2 /\ 2 * (k + 1) + 1 = 2 * k + 3
      /\ 2 * (k + 1) - 2 = 2 * k /\ 2 * (k + 1) - 1 = 2 * k + 1
  BY <1>1
<1>8. wire[Peer(e)][1].key = Peer(e) /\ wire[Peer(e)][1].kind = "salt"
  BY <1>3, <1>5 DEF SealedChunks
<1>9. k + 1 \in 1 .. MaxChunks
  BY <1>1, <1>5
<1> QED
  BY <1>6, <1>7, <1>8, <1>9 DEF ChunkAt

(* An end that is in its place can open what is due.                       *)
LEMMA DueOpens ==
  ASSUME CipherInv, NEW e \in Ends, NEW k \in 0 .. MaxChunks, OpenedChunks(e, k),
         InPlace(e, k), Len(Data(e)) >= 1
  PROVE  /\ KeyOf(e) = Peer(e)
         /\ Offset(e) = IF k = 0 THEN 1 ELSE 0
         /\ Len(Data(e)) >= Offset(e) + 1 => LengthOpens(e) /\ 2 * k + 2 <= arrived[Peer(e)]
         /\ Len(Data(e)) >= Offset(e) + 2 =>
               /\ PayloadOpens(e) /\ 2 * k + 3 <= arrived[Peer(e)]
               /\ Data(e)[Offset(e) + 2] = wire[Peer(e)][2 * k + 3]
<1>1. MaxChunks \in Nat /\ Peer(e) \in Ends /\ Peer(e) # NoKey
  BY CipherAssumption, PeerFacts
<1>2. arrived[Peer(e)] \in Nat /\ taken[e] = (IF k = 0 THEN 0 ELSE 2 * k + 1)
  BY <1>1 DEF CipherInv, CipherTypes, OpenedChunks
<1>3. Offset(e) = (IF k = 0 THEN 1 ELSE 0) /\ openKey[e] = (IF k = 0 THEN NoKey ELSE Peer(e))
      /\ openNonce[e] = Nth[2 * k]
  BY <1>1 DEF InPlace, Offset
<1>4. taken[e] + Offset(e) + 1 = 2 * k + 2 /\ taken[e] + Offset(e) + 2 = 2 * k + 3
  BY <1>1, <1>2, <1>3
<1>5. KeyOf(e) = Peer(e)
  <2>1. CASE k = 0
    <3>1. Head(Data(e)) = wire[Peer(e)][1]
      <4>1. Head(Data(e)) = Data(e)[1] /\ 1 \in 1 .. Len(Data(e))
        BY DataFacts
      <4>2. Data(e)[1] = wire[Peer(e)][taken[e] + 1] /\ taken[e] + 1 = 1
        BY <1>2, <2>1, <4>1, DataFacts
      <4> QED
        BY <4>1, <4>2
    <3>2. wire[Peer(e)][1].key = Peer(e)
      <4>1. PICK c \in 0 .. MaxChunks : SealedChunks(Peer(e), c)
        BY <1>1 DEF CipherInv
      <4>2. Len(wire[Peer(e)]) >= 1
        <5>1. arrived[Peer(e)] >= 1
          BY <1>2, <2>1, DataFacts
        <5>2. arrived[Peer(e)] <= Len(wire[Peer(e)]) /\ Len(wire[Peer(e)]) \in Nat
          BY <1>1 DEF OpenedChunks, CipherInv, CipherTypes
        <5> QED
          BY <1>2, <5>1, <5>2
      <4>3. c > 0
        BY <4>1, <4>2 DEF SealedChunks
      <4> QED
        BY <4>1, <4>3 DEF SealedChunks
    <3> QED
      BY <1>3, <2>1, <3>1, <3>2 DEF KeyOf
  <2>2. CASE k # 0
    BY <1>1, <1>3, <2>2 DEF KeyOf
  <2> QED
    BY <2>1, <2>2
<1>6. ASSUME Len(Data(e)) >= Offset(e) + 1
      PROVE  LengthOpens(e) /\ 2 * k + 2 <= arrived[Peer(e)]
             /\ Data(e)[Offset(e) + 1] = wire[Peer(e)][2 * k + 2]
  <2>1. Len(Data(e)) = arrived[Peer(e)] - taken[e]
    BY DataFacts
  <2>2. 2 * k + 2 <= arrived[Peer(e)]
    BY <1>1, <1>2, <1>3, <1>6, <2>1
  <2>3. Offset(e) + 1 \in 1 .. Len(Data(e))
    BY <1>2, <1>3, <1>6, <2>1
  <2>4. Data(e)[Offset(e) + 1] = wire[Peer(e)][2 * k + 2]
    <3>1. Data(e)[Offset(e) + 1] = wire[Peer(e)][taken[e] + (Offset(e) + 1)]
      BY <2>3, DataFacts
    <3>2. taken[e] + (Offset(e) + 1) = 2 * k + 2
      BY <1>1, <1>2, <1>3
    <3> QED
      BY <3>1, <3>2
  <2> QED
    BY <1>3, <1>5, <2>2, <2>4, NextChunk DEF LengthOpens, Fits
<1>7. ASSUME Len(Data(e)) >= Offset(e) + 2
      PROVE  /\ PayloadOpens(e) /\ 2 * k + 3 <= arrived[Peer(e)]
             /\ Data(e)[Offset(e) + 2] = wire[Peer(e)][2 * k + 3]
  <2>1. Len(Data(e)) = arrived[Peer(e)] - taken[e]
    BY DataFacts
  <2>2. 2 * k + 3 <= arrived[Peer(e)] /\ Len(Data(e)) >= Offset(e) + 1
    BY <1>1, <1>2, <1>3, <1>7, <2>1
  <2>3. Offset(e) + 2 \in 1 .. Len(Data(e))
    BY <1>2, <1>3, <1>7, <2>1
  <2>4. Data(e)[Offset(e) + 2] = wire[Peer(e)][2 * k + 3]
    <3>1. Data(e)[Offset(e) + 2] = wire[Peer(e)][taken[e] + (Offset(e) + 2)]
      BY <2>3, DataFacts
    <3>2. taken[e] + (Offset(e) + 2) = 2 * k + 3
      BY <1>1, <1>2, <1>3
    <3> QED
      BY <3>1, <3>2
  <2>5. Data(e)[Offset(e) + 1] = wire[Peer(e)][2 * k + 2] /\ 2 * k + 2 <= arrived[Peer(e)]
    BY <1>6, <2>2
  <2>6. Increment(openNonce[e]) = Nth[2 * k + 1]
    <3>1. k + 1 \in 1 .. MaxChunks
      BY <2>5, NextChunk
    <3>2. 2 * k + 1 \in 1 .. 2 * MaxChunks /\ (2 * k + 1) - 1 = 2 * k
      BY <1>1, <3>1
    <3> QED
      BY <1>3, <3>2, NthFacts
  <2> QED
    BY <1>5, <2>2, <2>4, <2>5, <2>6, NextChunk DEF PayloadOpens, Fits
<1> QED
  BY <1>3, <1>5, <1>6, <1>7

(* An end that has lost its place opens nothing any more.                  *)
LEMMA LostOpensNothing ==
  ASSUME CipherInv, NEW e \in Ends, NEW k \in 0 .. MaxChunks, OpenedChunks(e, k),
         LostPlace(e, k), Len(Data(e)) >= Offset(e) + 1
  PROVE  ~LengthOpens(e)
<1>1. MaxChunks \in Nat /\ Peer(e) \in Ends
  BY CipherAssumption, PeerFacts
<1>2. Offset(e) = 0
  BY DEF LostPlace, Offset
<1>3. 1 \in 1 .. Len(Data(e)) /\ Data(e)[1] = wire[Peer(e)][taken[e] + 1]
  BY <1>2, DataFacts
<1>4. LengthOpens(e) => Data(e)[1].kind # "salt" /\ Data(e)[1].nonce = openNonce[e]
  BY <1>2 DEF LengthOpens, Fits
<1>5. taken[e] = (IF k = 0 THEN 0 ELSE 2 * k + 1)
  BY DEF OpenedChunks
<1>6. CASE k = 0
  <2>1. Data(e)[1] = wire[Peer(e)][1]
    BY <1>3, <1>5, <1>6
  <2>2. PICK c \in 0 .. MaxChunks : SealedChunks(Peer(e), c)
    BY <1>1 DEF CipherInv
  <2>3. Len(wire[Peer(e)]) >= 1
    <3>1. arrived[Peer(e)] >= 1 /\ arrived[Peer(e)] \in Nat
      BY <1>1, <1>2, <1>5, <1>6, DataFacts DEF CipherInv, CipherTypes
    <3>2. arrived[Peer(e)] <= Len(wire[Peer(e)]) /\ Len(wire[Peer(e)]) \in Nat
      BY <1>1 DEF OpenedChunks, CipherInv, CipherTypes
    <3> QED
      BY <3>1, <3>2
  <2>4. c > 0
    BY <2>2, <2>3 DEF SealedChunks
  <2>5. wire[Peer(e)][1].kind = "salt"
    BY <2>2, <2>4 DEF SealedChunks
  <2> QED
    BY <1>4, <2>1, <2>5
<1>7. CASE k # 0
  <2>1. openNonce[e] = Nth[2 * k + 1] /\ 2 * k + 2 <= arrived[Peer(e)]
    BY <1>7 DEF LostPlace
  <2>2. taken[e] + 1 = 2 * k + 2
    BY <1>1, <1>5, <1>7
  <2>3. Data(e)[1].nonce = Nth[2 * k] /\ k + 1 \in 1 .. MaxChunks
    BY <1>3, <2>1, <2>2, NextChunk
  <2>4. 2 * k \in 0 .. 2 * MaxChunks - 1 /\ 2 * k + 1 \in 0 .. 2 * MaxChunks - 1
        /\ 2 * k # 2 * k + 1
    BY <1>1, <2>3
  <2>5. Nth[2 * k] # Nth[2 * k + 1]
    BY <2>4, NoNonceTwice
  <2> QED
    BY <1>4, <2>1, <2>3, <2>5
<1> QED
  BY <1>6, <1>7

(* A receiver that does nothing is not disturbed by what the sender adds.   *)
LEMMA ReceiverKept ==
  ASSUME CipherInv, NEW e \in Ends, NEW k \in 0 .. MaxChunks, OpenedChunks(e, k),
         opened'[e] = opened[e], taken'[e] = taken[e], early'[e] = early[e],
         broken'[e] = broken[e], openKey'[e] = openKey[e], openNonce'[e] = openNonce[e],
         arrived'[Peer(e)] \in Nat, arrived[Peer(e)] <= arrived'[Peer(e)],
         arrived'[Peer(e)] <= Len(wire'[Peer(e)]),
         \A i \in 1 .. Len(wire[Peer(e)]) : wire'[Peer(e)][i] = wire[Peer(e)][i]
  PROVE  OpenedChunks(e, k)'
<1>1. MaxChunks \in Nat /\ Peer(e) \in Ends
  BY CipherAssumption, PeerFacts
<1>2. /\ arrived[Peer(e)] \in Nat /\ taken[e] \in Nat /\ Len(wire[Peer(e)]) \in Nat
      /\ taken[e] <= arrived[Peer(e)] /\ arrived[Peer(e)] <= Len(wire[Peer(e)])
      /\ taken[e] = IF k = 0 THEN 0 ELSE 2 * k + 1
  BY <1>1 DEF CipherInv, CipherTypes, OpenedChunks
<1>3. \A j \in 1 .. k : opened'[e][j] = wire'[Peer(e)][2 * j + 1]
  <2> TAKE j \in 1 .. k
  <2>1. 2 * j + 1 \in 1 .. Len(wire[Peer(e)])
    BY <1>1, <1>2
  <2> QED
    BY <2>1 DEF OpenedChunks
<1>4. taken'[e] <= arrived'[Peer(e)]
  BY <1>2
<1>5. IF early'[e] THEN LostPlace(e, k)' ELSE InPlace(e, k)'
  <2>1. CASE early[e]
    <3>1. LostPlace(e, k)
      BY <2>1 DEF OpenedChunks
    <3>2. 2 * k + 2 <= arrived[Peer(e)] => 2 * k + 2 <= arrived'[Peer(e)]
      BY <1>1, <1>2
    <3> QED
      BY <2>1, <3>1, <3>2 DEF LostPlace
  <2>2. CASE ~early[e]
    BY <2>2 DEF OpenedChunks, InPlace
  <2> QED
    BY <2>1, <2>2
<1> QED
  BY <1>3, <1>4, <1>5 DEF OpenedChunks

(* Sealing a chunk keeps the invariant at both ends.                        *)
LEMMA SealKeeps ==
  ASSUME CipherInv, NEW a \in Ends, NEW size \in Sizes,
         Len(wire[a]) < 2 * MaxChunks, Seal(a, size)
  PROVE  CipherInv'
<1>1. UNCHANGED <<arrived, openVars>>
  BY DEF Seal
<1>2. \A e \in Ends : Len(wire[e]) <= Len(wire'[e]) /\ Len(wire[e]) \in Nat /\ Len(wire'[e]) \in Nat
                        /\ \A i \in 1 .. Len(wire[e]) : wire'[e][i] = wire[e][i]
  <2> TAKE e \in Ends
  <2>1. wire[e] \in Seq(Items) /\ wire'[e] \in Seq(Items)
    BY SealWrites DEF CipherInv, CipherTypes
  <2> QED
    BY <2>1, SealWrites
<1>3. ASSUME NEW e \in Ends PROVE \E c \in 0 .. MaxChunks : SealedChunks(e, c)'
  <2>1. CASE e = a
    BY <2>1, SealWrites
  <2>2. CASE e # a
    <3>1. wire'[e] = wire[e] /\ sealKey'[e] = sealKey[e] /\ sealNonce'[e] = sealNonce[e]
      BY <2>2, SealWrites
    <3>2. PICK c \in 0 .. MaxChunks : SealedChunks(e, c)
      BY DEF CipherInv
    <3>3. SealedChunks(e, c)'
      BY <3>1, <3>2 DEF SealedChunks, ChunkAt
    <3> QED
      BY <3>3
  <2> QED
    BY <2>1, <2>2
<1>4. ASSUME NEW e \in Ends PROVE \E k \in 0 .. MaxChunks : OpenedChunks(e, k)'
  <2>1. PICK k \in 0 .. MaxChunks : OpenedChunks(e, k)
    BY DEF CipherInv
  <2>2. Peer(e) \in Ends
    BY PeerFacts
  <2>3. arrived[Peer(e)] \in Nat /\ arrived[Peer(e)] <= Len(wire[Peer(e)])
    BY <2>1, <2>2 DEF CipherInv, CipherTypes, OpenedChunks
  <2>4. arrived'[Peer(e)] <= Len(wire'[Peer(e)])
    BY <1>1, <1>2, <2>2, <2>3
  <2>5. OpenedChunks(e, k)'
    BY <1>1, <1>2, <2>1, <2>2, <2>3, <2>4, ReceiverKept DEF openVars
  <2> QED
    BY <2>5
<1> QED
  BY <1>3, <1>4, SealWrites DEF CipherInv

(* So does the arrival of an item.                                          *)
LEMMA ArriveKeeps ==
  ASSUME CipherInv, NEW a \in Ends, Arrive(a)
  PROVE  CipherInv'
<1>1. /\ arrived' = [arrived EXCEPT ![a] = @ + 1] /\ arrived[a] < Len(wire[a])
      /\ UNCHANGED <<sealVars, openVars>>
  BY DEF Arrive
<1>2. CipherTypes /\ CipherTypes'
  BY <1>1 DEF CipherInv, CipherTypes, sealVars, openVars
<1>3. ASSUME NEW e \in Ends PROVE \E c \in 0 .. MaxChunks : SealedChunks(e, c)'
  <2>1. PICK c \in 0 .. MaxChunks : SealedChunks(e, c)
    BY DEF CipherInv
  <2>2. SealedChunks(e, c)'
    BY <1>1, <2>1 DEF SealedChunks, ChunkAt, sealVars
  <2> QED
    BY <2>2
<1>4. ASSUME NEW e \in Ends PROVE \E k \in 0 .. MaxChunks : OpenedChunks(e, k)'
  <2>1. PICK k \in 0 .. MaxChunks : OpenedChunks(e, k)
    BY DEF CipherInv
  <2>2. Peer(e) \in Ends
    BY PeerFacts
  <2>3. /\ arrived[Peer(e)] \in Nat /\ arrived[Peer(e)] <= Len(wire[Peer(e)])
        /\ Len(wire[Peer(e)]) \in Nat
    BY <2>1, <2>2 DEF CipherInv, CipherTypes, OpenedChunks
  <2>4. arrived'[Peer(e)] = IF Peer(e) = a THEN arrived[Peer(e)] + 1 ELSE arrived[Peer(e)]
    BY <1>1, <1>2, <2>2 DEF CipherTypes
  <2>5. /\ arrived'[Peer(e)] \in Nat /\ arrived[Peer(e)] <= arrived'[Peer(e)]
        /\ arrived'[Peer(e)] <= Len(wire'[Peer(e)])
    BY <1>1, <2>3, <2>4 DEF sealVars
  <2>6. OpenedChunks(e, k)'
    BY <1>1, <2>1, <2>5, ReceiverKept DEF sealVars, openVars
  <2> QED
    BY <2>6
<1> QED
  BY <1>2, <1>3, <1>4 DEF CipherInv

(* An end that reads changes nothing for the other one.                    *)
LEMMA OnlyReader ==
  ASSUME CipherInv, NEW a \in Ends, CipherTypes',
         UNCHANGED <<sealVars, arrived>>,
         \A e \in Ends \ {a} :
            /\ opened'[e] = opened[e] /\ taken'[e] = taken[e] /\ early'[e] = early[e]
            /\ broken'[e] = broken[e] /\ openKey'[e] = openKey[e]
            /\ openNonce'[e] = openNonce[e],
         \E k \in 0 .. MaxChunks : OpenedChunks(a, k)'
  PROVE  CipherInv'
<1>1. ASSUME NEW e \in Ends PROVE \E c \in 0 .. MaxChunks : SealedChunks(e, c)'
  BY DEF CipherInv, SealedChunks, ChunkAt, sealVars
<1>2. ASSUME NEW e \in Ends PROVE \E k \in 0 .. MaxChunks : OpenedChunks(e, k)'
  <2>1. CASE e = a
    BY <2>1
  <2>2. CASE e # a
    <3>1. PICK k \in 0 .. MaxChunks : OpenedChunks(e, k)
      BY DEF CipherInv
    <3>2. Peer(e) \in Ends
      BY PeerFacts
    <3>3. arrived[Peer(e)] \in Nat /\ arrived[Peer(e)] <= Len(wire[Peer(e)])
      BY <3>1, <3>2 DEF CipherInv, CipherTypes, OpenedChunks
    <3>4. OpenedChunks(e, k)'
      BY <2>2, <3>1, <3>3, ReceiverKept DEF sealVars
    <3> QED
      BY <3>4
  <2> QED
    BY <2>1, <2>2
<1> QED
  BY <1>1, <1>2 DEF CipherInv

(* And open, whether it is given nothing, a part or the whole of a chunk.   *)
LEMMA OpenKeeps ==
  ASSUME CipherInv, NEW a \in Ends,
         OpenSalt(a) \/ OpenLength(a) \/ OpenChunk(a) \/ OpenFails(a)
  PROVE  CipherInv'
<1>0. CipherTypes /\ MaxChunks \in Nat /\ Peer(a) \in Ends /\ Peer(a) # NoKey
  BY CipherAssumption, PeerFacts DEF CipherInv
<1>1. PICK k \in 0 .. MaxChunks : OpenedChunks(a, k)
  BY DEF CipherInv
<1>2. /\ k = Len(opened[a]) /\ opened[a] \in Seq(Items)
      /\ taken[a] = (IF k = 0 THEN 0 ELSE 2 * k + 1)
      /\ arrived[Peer(a)] \in Nat /\ taken[a] <= arrived[Peer(a)]
      /\ arrived[Peer(a)] <= Len(wire[Peer(a)])
      /\ \A j \in 1 .. k : opened[a][j] = wire[Peer(a)][2 * j + 1]
      /\ IF early[a] THEN LostPlace(a, k) ELSE InPlace(a, k)
  BY <1>0, <1>1 DEF OpenedChunks, CipherTypes
<1>3. Offset(a) \in {0, 1} /\ Len(Data(a)) \in Nat
  BY DataFacts DEF Offset
<1>4. UNCHANGED <<sealVars, arrived>>
  BY DEF OpenSalt, OpenLength, OpenChunk, OpenFails
<1>5. CASE OpenSalt(a)
  <2>1. /\ Len(Data(a)) = 1 /\ Offset(a) = 1
        /\ openKey' = [openKey EXCEPT ![a] = KeyOf(a)]
        /\ early' = [early EXCEPT ![a] = TRUE]
        /\ UNCHANGED <<openNonce, opened, taken, broken>>
    BY <1>5 DEF OpenSalt, TakeKey
  <2>2. openKey[a] = NoKey
    BY <2>1 DEF Offset
  <2>3. ~early[a] /\ InPlace(a, k) /\ k = 0
    BY <1>0, <1>2, <2>2 DEF LostPlace, InPlace
  <2>4. KeyOf(a) = Peer(a)
    BY <1>1, <2>1, <2>3, DueOpens
  <2>5. CipherTypes'
    BY <1>0, <1>4, <2>1, <2>4 DEF CipherTypes, sealVars
  <2>6. openKey'[a] = Peer(a) /\ early'[a] = TRUE
    BY <1>0, <2>1, <2>4 DEF CipherTypes
  <2>7. OpenedChunks(a, k)'
    BY <1>0, <1>2, <1>4, <2>1, <2>3, <2>6 DEF OpenedChunks, LostPlace, sealVars
  <2>8. \A e \in Ends \ {a} : openKey'[e] = openKey[e] /\ early'[e] = early[e]
    BY <1>0, <2>1 DEF CipherTypes
  <2> QED
    BY <1>4, <2>1, <2>5, <2>7, <2>8, OnlyReader
<1>6. CASE OpenLength(a)
  <2>1. /\ Len(Data(a)) = Offset(a) + 1 /\ LengthOpens(a)
        /\ openKey' = [openKey EXCEPT ![a] = KeyOf(a)]
        /\ openNonce' = [openNonce EXCEPT ![a] = Increment(openNonce[a])]
        /\ early' = [early EXCEPT ![a] = TRUE]
        /\ UNCHANGED <<opened, taken, broken>>
    BY <1>6 DEF OpenLength, TakeKey, Advance
  <2>2. InPlace(a, k)
    BY <1>1, <1>2, <1>3, <2>1, LostOpensNothing
  <2>3. KeyOf(a) = Peer(a) /\ 2 * k + 2 <= arrived[Peer(a)]
    BY <1>1, <1>3, <2>1, <2>2, DueOpens
  <2>4. openNonce[a] = Nth[2 * k] /\ openNonce[a] \in Nonces
    BY <1>0, <2>2 DEF InPlace, CipherTypes
  <2>5. Increment(openNonce[a]) = Nth[2 * k + 1] /\ Increment(openNonce[a]) \in Nonces
    <3>1. k + 1 \in 1 .. MaxChunks
      BY <1>1, <2>3, NextChunk
    <3>2. 2 * k + 1 \in 1 .. 2 * MaxChunks /\ (2 * k + 1) - 1 = 2 * k
      BY <1>0, <3>1
    <3> QED
      BY <2>4, <3>2, NthFacts, IncrementFacts
  <2>6. CipherTypes'
    BY <1>0, <1>4, <2>1, <2>3, <2>5 DEF CipherTypes, sealVars
  <2>7. openKey'[a] = Peer(a) /\ early'[a] = TRUE /\ openNonce'[a] = Nth[2 * k + 1]
    BY <1>0, <2>1, <2>3, <2>5 DEF CipherTypes
  <2>8. OpenedChunks(a, k)'
    BY <1>0, <1>2, <1>4, <2>1, <2>3, <2>7 DEF OpenedChunks, LostPlace, sealVars
  <2>9. \A e \in Ends \ {a} : /\ openKey'[e] = openKey[e] /\ early'[e] = early[e]
                              /\ openNonce'[e] = openNonce[e]
    BY <1>0, <2>1 DEF CipherTypes
  <2> QED
    BY <1>4, <2>1, <2>6, <2>8, <2>9, OnlyReader
<1>7. CASE OpenChunk(a)
  <2> DEFINE item == Data(a)[Offset(a) + 2]
  <2>1. /\ Len(Data(a)) >= Offset(a) + 2 /\ LengthOpens(a)
        /\ openKey' = [openKey EXCEPT ![a] = KeyOf(a)]
        /\ openNonce' = [openNonce EXCEPT ![a] = Increment(Increment(openNonce[a]))]
        /\ opened' = [opened EXCEPT ![a] = Append(opened[a], item)]
        /\ taken' = [taken EXCEPT ![a] = taken[a] + Offset(a) + 2]
        /\ UNCHANGED <<broken, early>>
    BY <1>7 DEF OpenChunk, MayOpen, TakeKey, Advance
  <2>2. InPlace(a, k) /\ ~early[a]
    BY <1>1, <1>2, <1>3, <2>1, LostOpensNothing
  <2>3. /\ KeyOf(a) = Peer(a) /\ 2 * k + 3 <= arrived[Peer(a)] /\ 2 * k + 2 <= arrived[Peer(a)]
        /\ item = wire[Peer(a)][2 * k + 3] /\ Offset(a) = IF k = 0 THEN 1 ELSE 0
    BY <1>1, <1>3, <2>1, <2>2, DueOpens
  <2>4. item \in Items
    <3>1. Offset(a) + 2 \in 1 .. Len(Data(a)) /\ Data(a) \in Seq(Items)
      BY <1>3, <2>1, DataFacts
    <3> QED
      BY <3>1
  <2> HIDE DEF item
  <2>5. openNonce[a] = Nth[2 * k] /\ openNonce[a] \in Nonces
    BY <1>0, <2>2 DEF InPlace, CipherTypes
  <2>6. k + 1 \in 1 .. MaxChunks
    BY <1>1, <2>3, NextChunk
  <2>7. /\ Increment(Increment(openNonce[a])) = Nth[2 * k + 2]
        /\ Increment(Increment(openNonce[a])) \in Nonces
    <3>1. 2 * k + 1 \in 1 .. 2 * MaxChunks /\ (2 * k + 1) - 1 = 2 * k
          /\ 2 * k + 2 \in 1 .. 2 * MaxChunks /\ (2 * k + 2) - 1 = 2 * k + 1
      BY <1>0, <2>6
    <3> QED
      BY <2>5, <3>1, NthFacts, IncrementFacts
  <2>8. /\ taken[a] + Offset(a) + 2 = 2 * (k + 1) + 1 /\ 2 * (k + 1) = 2 * k + 2
        /\ 2 * (k + 1) + 1 = 2 * k + 3 /\ k + 1 # 0
    BY <1>0, <1>2, <2>3
  <2>9. /\ Append(opened[a], item) \in Seq(Items) /\ Len(Append(opened[a], item)) = k + 1
        /\ \A j \in 1 .. k : Append(opened[a], item)[j] = opened[a][j]
        /\ Append(opened[a], item)[k + 1] = item
    BY <1>2, <2>4
  <2>10. /\ openKey'[a] = Peer(a) /\ openNonce'[a] = Nth[2 * (k + 1)]
         /\ opened'[a] = Append(opened[a], item) /\ taken'[a] = 2 * (k + 1) + 1
    BY <1>0, <2>1, <2>3, <2>7, <2>8 DEF CipherTypes
  <2>11. CipherTypes'
    <3>1. 2 * (k + 1) + 1 \in Nat
      BY <1>0
    <3> QED
      BY <1>0, <1>4, <2>1, <2>3, <2>7, <2>8, <2>9, <3>1 DEF CipherTypes, sealVars
  <2>12. ASSUME NEW j \in 1 .. k + 1 PROVE opened'[a][j] = wire'[Peer(a)][2 * j + 1]
    <3>1. j \in 1 .. k \/ j = k + 1
      BY <1>0
    <3>2. UNCHANGED wire
      BY <1>4 DEF sealVars
    <3> QED
      BY <1>2, <2>3, <2>8, <2>9, <2>10, <3>1, <3>2
  <2>13. InPlace(a, k + 1)' /\ ~early'[a]
    BY <2>1, <2>2, <2>8, <2>10 DEF InPlace
  <2>14. OpenedChunks(a, k + 1)'
    <3>1. UNCHANGED <<wire, arrived>>
      BY <1>4 DEF sealVars
    <3> QED
      BY <1>2, <2>3, <2>8, <2>9, <2>10, <2>12, <2>13, <3>1 DEF OpenedChunks
  <2>15. \A e \in Ends \ {a} :
            /\ openKey'[e] = openKey[e] /\ openNonce'[e] = openNonce[e]
            /\ opened'[e] = opened[e] /\ taken'[e] = taken[e]
    BY <1>0, <2>1 DEF CipherTypes
  <2> QED
    BY <1>4, <2>1, <2>6, <2>11, <2>14, <2>15, OnlyReader
<1>8. CASE OpenFails(a)
  <2>1. /\ Len(Data(a)) >= Offset(a) + 1
        /\ ~LengthOpens(a) \/ (Len(Data(a)) >= Offset(a) + 2 /\ ~PayloadOpens(a))
        /\ LengthOpens(a) \/ UNCHANGED openNonce
        /\ openKey' = [openKey EXCEPT ![a] = KeyOf(a)]
        /\ broken' = [broken EXCEPT ![a] = TRUE]
        /\ UNCHANGED <<opened, taken, early>>
    BY <1>8 DEF OpenFails, MayOpen, TakeKey, Breaks
  <2>2. ~InPlace(a, k)
    <3> SUFFICES ASSUME InPlace(a, k) PROVE FALSE
      OBVIOUS
    <3>1. Len(Data(a)) >= 1
      BY <1>3, <2>1
    <3> QED
      BY <1>1, <2>1, <3>1, DueOpens
  <2>3. LostPlace(a, k) /\ early[a]
    BY <1>2, <2>2
  <2>4. UNCHANGED openNonce
    BY <1>1, <2>1, <2>3, LostOpensNothing
  <2>5. KeyOf(a) = openKey[a] /\ openKey[a] \in Ends \cup {NoKey}
    BY <1>0, <2>3 DEF KeyOf, LostPlace, CipherTypes
  <2>6. CipherTypes'
    BY <1>0, <1>4, <2>1, <2>4, <2>5 DEF CipherTypes, sealVars
  <2>7. openKey'[a] = openKey[a]
    BY <1>0, <2>1, <2>5 DEF CipherTypes
  <2>8. OpenedChunks(a, k)'
    BY <1>2, <1>4, <2>1, <2>3, <2>4, <2>7 DEF OpenedChunks, LostPlace, sealVars
  <2>9. \A e \in Ends \ {a} : openKey'[e] = openKey[e] /\ broken'[e] = broken[e]
    BY <1>0, <2>1 DEF CipherTypes
  <2> QED
    BY <1>4, <2>1, <2>4, <2>6, <2>8, <2>9, OnlyReader
<1> QED
  BY <1>5, <1>6, <1>7, <1>8

(* CipherInv is inductive.                                                  *)
LEMMA CipherInvHolds == CipherSpec => []CipherInv
<1>1. CipherInit => CipherInv
  <2> SUFFICES ASSUME CipherInit PROVE CipherInv
    OBVIOUS
  <2>1. MaxChunks \in Nat /\ Nth[0] = Zero /\ Zero \in Nonces /\ 0 \in 0 .. MaxChunks
    BY CipherAssumption, NthFacts, IncrementFacts
  <2>2. CipherTypes
    BY <2>1 DEF CipherInit, CipherTypes
  <2>3. ASSUME NEW e \in Ends PROVE SealedChunks(e, 0)
    <3>1. 2 * 0 = 0 /\ 1 .. 0 = {}
      OBVIOUS
    <3> QED
      BY <2>1, <3>1 DEF CipherInit, SealedChunks
  <2>4. ASSUME NEW e \in Ends PROVE OpenedChunks(e, 0)
    <3>1. 2 * 0 = 0 /\ 1 .. 0 = {} /\ Peer(e) \in Ends
      BY PeerFacts
    <3> QED
      BY <2>1, <3>1 DEF CipherInit, OpenedChunks, InPlace
  <2> QED
    BY <2>1, <2>2, <2>3, <2>4 DEF CipherInv
<1>2. CipherInv /\ [CipherNext]_cipherVars => CipherInv'
  <2> SUFFICES ASSUME CipherInv, [CipherNext]_cipherVars PROVE CipherInv'
    OBVIOUS
  <2>1. CASE UNCHANGED cipherVars
    BY <2>1 DEF CipherInv, CipherTypes, SealedChunks, ChunkAt, OpenedChunks, LostPlace,
                InPlace, cipherVars, sealVars, openVars
  <2>2. CASE CipherNext
    BY <2>2, SealKeeps, ArriveKeeps, OpenKeeps DEF CipherNext
  <2> QED
    BY <2>1, <2>2
<1> QED
  BY <1>1, <1>2, PTL DEF CipherSpec

(* The variables of both ends keep their types: a nonce never leaves its    *)
(* digits, and an end never takes more than has arrived.                    *)
THEOREM CipherTypesHold == CipherSpec => []CipherTypeOK
<1>1. CipherInv => CipherTypeOK
  <2> SUFFICES ASSUME CipherInv PROVE CipherTypeOK
    OBVIOUS
  <2>1. ASSUME NEW e \in Ends
        PROVE  /\ \A i \in DOMAIN wire[e] : wire[e][i] \in Items
               /\ taken[e] <= arrived[Peer(e)] /\ arrived[e] <= Len(wire[e])
    <3>1. wire[e] \in Seq(Items) /\ Peer(e) \in Ends /\ Peer(Peer(e)) = e
      BY PeerFacts DEF CipherInv, CipherTypes
    <3>2. taken[e] <= arrived[Peer(e)] /\ arrived[Peer(Peer(e))] <= Len(wire[Peer(Peer(e))])
      BY <3>1 DEF CipherInv, OpenedChunks
    <3> QED
      BY <3>1, <3>2
  <2> QED
    BY <2>1 DEF CipherInv, CipherTypes, CipherTypeOK
<1> QED
  BY <1>1, CipherInvHolds, PTL

(* No two items are sealed with one key and one nonce: increment_nonce goes *)
(* through Place[NonceBytes] different nonces before it comes back to one.  *)
THEOREM NoncesAreFresh == CipherSpec => []NonceFresh
<1>1. CipherInv => NonceFresh
  <2> SUFFICES ASSUME CipherInv PROVE NonceFresh
    OBVIOUS
  <2>0. MaxChunks \in Nat
    BY CipherAssumption
  <2>1. ASSUME NEW e \in Ends, NEW i \in DOMAIN wire[e], wire[e][i].kind # "salt"
        PROVE  /\ wire[e][i].key = e /\ i - 2 \in 0 .. 2 * MaxChunks - 1
               /\ wire[e][i].nonce = Nth[i - 2] /\ i \in Int
    <3>1. wire[e] \in Seq(Items)
      BY DEF CipherInv, CipherTypes
    <3>2. PICK c \in 0 .. MaxChunks : SealedChunks(e, c)
      BY DEF CipherInv
    <3>3. i \in 1 .. Len(wire[e]) /\ Len(wire[e]) = IF c = 0 THEN 0 ELSE 2 * c + 1
      BY <3>1, <3>2 DEF SealedChunks
    <3>4. i # 1 /\ c > 0 /\ i \in 2 .. 2 * c + 1
      BY <2>1, <3>2, <3>3 DEF SealedChunks
    <3>5. PICK j \in 1 .. c : i = 2 * j \/ i = 2 * j + 1
      <4>1. i \div 2 \in 1 .. c /\ (i = 2 * (i \div 2) \/ i = 2 * (i \div 2) + 1)
        BY <3>4
      <4> QED
        BY <4>1
    <3>6. ChunkAt(e, j)
      BY <3>2 DEF SealedChunks
    <3>7. (2 * j + 1) - 2 = 2 * j - 1 /\ i - 2 \in 0 .. 2 * MaxChunks - 1
      BY <2>0, <3>4
    <3> QED
      BY <3>3, <3>5, <3>6, <3>7, SMTT(30) DEF ChunkAt
  <2>2. ASSUME NEW e \in Ends, NEW f \in Ends,
               NEW i \in DOMAIN wire[e], NEW j \in DOMAIN wire[f], <<e, i>> # <<f, j>>,
               wire[e][i].kind # "salt", wire[f][j].kind # "salt",
               wire[e][i].key = wire[f][j].key, wire[e][i].nonce = wire[f][j].nonce
        PROVE  FALSE
    <3>1. e = f
      BY <2>1, <2>2
    <3>2. Nth[i - 2] = Nth[j - 2]
      BY <2>1, <2>2
    <3>3. i - 2 = j - 2
      BY <2>1, <2>2, <3>2, NoNonceTwice
    <3>4. i = j
      BY <2>1, <2>2, <3>3
    <3> QED
      BY <2>2, <3>1, <3>4
  <2> QED
    BY <2>2 DEF NonceFresh
<1> QED
  BY <1>1, CipherInvHolds, PTL

(* What open returns are the payloads that the other end's seal was given,  *)
(* in order, and an open that fails follows one that was called before the  *)
(* whole of a chunk had arrived.                                            *)
THEOREM EarlyOpenBreaks == CipherSpec => []OnlyEarlyOpenBreaks
<1>1. CipherInv => OnlyEarlyOpenBreaks
  <2> SUFFICES ASSUME CipherInv, NEW e \in Ends
               PROVE  /\ opened[e] = SubSeq(Payloads(Peer(e)), 1, Len(opened[e]))
                      /\ broken[e] => early[e]
    BY DEF OnlyEarlyOpenBreaks
  <2>0. MaxChunks \in Nat /\ Peer(e) \in Ends
    BY CipherAssumption, PeerFacts
  <2>1. PICK k \in 0 .. MaxChunks : OpenedChunks(e, k)
    BY DEF CipherInv
  <2>2. broken[e] => early[e]
    BY <2>1 DEF OpenedChunks, InPlace
  <2> DEFINE w == wire[Peer(e)]
             P == [i \in 1 .. Len(w) \div 2 |-> w[2 * i + 1]]
             o == opened[e]
  <2>3. w \in Seq(Items) /\ Len(w) \in Nat /\ o \in Seq(Items) /\ k = Len(o) /\ k \in Nat
    BY <2>0, <2>1 DEF CipherInv, CipherTypes, OpenedChunks
  <2>4. PICK c \in 0 .. MaxChunks : Len(w) = IF c = 0 THEN 0 ELSE 2 * c + 1
    BY <2>0 DEF CipherInv, SealedChunks
  <2>5. k <= Len(w) \div 2 /\ Len(w) \div 2 = c
    <3>1. /\ taken[e] = (IF k = 0 THEN 0 ELSE 2 * k + 1) /\ arrived[Peer(e)] \in Nat
          /\ taken[e] <= arrived[Peer(e)] /\ arrived[Peer(e)] <= Len(w)
      BY <2>0, <2>1 DEF OpenedChunks, CipherInv, CipherTypes
    <3>2. Len(w) \div 2 = c
      BY <2>0, <2>4
    <3>3. k <= c
      BY <2>0, <2>3, <2>4, <3>1
    <3> QED
      BY <3>2, <3>3
  <2>6. \A j \in 1 .. k : o[j] = w[2 * j + 1]
    BY <2>1 DEF OpenedChunks
  <2>7. P \in Seq(Items) /\ Len(P) = c /\ \A i \in 1 .. c : P[i] = w[2 * i + 1]
    <3>1. \A i \in 1 .. c : w[2 * i + 1] \in Items
      <4> TAKE i \in 1 .. c
      <4>1. 2 * i + 1 \in 1 .. Len(w)
        BY <2>0, <2>4
      <4> QED
        BY <2>3, <4>1
    <3>2. P = [i \in 1 .. c |-> w[2 * i + 1]]
      BY <2>5
    <3> HIDE DEF P
    <3>3. P \in [1 .. c -> Items] /\ c \in Nat /\ \A i \in 1 .. c : P[i] = w[2 * i + 1]
      BY <2>0, <3>1, <3>2
    <3>4. P \in Seq(Items)
      BY <3>3
    <3>5. DOMAIN P = 1 .. c
      BY <3>3
    <3>6. Len(P) = c
      BY <3>3, <3>4, <3>5
    <3> QED
      BY <3>3, <3>4, <3>6
  <2>8. Payloads(Peer(e)) = P
    BY DEF Payloads
  <2> HIDE DEF P, o, w
  <2>9. /\ SubSeq(P, 1, k) \in Seq(Items) /\ Len(SubSeq(P, 1, k)) = k
        /\ \A i \in 1 .. k : SubSeq(P, 1, k)[i] = P[i]
    BY <2>3, <2>5, <2>7
  <2>10. o = SubSeq(P, 1, k)
    <3>1. \A i \in 1 .. k : o[i] = SubSeq(P, 1, k)[i]
      BY <2>5, <2>6, <2>7, <2>9
    <3> QED
      BY <2>3, <2>9, <3>1, SameSequence
  <2> QED
    BY <2>2, <2>3, <2>8, <2>10 DEF o
<1> QED
  BY <1>1, CipherInvHolds, PTL
=============================================================================
