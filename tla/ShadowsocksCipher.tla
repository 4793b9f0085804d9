-------------------------- MODULE ShadowsocksCipher --------------------------
(***************************************************************************)
(* ShadowsocksCipher of src/src/proxy/connector.rs: two of them, one at     *)
(* each end of a connection, that seal chunks for each other and open what  *)
(* has arrived.                                                            *)
(*                                                                         *)
(* A salt, a sealed length and a sealed payload are one item each of the    *)
(* stream; a chunk is a length and a payload.  Cryptography is ideal: salts *)
(* are never drawn twice, a subkey stands for its salt, and an item opens   *)
(* only under the key and nonce it was sealed with, uncut.                  *)
(***************************************************************************)
EXTENDS Integers, Sequences

CONSTANTS
    Base,        \* values of a byte; 256 in the program
    NonceBytes,  \* 12 in the program
    MaxPayload,  \* the largest payload of a chunk; 16#FFFF in the program
    Sizes,       \* the payloads that callers seal
    MaxChunks    \* bound on the chunks sealed by one end

(* What one of byte i + 1 of a nonce stands for: Place[NonceBytes] nonces.  *)
Place[i \in 0 .. NonceBytes] == IF i = 0 THEN 1 ELSE Base * Place[i - 1]

ASSUME CipherAssumption ==
    /\ Base \in Nat \ {0, 1} /\ NonceBytes \in Nat \ {0}
    /\ MaxPayload \in Nat /\ Sizes \subseteq Nat
    /\ MaxChunks \in Nat /\ 2 * MaxChunks <= Place[NonceBytes]

Ends    == {"local", "remote"}
Peer(e) == CHOOSE p \in Ends : p # e
NoKey   == "none"

VARIABLES
    sealKey,    \* sealKey[e]: encrypt_cipher, by its salt, or NoKey
    sealNonce,  \* sealNonce[e]: encrypt_nonce
    openKey,    \* openKey[e]: decrypt_cipher
    openNonce,  \* openNonce[e]: decrypt_nonce
    wire,       \* wire[e]: the items e has sealed
    arrived,    \* arrived[e]: how many of them have reached the other end
    taken,      \* taken[e]: how many items e's calls of open have consumed
    opened,     \* opened[e]: the payloads e has opened
    broken,     \* broken[e]: an item did not open
    early       \* history: open was called on the first part of a chunk

sealVars   == <<sealKey, sealNonce, wire>>
openVars   == <<openKey, openNonce, taken, opened, broken, early>>
cipherVars == <<sealVars, arrived, openVars>>

Nonces == [1 .. NonceBytes -> 0 .. Base - 1]
Zero   == [i \in 1 .. NonceBytes |-> 0]
Items  == [kind : {"salt", "length", "payload"}, key : Ends, nonce : Nonces, value : Nat]

CipherTypeOK ==
    /\ sealKey \in [Ends -> Ends \cup {NoKey}] /\ openKey \in [Ends -> Ends \cup {NoKey}]
    /\ sealNonce \in [Ends -> Nonces] /\ openNonce \in [Ends -> Nonces]
    /\ \A e \in Ends :
          /\ \A i \in DOMAIN wire[e] : wire[e][i] \in Items
          /\ taken[e] <= arrived[Peer(e)] /\ arrived[e] <= Len(wire[e])
    /\ broken \in [Ends -> BOOLEAN] /\ early \in [Ends -> BOOLEAN]

CipherInit ==
    /\ sealKey   = [e \in Ends |-> NoKey] /\ openKey   = [e \in Ends |-> NoKey]
    /\ sealNonce = [e \in Ends |-> Zero]  /\ openNonce = [e \in Ends |-> Zero]
    /\ wire   = [e \in Ends |-> <<>>] /\ arrived = [e \in Ends |-> 0]
    /\ opened = [e \in Ends |-> <<>>] /\ taken   = [e \in Ends |-> 0]
    /\ broken = [e \in Ends |-> FALSE] /\ early  = [e \in Ends |-> FALSE]

-----------------------------------------------------------------------------
(* Mutant of Increment: the overflow of a byte is not carried. *)
Increment_NoCarry(nonce) == [nonce EXCEPT ![1] = (nonce[1] + 1) % Base]

(* increment_nonce: a little-endian counter; a byte is added to if every    *)
(* byte before it overflows.                                                *)
Increment(nonce) ==
    [i \in DOMAIN nonce |-> IF \A j \in 1 .. i - 1 : nonce[j] = Base - 1
                            THEN (nonce[i] + 1) % Base
                            ELSE nonce[i]]

Salt(key) == [kind |-> "salt", key |-> key, nonce |-> Zero, value |-> 0]

Sealed(kind, key, nonce, value) ==
    [kind |-> kind, key |-> key, nonce |-> nonce, value |-> value]

(* Mutant of PayloadFits: one byte more. *)
PayloadFits_OneMore(size) == size <= MaxPayload + 1

PayloadFits(size) == size <= MaxPayload

(* seal: a larger payload is refused before anything is changed; the length *)
(* is written as a u16.                                                     *)
Seal(e, size) ==
    /\ PayloadFits(size)
    /\ LET first == IF sealKey[e] = NoKey THEN <<Salt(e)>> ELSE <<>>
           n1    == sealNonce[e]
           n2    == Increment(n1)
       IN  /\ wire' = [wire EXCEPT ![e] = @ \o first \o
                 <<Sealed("length", e, n1, size % (MaxPayload + 1)),
                   Sealed("payload", e, n2, size)>>]
           /\ sealNonce' = [sealNonce EXCEPT ![e] = Increment(n2)]
    /\ sealKey' = [sealKey EXCEPT ![e] = e]
    /\ UNCHANGED <<arrived, openVars>>

(* TCP delivers in order, in pieces of any size.                           *)
Arrive(e) ==
    /\ arrived[e] < Len(wire[e])
    /\ arrived' = [arrived EXCEPT ![e] = @ + 1]
    /\ UNCHANGED <<sealVars, openVars>>

-----------------------------------------------------------------------------
(* open(data), where data is what has arrived and is not consumed yet.     *)

Data(e)   == SubSeq(wire[Peer(e)], taken[e] + 1, arrived[Peer(e)])
Offset(e) == IF openKey[e] = NoKey THEN 1 ELSE 0

(* The first item is the salt while there is no key.                       *)
KeyOf(e) == IF openKey[e] = NoKey THEN Head(Data(e)).key ELSE openKey[e]
TakeKey(e) == openKey' = [openKey EXCEPT ![e] = KeyOf(e)]

Fits(item, key, nonce) == item.kind # "salt" /\ item.key = key /\ item.nonce = nonce

LengthOpens(e) == Fits(Data(e)[Offset(e) + 1], KeyOf(e), openNonce[e])

(* The payload is cut at the length that was read.                         *)
PayloadOpens(e) ==
    /\ Fits(Data(e)[Offset(e) + 2], KeyOf(e), Increment(openNonce[e]))
    /\ Data(e)[Offset(e) + 2].value = Data(e)[Offset(e) + 1].value

MayOpen(e, n) == ~broken[e] /\ Len(Data(e)) >= n

Breaks(e) == broken' = [broken EXCEPT ![e] = TRUE] /\ UNCHANGED <<opened, taken>>
Advance(e, nonce) == openNonce' = [openNonce EXCEPT ![e] = nonce]

(* Err for want of data, after the key, or the key and the length.         *)
OpenSalt(e) ==
    /\ MayOpen(e, 1) /\ Len(Data(e)) = 1 /\ Offset(e) = 1
    /\ TakeKey(e)
    /\ early' = [early EXCEPT ![e] = TRUE]
    /\ UNCHANGED <<openNonce, opened, taken, broken, sealVars, arrived>>

OpenLength(e) ==
    /\ MayOpen(e, 1) /\ Len(Data(e)) = Offset(e) + 1
    /\ LengthOpens(e)
    /\ TakeKey(e)
    /\ Advance(e, Increment(openNonce[e]))
    /\ early' = [early EXCEPT ![e] = TRUE]
    /\ UNCHANGED <<opened, taken, broken, sealVars, arrived>>

(* Mutant of OpenChunk: the nonce is moved on for the length only. *)
OpenChunk_OnePerChunk(e) ==
    /\ MayOpen(e, Offset(e) + 2)
    /\ LengthOpens(e) /\ PayloadOpens(e)
    /\ TakeKey(e)
    /\ Advance(e, Increment(openNonce[e]))
    /\ opened' = [opened EXCEPT ![e] = Append(@, Data(e)[Offset(e) + 2])]
    /\ taken'  = [taken EXCEPT ![e] = @ + Offset(e) + 2]
    /\ UNCHANGED <<broken, early, sealVars, arrived>>

OpenChunk(e) ==
    /\ MayOpen(e, Offset(e) + 2)
    /\ LengthOpens(e) /\ PayloadOpens(e)
    /\ TakeKey(e)
    /\ Advance(e, Increment(Increment(openNonce[e])))
    /\ opened' = [opened EXCEPT ![e] = Append(@, Data(e)[Offset(e) + 2])]
    /\ taken'  = [taken EXCEPT ![e] = @ + Offset(e) + 2]
    /\ UNCHANGED <<broken, early, sealVars, arrived>>

(* A decryption fails; a length that opened keeps its nonce.               *)
OpenFails(e) ==
    /\ MayOpen(e, Offset(e) + 1)
    /\ \/ ~LengthOpens(e) /\ UNCHANGED openNonce
       \/ /\ LengthOpens(e) /\ Len(Data(e)) >= Offset(e) + 2 /\ ~PayloadOpens(e)
          /\ Advance(e, Increment(openNonce[e]))
    /\ TakeKey(e)
    /\ Breaks(e)
    /\ UNCHANGED <<early, sealVars, arrived>>

CipherNext ==
    \E e \in Ends :
        \/ Len(wire[e]) < 2 * MaxChunks /\ \E size \in Sizes : Seal(e, size)
        \/ Arrive(e)
        \/ OpenSalt(e) \/ OpenLength(e) \/ OpenChunk(e) \/ OpenFails(e)

CipherSpec == CipherInit /\ [][CipherNext]_cipherVars

-----------------------------------------------------------------------------
(* Properties *)

(* No two items, of either direction, are sealed under one key and nonce,   *)
(* however often a byte of the counter overflows.                           *)
NonceFresh ==
    \A e, f \in Ends : \A i \in DOMAIN wire[e], j \in DOMAIN wire[f] :
        LET a == wire[e][i]
            b == wire[f][j]
        IN  (<<e, i>> # <<f, j>> /\ a.kind # "salt" /\ b.kind # "salt") =>
               <<a.key, a.nonce>> # <<b.key, b.nonce>>

(* After the salt, the second item of every chunk.                         *)
Payloads(e) == [i \in 1 .. Len(wire[e]) \div 2 |-> wire[e][2 * i + 1]]

(* What opens is what was sealed, in its order, at every size up to the     *)
(* largest; and no item fails to open but for one cause: open was called    *)
(* with the first part of a chunk, kept the key or the nonce of that, and   *)
(* is called with the whole of it later.                                    *)
OnlyEarlyOpenBreaks ==
    \A e \in Ends :
        /\ opened[e] = SubSeq(Payloads(Peer(e)), 1, Len(opened[e]))
        /\ broken[e] => early[e]
=============================================================================
