------------------------------ MODULE FakeNames ------------------------------
(***************************************************************************)
(* What the FakeIP engine promises during one VPN session, with no tables, *)
(* handlers or allocator: every address has at most one owner, for good,   *)
(* and a client is only ever told an address its name owns.  A name may    *)
(* own several addresses.  DnsProxy implements this specification.         *)
(***************************************************************************)
CONSTANTS Domains, NoDomain, Pool

VARIABLES
    owner,     \* owner[i]: the name address i stands for
    told       \* the <<name, address>> answers clients have been given

namesVars == <<owner, told>>

NamesInit ==
    /\ owner = [i \in Pool |-> NoDomain]
    /\ told  = {}

Assign(d, i) ==
    /\ owner[i] = NoDomain
    /\ owner' = [owner EXCEPT ![i] = d]
    /\ UNCHANGED told

Tell(d, i) ==
    /\ owner[i] = d
    /\ told' = told \cup {<<d, i>>}
    /\ UNCHANGED owner

NamesNext == \E d \in Domains, i \in Pool : Assign(d, i) \/ Tell(d, i)

NamesSpec == NamesInit /\ [][NamesNext]_namesVars
=============================================================================
