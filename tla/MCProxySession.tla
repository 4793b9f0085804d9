--------------------------- MODULE MCProxySession ---------------------------
(* A small instance of ProxySession for TLC.                               *)
EXTENDS ProxySession

MCTargets ==
    {[type |-> "ipv4", address |-> "a"], [type |-> "ipv6", address |-> "a"],
     [type |-> "domain", address |-> "a"], [type |-> "domain", address |-> "long"]}
MCTooLong == {t \in MCTargets : t.address = "long"}
=============================================================================
