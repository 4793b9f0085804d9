----------------------------- MODULE MCDnsProxy -----------------------------
(* Small instances of DnsProxy for TLC.  Names and handler tasks are       *)
(* interchangeable in the runs that check no liveness property.            *)
EXTENDS DnsProxy, TLC

MCManagers == 1 .. MaxSessions
Symmetric  == Permutations(Callers) \cup Permutations(Domains)
=============================================================================
