--------------------------- MODULE MCVpnLifecycle ---------------------------
(* Small instances of VpnLifecycle for TLC.  Calls are interchangeable, and *)
(* so are servers.                                                          *)
EXTENDS VpnLifecycle, TLC

Symmetric == Permutations(Toggles) \cup Permutations(Servers)
=============================================================================
