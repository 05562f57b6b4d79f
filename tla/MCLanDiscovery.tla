---------------------------- MODULE MCLanDiscovery ----------------------------
(* Small instances of LanDiscovery for TLC.                                  *)
EXTENDS LanDiscovery, TLC

Symmetry == Permutations(Did) \cup Permutations(Ip) \cup Permutations(Iface)
================================================================================
