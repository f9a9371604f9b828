---------------------------- MODULE MCDiscovery ----------------------------
(***************************************************************************)
(* Discovery for TLC.                                                      *)
(***************************************************************************)
EXTENDS Discovery

CONSTANTS s1, s2, ip1, ip2, m1, h1

TwoScanners == {s1, s2}
TwoIps == {ip1, ip2}
OneMac == {m1}
OneHost == {h1}
=============================================================================
