---------------------------- MODULE MCCollector ----------------------------
(***************************************************************************)
(* Collector for TLC.                                                      *)
(***************************************************************************)
EXTENDS Collector

CONSTANTS s1, ip1, ip2, m1

OneScanner == {s1}
OneIp == {ip1}
TwoIps == {ip1, ip2}
OneMac == {m1}
=============================================================================
