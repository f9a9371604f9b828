---------------------------- MODULE MCDnsIngest ----------------------------
(***************************************************************************)
(* DnsIngest for TLC: one LAN address.  Collector_shared also has one that *)
(* gets no placeholder.                                                    *)
(***************************************************************************)
EXTENDS DnsIngest

CONSTANT lan

OneIp == {lan}
=============================================================================
