---------------------------- MODULE MCLiveFeed ----------------------------
(***************************************************************************)
(* LiveFeed for TLC.                                                       *)
(***************************************************************************)
EXTENDS LiveFeed

CONSTANTS s1, s2, q1, p1

TwoSockets == {s1, s2}
OneStream == {q1}
OnePage == {p1}
ThreeRows == [k \in Kinds |-> CASE k = "dns_activity" -> 2 [] k = "safety_alert" -> 1 [] OTHER -> 0]
OneRow == [k \in Kinds |-> IF k = "dns_activity" THEN 1 ELSE 0]
OneAtATime == [k \in Kinds |-> 1]
=============================================================================
