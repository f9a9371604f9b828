---------------------------- MODULE QueryLedger ----------------------------
(***************************************************************************)
(* What the DNS ingester promises (docs/architecture/phase-2-dns.md:144):  *)
(* the stored rows are the logged queries, each once, in the order they    *)
(* were logged; the table only lags behind the log.                        *)
(***************************************************************************)
EXTENDS Naturals, Sequences

VARIABLES
  logged,    \* number of queries in the log
  recorded   \* the number of the query each stored row is for

ledgerVars == <<logged, recorded>>

Init == logged = 0 /\ recorded = <<>>

Issue == logged' = logged + 1 /\ UNCHANGED recorded

Record ==
  /\ Len(recorded) < logged
  /\ recorded' = Append(recorded, Len(recorded) + 1)
  /\ UNCHANGED logged

Next == Issue \/ Record

Spec == Init /\ [][Next]_ledgerVars

=============================================================================
