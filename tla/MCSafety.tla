------------------------------ MODULE MCSafety ------------------------------
(***************************************************************************)
(* Safety and the reads of the dashboard for TLC.  Only the identity of    *)
(* threads and askers counts, whichever of the askers is None.             *)
(***************************************************************************)
EXTENDS Dashboard

CONSTANTS t1, t2, a1, a2

TwoThreads == {t1, t2}
TwoAskers == {a1, a2}
AnyOne == Permutations(TwoThreads) \cup Permutations(TwoAskers)
TwoModels == <<"nemotron", "gemma">>
OneModel == <<"nemotron">>
=============================================================================
