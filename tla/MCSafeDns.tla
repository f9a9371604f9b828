----------------------------- MODULE MCSafeDns -----------------------------
(***************************************************************************)
(* SafeDns for TLC.                                                        *)
(***************************************************************************)
EXTENDS SafeDns

CONSTANTS t1, t2

TwoThreads == {t1, t2}
=============================================================================
