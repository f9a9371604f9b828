------------------------------ MODULE MCAccess ------------------------------
(***************************************************************************)
(* Access for TLC.  python-dotenv reads "odd #1" as "odd", dropping what   *)
(* it takes for a comment; "accented" stands for one that is not ASCII.    *)
(***************************************************************************)
EXTENDS Access, TLC

CONSTANTS t1, t2

TwoThreads == {t1, t2}
AnyThread == Permutations(TwoThreads)
RereadOdd == [p \in Passwords |-> IF p = "odd #1" THEN "odd" ELSE p]
=============================================================================
