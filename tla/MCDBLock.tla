------------------------------ MODULE MCDBLock ------------------------------
(***************************************************************************)
(* DBLock alone for TLC: the first processes of a new database, where the  *)
(* lock has no row yet.                                                    *)
(***************************************************************************)
EXTENDS DBLock, TLC

CONSTANTS p1, p2, k1, k2

KeyOfEach == (p1 :> k1) @@ (p2 :> k2)
=============================================================================
