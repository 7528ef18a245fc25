---------------------------- MODULE MCMigration ----------------------------
(***************************************************************************)
(* Migration for TLC: three goroutines, each of which may die or outlive   *)
(* the others, two of one process, which Unlock cannot tell apart: the     *)
(* route service's and another service's.  The lock's properties are       *)
(* checked in its use here.                                                *)
(***************************************************************************)
EXTENDS Migration, TLC

CONSTANTS p1, p2, p3, k1, k2

TwoOfOne == (p1 :> k1) @@ (p2 :> k1) @@ (p3 :> k2)
=============================================================================
