----------------------------- MODULE MCV1Process -----------------------------
(***************************************************************************)
(* V1Process for TLC: one process with two services and another that       *)
(* migrates the same tables.                                               *)
(***************************************************************************)
EXTENDS V1Process, TLC

CONSTANTS r1, p1, r2, p2, k1, k2

KeyOfEach == (r1 :> k1) @@ (p1 :> k1) @@ (r2 :> k1) @@ (p2 :> k2)
=============================================================================
