--------------------------- MODULE MCCallPipeline ---------------------------
(***************************************************************************)
(* CallPipeline for TLC; calls are interchangeable.                        *)
(***************************************************************************)
EXTENDS CallPipeline, TLC

Symmetry == Permutations(Call)
=============================================================================
