----------------------------- MODULE MCV1Calls -----------------------------
(***************************************************************************)
(* V1Calls for TLC.                                                        *)
(***************************************************************************)
EXTENDS V1Calls
=============================================================================
