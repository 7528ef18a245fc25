----------------------------- MODULE MCV2Process -----------------------------
(***************************************************************************)
(* V2Process for TLC: two handlers and two monitors, so that a             *)
(* StartService can fail with one of them subscribed; three requests in a  *)
(* burst, so that one is first, one in the middle and one last.            *)
(***************************************************************************)
EXTENDS V2Process
=============================================================================
