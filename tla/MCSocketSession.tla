--------------------------- MODULE MCSocketSession ---------------------------
(***************************************************************************)
(* SocketSession for TLC: two sessions that monitor the event twice        *)
(* between them over two connections to the broker; s2 may take the id of  *)
(* s1, and both the empty one.                                             *)
(***************************************************************************)
EXTENDS SocketSession, TLC
=============================================================================
