--------------------------- MODULE MCRequestReply ---------------------------
(***************************************************************************)
(* RequestReply for TLC.  Calls, instances and inboxes are interchangeable *)
(* model values; the symmetry is used by the run that checks invariants    *)
(* only.                                                                   *)
(***************************************************************************)
EXTENDS RequestReply, TLC

Symmetry == Permutations(Call) \cup Permutations(Instance)
              \cup Permutations(Inbox)
=============================================================================
