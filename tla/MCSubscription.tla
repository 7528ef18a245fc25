--------------------------- MODULE MCSubscription ---------------------------
(***************************************************************************)
(* Subscription for TLC: two callers of the closure, and more messages     *)
(* than the channel holds.                                                 *)
(***************************************************************************)
EXTENDS Subscription
=============================================================================
