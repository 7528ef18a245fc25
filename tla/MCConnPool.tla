----------------------------- MODULE MCConnPool -----------------------------
(***************************************************************************)
(* ConnPool for TLC.  Providers and users are interchangeable.             *)
(***************************************************************************)
EXTENDS ConnPool, TLC

Symmetry == Permutations(Provider) \cup Permutations(User)
=============================================================================
