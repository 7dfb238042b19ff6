------------------------------- MODULE MCAuth -------------------------------
(***************************************************************************)
(* Auth for TLC: requests, session ids and recovery tokens are             *)
(* interchangeable model values.                                           *)
(***************************************************************************)
EXTENDS Auth, TLC

Symmetry == Permutations(Requests) \cup Permutations(Sids) \cup Permutations(Tokens)
=============================================================================
