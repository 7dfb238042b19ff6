------------------------------ MODULE MCAccess ------------------------------
(* Instance of Access: accounts are interchangeable. *)
EXTENDS Access, TLC

Symmetry == Permutations(Users)
=============================================================================
