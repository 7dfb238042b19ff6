------------------------------ MODULE MCOAuth -------------------------------
(* Instance of OAuth: ids and addresses are interchangeable. *)
EXTENDS OAuth, TLC

Symmetry == Permutations(Accounts) \cup Permutations(Flows)
            \cup Permutations(Requests) \cup Permutations(Emails)
=============================================================================
