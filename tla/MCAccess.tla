------------------------------- MODULE MCAccess -------------------------------
(* Small instances of Access for TLC. *)
EXTENDS Access
Symmetry == Permutations(Addresses) \cup Permutations(KeyIds) \cup Permutations(Workspaces)
=============================================================================
