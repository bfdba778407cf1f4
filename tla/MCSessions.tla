------------------------------ MODULE MCSessions ------------------------------
(* Small instances of Sessions for TLC. *)
EXTENDS Sessions, TLC
Symmetry == Permutations(KeyIds) \cup Permutations(Tokens) \cup Permutations(Addresses)
                \cup Permutations(Subjects)
=============================================================================
