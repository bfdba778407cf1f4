---------------------------- MODULE MCQueryStream ----------------------------
(* Small instances of QueryStream for TLC. *)
EXTENDS QueryStream

CONSTANTS q1, q2, s1
=============================================================================
