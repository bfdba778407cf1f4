----------------------------- MODULE MCAgentPool -----------------------------
(* Small instances of AgentPool for TLC. *)
EXTENDS AgentPool, TLC

CONSTANTS q1, q2, a1, a2, a3, a4, m1, m2

\* One call at a time at first, two after the limit was raised.
OneThenTwo == [v \in 0..MaxLimits |-> IF v = 0 THEN 1 ELSE 2]
\* Two calls at a time, one after the limit was lowered.
TwoThenOne == [v \in 0..MaxLimits |-> IF v = 0 THEN 2 ELSE 1]

QuerySymmetry == Permutations(Queries)
=============================================================================
