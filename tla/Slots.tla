-------------------------------- MODULE Slots --------------------------------
(***************************************************************************)
(* What a concurrency limit promises: at most Limit callers are inside at  *)
(* any time, and everybody leaves on their own.  ConcurrencyGate           *)
(* implements it.                                                          *)
(***************************************************************************)
EXTENDS Naturals, FiniteSets

CONSTANTS Callers, Limit

VARIABLE inside

Init == inside = {}

Enter(c) ==
    /\ c \notin inside
    /\ Cardinality(inside) < Limit
    /\ inside' = inside \cup {c}

Leave(c) ==
    /\ c \in inside
    /\ inside' = inside \ {c}

Next == \E c \in Callers : Enter(c) \/ Leave(c)

Spec == Init /\ [][Next]_inside
=============================================================================
