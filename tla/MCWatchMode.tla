----------------------------- MODULE MCWatchMode -----------------------------
(* Small instances of WatchMode for TLC. *)
EXTENDS WatchMode

CONSTANTS w1, d1, t1, t2

OneDirEach == [w \in Workspaces |-> {d1}]
=============================================================================
