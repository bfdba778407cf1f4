----------------------------- MODULE MCIngestion -----------------------------
(* Small instances of Ingestion for TLC. *)
EXTENDS Ingestion

CONSTANTS f1, f2, w1, r1, r2

OneWorkspace == [r \in Runs |-> w1]
AllFiles     == [w \in Workspaces |-> Files]

\* A file that is cut in two at first and shrinks to one piece.
Shrinks == <<2, 1>>
\* A file that is always cut in two, so that a version overwrites the other.
SameSize == <<2, 2>>
\* The second version of one of the files is damaged.
DamagedUpdate == {<<f2, 2>>}
\* A file of one version, cut in two.
TwoChunks == <<2>>
=============================================================================
