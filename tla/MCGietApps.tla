------------------------------ MODULE MCGietApps ------------------------------
(***************************************************************************)
(* Model of GietApps for TLC: the eleven scripts by name, and the         *)
(* platforms as functions from cluster ids to processor counts.          *)
(***************************************************************************)
EXTENDS GietApps, TLC

CONSTANTS Empty, Nil

MCNotFound == -1   \* stands for 0xFFFFFFFF

MCPrefix15 == [n \in VsegNames |-> 0]

MCAllApps == {"sort", "convol", "gameoflife", "classif", "ocean", "raycast",
              "transpose", "router", "coproc", "display", "shell"}

\* Every cluster holds nprocs processors.
MCFull == {[c \in ClusterIds |-> NProcs]}
\* As MCFull, or with the last cluster empty.
MCFullOrLastEmpty == {[c \in ClusterIds |-> IF c = NClusters - 1 THEN k ELSE NProcs] :
                        k \in {0, NProcs}}
\* Cluster 0 full, the last one with one processor fewer than nprocs.
MCHetero == {[c \in ClusterIds |-> IF c = NClusters - 1 THEN NProcs - 1 ELSE NProcs]}
\* Cluster 0 without processors.
MCFirstEmpty == {[c \in ClusterIds |-> IF c = 0 THEN 0 ELSE NProcs]}


\* Every periph type at every periph base.
MCAnyPlace(b) == PeriphTypes

=============================================================================
