----------------------------- MODULE MCGietCbin -----------------------------
(***************************************************************************)
(* Model of GietCbin for TLC: a 2x1 grid (x_width = y_width = 1) with 4-  *)
(* bit physical addresses, so that the cluster field of an address is    *)
(* bits 3..2 and an address can name a cluster (0,1) outside the grid.   *)
(* The input sets hold one legal value of each kind and one value each  *)
(* check of the add* calls rejects.                                      *)
(***************************************************************************)
EXTENDS GietCbin, TLC

CONSTANTS RAM, ROM, A, B, ELF_BIN, Empty, Nil

\* Coordinates: (0,0) and (1,0) are in the grid, (0,1) is not; its cluster
\* id 0*1+1 = 1 is that of (1,0).
MCProcXY   == {<<0, 0>>, <<0, 1>>}
MCGlobalXY == {<<0, 0>>, <<1, 0>>}
MCGlobalXYOutside == {<<0, 0>>, <<0, 1>>}
MCVsegXY   == {<<0, 0>>, <<0, 1>>}
MCTaskXY   == {<<0, 0>>, <<0, 1>>}

MCNotFound == -1   \* stands for 0xFFFFFFFF, not an index in any model

\* Two global vseg names whose 15-character prefixes differ.
MCPrefix15 == [n \in VsegNames |-> IF n = A THEN 1 ELSE 2]


\* Every periph type at every periph base.
MCAnyPlace(b) == PeriphTypes

=============================================================================
