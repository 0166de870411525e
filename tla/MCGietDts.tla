------------------------------ MODULE MCGietDts ------------------------------
(***************************************************************************)
(* Model of GietHeaders (and GietDts) for TLC: a 2x1 grid (x_width =      *)
(* y_width = 1) with 4-bit physical addresses; periph psegs at 2 (cluster *)
(* (0,0)) and 10 (cluster (1,0)).  Only the hardware side of the registry *)
(* is built by the caller; the global vsegs are those of a platform       *)
(* script (MCBootPlatform) or none.                                       *)
(***************************************************************************)
EXTENDS GietHeaders, TLC

CONSTANTS RAM, A, Empty, Nil,
          BMAP, BCODE, BDATA, BSTACK, KCODE, KDATA, KINIT

\* The strings of the vseg names, and their first 13 and 15 characters.
MCNameText ==
  [n \in VsegNames |->
     CASE n = BMAP -> "seg_boot_mapping" [] n = BCODE -> "seg_boot_code"
       [] n = BDATA -> "seg_boot_data"   [] n = BSTACK -> "seg_boot_stack"
       [] n = KCODE -> "seg_kernel_code" [] n = KDATA -> "seg_kernel_data"
       [] n = KINIT -> "seg_kernel_init" [] OTHER -> "a"]
MCHead13 ==
  [n \in VsegNames |->
     CASE n = BMAP -> "seg_boot_mapp"    [] n = BCODE -> "seg_boot_code"
       [] n = BDATA -> "seg_boot_data"   [] n = BSTACK -> "seg_boot_stac"
       [] n = KCODE -> "seg_kernel_co"   [] n = KDATA -> "seg_kernel_da"
       [] n = KINIT -> "seg_kernel_in"   [] OTHER -> "a"]
MCHead15 ==
  [n \in VsegNames |->
     CASE n = BMAP -> "seg_boot_mappin"  [] n = BCODE -> "seg_boot_code"
       [] n = BDATA -> "seg_boot_data"   [] n = BSTACK -> "seg_boot_stack"
       [] n = KCODE -> "seg_kernel_code" [] n = KDATA -> "seg_kernel_data"
       [] n = KINIT -> "seg_kernel_init" [] OTHER -> "a"]

\* name[0:15] as a class: names with the same first 15 characters.
MCPrefix15 ==
  LET heads == <<"a", "seg_boot_mappin", "seg_boot_code", "seg_boot_data",
                 "seg_boot_stack", "seg_kernel_code", "seg_kernel_data",
                 "seg_kernel_init">>
  IN [n \in VsegNames |-> CHOOSE k \in 1..Len(heads) : heads[k] = MCHead15[n]]

\* The boot and kernel vsegs of a platform script, identity mapped, one
\* page each; seg_boot_code is declared twice (the same name may overlap).
MCBootPlatform ==
  LET e(n, b) == [name |-> n, vbase |-> b, length |-> 1, identity |-> TRUE]
  IN {<< e(BMAP, 0), e(BCODE, 1), e(BDATA, 2), e(BSTACK, 3),
        e(KCODE, 4), e(KDATA, 5), e(KINIT, 6), e(BCODE, 7) >>}

\* The two clusters of a 1x2 grid.
MCProcXYColumn == {<<0, 0>>, <<0, 1>>}


\* Every periph type at every periph base.
MCAnyPlace(b) == PeriphTypes

\* Cluster (0,0) (base 2) holds only an XCU; cluster (1,0) (base 10) a PIC
\* and DMAs.
MCXcuApart(b) == IF b = 2 THEN {"XCU"} ELSE {"PIC", "DMA"}

=============================================================================
