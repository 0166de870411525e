----------------------------- MODULE GietMapping -----------------------------
(***************************************************************************)
(* The entity registry of giet_python/mapping.py: the Mapping object and  *)
(* its construction API (addRam, addPeriph, addIrq, addProc, addGlobal,   *)
(* addVspace, addVseg, addTask).                                          *)
(*                                                                         *)
(* The Python object graph is kept with its shape: a list of clusters,    *)
(* each holding ordered lists of psegs, procs and periphs; a list of      *)
(* global vsegs; a list of vspaces, each holding ordered lists of vsegs   *)
(* and tasks.  Every entity is stamped with the value of its family       *)
(* counter (total_psegs, total_vsegs, ...) at insertion time.  Object     *)
(* references are modelled by global indices: a periph's irq_ctrl is the *)
(* index of its controller periph, a periph's pseg is a copy of the       *)
(* (immutable) pseg record.                                               *)
(*                                                                         *)
(* A failed Python assert or a sys.exit ends the run: phase becomes       *)
(* "failed" and nothing happens afterwards.                               *)
(*                                                                         *)
(* Data is abstracted to what the properties tell apart: names are model  *)
(* values, addresses are small integers of a scaled-down address width,   *)
(* the access mode, local/big flags, trdid, startid, arg0..arg3 and the    *)
(* verbose printing are left out (they are copied to the output           *)
(* unchanged and no check reads them).                                    *)
(***************************************************************************)
EXTENDS Integers, Sequences, SequencesExt, FiniteSets

CONSTANTS
  XSize, YSize,          \* x_size, y_size: the cluster grid
  NProcs,                \* nprocs: max number of processors per cluster
  XWidth, YWidth,        \* x_width, y_width: bits of the cluster coordinates
  PaddrWidth,            \* paddr_width: bits of a physical address
  PageWidth,             \* bits masked by VPN_ANTI_MASK (12 in the code)
  RamBase, RamSize,      \* ram_base, ram_size of the Mapping
  PsegNames,             \* names given to psegs (model values)
  VsegNames,             \* names given to vsegs (model values)
  Prefix15,              \* Prefix15[n]: the class of name[0:15]
  NoName,                \* the empty string '' (no heap)
  None,                  \* Python None (no interrupt controller yet)
  NameLen                \* length of the name given to Mapping()

\* Inputs of the construction calls: small sets the caller picks from.
CONSTANTS
  RamBases, PeriphBases, PeriphTypes, Subtypes, IsrTypes, SrcIds, Channels,
  IrqChannels,
  ProcXY, LpIds, GlobalXY, VsegXY, TaskXY, VBases, VLengths, VTypes, BinPaths,
  PeriphTypesAt(_)       \* the types of PeriphTypes a periph at base b may have

\* Bounds on the number of entities of each family the caller creates.
CONSTANTS
  MaxPsegs, MaxProcs, MaxIrqs, MaxGlobals, MaxVspaces, MaxVsegs, MaxTasks

\* Closed enumerations of mapping.py (lines 50-142).
PERIPHTYPES == {"CMA", "DMA", "FBF", "IOB", "IOC", "MMC", "MWR", "NIC", "ROM",
                "SIM", "TIM", "TTY", "XCU", "PIC", "DROM"}
IOCSUBTYPES == {"BDV", "HBA", "SDC", "SPI"}
MWRSUBTYPES == {"GCD", "DCT", "CPY"}
ISRTYPES    == {"ISR_DEFAULT", "ISR_TICK", "ISR_TTY_RX", "ISR_TTY_TX", "ISR_BDV",
                "ISR_TIMER", "ISR_WAKUP", "ISR_NIC_RX", "ISR_NIC_TX", "ISR_CMA",
                "ISR_MMC", "ISR_DMA", "ISR_SDC", "ISR_MWR", "ISR_HBA", "ISR_SPI"}
VSEGTYPES   == {"ELF", "BLOB", "PTAB", "PERI", "BUFFER", "SCHED", "HEAP"}

ASSUME /\ XSize \in Nat \ {0} /\ YSize \in Nat \ {0}
       /\ PaddrWidth > XWidth + YWidth
       /\ Prefix15 \in [VsegNames -> Nat]
       /\ NoName \notin VsegNames

NClusters == XSize * YSize
ClusterIds == 0 .. NClusters - 1

VARIABLES
  clusters,       \* clusters[i]: [x, y, index, psegs, procs, periphs]
  globs,          \* the global (kernel) vsegs
  vspaces,        \* the vspaces, each [startname, index, vsegs, tasks]
  total_psegs, total_vsegs, total_globals, total_tasks,
  total_procs, total_irqs, total_periphs, total_vspaces,
  phase,          \* "build" while the caller adds entities, "failed" on exit
  inOrder,        \* history: every entity was appended at the end of its
                  \* family's emission order (the build discipline)
  bin,            \* output of an encoder: None until it ran
  nameLen         \* len(mapping.name): the characters are left out

counters == <<total_psegs, total_vsegs, total_globals, total_tasks,
              total_procs, total_irqs, total_periphs, total_vspaces>>
regVars == <<clusters, globs, vspaces, counters, phase, inOrder, bin, nameLen>>

-----------------------------------------------------------------------------
(* Address decoding shared by addRam and addPeriph (lines 218-222).        *)

LsbWidth == PaddrWidth - XWidth - YWidth
DecodeX(base) == (base \div 2^LsbWidth) \div 2^YWidth
DecodeY(base) == (base \div 2^LsbWidth) % 2^YWidth
ClusterId(x, y) == x * YSize + y
PageAligned(base) == base % 2^PageWidth = 0
InGrid(x, y) == x < XSize /\ y < YSize

-----------------------------------------------------------------------------
(* Emission order of each family, as the encoders traverse it: clusters   *)
(* in list order, then each owner's children in list order.               *)

PsegOrder == FlattenSeq([i \in 1..NClusters |-> clusters[i-1].psegs])
ProcOrder == FlattenSeq([i \in 1..NClusters |-> clusters[i-1].procs])
PeriphOrder == FlattenSeq([i \in 1..NClusters |-> clusters[i-1].periphs])
IrqOrder == FlattenSeq([k \in 1..Len(PeriphOrder) |-> PeriphOrder[k].irqs])
VsegOrder == globs \o FlattenSeq([v \in 1..Len(vspaces) |-> vspaces[v].vsegs])
TaskOrder == FlattenSeq([v \in 1..Len(vspaces) |-> vspaces[v].tasks])

\* No entity of the family sits after the given owner in emission order.
NothingAfterCluster(fam, cid) ==
  \A j \in ClusterIds : j > cid => clusters[j][fam] = <<>>
NothingAfterVspace(fam, v) ==
  \A w \in 1..Len(vspaces) : w > v => vspaces[w][fam] = <<>>

\* Location <<cluster, position>> of the periph of global index p.
PeriphLoc(p) ==
  CHOOSE l \in UNION {{<<c, k>> : k \in 1..Len(clusters[c].periphs)} : c \in ClusterIds} :
    clusters[l[1]].periphs[l[2]].index = p

Abort == /\ phase' = "failed"
         /\ UNCHANGED <<clusters, globs, vspaces, counters, inOrder, bin, nameLen>>

-----------------------------------------------------------------------------
(* Mapping.__init__: the grid of empty clusters, indexed x*y_size+y.       *)

Init ==
  /\ clusters = [i \in ClusterIds |->
                   [x |-> i \div YSize, y |-> i % YSize, index |-> i,
                    psegs |-> <<>>, procs |-> <<>>, periphs |-> <<>>]]
  /\ globs = <<>>
  /\ vspaces = <<>>
  /\ total_psegs = 0 /\ total_vsegs = 0 /\ total_globals = 0 /\ total_tasks = 0
  /\ total_procs = 0 /\ total_irqs = 0 /\ total_periphs = 0 /\ total_vspaces = 0
  /\ phase = "build"
  /\ inOrder = TRUE
  /\ bin = None
  /\ nameLen = NameLen

(* addRam: decode the cluster from the base address, check it, append a  *)
(* RAM pseg to that cluster.                                              *)
addRam(name, base, size) ==
  LET x == DecodeX(base)
      y == DecodeY(base)
      cid == ClusterId(x, y)
  IN /\ phase = "build"
     /\ total_psegs < MaxPsegs
     /\ \/ /\ PageAligned(base) /\ InGrid(x, y)
           /\ base % 2^LsbWidth = RamBase /\ size = RamSize
           /\ clusters' = [clusters EXCEPT ![cid].psegs = Append(@,
                 [name |-> name, base |-> base, size |-> size, x |-> x, y |-> y,
                  segtype |-> "RAM", index |-> total_psegs])]
           /\ total_psegs' = total_psegs + 1
           /\ inOrder' = (inOrder /\ NothingAfterCluster("psegs", cid))
           /\ UNCHANGED <<globs, vspaces, total_vsegs, total_globals, total_tasks,
                          total_procs, total_irqs, total_periphs, total_vspaces, phase, bin, nameLen>>
        \/ /\ ~(PageAligned(base) /\ InGrid(x, y)
                /\ base % 2^LsbWidth = RamBase /\ size = RamSize)
           /\ Abort

(* addPeriph: decode the cluster, check the type, append a PERI pseg and *)
(* a periph that refers to it.                                            *)
addPeriph(name, base, size, ptype, subtype, channels) ==
  LET x == DecodeX(base)
      y == DecodeY(base)
      cid == ClusterId(x, y)
      pseg == [name |-> name, base |-> base, size |-> size, x |-> x, y |-> y,
               segtype |-> "PERI", index |-> total_psegs]
      periph == [pseg |-> pseg, ptype |-> ptype, subtype |-> subtype,
                 channels |-> channels, irqs |-> <<>>, irq_ctrl |-> None,
                 index |-> total_periphs]
      valid == /\ InGrid(x, y) /\ PageAligned(base) /\ ptype \in PERIPHTYPES
               /\ ptype = "IOC" => subtype \in IOCSUBTYPES
               /\ ptype = "MWR" => subtype \in MWRSUBTYPES
  IN /\ phase = "build"
     /\ total_psegs < MaxPsegs
     /\ \/ /\ valid
           /\ clusters' = [clusters EXCEPT ![cid].psegs = Append(@, pseg),
                                           ![cid].periphs = Append(@, periph)]
           /\ total_psegs' = total_psegs + 1
           /\ total_periphs' = total_periphs + 1
           /\ inOrder' = (inOrder /\ NothingAfterCluster("psegs", cid)
                                  /\ NothingAfterCluster("periphs", cid))
           /\ UNCHANGED <<globs, vspaces, total_vsegs, total_globals, total_tasks,
                          total_procs, total_irqs, total_vspaces, phase, bin, nameLen>>
        \/ /\ ~valid
           /\ Abort

\* Faulty variant: a second controller for the same source accepted.
CtrlConflictIgnored(ctrl, p) == FALSE

\* The source is already bound to another controller (addIrq, lines 301-305).
CtrlConflict(ctrl, p) == ctrl # None /\ ctrl # p

(* addIrq: append an HWI irq to the controller periph, then bind the     *)
(* source periph to that controller; a source already bound to another   *)
(* controller makes the run exit (after the irq was appended).  The irq  *)
(* record keeps its source as a ghost field "src" for the properties.    *)
addIrq(p, index, src, isrtype, channel) ==
  LET pl == PeriphLoc(p)
      sl == PeriphLoc(src)
      irq == [irqtype |-> "HWI", srcid |-> index, isrtype |-> isrtype,
              channel |-> channel, index |-> total_irqs, src |-> src]
      withIrq == [clusters EXCEPT ![pl[1]].periphs[pl[2]].irqs = Append(@, irq)]
      ctrl == withIrq[sl[1]].periphs[sl[2]].irq_ctrl
      bound == IF ctrl = None
               THEN [withIrq EXCEPT ![sl[1]].periphs[sl[2]].irq_ctrl = p]
               ELSE withIrq
      m == CHOOSE j \in 1..Len(PeriphOrder) : PeriphOrder[j].index = p
  IN /\ phase = "build"
     /\ total_irqs < MaxIrqs
     /\ \/ /\ isrtype \in ISRTYPES /\ index < 32
           /\ clusters' = bound
           /\ total_irqs' = total_irqs + 1
           /\ inOrder' = (inOrder /\ \A j \in m+1..Len(PeriphOrder) :
                                        PeriphOrder[j].irqs = <<>>)
           /\ phase' = IF CtrlConflict(ctrl, p) THEN "failed" ELSE "build"
           /\ UNCHANGED <<globs, vspaces, total_psegs, total_vsegs, total_globals,
                          total_tasks, total_procs, total_periphs, total_vspaces, bin, nameLen>>
        \/ /\ ~(isrtype \in ISRTYPES /\ index < 32)
           /\ Abort

(* addProc: append a processor to cluster (x,y); lpid is not checked.    *)
addProc(x, y, lpid) ==
  /\ phase = "build"
  /\ total_procs < MaxProcs
  /\ \/ /\ InGrid(x, y)
        /\ clusters' = [clusters EXCEPT ![ClusterId(x, y)].procs = Append(@,
              [x |-> x, y |-> y, lpid |-> lpid, index |-> total_procs])]
        /\ total_procs' = total_procs + 1
        /\ inOrder' = (inOrder /\ NothingAfterCluster("procs", ClusterId(x, y)))
        /\ UNCHANGED <<globs, vspaces, total_psegs, total_vsegs, total_globals,
                       total_tasks, total_irqs, total_periphs, total_vspaces, phase, bin, nameLen>>
     \/ /\ ~InGrid(x, y)
        /\ Abort

\* The Vseg constructor's own checks (lines 2118-2126); vbase and length
\* are always 32-bit here.
VsegOk(vtype, binpath) ==
  /\ vtype \in VSEGTYPES
  /\ vtype # "ELF" \/ binpath # NoName

Vseg(name, vbase, length, vtype, x, y, pseg, identity, local, binpath, index) ==
  [name |-> name, vbase |-> vbase, length |-> length, vtype |-> vtype,
   x |-> x, y |-> y, psegname |-> pseg, identity |-> identity, local |-> local,
   binpath |-> binpath, index |-> index]

\* Two global vsegs overlap and their names differ in the first 15 chars.
GlobalClash(prev, name, vbase, length) ==
  /\ prev.vbase + prev.length > vbase
  /\ vbase + length > prev.vbase
  /\ Prefix15[prev.name] # Prefix15[name]

(* addGlobal: reject an overlap with a previous global vseg, then append *)
(* the vseg.  The destination (x,y) is not checked.                      *)
addGlobal(name, vbase, length, vtype, x, y, pseg, identity, local, binpath) ==
  /\ phase = "build"
  /\ total_globals < MaxGlobals
  /\ \/ /\ \A k \in 1..Len(globs) : ~GlobalClash(globs[k], name, vbase, length)
        /\ VsegOk(vtype, binpath)
        /\ globs' = Append(globs, Vseg(name, vbase, length, vtype, x, y, pseg,
                                       identity, local, binpath, total_vsegs))
        /\ total_globals' = total_globals + 1
        /\ total_vsegs' = total_vsegs + 1
        /\ inOrder' = (inOrder /\ NothingAfterVspace("vsegs", 0))
        /\ UNCHANGED <<clusters, vspaces, total_psegs, total_tasks, total_procs,
                       total_irqs, total_periphs, total_vspaces, phase, bin, nameLen>>
     \/ /\ \/ \E k \in 1..Len(globs) : GlobalClash(globs[k], name, vbase, length)
           \/ ~VsegOk(vtype, binpath)
        /\ Abort

(* addVspace: append an empty vspace.                                     *)
addVspace(startname) ==
  /\ phase = "build"
  /\ total_vspaces < MaxVspaces
  /\ vspaces' = Append(vspaces, [startname |-> startname, index |-> total_vspaces,
                                 vsegs |-> <<>>, tasks |-> <<>>])
  /\ total_vspaces' = total_vspaces + 1
  /\ UNCHANGED <<clusters, globs, total_psegs, total_vsegs, total_globals,
                 total_tasks, total_procs, total_irqs, total_periphs, phase, inOrder, bin, nameLen>>

(* addVseg: check type and destination, append a vseg to vspace v.       *)
addVseg(v, name, vbase, length, vtype, x, y, pseg, local, binpath) ==
  /\ phase = "build"
  /\ total_vsegs - total_globals < MaxVsegs
  /\ \/ /\ vtype \in VSEGTYPES /\ InGrid(x, y) /\ VsegOk(vtype, binpath)
        /\ vspaces' = [vspaces EXCEPT ![v].vsegs = Append(@,
              Vseg(name, vbase, length, vtype, x, y, pseg, FALSE, local, binpath,
                   total_vsegs))]
        /\ total_vsegs' = total_vsegs + 1
        /\ inOrder' = (inOrder /\ NothingAfterVspace("vsegs", v))
        /\ UNCHANGED <<clusters, globs, total_psegs, total_globals, total_tasks,
                       total_procs, total_irqs, total_periphs, total_vspaces, phase, bin, nameLen>>
     \/ /\ ~(vtype \in VSEGTYPES /\ InGrid(x, y) /\ VsegOk(vtype, binpath))
        /\ Abort

(* addTask: check the placement, append a task to vspace v.              *)
addTask(v, x, y, lpid, stackname, heapname) ==
  /\ phase = "build"
  /\ total_tasks < MaxTasks
  /\ \/ /\ InGrid(x, y) /\ lpid < NProcs
        /\ vspaces' = [vspaces EXCEPT ![v].tasks = Append(@,
              [x |-> x, y |-> y, p |-> lpid, stackname |-> stackname,
               heapname |-> heapname, index |-> total_tasks])]
        /\ total_tasks' = total_tasks + 1
        /\ inOrder' = (inOrder /\ NothingAfterVspace("tasks", v))
        /\ UNCHANGED <<clusters, globs, total_psegs, total_vsegs, total_globals,
                       total_procs, total_irqs, total_periphs, total_vspaces, phase, bin, nameLen>>
     \/ /\ ~(InGrid(x, y) /\ lpid < NProcs)
        /\ Abort

-----------------------------------------------------------------------------
(* One call of the construction API, with its arguments from the inputs.  *)
(* The local flag only matters to the applications (GietApps): here it is *)
(* FALSE.                                                                  *)

Build ==
  \/ \E n \in PsegNames, b \in RamBases : addRam(n, b, RamSize)
  \/ \E n \in PsegNames, b \in PeriphBases : \E t \in PeriphTypesAt(b),
        s \in Subtypes, c \in Channels : addPeriph(n, b, 1, t, s, c)
  \/ \E p, s \in 0..total_periphs - 1, i \in SrcIds, t \in IsrTypes,
        c \in IrqChannels : addIrq(p, i, s, t, c)
  \/ \E xy \in ProcXY, l \in LpIds : addProc(xy[1], xy[2], l)
  \/ \E n \in VsegNames, b \in VBases, l \in VLengths, t \in VTypes,
        xy \in GlobalXY, ps \in PsegNames, id \in BOOLEAN, bp \in BinPaths :
        addGlobal(n, b, l, t, xy[1], xy[2], ps, id, FALSE, bp)
  \/ \E n \in VsegNames : addVspace(n)
  \/ \E v \in 1..Len(vspaces), n \in VsegNames, b \in VBases, l \in VLengths,
        t \in VTypes, xy \in VsegXY, ps \in PsegNames, bp \in BinPaths :
        addVseg(v, n, b, l, t, xy[1], xy[2], ps, FALSE, bp)
  \/ \E v \in 1..Len(vspaces), xy \in TaskXY, l \in LpIds, st \in VsegNames,
        hp \in VsegNames \cup {NoName} :
        addTask(v, xy[1], xy[2], l, st, hp)

=============================================================================
