------------------------------- MODULE GietDts -------------------------------
(***************************************************************************)
(* The two device-tree exporters of giet_python/mapping.py, linux_dts()   *)
(* and netbsd_dts(), composed with the registry of GietMapping: a caller  *)
(* builds the graph, then asks for one device tree.                       *)
(*                                                                         *)
(* An exporter is one step.  Its output is kept as what a kernel reads    *)
(* from it: the reg value of every cpu node, and for every interrupt line  *)
(* written for a peripheral, the controller it names as parent and the    *)
(* controller whose irq list the line number was taken from.  The text,   *)
(* the memory nodes, the clocks and the topology section are left out.    *)
(* A sys.exit, a failed assert and an uncaught exception (a name used     *)
(* before it was bound, an attribute of None) all end the run with no     *)
(* output; which one is kept as the kind of the failure.                  *)
(*                                                                         *)
(* Both functions walk the clusters in list order and carry two local     *)
(* variables from one peripheral to the next: irq_ctrl_name (the name of  *)
(* the last controller a peripheral was bound to) and, in netbsd_dts, xcu *)
(* (the last XCU met).  Neither is reset per cluster or per peripheral;   *)
(* they are computed here as "the last such peripheral so far".           *)
(***************************************************************************)
EXTENDS GietMapping

CONSTANT PWidth    \* p_width: bits of the local processor index

ASSUME PWidth \in Nat

vars == regVars

-----------------------------------------------------------------------------
(* The cpus section (lines 1169-1179 and 1353-1364):                      *)
(* proc_id = (((x << y_width) + y) << p_width) + lpid.                    *)

ProcId(x, y, lpid) == ((x * 2^YWidth + y) * 2^PWidth) + lpid

CpuRegs == [k \in 1..Len(ProcOrder) |->
              ProcId(ProcOrder[k].x, ProcOrder[k].y, ProcOrder[k].lpid)]

-----------------------------------------------------------------------------
(* One event of an exporter's walk: an interrupt line written, or the end *)
(* of the run.                                                            *)

Line(p, parent, from, irq) ==
  [kind |-> "line", periph |-> p.index, parent |-> parent, from |-> from,
   irq |-> irq, cluster |-> None, status |-> None]
\* The end of the run, with the exit status the process returns.
FailStatus(kind, c, status) ==
  [kind |-> kind, periph |-> None, parent |-> None, from |-> None,
   irq |-> None, cluster |-> c, status |-> status]
\* sys.exit(1), a failed assert, an uncaught exception: exit status 1.
Fail(kind, c) == FailStatus(kind, c, 1)
IsFail(e) == e.kind # "line"

\* The periph of global index i.
PeriphOf(i) == PeriphOrder[CHOOSE j \in 1..Len(PeriphOrder) : PeriphOrder[j].index = i]

AnyChannel == -1

\* Position of the last irq of ctrl with that isrtype (and channel): the
\* "for irq in irq_ctrl.irqs" loops never break, so the last match wins.
IrqPos(ctrl, isr, ch) ==
  SelectLastInSeq(ctrl.irqs,
    LAMBDA q : q.isrtype = isr /\ (ch = AnyChannel \/ q.channel = ch))

(* One lookup of an irq line in controller ctrl for periph p, written     *)
(* with parent as its interrupt parent; the exit when none is found.      *)
Lookup(p, ctrl, isr, ch, parent, c) ==
  LET k == IrqPos(ctrl, isr, ch)
  IN IF k = 0 THEN Fail("isr", c)
     ELSE Line(p, parent, ctrl.index, ctrl.irqs[k])

\* The "No XCU/PIC in cluster" exit (lines 1239-1244 and 1435-1439).
NoCtrl(c) ==
  /\ clusters[c].periphs # <<>>
  /\ \A k \in 1..Len(clusters[c].periphs) :
       clusters[c].periphs[k].ptype \notin {"XCU", "PIC"}

CtrlCheck(c) == IF NoCtrl(c) THEN <<Fail("noctrl", c)>> ELSE <<>>

\* The periphs met by the walk up to the k-th periph of cluster c.
PeriphsUpTo(c, k) ==
  FlattenSeq([i \in 1..c |-> clusters[i-1].periphs])
    \o SubSeq(clusters[c].periphs, 1, k)

\* Faulty variant: irq_ctrl_name read before this periph updates it.
IrqCtrlNameStale(c, k) ==
  LET s == PeriphsUpTo(c, k - 1)
      j == SelectLastInSeq(s, LAMBDA q : q.irq_ctrl # None)
  IN IF j = 0 THEN None ELSE s[j].irq_ctrl

(* irq_ctrl_name at the k-th periph of cluster c: set from the periph's   *)
(* own irq_ctrl when it has one, else left as it was (None: unbound).     *)
IrqCtrlName(c, k) ==
  LET s == PeriphsUpTo(c, k)
      j == SelectLastInSeq(s, LAMBDA q : q.irq_ctrl # None)
  IN IF j = 0 THEN None ELSE s[j].irq_ctrl

(* netbsd_dts's xcu in the second loop over the periphs of cluster c: the *)
(* last XCU of this cluster or, when it has none, of an earlier one.      *)
XcuOf(c) ==
  LET s == PeriphsUpTo(c, Len(clusters[c].periphs))
      j == SelectLastInSeq(s, LAMBDA q : q.ptype = "XCU")
  IN IF j = 0 THEN None ELSE s[j]

-----------------------------------------------------------------------------
(* linux_dts (lines 1146-1336): per cluster, the controller check, then   *)
(* TTY and IOC/BDV lines (after an assert that the periph has a           *)
(* controller); the other types only print a warning.                     *)

LinuxPeriphEvents(c, k) ==
  LET p == clusters[c].periphs[k]
      ctrl == IF p.irq_ctrl = None THEN None ELSE PeriphOf(p.irq_ctrl)
      name == IrqCtrlName(c, k)
  IN CASE p.ptype \notin {"TTY", "IOC"} -> <<>>
       [] ctrl = None -> <<Fail("assert", c)>>
       [] p.ptype = "TTY" -> <<Lookup(p, ctrl, "ISR_TTY_RX", 0, name, c)>>
       [] p.subtype = "BDV" -> <<Lookup(p, ctrl, "ISR_BDV", AnyChannel, name, c)>>
       [] OTHER -> <<>>

LinuxClusterEvents(c) ==
  CtrlCheck(c) \o FlattenSeq([k \in 1..Len(clusters[c].periphs) |->
                                LinuxPeriphEvents(c, k)])

-----------------------------------------------------------------------------
(* netbsd_dts (lines 1339-1721): per cluster, the controller check, then  *)
(* one line per channel of DMA (taken from xcu), TTY, CMA, two per NIC    *)
(* channel (RX then TX), and one for MMC (taken from xcu, parent          *)
(* irq_ctrl_name), IOC/BDV and IOC/SDC.  irq_ctrl.irqs on a periph that   *)
(* has no controller, and xcu or irq_ctrl_name before any was bound, are  *)
(* uncaught exceptions.                                                   *)

\* A lookup in the periph's own controller (irq_ctrl.irqs); irq_ctrl_name
\* was just set from it.
OwnCtrlLine(p, ctrl, isr, ch, c) ==
  IF ctrl = None THEN Fail("crash", c) ELSE Lookup(p, ctrl, isr, ch, ctrl.index, c)

NetbsdPeriphEvents(c, k) ==
  LET p == clusters[c].periphs[k]
      ctrl == IF p.irq_ctrl = None THEN None ELSE PeriphOf(p.irq_ctrl)
      name == IrqCtrlName(c, k)
      xcu == XcuOf(c)
      Own(isr, ch) == OwnCtrlLine(p, ctrl, isr, ch, c)
      chans == 1..p.channels
  IN CASE p.ptype = "DMA" ->
            [i \in chans |-> IF xcu = None THEN Fail("crash", c)
                             ELSE Lookup(p, xcu, "ISR_DMA", i - 1, xcu.index, c)]
       [] p.ptype = "MMC" ->
            << IF xcu = None THEN Fail("crash", c)
               ELSE LET e == Lookup(p, xcu, "ISR_MMC", AnyChannel, name, c)
                    IN IF ~IsFail(e) /\ name = None THEN Fail("crash", c) ELSE e >>
       [] p.ptype = "IOC" /\ p.subtype = "BDV" -> << Own("ISR_BDV", AnyChannel) >>
       [] p.ptype = "IOC" /\ p.subtype = "SDC" -> << Own("ISR_SDC", AnyChannel) >>
       [] p.ptype = "TTY" -> [i \in chans |-> Own("ISR_TTY_RX", i - 1)]
       [] p.ptype = "CMA" -> [i \in chans |-> Own("ISR_CMA", i - 1)]
       [] p.ptype = "NIC" ->
            [i \in 1..2 * p.channels |->
               Own(IF i % 2 = 1 THEN "ISR_NIC_RX" ELSE "ISR_NIC_TX", (i - 1) \div 2)]
       [] OTHER -> <<>>

NetbsdClusterEvents(c) ==
  CtrlCheck(c) \o FlattenSeq([k \in 1..Len(clusters[c].periphs) |->
                                NetbsdPeriphEvents(c, k)])

-----------------------------------------------------------------------------
(* An exporter's result: the cpu regs and lines, or its first failure.    *)

DtsOf(dialect) ==
  LET evs == FlattenSeq([i \in 1..NClusters |->
               IF dialect = "linux" THEN LinuxClusterEvents(i - 1)
               ELSE NetbsdClusterEvents(i - 1)])
      f == SelectInSeq(evs, IsFail)
  IN IF f = 0
     THEN [ok |-> TRUE, dialect |-> dialect, cpus |-> CpuRegs,
           lines |-> {evs[i] : i \in 1..Len(evs)}, fail |-> None, hdr |-> None]
     ELSE [ok |-> FALSE, dialect |-> dialect, cpus |-> <<>>,
           lines |-> {}, fail |-> evs[f], hdr |-> None]

\* Faulty variant: a failed export does not end the run.
EmitNoExit(d) ==
  /\ phase = "build"
  /\ bin = None
  /\ bin' = d
  /\ phase' = "emitted"
  /\ UNCHANGED <<clusters, globs, vspaces, counters, inOrder, nameLen>>

Emit(d) ==
  /\ phase = "build"
  /\ bin = None
  /\ bin' = d
  /\ phase' = IF d.ok THEN "emitted" ELSE "failed"
  /\ UNCHANGED <<clusters, globs, vspaces, counters, inOrder, nameLen>>

linux_dts == Emit(DtsOf("linux"))

netbsd_dts == Emit(DtsOf("netbsd"))

\* The run is over: the process exited or wrote its output.
Terminated == phase \in {"failed", "emitted"} /\ UNCHANGED vars

Next ==
  \/ Build
  \/ linux_dts
  \/ netbsd_dts
  \/ Terminated

Spec == Init /\ [][Next]_vars

-----------------------------------------------------------------------------
(* Properties.                                                            *)

DtsTypeOK ==
  /\ phase \in {"build", "failed", "emitted"}
  /\ bin = None \/ (bin.ok \in BOOLEAN /\ bin.dialect \in {"linux", "netbsd", "hard_config", "giet_vsegs"})
  /\ bin # None => phase = IF bin.ok THEN "emitted" ELSE "failed"
  /\ bin # None /\ ~bin.ok => /\ bin.fail.kind \in {"isr", "noctrl", "assert", "crash", "exit"}
                              /\ bin.fail.status \in {0, 1}
  /\ bin # None /\ bin.ok => \A l \in bin.lines : l.kind = "line"

(* Every interrupt line a device tree gives a peripheral is an input of  *)
(* that peripheral's own controller: the parent written is the periph's  *)
(* irq_ctrl, and the line number comes from that controller's irq list.  *)
(* linux_dts and netbsd_dts write the parent from irq_ctrl_name and      *)
(* netbsd_dts takes DMA and MMC lines from xcu, two locals carried over  *)
(* from earlier peripherals and clusters.                                *)
DtsIrqFromController ==
  bin # None /\ bin.ok =>
    \A l \in bin.lines :
      /\ l.parent = PeriphOf(l.periph).irq_ctrl
      /\ l.from = l.parent

(* Every cpu node of a device tree has its own reg value: the kernel     *)
(* names a processor by it, and the XCU filters and the topology refer   *)
(* to cpu nodes by it.                                                    *)
CpuIdsDistinct ==
  bin # None /\ bin.ok => IsInjective(bin.cpus)

=============================================================================
