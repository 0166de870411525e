------------------------------- MODULE GietCbin -------------------------------
(***************************************************************************)
(* The binary encoder Mapping.cbin() and the cbin() methods of Cluster,   *)
(* Pseg, Vspace, Vseg, Task, Processor, Irq and Periph, composed with the *)
(* registry of GietMapping: a caller builds the graph, then asks for the  *)
(* binary blob once.                                                       *)
(*                                                                         *)
(* cbin() is one step: it walks the families in the fixed order of the    *)
(* blob (clusters, psegs, vspaces, vsegs, tasks, procs, irqs, periphs) and *)
(* either produces every record or stops at the first record that fails a *)
(* check (sys.exit or an uncaught IndexError), leaving no blob.  The      *)
(* blob is a record of sequences of records: slot g+1 of a sequence is    *)
(* the record the consumer reads at global index g.  Byte layout, endian- *)
(* ness and padding are left to GietCodec; the records here carry the     *)
(* integer fields the consumer follows as pointers.  Fields marked ghost  *)
(* are not written by the code; they name the entity a record came from   *)
(* so the properties can say whether the pointers are right.              *)
(***************************************************************************)
EXTENDS GietMapping

CONSTANT NotFound   \* 0xFFFFFFFF, the "not found" value of the lookups

\* bin: None until cbin() ran; then the blob or the failure.
vars == regVars

-----------------------------------------------------------------------------
\* Faulty variant: the index check left out.
IndexCheckedNot(order) == [k \in 1..Len(order) |-> TRUE]

(* The "check index" block of every cbin() method: the global index       *)
(* stamped on the k-th entity of the emission order is k-1.               *)
IndexChecked(order) == [k \in 1..Len(order) |-> order[k].index = k - 1]

\* Global index of the last element of s named n, or NotFound: the lookup
\* loops never break, so the last match wins.
LastIndexOf(s, n) ==
  LET k == SelectLastInSeq(s, LAMBDA q : q.name = n)
  IN IF k = 0 THEN NotFound ELSE s[k].index

\* Faulty variant: the pseg searched among all psegs of the mapping.
VsegPsegIdAnyCluster(vs) == LastIndexOf(PsegOrder, vs.psegname)

(* Vseg.cbin: the pseg named psegname in cluster x*y_size+y.              *)
VsegPsegId(vs) ==
  LastIndexOf(clusters[ClusterId(vs.x, vs.y)].psegs, vs.psegname)

\* Faulty variant: the vseg searched among all vsegs of the mapping.
VsegIdByNameAnywhere(vsp, n) == LastIndexOf(VsegOrder, n)

(* Vspace.cbin / Task.cbin: a vseg of the vspace by name.                 *)
VsegIdByName(vsp, n) == LastIndexOf(vsp.vsegs, n)

(* Task.cbin: an empty heap name gives 0, else the lookup must succeed.   *)
TaskHeapId(vsp, t) ==
  IF t.heapname = NoName THEN 0 ELSE VsegIdByName(vsp, t.heapname)

-----------------------------------------------------------------------------
(* Emission order with the owner of each entity.                          *)

PsegTrav == FlattenSeq([i \in 1..NClusters |->
              [k \in 1..Len(clusters[i-1].psegs) |->
                 [owner |-> i-1, e |-> clusters[i-1].psegs[k]]]])
VsegTrav == [k \in 1..Len(globs) |-> [owner |-> 0, e |-> globs[k]]]
            \o FlattenSeq([v \in 1..Len(vspaces) |->
                 [k \in 1..Len(vspaces[v].vsegs) |->
                    [owner |-> v, e |-> vspaces[v].vsegs[k]]]])
TaskTrav == FlattenSeq([v \in 1..Len(vspaces) |->
              [k \in 1..Len(vspaces[v].tasks) |->
                 [owner |-> v, e |-> vspaces[v].tasks[k]]]])
ProcTrav == FlattenSeq([i \in 1..NClusters |->
              [k \in 1..Len(clusters[i-1].procs) |->
                 [owner |-> i-1, e |-> clusters[i-1].procs[k]]]])
IrqTrav == FlattenSeq([j \in 1..Len(PeriphOrder) |->
             [k \in 1..Len(PeriphOrder[j].irqs) |->
                [owner |-> j-1, e |-> PeriphOrder[j].irqs[k]]]])

-----------------------------------------------------------------------------
(* The failure each record would raise, "none" if it encodes.  The checks *)
(* of one record are taken in the order of its cbin() method.  The type  *)
(* lookups (segtype, vtype, mode, ptype, irqtype, isrtype) cannot fail:   *)
(* the add* calls only store members of the enumerations.  Of the strings *)
(* written by str2bytes only the mapping name, which every application    *)
(* lengthens, is followed: the entity names of the models are short.      *)

(* Mapping.str2bytes: a string shorter than nbytes-1 is written and NUL-  *)
(* padded to nbytes bytes; any other makes the run exit.                  *)
Str2BytesFits(nbytes, len) == len < nbytes - 1

IndexFail(order, k) == IF IndexChecked(order)[k] THEN "none" ELSE "index"

VspaceFail(v) ==
  CASE vspaces[v].index # v - 1                                   -> "index"
    [] VsegIdByName(vspaces[v], vspaces[v].startname) = NotFound -> "resolve"
    [] vspaces[v].vsegs = <<>>                                   -> "crash"
    [] vspaces[v].tasks = <<>>                                   -> "crash"
    [] OTHER                                                     -> "none"

VsegFail(k) ==
  LET vs == VsegOrder[k] IN
  CASE ~IndexChecked(VsegOrder)[k]                  -> "index"
    [] ClusterId(vs.x, vs.y) \notin ClusterIds      -> "crash"
    [] VsegPsegId(vs) = NotFound                    -> "resolve"
    [] OTHER                                        -> "none"

TaskFail(k) ==
  LET t == TaskTrav[k].e
      vsp == vspaces[TaskTrav[k].owner]
  IN CASE ~IndexChecked(TaskOrder)[k]                  -> "index"
       [] VsegIdByName(vsp, t.stackname) = NotFound    -> "resolve"
       [] TaskHeapId(vsp, t) = NotFound                -> "resolve"
       [] OTHER                                        -> "none"

\* The failures of the whole blob: the header name, then family after family.
CbinFailures ==
  << [fam |-> "header", kind |-> IF Str2BytesFits(64, nameLen) THEN "none" ELSE "name"] >>
  \o [k \in 1..Len(PsegOrder) |-> [fam |-> "pseg", kind |-> IndexFail(PsegOrder, k)]]
  \o [v \in 1..Len(vspaces) |-> [fam |-> "vspace", kind |-> VspaceFail(v)]]
  \o [k \in 1..Len(VsegOrder) |-> [fam |-> "vseg", kind |-> VsegFail(k)]]
  \o [k \in 1..Len(TaskOrder) |-> [fam |-> "task", kind |-> TaskFail(k)]]
  \o [k \in 1..Len(ProcOrder) |-> [fam |-> "proc", kind |-> IndexFail(ProcOrder, k)]]
  \o [k \in 1..Len(IrqOrder) |-> [fam |-> "irq", kind |-> IndexFail(IrqOrder, k)]]
  \o [k \in 1..Len(PeriphOrder) |->
        [fam |-> "periph", kind |-> IndexFail(PeriphOrder, k)]]

FirstFailure ==
  LET k == SelectInSeq(CbinFailures, LAMBDA f : f.kind # "none")
  IN IF k = 0 THEN None ELSE CbinFailures[k]

-----------------------------------------------------------------------------
(* The records of the blob.                                               *)

\* Faulty variant: an empty list gives the "not found" value.
FirstIndexSentinel(s) == IF s = <<>> THEN NotFound ELSE s[1].index

\* Global index of the first child, 0 for none (Cluster.cbin, Periph.cbin).
FirstIndex(s) == IF s = <<>> THEN 0 ELSE s[1].index

ClusterRec(c) ==
  [x |-> c.x, y |-> c.y,
   nb_psegs |-> Len(c.psegs), pseg_id |-> FirstIndex(c.psegs),
   nb_procs |-> Len(c.procs), proc_id |-> FirstIndex(c.procs),
   nb_periphs |-> Len(c.periphs), periph_id |-> FirstIndex(c.periphs)]

PsegRec(t) == [name |-> t.e.name, base |-> t.e.base, size |-> t.e.size,
               segtype |-> t.e.segtype, cluster |-> t.owner]

VspaceRec(vsp) ==
  [start_id |-> VsegIdByName(vsp, vsp.startname),
   nb_vsegs |-> Len(vsp.vsegs), nb_tasks |-> Len(vsp.tasks),
   vseg_id |-> vsp.vsegs[1].index, task_id |-> vsp.tasks[1].index]

\* ghost: owner (0 for a global vseg, else the vspace position), x, y, psegname
VsegRec(t) == [name |-> t.e.name, vbase |-> t.e.vbase, length |-> t.e.length,
               pseg_id |-> VsegPsegId(t.e), identity |-> t.e.identity,
               owner |-> t.owner, x |-> t.e.x, y |-> t.e.y,
               psegname |-> t.e.psegname]

\* ghost: owner, stackname, heapname
TaskRec(t) ==
  [cluster_id |-> ClusterId(t.e.x, t.e.y), p |-> t.e.p,
   stack_id |-> VsegIdByName(vspaces[t.owner], t.e.stackname),
   heap_id |-> TaskHeapId(vspaces[t.owner], t.e),
   owner |-> t.owner, stackname |-> t.e.stackname, heapname |-> t.e.heapname]

\* ghost: owner
ProcRec(t) == [lpid |-> t.e.lpid, owner |-> t.owner]

\* ghost: owner (position of the periph in emission order), src
IrqRec(t) == [srcid |-> t.e.srcid, isrtype |-> t.e.isrtype,
              channel |-> t.e.channel, owner |-> t.owner, src |-> t.e.src]

PeriphRec(p) ==
  [ptype |-> p.ptype, subtype |-> p.subtype, pseg_id |-> p.pseg.index,
   channels |-> p.channels, nb_irqs |-> Len(p.irqs), irq_id |-> FirstIndex(p.irqs)]

Blob ==
  [ok       |-> TRUE,
   header   |-> [globals |-> total_globals, vspaces |-> total_vspaces,
                 psegs |-> total_psegs, vsegs |-> total_vsegs, tasks |-> total_tasks,
                 procs |-> total_procs, irqs |-> total_irqs, periphs |-> total_periphs],
   clusters |-> [i \in 1..NClusters |-> ClusterRec(clusters[i-1])],
   psegs    |-> [k \in 1..Len(PsegTrav) |-> PsegRec(PsegTrav[k])],
   vspaces  |-> [v \in 1..Len(vspaces) |-> VspaceRec(vspaces[v])],
   vsegs    |-> [k \in 1..Len(VsegTrav) |-> VsegRec(VsegTrav[k])],
   tasks    |-> [k \in 1..Len(TaskTrav) |-> TaskRec(TaskTrav[k])],
   procs    |-> [k \in 1..Len(ProcTrav) |-> ProcRec(ProcTrav[k])],
   irqs     |-> [k \in 1..Len(IrqTrav) |-> IrqRec(IrqTrav[k])],
   periphs  |-> [k \in 1..Len(PeriphOrder) |-> PeriphRec(PeriphOrder[k])]]

(* Mapping.cbin(): the whole blob, or the first failure and the exit.     *)
cbin ==
  /\ phase = "build"
  /\ bin = None
  /\ LET f == FirstFailure IN
     IF f = None
     THEN /\ bin' = Blob
          /\ phase' = "emitted"
     ELSE /\ bin' = [ok |-> FALSE, fam |-> f.fam, kind |-> f.kind]
          /\ phase' = "failed"
  /\ UNCHANGED <<clusters, globs, vspaces, counters, inOrder, nameLen>>

\* The run is over: the process exited or wrote its output.
Terminated == phase \in {"failed", "emitted"} /\ UNCHANGED vars

Next ==
  \/ Build
  \/ cbin
  \/ Terminated

Spec == Init /\ [][Next]_vars

-----------------------------------------------------------------------------
(* Properties.                                                            *)

TypeOK ==
  /\ phase \in {"build", "failed", "emitted"}
  /\ inOrder \in BOOLEAN
  /\ \A i \in 1..8 : counters[i] \in Nat
  /\ nameLen \in Nat
  /\ Len(PsegOrder) = total_psegs /\ Len(ProcOrder) = total_procs
  /\ Len(PeriphOrder) = total_periphs /\ Len(VsegOrder) = total_vsegs
  /\ Len(TaskOrder) = total_tasks /\ Len(vspaces) = total_vspaces
  /\ Len(globs) = total_globals /\ Len(IrqOrder) = total_irqs
  /\ bin = None \/ bin.ok \in BOOLEAN
  /\ bin # None => phase = IF bin.ok THEN "emitted" ELSE "failed"
  /\ bin # None /\ bin.ok =>
       /\ \A i \in DOMAIN bin.clusters :
            {bin.clusters[i].pseg_id, bin.clusters[i].proc_id,
             bin.clusters[i].periph_id} \subseteq Nat
       /\ \A j \in DOMAIN bin.periphs : bin.periphs[j].irq_id \in Nat

Emitted == bin # None /\ bin.ok

\* The k-th child (k from 0) of a range [first, first+n) of the blob.
Slot(arr, first, k) == arr[first + k + 1]
InArr(arr, first, n) == first + n <= Len(arr)

(* The first-index/count pairs written by Cluster.cbin, Vspace.cbin and  *)
(* Periph.cbin are what the boot code follows: the k-th pseg, proc and   *)
(* periph from a cluster's first id belong to that cluster, the k-th     *)
(* vseg and task from a vspace's first id belong to that vspace, the     *)
(* k-th irq from a periph's first id was added to that periph, and the   *)
(* pseg of a periph is in the periph's cluster.  The index checks of the *)
(* cbin() methods exist to make this hold for whatever order the         *)
(* add* calls came in.                                                   *)
BlobOwnership ==
  Emitted =>
  LET b == bin IN
  /\ \A i \in 1..NClusters :
       LET c == b.clusters[i] IN
       /\ InArr(b.psegs, c.pseg_id, c.nb_psegs)
       /\ InArr(b.procs, c.proc_id, c.nb_procs)
       /\ InArr(b.periphs, c.periph_id, c.nb_periphs)
       /\ \A k \in 0..c.nb_psegs - 1 : Slot(b.psegs, c.pseg_id, k).cluster = i - 1
       /\ \A k \in 0..c.nb_procs - 1 : Slot(b.procs, c.proc_id, k).owner = i - 1
       /\ \A k \in 0..c.nb_periphs - 1 :
            b.psegs[Slot(b.periphs, c.periph_id, k).pseg_id + 1].cluster = i - 1
  /\ \A v \in 1..Len(b.vspaces) :
       LET s == b.vspaces[v] IN
       /\ InArr(b.vsegs, s.vseg_id, s.nb_vsegs) /\ InArr(b.tasks, s.task_id, s.nb_tasks)
       /\ \A k \in 0..s.nb_vsegs - 1 : Slot(b.vsegs, s.vseg_id, k).owner = v
       /\ \A k \in 0..s.nb_tasks - 1 : Slot(b.tasks, s.task_id, k).owner = v
  /\ \A j \in 1..Len(b.periphs) :
       LET p == b.periphs[j] IN
       /\ InArr(b.irqs, p.irq_id, p.nb_irqs)
       /\ \A k \in 0..p.nb_irqs - 1 : Slot(b.irqs, p.irq_id, k).owner = j - 1

(* Vspace.cbin and Task.cbin resolve the start, stack and heap vsegs by  *)
(* name: the id written must be a vseg of the same vspace carrying that  *)
(* name, and an empty heap name gives 0.                                  *)
VspaceRefsLocal ==
  Emitted =>
  LET b == bin
      Names(r, n) == r.owner # 0 /\ b.vsegs[r.id + 1].name = n
                     /\ b.vsegs[r.id + 1].owner = r.owner
  IN /\ \A v \in 1..Len(b.vspaces) :
          Names([owner |-> v, id |-> b.vspaces[v].start_id], vspaces[v].startname)
     /\ \A k \in 1..Len(b.tasks) :
          LET t == b.tasks[k] IN
          /\ Names([owner |-> t.owner, id |-> t.stack_id], t.stackname)
          /\ t.heapname = NoName => t.heap_id = 0
          /\ t.heapname # NoName =>
               Names([owner |-> t.owner, id |-> t.heap_id], t.heapname)

(* Vseg.cbin resolves the destination pseg by name in cluster            *)
(* x*y_size+y: the pseg it writes has the vseg's psegname and lies in    *)
(* the cluster of coordinates (x,y) the vseg was placed at.              *)
VsegPlacement ==
  Emitted =>
  \A k \in 1..Len(bin.vsegs) :
    LET r == bin.vsegs[k]
        ps == bin.psegs[r.pseg_id + 1]
    IN /\ ps.name = r.psegname
       /\ bin.clusters[ps.cluster + 1].x = r.x
       /\ bin.clusters[ps.cluster + 1].y = r.y

(* The index checks of the cbin() methods reject exactly the builds that *)
(* did not append every entity at the end of its family's emission       *)
(* order: a blob is produced only for such a build, and an "index"      *)
(* exit happens only for a build that broke that order.                  *)
DisciplineEncodes ==
  /\ Emitted => inOrder
  /\ (bin # None /\ ~bin.ok /\ bin.kind = "index") => ~inOrder

(* addIrq binds a source periph to the first controller it is wired to  *)
(* and exits on a second one: while the run goes on, every irq of a      *)
(* controller comes from a periph whose irq_ctrl is that controller.     *)
IrqSourceBound ==
  phase # "failed" =>
  \A j \in 1..Len(PeriphOrder) : \A k \in 1..Len(PeriphOrder[j].irqs) :
    LET l == PeriphLoc(PeriphOrder[j].irqs[k].src)
    IN clusters[l[1]].periphs[l[2]].irq_ctrl = PeriphOrder[j].index

=============================================================================
