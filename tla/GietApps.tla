------------------------------ MODULE GietApps ------------------------------
(***************************************************************************)
(* The application scripts src/applications/*/*.py composed with the      *)
(* registry and the binary encoder.  A platform script has built the      *)
(* hardware (one RAM pseg per cluster, some processors per cluster); it   *)
(* then calls the extend(mapping) function of some applications, one     *)
(* after the other, and finally asks for the blob.                        *)
(*                                                                         *)
(* extend() is one action: the script's addVspace, its addVseg and       *)
(* addTask calls in the order of its loops, and the final                *)
(* `mapping.name += '_app'`.  Any assert of those calls ends the run; the *)
(* partial vspace left behind is never read, so an aborted extend leaves  *)
(* the mapping as it was and sets phase to "failed".                     *)
(*                                                                         *)
(* The scripts share one shape, so each is described by a record (its    *)
(* constants, the vsegs it adds once, its per-cluster and per-processor   *)
(* vseg groups in loop order, its tasks) and one set of operators lays    *)
(* the record out on the platform.  A name is a tuple: <<'sort_data'>>,  *)
(* and <<prefix, x, y>> or <<prefix, x, y, p>> for one built with '%d'. A  *)
(* binpath is the application's name, '' is NoName.  Addresses keep their *)
(* byte values.                                                           *)
(***************************************************************************)
EXTENDS GietCbin

CONSTANTS
  Apps,          \* names of the applications a platform script may extend with
  ProcCounts,    \* platforms: functions giving each cluster's number of processors
  MaxApps        \* bound on the number of extend() calls

VARIABLE calls   \* history: the applications extended so far, in call order

appVars == <<regVars, calls>>

-----------------------------------------------------------------------------
(* The platform: Mapping(), then addRam and addProc in cluster order.     *)

\* The number of processors added before those of cluster c.
ProcsBefore(np, c) == MapThenSumSet(LAMBDA d : np[d], {d \in ClusterIds : d < c})

PlatformClusters(np) ==
  [c \in ClusterIds |->
     LET x == c \div YSize
         y == c % YSize
     IN [x |-> x, y |-> y, index |-> c,
         psegs |-> << [name |-> "RAM", base |-> (x * 2^YWidth + y) * 2^LsbWidth + RamBase,
                       size |-> RamSize, x |-> x, y |-> y, segtype |-> "RAM",
                       index |-> c] >>,
         procs |-> [k \in 1..np[c] |->
                      [x |-> x, y |-> y, lpid |-> k - 1,
                       index |-> ProcsBefore(np, c) + k - 1]],
         periphs |-> <<>>]]

AppsInit ==
  \E np \in ProcCounts :
    /\ clusters = PlatformClusters(np)
    /\ globs = <<>>
    /\ vspaces = <<>>
    /\ total_psegs = NClusters /\ total_procs = ProcsBefore(np, NClusters)
    /\ total_vsegs = 0 /\ total_globals = 0 /\ total_tasks = 0
    /\ total_irqs = 0 /\ total_periphs = 0 /\ total_vspaces = 0
    /\ phase = "build"
    /\ inOrder = TRUE
    /\ bin = None
    /\ nameLen = NameLen
    /\ calls = <<>>

-----------------------------------------------------------------------------
(* The description of one script.                                         *)

\* One addVseg call, on the pseg 'RAM' of cluster (x, y).
Seg(name, vbase, length, vtype, x, y, local, binpath) ==
  [name |-> name, vbase |-> vbase, length |-> length, vtype |-> vtype,
   x |-> x, y |-> y, local |-> local, binpath |-> binpath]

\* One addTask call.
Task(x, y, p, stackname, heapname) ==
  [x |-> x, y |-> y, p |-> p, stackname |-> stackname, heapname |-> heapname]

\* A loop adding one vseg per cluster: "shared" keeps one name and one base,
\* "replica" names it <<name, x, y>> at one base, "spread" names it so at
\* base + cluster_id * size.
Group(kind, name, base, size, vtype, local, binpath) ==
  [kind |-> kind, name |-> name, base |-> base, size |-> size, vtype |-> vtype,
   local |-> local, binpath |-> binpath]

\* The loop adding one local stack per processor; masked: the size is
\* rounded down to a page with & 0xFFFFF000.
Stack(name, base, size, masked) ==
  [kind |-> "stack", name |-> name, base |-> base, size |-> size, masked |-> masked]

\* suffix: len('_app'); requires: the script's own asserts; fixed: the vsegs
\* added once; groups: the loops in order; everyCluster: the loops do not
\* skip clusters without processors; tasks: the tasks added once, then
\* (if stack # NoName) one task per processor on <<stack,x,y,p>> and
\* <<heap,x,y>> (NoName: no heap).
App(suffix, start, requires, fixed, groups, everyCluster, tasks, stack, heap) ==
  [suffix |-> suffix, start |-> start, requires |-> requires, fixed |-> fixed,
   groups |-> groups, everyCluster |-> everyCluster, tasks |-> tasks,
   stack |-> stack, heap |-> heap]

-----------------------------------------------------------------------------
(* The scripts.  Sizes and bases are those of the scripts' constants.     *)

SortApp ==
  App(5, <<"sort_data">>, TRUE,
      << Seg(<<"sort_data">>, \h20000000, \h10000, "ELF", 0, 0, FALSE, "sort") >>,
      << Group("shared", "sort_code", \h10000000, \h10000, "ELF", TRUE, "sort"),
         Stack("sort_stack", \h40000000, \h200000, FALSE),
         Group("spread", "sort_heap", \h60000000, \h200000, "BUFFER", FALSE, NoName) >>,
      FALSE, <<>>, "sort_stack", "sort_heap")

ConvolApp ==
  App(7, <<"conv_data">>, TRUE,
      << Seg(<<"conv_data">>, \h20000000, \h20000, "ELF", 0, 0, FALSE, "convol") >>,
      << Group("replica", "conv_code", \h10000000, \h10000, "ELF", TRUE, "convol"),
         Stack("conv_stack", \h50000000, \h200000, TRUE),
         Group("spread", "conv_heap", \h40000000, \h1000000, "BUFFER", FALSE, NoName) >>,
      FALSE, <<>>, "conv_stack", "conv_heap")

GameoflifeApp ==
  App(4, <<"gol_data">>, TRUE,
      << Seg(<<"gol_data">>, \h20000000, \h200000, "ELF", 0, 0, FALSE, "gameoflife") >>,
      << Group("spread", "gol_heap", \h30000000, \h40000, "HEAP", FALSE, NoName),
         Group("replica", "gol_code", \h10000000, \h10000, "ELF", TRUE, "gameoflife"),
         Stack("gol_stack", \h40000000, \h200000, TRUE) >>,
      FALSE, <<>>, "gol_stack", "gol_heap")

\* classif asserts nprocs >= 3 before it adds its vspace.
ClassifApp ==
  App(8, <<"classif_data">>, NProcs >= 3,
      << Seg(<<"classif_data">>, \h20000000, \h10000, "ELF", 0, 0, FALSE, "classif") >>,
      << Group("spread", "classif_heap", \h30000000, \h40000, "HEAP", FALSE, NoName),
         Group("replica", "classif_code", \h10000000, \h10000, "ELF", TRUE, "classif"),
         Stack("classif_stack", \h40000000, \h200000, TRUE) >>,
      FALSE, <<>>, "classif_stack", "classif_heap")

OceanApp ==
  App(6, <<"ocean_data">>, TRUE,
      << Seg(<<"ocean_data">>, \h20000000, \h20000, "ELF", 0, 0, FALSE, "ocean") >>,
      << Group("replica", "ocean_code", \h10000000, \h100000, "ELF", TRUE, "ocean"),
         Stack("ocean_stack", \h40000000, \h200000, TRUE),
         Group("spread", "ocean_heap", \h60000000, \h8000000, "HEAP", FALSE, NoName),
         Group("replica", "ocean_ldata", \h20200000, \h4000, "BUFFER", TRUE, NoName) >>,
      FALSE, <<>>, "ocean_stack", "ocean_heap")

RaycastApp ==
  App(8, <<"raycast_data">>, TRUE,
      << Seg(<<"raycast_data">>, \h20000000, \h40000, "ELF", 0, 0, FALSE, "raycast") >>,
      << Group("replica", "raycast_code", \h10000000, \h10000, "ELF", TRUE, "raycast"),
         Stack("raycast_stack", \h40000000, \h200000, TRUE),
         Group("spread", "raycast_heap", \h60000000, \h400000, "HEAP", FALSE, NoName) >>,
      FALSE, <<>>, "raycast_stack", "raycast_heap")

TransposeApp ==
  App(10, <<"trsp_data">>, TRUE,
      << Seg(<<"trsp_data">>, \h20000000, \h10000, "ELF", 0, 0, FALSE, "transpose") >>,
      << Group("replica", "trsp_code", \h10000000, \h10000, "ELF", TRUE, "transpose"),
         Stack("trsp_stack", \h40000000, \h200000, TRUE),
         Group("spread", "trsp_heap", \h60000000, \h200000, "HEAP", FALSE, NoName) >>,
      FALSE, <<>>, "trsp_stack", "trsp_heap")

\* router loops over every cluster, populated or not, and its tasks have
\* no heap ('').
RouterApp ==
  App(7, <<"router_data_0">>, TRUE,
      << Seg(<<"router_data_0">>, \h20000000, \h10000, "ELF", 0, 0, FALSE, "router"),
         Seg(<<"router_data_1">>, \h30000000, \h10000, "ELF", XSize - 1, YSize - 1,
             FALSE, "router") >>,
      << Group("replica", "router_code", \h10000000, \h10000, "ELF", TRUE, "router"),
         Stack("router_stack", \h40000000, \h200000, FALSE) >>,
      TRUE, <<>>, "router_stack", NoName)

\* coproc asserts (0,0) is in the grid and `clusters[0].procs != 0`; the
\* second compares a Python list with an int and always holds.
ListIsNotInt == TRUE

CoprocApp ==
  App(7, <<"coproc_data">>, InGrid(0, 0) /\ ListIsNotInt,
      << Seg(<<"coproc_data">>, \h20000000, \h10000, "ELF", 0, 0, FALSE, "coproc"),
         Seg(<<"coproc_code">>, \h10000000, \h10000, "ELF", 0, 0, FALSE, "coproc"),
         Seg(<<"coproc_stack">>, \h40000000, \h200000, "BUFFER", 0, 0, FALSE, NoName) >>,
      <<>>, FALSE, << Task(0, 0, 0, <<"coproc_stack">>, NoName) >>, NoName, NoName)

DisplayApp ==
  App(8, <<"disp_data">>, TRUE,
      << Seg(<<"disp_data">>, \h20000000, \h40000, "ELF", 0, 0, FALSE, "display"),
         Seg(<<"disp_code">>, \h10000000, \h10000, "ELF", 0, 0, FALSE, "display"),
         Seg(<<"disp_stack">>, \h40000000, \h200000, "BUFFER", 0, 0, FALSE, NoName),
         Seg(<<"disp_heap">>, \h60000000, \h1000, "BUFFER", 0, 0, FALSE, NoName) >>,
      <<>>, FALSE, << Task(0, 0, 1, <<"disp_stack">>, <<"disp_heap">>) >>, NoName, NoName)

ShellApp ==
  App(6, <<"shell_data">>, TRUE,
      << Seg(<<"shell_data">>, \h20000000, \h80000, "ELF", 0, 0, FALSE, "shell"),
         Seg(<<"shell_code">>, \h10000000, \h10000, "ELF", 0, 0, FALSE, "shell"),
         Seg(<<"shell_stack">>, \h40000000, \h200000, "BUFFER", 0, 0, FALSE, NoName),
         Seg(<<"shell_heap">>, \h60000000, \h1000, "BUFFER", 0, 0, FALSE, NoName) >>,
      <<>>, FALSE, << Task(0, 0, 0, <<"shell_stack">>, <<"shell_heap">>) >>, NoName, NoName)

AppDefs == [sort |-> SortApp, convol |-> ConvolApp, gameoflife |-> GameoflifeApp,
            classif |-> ClassifApp, ocean |-> OceanApp, raycast |-> RaycastApp,
            transpose |-> TransposeApp, router |-> RouterApp, coproc |-> CoprocApp,
            display |-> DisplayApp, shell |-> ShellApp]

-----------------------------------------------------------------------------
(* Laying a script out on the platform: the loops `for x in              *)
(* xrange(x_size): for y in xrange(y_size)` visit the cluster ids         *)
(* x*y_size+y in increasing order and skip, unless everyCluster, the     *)
(* clusters whose procs list is empty; `for p in xrange(nprocs)` visits  *)
(* every local index below nprocs.                                        *)

\* Faulty variant: the `if mapping.clusters[cluster_id].procs` test left out.
PopulatedAny(a, c) == TRUE

Populated(a, c) == a.everyCluster \/ clusters[c].procs # <<>>

\* The cluster ids the loops visit, in increasing order.
AppClusters(a) == SelectSeq([i \in 1..NClusters |-> i - 1], LAMBDA c : Populated(a, c))

CoordX(c) == c \div YSize
CoordY(c) == c % YSize

\* size = stack_size / nprocs, & 0xFFFFF000 when masked (Python 2 division).
StackSize(g) ==
  IF g.masked THEN ((g.size \div NProcs) \div 4096) * 4096 ELSE g.size \div NProcs

\* Faulty variant: the processor's own index left out of proc_id.
StackSegSameBase(g, c, p) ==
  Seg(<<g.name, CoordX(c), CoordY(c), p>>, g.base + c * NProcs * StackSize(g),
      StackSize(g), "BUFFER", CoordX(c), CoordY(c), TRUE, NoName)

\* The stack of processor p of cluster c: proc_id = cluster_id*nprocs + p.
StackSeg(g, c, p) ==
  Seg(<<g.name, CoordX(c), CoordY(c), p>>, g.base + (c * NProcs + p) * StackSize(g),
      StackSize(g), "BUFFER", CoordX(c), CoordY(c), TRUE, NoName)

\* The vseg of a per-cluster loop for cluster c.
ClusterSeg(g, c) ==
  Seg(IF g.kind = "shared" THEN <<g.name>> ELSE <<g.name, CoordX(c), CoordY(c)>>,
      IF g.kind = "spread" THEN g.base + c * g.size ELSE g.base,
      g.size, g.vtype, CoordX(c), CoordY(c), g.local, g.binpath)

GroupSegs(a, g) ==
  LET cs == AppClusters(a) IN
  IF g.kind = "stack"
  THEN [i \in 1..Len(cs) * NProcs |->
          StackSeg(g, cs[(i - 1) \div NProcs + 1], (i - 1) % NProcs)]
  ELSE [i \in 1..Len(cs) |-> ClusterSeg(g, cs[i])]

\* Every addVseg call of the script, in call order.
AppSegs(a) == a.fixed \o FlattenSeq([k \in 1..Len(a.groups) |-> GroupSegs(a, a.groups[k])])

\* Faulty variant: the heap name formatted with (y, x).
HeapNameSwapped(a, x, y) == IF a.heap = NoName THEN NoName ELSE <<a.heap, y, x>>

\* The heap named by the tasks of cluster (x, y).
HeapName(a, x, y) == IF a.heap = NoName THEN NoName ELSE <<a.heap, x, y>>

\* Every addTask call of the script, in call order.
AppTasks(a) ==
  LET cs == AppClusters(a) IN
  a.tasks \o
    IF a.stack = NoName THEN <<>>
    ELSE [i \in 1..Len(cs) * NProcs |->
            LET c == cs[(i - 1) \div NProcs + 1]
                p == (i - 1) % NProcs
            IN Task(CoordX(c), CoordY(c), p, <<a.stack, CoordX(c), CoordY(c), p>>,
                    HeapName(a, CoordX(c), CoordY(c)))]

\* The asserts of the Vseg constructor and of addVseg: the 32-bit tests
\* (vbase & 0xFFFFFFFF) == vbase are written without 2^32.
Fits32(n) == n >= 0 /\ n \div 2^16 < 2^16
SegOk(s) == Fits32(s.vbase) /\ Fits32(s.length) /\ InGrid(s.x, s.y)
            /\ VsegOk(s.vtype, s.binpath)

\* The asserts of addTask.
TaskOk(t) == InGrid(t.x, t.y) /\ t.p < NProcs

\* The calls of the script whose asserts fail.
FailingSegs(a) == {i \in 1..Len(AppSegs(a)) : ~SegOk(AppSegs(a)[i])}
FailingTasks(a) == {j \in 1..Len(AppTasks(a)) : ~TaskOk(AppTasks(a)[j])}

\* The script's asserts, then those of each of its calls.
AppOk(a) == a.requires /\ FailingSegs(a) = {} /\ FailingTasks(a) = {}

(* extend(mapping) of the script app: its asserts, addVspace, the addVseg *)
(* and addTask calls stamped with the running counters, and the name      *)
(* suffix.  The new vspace is the last one, so the build discipline is    *)
(* kept.                                                                  *)
extend(app) ==
  LET a == AppDefs[app]
      segs == AppSegs(a)
      tsks == AppTasks(a)
      ok == AppOk(a)
  IN /\ phase = "build"
     /\ Len(calls) < MaxApps
     /\ \/ /\ ok
           /\ vspaces' = Append(vspaces,
                [startname |-> a.start, index |-> total_vspaces,
                 vsegs |-> [k \in 1..Len(segs) |->
                              LET s == segs[k] IN
                              Vseg(s.name, s.vbase, s.length, s.vtype, s.x, s.y, "RAM",
                                   FALSE, s.local, s.binpath, total_vsegs + k - 1)],
                 tasks |-> [k \in 1..Len(tsks) |->
                              tsks[k] @@ [index |-> total_tasks + k - 1]]])
           /\ total_vspaces' = total_vspaces + 1
           /\ total_vsegs' = total_vsegs + Len(segs)
           /\ total_tasks' = total_tasks + Len(tsks)
           /\ nameLen' = nameLen + a.suffix
           /\ calls' = Append(calls, app)
           /\ UNCHANGED <<clusters, globs, total_psegs, total_globals, total_procs,
                          total_irqs, total_periphs, phase, inOrder, bin>>
        \/ /\ ~ok
           /\ Abort
           /\ UNCHANGED calls

AppsNext ==
  \/ \E app \in Apps : extend(app)
  \/ cbin /\ UNCHANGED calls
  \/ Terminated /\ UNCHANGED calls

AppsSpec == AppsInit /\ [][AppsNext]_appVars

-----------------------------------------------------------------------------
(* Properties.                                                            *)

(* The encoder never exits on a mapping the application scripts built:   *)
(* every vspace's startname, every task's stack and heap name resolves   *)
(* inside its vspace, every stamped index is its emission position and    *)
(* every vspace has a vseg and a task for Vspace.cbin to read.            *)
AppsEncode == bin # None => bin.ok

(* Two vsegs of one vspace that the kernel maps in one page table do not *)
(* overlap.  A local vseg is mapped only in the page table of its own     *)
(* cluster, every other vseg in all of them; the scripts place stacks,   *)
(* heaps and code at base + index * size, and nothing checks that the     *)
(* ranges stay apart.                                                     *)
SharePageTable(s, t) ==
  ~s.local \/ ~t.local \/ ClusterId(s.x, s.y) = ClusterId(t.x, t.y)
Overlap(s, t) == s.vbase < t.vbase + t.length /\ t.vbase < s.vbase + s.length
AppVsegsDisjoint ==
  \A v \in 1..Len(vspaces) :
    LET vs == vspaces[v].vsegs IN
    \A i, j \in 1..Len(vs) :
      i < j /\ SharePageTable(vs[i], vs[j]) => ~Overlap(vs[i], vs[j])

(* Every task the scripts add runs on a processor the platform has: its  *)
(* cluster holds a processor of local index p.  addTask only checks      *)
(* p < nprocs, the maximum number of processors per cluster.  router,    *)
(* the one script without the procs test of its cluster loop, is left    *)
(* out (vspace v is the one the v-th extend() call added).               *)
TaskOnProc ==
  \A v \in 1..Len(vspaces) : calls[v] # "router" => \A k \in 1..Len(vspaces[v].tasks) :
    LET t == vspaces[v].tasks[k] IN
    \E q \in 1..Len(clusters[ClusterId(t.x, t.y)].procs) :
      clusters[ClusterId(t.x, t.y)].procs[q].lpid = t.p

(* The header's 64-byte name field holds the mapping name and its NUL    *)
(* padding: the encoder refuses the name only when it is longer than the *)
(* field, as the encoding's contract requires.                           *)
HeaderNameRefusedOnlyIfTooLong ==
  (bin # None /\ ~bin.ok /\ bin.fam = "header") => nameLen > 64

=============================================================================
