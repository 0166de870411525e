----------------------------- MODULE GietHeaders -----------------------------
(***************************************************************************)
(* The two header exporters of giet_python/mapping.py, hard_config()      *)
(* (hard_config.h) and giet_vsegs() (giet_vsegs.ld), added to the device-  *)
(* tree exporters of GietDts: a caller builds the graph, then asks for one *)
(* artifact.                                                              *)
(*                                                                         *)
(* An artifact is kept as what its #define lines or linker symbols are    *)
(* taken from: for every periph type, how many periphs the walk met and   *)
(* which periph the last one was (its base, size, channels and args are   *)
(* the ones written: each loop iteration overwrites them); the IOC and    *)
(* MWR subtypes met; which global vseg each boot or kernel symbol is      *)
(* taken from.  The text is left out.  A failure keeps its exit status:   *)
(* the boot-vseg checks call sys.exit() without an argument, which ends   *)
(* the process with status 0.                                             *)
(*                                                                         *)
(* Vseg names are model values; NameText, Head13 and Head15 give each     *)
(* name, name[0:13] and name[0:15], the strings the exporters compare.    *)
(***************************************************************************)
EXTENDS GietDts

CONSTANTS
  UseRamdisk,     \* use_ramdisk argument of Mapping()
  NameText,       \* NameText[n]: the string of vseg name n
  Head13,         \* Head13[n]: n[0:13]
  Head15,         \* Head15[n]: n[0:15]
  BootPlatforms   \* global vseg lists [name, vbase, length, identity] a
                  \* platform script may have added before any other call

ASSUME UseRamdisk \in BOOLEAN

-----------------------------------------------------------------------------
(* The registry after the platform script's addGlobal calls for the      *)
(* entries of g, in order (the lists are chosen without overlaps, so     *)
(* every call succeeds).                                                  *)

PlatformInit(g) ==
  /\ clusters = [i \in ClusterIds |->
                   [x |-> i \div YSize, y |-> i % YSize, index |-> i,
                    psegs |-> <<>>, procs |-> <<>>, periphs |-> <<>>]]
  /\ globs = [k \in 1..Len(g) |->
                Vseg(g[k].name, g[k].vbase, g[k].length, "BUFFER", 0, 0, None,
                     g[k].identity, FALSE, NoName, k - 1)]
  /\ vspaces = <<>>
  /\ total_psegs = 0 /\ total_vsegs = Len(g) /\ total_globals = Len(g)
  /\ total_tasks = 0 /\ total_procs = 0 /\ total_irqs = 0
  /\ total_periphs = 0 /\ total_vspaces = 0
  /\ phase = "build"
  /\ inOrder = TRUE
  /\ bin = None
  /\ nameLen = NameLen

HeadersInit == Init \/ \E g \in BootPlatforms : PlatformInit(g)

-----------------------------------------------------------------------------
(* hard_config (lines 701-1141).                                          *)

\* The periphs of type t in walk order (clusters, then their periph list).
PeriphsOfType(t) == SelectSeq(PeriphOrder, LAMBDA q : q.ptype = t)

\* nb_<t>: one increment per periph of the type.
HcCount(t) == Len(PeriphsOfType(t))

\* The periph whose pseg base, size, channels and args seg_<t>_* hold: the
\* last one, as every iteration overwrites them; None keeps the defaults.
HcLast(t) ==
  IF HcCount(t) = 0 THEN None ELSE PeriphsOfType(t)[HcCount(t)].index

\* use_ioc_* and use_mwr_*: the subtypes met.
HcKinds(t) == {PeriphsOfType(t)[k].subtype : k \in 1..HcCount(t)}

\* nb_ioc_types: the IOC subtypes met, and the ramdisk.
IocTypes == Cardinality(HcKinds("IOC")) + (IF UseRamdisk THEN 1 ELSE 0)

\* The types whose number is asserted to be at most two.
HcBounded == {"FBF", "CMA", "IOC", "NIC", "TIM", "TTY", "PIC"}

\* Total of len(cluster.procs) over the clusters.
NbTotalProcs == Len(ProcOrder)

\* The last global vseg named s (the search loop never breaks).
LastGlobal(s) ==
  LET j == SelectLastInSeq(globs, LAMBDA v : NameText[v.name] = s)
  IN IF j = 0 THEN None ELSE globs[j]

HcBootNames == {"seg_boot_mapping", "seg_boot_code", "seg_boot_data", "seg_boot_stack"}

\* boot_<x>_found and boot_<x>_identity, both from the last match.
BootOk(s) == LastGlobal(s) # None /\ LastGlobal(s).identity

\* xcu_arg1 and xcu_arg2 are bound only in the XCU branch of the loop.
XcuArgs == HcLast("XCU")

HcFailure ==
  CASE \E t \in HcBounded : HcCount(t) > 2            -> Fail("assert", None)
    [] IocTypes # 1                                  -> Fail("assert", None)
    [] HcCount("MWR") > 0 /\ Cardinality(HcKinds("MWR")) # 1
                                                     -> Fail("assert", None)
    [] \E s \in HcBootNames : ~BootOk(s)             -> FailStatus("exit", None, 0)
    [] UseRamdisk /\ LastGlobal("seg_ramdisk") = None -> Fail("exit", None)
    [] XcuArgs = None                                -> Fail("crash", None)
    [] OTHER                                         -> None

HardConfigOf ==
  IF HcFailure # None
  THEN [ok |-> FALSE, dialect |-> "hard_config", cpus |-> <<>>, lines |-> {},
        fail |-> HcFailure, hdr |-> None]
  ELSE [ok |-> TRUE, dialect |-> "hard_config", cpus |-> <<>>, lines |-> {},
        fail |-> None,
        hdr |-> [procs |-> NbTotalProcs,
                 count |-> [t \in PERIPHTYPES |-> HcCount(t)],
                 last |-> [t \in PERIPHTYPES |-> HcLast(t)],
                 ioc |-> HcKinds("IOC"), mwr |-> HcKinds("MWR"), xcu |-> XcuArgs,
                 boot |-> [s \in HcBootNames |-> LastGlobal(s).index],
                 rdk |-> IF UseRamdisk THEN LastGlobal("seg_ramdisk").index ELSE None]]

hard_config == Emit(HardConfigOf)

-----------------------------------------------------------------------------
(* giet_vsegs (lines 615-698): the boot and kernel vsegs are matched by   *)
(* the first 13 or 15 characters of their name, the last match wins, and  *)
(* a missing one ends the run with sys.exit().                            *)

LdSymbols == <<[sym |-> "boot_code",   head |-> 13, text |-> "seg_boot_code"],
               [sym |-> "boot_data",   head |-> 13, text |-> "seg_boot_data"],
               [sym |-> "kernel_data", head |-> 15, text |-> "seg_kernel_data"],
               [sym |-> "kernel_code", head |-> 15, text |-> "seg_kernel_code"],
               [sym |-> "kernel_init", head |-> 15, text |-> "seg_kernel_init"]>>

HeadOf(v, n) == IF n = 13 THEN Head13[v.name] ELSE Head15[v.name]

\* The global vseg a linker symbol is taken from.
LdVseg(l) ==
  LET j == SelectLastInSeq(globs, LAMBDA v : HeadOf(v, l.head) = l.text)
  IN IF j = 0 THEN None ELSE globs[j]

GietVsegsOf ==
  IF \E k \in 1..Len(LdSymbols) : LdVseg(LdSymbols[k]) = None
  THEN [ok |-> FALSE, dialect |-> "giet_vsegs", cpus |-> <<>>, lines |-> {},
        fail |-> FailStatus("exit", None, 0), hdr |-> None]
  ELSE [ok |-> TRUE, dialect |-> "giet_vsegs", cpus |-> <<>>, lines |-> {},
        fail |-> None,
        hdr |-> [s \in {LdSymbols[k].sym : k \in 1..Len(LdSymbols)} |->
                   LdVseg(CHOOSE l \in {LdSymbols[k] : k \in 1..Len(LdSymbols)} :
                            l.sym = s).index]]

giet_vsegs == Emit(GietVsegsOf)

HeadersNext ==
  \/ Next
  \/ hard_config
  \/ giet_vsegs

HeadersSpec == HeadersInit /\ [][HeadersNext]_vars

-----------------------------------------------------------------------------
(* Properties.                                                            *)

(* A run that stops without writing its artifact tells its caller: every *)
(* failure of every exporter ends the process with a non-zero exit       *)
(* status, as the sys.exit(1) calls and the asserts do.                  *)
ExitStatusNonZero ==
  bin # None /\ ~bin.ok => bin.fail.status # 0

=============================================================================
