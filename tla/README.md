# TLA+ models of the GIET-VM mapping generator

`src/giet_python/mapping.py` builds the description of a GIET-VM platform and its
applications (the "mapping"), then writes it out in several forms: the binary
blob `map.bin` read by the boot loader and the kernel, an XML file, the
`giet_vsegs.ld` linker script, `hard_config.h`, Linux and NetBSD device trees,
and the ALMOS `arch_info` file. The scripts under `src/applications/*/` each
add one application (a vspace) to a mapping.

## Inventory

**Registry** (`Mapping.__init__`, `addRam`, `addPeriph`, `addIrq`, `addProc`,
`addGlobal`, `addVspace`, `addVseg`, `addTask`).
- State:
  - a grid of clusters, each holding ordered lists of psegs, procs and periphs;
  - each periph holds its list of irqs and a reference `irq_ctrl` to its
    interrupt controller;
  - a list of global vsegs;
  - a list of vspaces, each holding ordered lists of vsegs and tasks;
  - eight counters `total_*`.
- Each add call checks its arguments (`assert` or `sys.exit`). It then appends
  the new entity and stamps it with the current value of its family's counter
  (its *global index*).

**Binary encoder** (`Mapping.cbin` and the `cbin` method of every class).
- It walks the families in a fixed order: clusters, psegs, vspaces, vsegs,
  tasks, procs, irqs, periphs. Within a family it goes cluster by cluster or
  vspace by vspace.
- It checks that every entity's stamped index equals its position in that walk.
- It resolves names to global indices: a vseg's pseg within the cluster
  `x*y_size+y`, and a vspace's start vseg and a task's stack and heap vsegs
  within the vspace.
- For each owner it writes the index of its first child and its number of
  children. The boot code reads "child k of owner o" as `first_id(o) + k`.
- Any failed check ends the process.

**Byte codecs.**
- `str2bytes` writes a string into a fixed-size field. It refuses a string of
  length `nbytes-1` or more.
- `int2bytes` writes a little-endian integer of n bytes and silently truncates
  wider values.

**Text exporters.**
- `xml`, `giet_vsegs`, `hard_config`, `linux_dts`, `netbsd_dts` and
  `almos_arch` each walk the same registry.
- They add their own checks, for example the peripheral cardinalities in
  `hard_config`.
- They rely on loop variables that can be left over from an earlier iteration.

**Applications.** Each script:
1. calls `addVspace`;
2. places vsegs and tasks in loops over the clusters and processors;
3. appends `_app` to the mapping name.

`non_distributed_convol.py` uses attributes that `Mapping` no longer has.

### What is hard

- **Call order against emission order.** The generator accepts any order of
  add calls. The blob is only consistent if every entity was appended at the
  end of its family's emission order: no pseg added to cluster 0 after one of
  cluster 1, no global vseg after a private one, no irq wired to an earlier
  periph after one wired to a later periph. The index checks in `cbin` are the
  only guard.
- **Name resolution.** The lookups take the last match and are scoped to a
  cluster or a vspace. `addGlobal` does not check the destination
  coordinates, so `x*y_size+y` can name another cluster.
- **Interrupt wiring.** `addIrq` appends before it checks that the source is
  not already bound to another controller.
- **Encoding edges.** The `str2bytes` length limit, `int2bytes` truncation,
  and processor ids computed with widths that the constructor does not check.
- **Exporters.** Stale loop variables and variables that are never
  initialised (see the hazards in `PROJECT.json`).

## Modules

| Module | Models | State / actions |
|---|---|---|
| `GietMapping` | the registry, lines 147-429, and the emission orders of `cbin` | `clusters`, `globs`, `vspaces`, the eight counters, `phase` (`build`/`failed`/`emitted`) and a history flag `inOrder`, and `bin`, the encoder's output (`None` until an encoder runs). One action per add call; each has a success disjunct and an `Abort` disjunct for its asserts and exits. |
| `GietCbin` | `Mapping.cbin` and the per-class `cbin` methods | Sets `bin` to either the blob (a record of sequences of records, slot g+1 holding global index g) or the first failure `[fam, kind]`. `cbin` is one action; `Terminated` stutters once the process has exited or written its output. |
| `GietApps` | the `extend(mapping)` of the eleven scripts under `src/applications/` (all but `non_distributed_convol.py`), on a platform built by `addRam`/`addProc` | Adds `calls`, the scripts run so far. Each script is a record (`SortApp`, `ConvolApp`, ...) holding its asserts (`requires`), its fixed vsegs, its per-cluster and per-processor vseg groups, its stack-size rule and its task layout. `extend(app)` is one action for the whole script: either every `addVspace`/`addVseg`/`addTask` call succeeds and the vspace is appended with its indices stamped in loop order and the name grown by the suffix, or some assert fails and the run aborts. |
| `GietDts` | `linux_dts` (lines 1146-1336) and `netbsd_dts` (lines 1339-1721) | Each exporter is one action that walks the clusters and periphs in registry order and sets `bin` to `[ok, dialect, cpus, lines, fail]`. `cpus` holds the processor ids `((x<<y_width)+y)<<p_width)+lpid`. `lines` holds the interrupt lines written, each as `[periph, parent, from, irq]`: `parent` is the controller the `interrupt-parent` names and `from` is the controller whose irq list gave the number. `fail` is the first failed assert or the first NameError/AttributeError in walk order. The loop variables that survive an iteration (`irq_ctrl_name`, netbsd's `xcu`) are "the last such periph so far" (`IrqCtrlName`, `XcuOf`). The text itself is not modelled. |
| `GietHeaders` | `hard_config` (lines 701-1141) and `giet_vsegs` (lines 615-698), added to `GietDts` | One action each, through the same `Emit`. The artifact keeps what its `#define` lines or linker symbols are taken from, not the text. For `hard_config`, per periph type: the count, and the last periph met (`HcLast`; each loop iteration overwrites base, size and channels). It also keeps the IOC and MWR subtypes met, the total procs, and the global vseg behind each boot symbol (exact name, last match). For `giet_vsegs`: the global vseg behind each of the five symbols (13- or 15-character prefix, last match). A failure keeps its kind and exit status. The cardinality asserts fail with status 1, as does the NameError on `xcu_arg1` without an XCU. The boot-vseg `sys.exit()` calls exit with status 0. `HeadersInit` adds initial states in which a platform script has first added the boot and kernel global vsegs (`BootPlatforms`). Vseg names are model values, and `NameText`, `Head13` and `Head15` give the strings compared. |
| `MCGietCbin`, `MCGietApps`, `MCGietDts` | model values, tuple-valued inputs and platform shapes for TLC | |

Abstractions:
- **Names** are model values.
- **Addresses** use a 4-bit physical address on a 2x1 grid with
  `x_width = y_width = 1`. An address can then name the out-of-grid cluster
  (0,1), and the decoding of `addRam` and `addPeriph` is kept bit for bit.
- **Object references** (`periph.irq_ctrl`, an irq's source) are global
  indices.
- **Fields copied unchanged** to the output and never checked are dropped:
  mode, big, trdid, startid, args. The `local` flag of a vseg is kept: it
  decides which page tables map the vseg.
- **Names** built by string concatenation in the scripts (`'conv_stack_%d_%d_%d'`)
  are tuples `<<prefix, x, y, p>>`; the mapping name keeps only its length
  (`nameLen`), which is all `str2bytes` looks at.
- **Platforms for the applications** have one RAM pseg per cluster and a
  chosen number of processors per cluster (`ProcCounts`), built in cluster
  order as `arch.py` files do.
- **Type-to-number lookups** in the `cbin` methods cannot fail, because the add
  calls only store members of the enumerations.
- **Ghost fields** of the blob records (`owner`, `src`, the names) let the
  properties tie a record back to the entity it came from.

## Runs

| Run | Bounds | Checks |
|---|---|---|
| `cbin_sw` (pass, ~31k states) | RAM in both clusters (same name `RAM`), 1 global vseg, 2 vspaces, 2 private vsegs, 2 tasks; one vseg name `A` (so names repeat across vspaces and clusters), one out-of-grid coordinate for `addVseg` and `addTask` (the global vseg stays in the grid; `vseg_placement` moves it out), an ELF vseg without binpath | `TypeOK`, `BlobOwnership`, `VspaceRefsLocal`, `VsegPlacement`, `DisciplineEncodes` |
| `cbin_hw` (pass, ~104k states) | 3 psegs (RAM, XCU, IOC in either cluster), 1 proc, 2 irqs; bad periph type, bad IOC subtype, bad ISR type, srcid 32, out-of-grid addresses | `TypeOK`, `BlobOwnership`, `DisciplineEncodes`, `IrqSourceBound` |
| `vseg_placement` (violation) | as `cbin_sw`, with a global vseg at (0,1) | `VsegPlacement` |
| `apps_full` (pass, ~4.7k states) | 2x1 grid, cluster 0 with 2 procs and cluster 1 full (2) or empty, any sequence of up to 3 of the 11 scripts (repeats included), then `cbin` | `TypeOK`, `AppsEncode`, `AppVsegsDisjoint`, `TaskOnProc` |
| `convol_overlap` (violation) | convol on a 5x4 grid, 1 proc per cluster | `AppVsegsDisjoint` |
| `apps_hetero` (violation) | sort on a 2x1 grid whose cluster 1 has `nprocs-1` procs | `TaskOnProc` |
| `coproc_no_proc` (violation) | coproc on a 2x1 grid whose cluster 0 has no proc | `TaskOnProc` |
| `header_name` (violation) | sort run on a mapping named with 58 characters | `HeaderNameRefusedOnlyIfTooLong` |
| `dts_pass` (pass, ~1.5M states, 2 min) | 2x1 grid, 1 proc, 3 psegs, 2 irqs; XCU, PIC, TTY and IOC/BDV periphs, wired or not; an empty start or a platform whose global vsegs are the boot and kernel vsegs; then any of the four exporters | `DtsTypeOK`, `DtsIrqFromController` |
| `dts_stale_xcu` (violation) | as `dts_pass`, with only an XCU allowed at cluster (0,0)'s base and only a PIC or DMA at cluster (1,0)'s (`PeriphTypesAt`), and `ISR_DMA` irqs | `DtsIrqFromController` |
| `dts_exit_status` (violation) | as `dts_stale_xcu` with XCU and IOC/BDV periphs, no boot vsegs | `ExitStatusNonZero` |
| `dts_cpu_ids` (violation) | 1x2 grid, `p_width = 0`, two `addProc` calls with lpid 0 in cluster (0,0) | `CpuIdsDistinct` |

The bounds are enough because:
- two clusters and two vspaces are what an out-of-order append needs;
- one name shared by two clusters and two vspaces is what a wrongly scoped
  lookup needs;
- two irqs with two controllers are what the double-binding exit needs.

Each input set contains one rejected value for each check on a type, an
enumeration, a grid coordinate or an irq binding, so those abort paths are
reached. The alignment and `ram_base` asserts of `addRam` and `addPeriph`
are not: every base in the inputs is aligned and inside the RAM range.

Properties:
- **BlobOwnership**: the k-th child in each first-id/count range belongs to
  that owner.
- **VspaceRefsLocal**: start, stack and heap ids name a vseg of the right name
  in the same vspace.
- **VsegPlacement**: the pseg a vseg resolves to has the vseg's psegname and
  lies in the cluster at the vseg's (x,y).
- **DisciplineEncodes**:
  - a blob is produced only if the build kept the emission order;
  - an index exit happens only if the build broke that order.
- **IrqSourceBound**: while the run goes on, every irq of a controller has a
  source bound to that controller.
- **AppsEncode**: any mix of scripts that the asserts accept is encoded by
  `cbin` (the scripts append in emission order, and every stack, heap and
  start name resolves in its vspace).
- **AppVsegsDisjoint**: two vsegs of one vspace that are mapped in a common
  page table (a local vseg only in its own cluster's) do not overlap.
- **TaskOnProc**: every task is placed on a processor that exists in its
  cluster. `router` is left out: its cluster loop has no `procs` test
  (hazard at `router.py:76`).
- **DtsIrqFromController**: every interrupt line written names, as parent, the
  periph's own controller, and takes its number from that controller's irqs.
- **CpuIdsDistinct**: the processor ids of the cpu nodes are pairwise
  distinct.
- **ExitStatusNonZero**: an exporter that fails ends the process with a
  non-zero status.
- **HeaderNameRefusedOnlyIfTooLong**: `cbin` refuses the mapping name only
  when it does not fit the 64-byte header field (the spec's rule).

The two-cluster grid is enough for the application runs: every script's
per-cluster loops, the `procs` test and the page-table sharing of local
vsegs need two clusters, and the heterogeneous and empty-cluster cases need
one cluster to differ from the other. The overlap needs 17 clusters, hence the
separate 5x4 run; a 4x4 grid passes.

Findings:
- `convol_overlap`: on more than 16 clusters convol's heap of cluster 16
  (0x50000000) lies on the stacks of cluster 0, in the same page table.
- `apps_hetero`: the scripts loop over `nprocs`, the *maximum* per cluster, so
  a cluster with fewer processors gets tasks on missing ones.
- `coproc_no_proc`: `assert(mapping.clusters[0].procs != 0)` compares a list
  with 0 and always holds.
- `header_name`: `str2bytes` refuses a 63-character name that fits 64 bytes
  with its NUL. The eleven suffixes total 76 characters, so all the
  applications together can never be encoded.
- `dts_stale_xcu`: the trace has an XCU with an `ISR_DMA` irq in cluster
  (0,0), then a PIC and an unwired DMA in cluster (1,0). Cluster (1,0)
  passes the controller check through its PIC. `netbsd_dts` then writes its
  DMA as an input of cluster (0,0)'s XCU, the `xcu` left over from the
  earlier cluster (set at line 1394, used at 1464-1480). The inputs allow
  only an XCU at cluster (0,0)'s base, so the trace cannot be a DMA beside
  its own XCU.
- `dts_cpu_ids`: `addProc` checks neither that the lpid is free nor that it
  fits `p_width`, and the constructor checks `nprocs` against `P_WIDTH`, not
  `p_width`. Two processors with one lpid get the same device-tree id
  (line 316; spec line 28 bounds ids by the widths).
- `dts_exit_status`: `giet_vsegs` (lines 656-676) and `hard_config`
  (lines 973-988) stop on a missing or non-identity boot vseg with
  `sys.exit()` and no argument. That exits with status 0, so a build that
  tests the status takes the missing header for a success.
- `vseg_placement` shows that a global vseg placed at (0,1) on a 2x1
grid is mapped onto cluster (1,0)'s pseg, and the blob is still produced. This
is a missing coordinate check in `addGlobal`.

## Fairness

None. The generator is a sequential batch program: the caller's add calls
are arbitrary, and nothing must eventually happen. The properties are all
safety properties. Deadlock checking stays on: once the bounds are reached,
`cbin` is enabled, and `Terminated` stutters after the exit.

## Not modelled yet, and the plan

Not modelled:
- **The append-only arenas of spec §5.** A refinement of the registry onto
  dense per-family arenas was checked in an earlier version and removed. Its
  dense, unique indices only restated the stamp-then-increment of each add
  call. Its "sealed once an encoder ran" relied on a phase guard that
  `mapping.py` does not have: the spec leaves that to the caller.
- **The agreement of `hard_config.h` and `giet_vsegs.ld`** (hazard at line
  627) is modelled (`LastGlobal` and `LdVseg`) but not checked. A global
  `seg_boot_code_x` added after `seg_boot_code` makes the two headers name
  different boot code vsegs. No comment or spec line says they must agree,
  and every violation run slot holds a finding with a stated expectation.
- **`int2bytes` truncation** (hazard at line 453). The values it would
  truncate (channels, args, sizes, the vbase of 64-bit addresses) are not
  part of the abstract records. Their widths only matter for text and bytes,
  which are left out.
- **`xml`** (hazard at line 2383). It writes every attribute as text. The
  one semantic difference, irqs written only under PIC and XCU periphs, is
  the natural next property. It needs an `xml` action in the style of
  `GietDts`, and a run slot.
- **`almos_arch`**. It writes the same cluster and processor ids as the
  device trees, plus a text layout.
- **The stack sizes of `sort`/`router`** (`sort.py:73`) and **ocean's
  heaps above 2^32** (`ocean.py:95`). These are numeric edges of fields the
  abstract blob does not carry. `Vspace.cbin`'s unguarded `tasks[0]`
  (line 1974) is modelled: `GietCbin` fails with a crash. No property asks
  about it, because the process does fail.

In `GietDts`:
- the XCU output filters of `netbsd_dts` (hazard at line 1410) and the text
  of the nodes are not modelled;
- the exporter's output is the set of interrupt lines and cpu ids that the
  properties compare.

`non_distributed_convol.py` is not modelled: it cannot run against this
`Mapping` class.
