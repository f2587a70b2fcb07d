# A TLA+ model of OpenGPU

OpenGPU is a small RISC-V SIMT processor in three hardware descriptions
(SystemVerilog, Chisel, SpinalHDL) with a host runtime, a C interpreter of the
same instruction set, and a lock-step comparison of the two (DiffTest). It is
configured and built with a copy of the Kconfig tools. This
directory holds TLA+ models of its parts, TLC configurations that check them on
small instances, and proofs of the central safety properties that TLAPS checks
for every value of the parameters. Source paths below are relative to `src/`.

## 1. Inventory

### Components, their state and operations

| Component | Source | State | Operations |
| --- | --- | --- | --- |
| KMU | `hw/*/KMU.*` | DCR registers, `block_idx`, `running`, `rr_core` | DCR write, launch pulse, one dispatch per edge |
| GPU top level | `hw/*/GPU.*` | none | connects KMU and cores, ORs busy and fault |
| SIMT core | `hw/*/Riscv/Core.*` | five-state machine, per-warp pc, mask, valid bit and divergence stack, registers, `fault_r` | accept a CTA, schedule, fetch, execute, access memory lane by lane |
| Simulation memories | `hw/*/Peripheral/Mem.*` | none (the PMEM is the host's) | word read, masked word write |
| Interpreter (C ISS) | `sw/sim/sm/iss.cpp` | one context per thread of the grid, round-robin index, fault flag | launch, step, done |
| Model dispatch | `sw/sim/model.cpp` | which kind of model | launch, wait, fault |
| RTL backend | `sw/sim/hm/rtl.cpp` | the Verilated top, `diff_failed` | tick, DCR write, launch, wait |
| DiffTest cycle model | `sw/sim/hm/difftest.cpp` | a second copy of KMU and cores | step, pack, compare |
| Runtime, heap | `sw/runtime/gpu/gpu.c` | allocation table | alloc, free, read, write |
| Runtime, launches | `sw/runtime/gpu/gpu.c` | `running`, kernel generation, argument scratch, reference image | open, close, load, launch, wait |
| Guest memory | `sw/runtime/device/memory.c` | the PMEM | bounds-checked access |
| Startup code | `sw/kernel/src/start.S` | none | derives the stack from the physical id |
| Kconfig expressions and menus | `tools/kconfig/expr.c`, `menu.c` | menu tree, dependency expressions | rewrite and evaluate expressions, finalize menus, look for loops |
| Kconfig symbols | `tools/kconfig/symbol.c` | user values, picks of choices, cached values with a valid bit, change count | compute, set, invalidate |
| Kconfig files | `tools/kconfig/confdata.c` | `.config`, `.config.old`, `auto.conf`, `autoconf.h`, dependency files | read, write, minimize, touch |
| conf, mconf | `tools/kconfig/conf.c`, `mconf.c` | place in a walk, file being edited | each mode of conf, keys, load, save, exit |
| fixdep | `tools/fixdep/fixdep.c` | none | dependency files of an object |

Build files, the launcher, tracing, the DPI bridge, the Kconfig parser and
dialogs and the test programs have no logic of their own to model (section 8).

### How they interact

The host is one thread. `gpu_launch` validates the request, copies the
arguments to the device heap, writes ten DCRs (one clock edge each), with
DiffTest runs the kernel on the interpreter against a snapshot of the PMEM,
then pulses `launch` and ticks once more. `gpu_wait` ticks the clock until a
fault, a mismatch, `busy` low, or a limit. The device has no clock of its own:
nothing moves between the calls. At every edge the KMU offers the current block
to one core by ready/valid; cores run independently and share one memory.
`busy` and `fault` are the only things that come back to the host, plus the
PMEM.

The configuration tools run before all that and meet the rest only through
files. Each program reads `.config`, changes symbols in memory and writes the
file by way of a temporary one and two renames; a sync then touches one
dependency file per symbol that changed, renames `autoconf.h` and, last,
`auto.conf`. Any of them can be killed at any of these steps, and the user can
edit `.config` in between.

### What is hard

* **Concurrency.** Cores end CTAs in any order while the walk goes on; lanes,
  warps and cores meet in one memory; the interpreter interleaves all threads.
* **State that outlives its reason.** Registers latched in SCHED and used many
  edges later; a fault flag cleared only by the next CTA; a walk that goes on
  after the host has given up; kernel handles older than the image; computed
  values of symbols after a set or a load; a change count that decides whether
  mconf asks about saving.
* **Crashes.** A configuration tool that is killed between two renames, or
  between touching dependency files and renaming `auto.conf`.
* **Rewriting.** Dependencies are simplified by tables of cases that have to be
  right for three-valued logic with modules on and off.
* **Ends.** Does the walk stop, is every warp scheduled, does the heap scan
  terminate, does a wait return, do the questions of `conf` end?
* **Edges.** Carries of the walk, wrap of the round robins, 32-bit sums in the
  heap, byte masks, signedness, a full divergence stack.

### What makes each component correct

* KMU: every block of the grid is dispatched exactly once, in X, Y, Z order;
  `busy` falls only when all have ended; dispatch is fair and work-conserving.
* Core: to a kernel it is a set of independent scalar threads; it is ready
  again after every end; divergence neither loses nor duplicates a lane.
* Interpreter: the same promise, and the same coordinates.
* Data path: RTL, interpreter and cycle model agree on every legal instruction.
* Heap: blocks are disjoint, accesses are checked exactly, no data is seen that
  the owner did not write, first fit, termination.
* Runtime: success means that the grid that was asked for has run to its end
  without a fault; nothing leaks; calls return.
* Kconfig menus: rewriting keeps the meaning of what was written; no visible
  entry is hidden in a submenu, but for one case in a choice (section 7); loops
  are found.
* Kconfig symbols and files: cached values are current; a written configuration
  is allowed by the Kconfig files, is read back as it was, also from its minimal
  form; it survives a crash; no object that depends on a changed symbol is taken
  for up to date.

`PROJECT.json` lists the hazards behind these, each at its line of the source.

## 2. Plan

Order of work, the most important behaviour first:

1. **KMU** (done): state machine, three selection networks, proofs.
2. **ScalarThreads**, the abstract specification of an execution model, and
   **SimtCore**, the SystemVerilog core that implements it (done, safety and
   the implementation proved).
3. **Heap** (done, safety and first fit proved).
4. **Runtime** (done, safety proved): composes the host with KMU by `EXTENDS`;
   its edges are the `Edge` action of KMU.
5. **Iss** (done, coordinates and the implementation proved): the interpreter,
   implements ScalarThreads as well.
6. **Lane** (done, agreement proved): the data path where the implementations
   differ.
7. **DiffTest** (KMU part done, safety proved): the cycle model in lock step
   with KMU, its shadow memory and comparisons. Open: the same for the inside of
   a core, the `step_core` of the cycle model against SimtCore.
8. **KTypes, KExpr, KMenu** (done): expressions and menus of the Kconfig tools.
9. **KSymbol, KFiles, KConf** (done, the files and that the programs keep to
   them proved): symbols,
   the files with crashes and rebuilds, and conf and mconf, which compose them.
10. *Chisel and SpinalHDL cores* (open): their memory handshake (request and
   response ready/valid, load data sampled with the request), shown to implement
   ScalarThreads like SimtCore.
11. *A system of cores* (open): several SimtCores under one KMU, in place of the
   interface that KMU assumes; `ReadyIffIdle` is the fact that joins them.
12. Further proofs (open): with the system of cores (11) goes the proof that the
    interface KMU assumes of a core is the one SimtCore has.

## 3. Modules and how they correspond to the code

The map from definitions to lines is in `PROJECT.json`. Names are those of the
source where TLA+ allows it. A definition whose name is that of another one with
a suffix, under a comment "Mutant of", is a plausible defect of the code; no
specification uses it, and putting it in place of the original makes TLC report
the property it is listed with.

**KMU.** One step is one rising clock edge, `Edge(dcr, launch, fin, flt)`: the
DCR port writes at most one register, `launch` is the pulse, `fin` the cores
whose CTA ends at this edge, `flt` those that end with a fault. All registers
take values computed from the state before the edge, as non-blocking assignments
do. A core is only its interface: ready iff it holds no CTA. `Backend` selects
the arithmetic of the selection: modulo the number of cores (SystemVerilog),
probe modulo and index truncated (Chisel), both truncated (SpinalHDL). The
forwarded ports are one register, `payload`. `served`, `retired`, `bypassed`,
`launch_grid` and `core_cta` are history, read only by properties.

**ScalarThreads.** What an execution model promises: threads with a pc and a
register, no masks, stacks or schedulers. `MustFault` states the documented
reasons to give threads up.

**SimtCore.** `Core.sv`, one action per state and kind of instruction. `Accept`
is the ready/valid handshake; `SchedIssue`/`SchedDrained` are SCHED; `Exec...`
are the branches of EXEC; `MemSkip`, `MemRequest`, `MemResponse` are MEM_REQ and
MEM_RESP, one lane at a time. The register file of a lane is one value, an
instruction is a kind with a target, and what it computes is given by constant
operators: control is complete, data is a parameter. `OtherStore` is another
core storing to the shared memory. `Scalar == INSTANCE ScalarThreads` holds the
refinement mapping: a lane runs if it is in the mask of its warp or on a live
stack entry, and its pc is the warp's, the entry's, or one further when its
memory access of the current instruction is done.

**Heap.** The table of allocations with 32-bit arithmetic modulo `Modulus`.
`gpu_mem_alloc` is split at the moves of its candidate so that its termination
is a temporal property; the host is one thread, so nothing else happens while
`scanning`. A byte of PMEM is either zero or not, which is all that the data
property needs.

**Runtime.** Extends KMU with the host: `phase` and `dcr_step` say where the
host is in `gpu_launch` or `gpu_wait`, every edge is a `Tick`. `difftest` is the
build option, fixed initially. A reference run is one step, because only its
outcome (done, given up) is visible to the runtime. `WaitTick` contains the
whole turn of the loop and, when it ends, the rest of `gpu_wait`, whose early
return on a fault, comparison with the reference, and release of the scratch
are its disjuncts; `WaitTimeout` is its last turn. Unlike KMU's own `Next`, the
host may launch after a failed wait while the device still runs.

**DiffTest.** Extends KMU, the RTL, with the cycle model of `difftest.cpp` (the
record `m` and its memory `shadow`). `tick` steps both at one edge, `Mismatch` is
what the comparisons of `rtl.cpp` say of it, and the end of a wait compares the
whole memory. The inside of a core is not repeated: which CTAs end, and what
cores store, are inputs of the edge given to both sides. Stores reach the PMEM
in the order of the cores and the shadow in sorted order, as in the code; a word
has two bytes of one bit, enough for stores that overlap in part. The host
writes memory and registers only between launches and stops after a failure;
after one, the cycle model and the KMU may part (section 7).

**Iss.** One hart per thread of the grid. `gpu_iss_step` picks the next hart
that has not halted and executes one instruction, one action per kind.
`WaitDone` and `WaitTimeout` are the ends of `gpu_model_wait`. `core_thread_idx`
and `core_global_id` are what `Core.sv` computes at acceptance, for comparison.

**Lane.** One instruction is executed by the RTL of `Backend` and by the
interpreter, on the same operands and each on its own memory. Bytes have
`ByteBits` bits. `verilog_shift` is logical because a SystemVerilog conditional
expression with one unsigned arm is unsigned as a whole. `ref_dmem_mask` is what
the cycle model expects at the memory port.

**KTypes, KExpr.** KTypes has the types of symbols, the values n, m and y, and
expressions of the Kconfig language as tuples. KExpr has the rewritings of
`expr.c` (elimination of constants, joins of comparisons under `&&` and `||`,
removal of common parts, transformation) and their value under an assignment of
strings to symbols. Rewriting in place becomes a function from expression to
expression; the two expressions that `expr_eliminate_eq` changes together are a
pair. Which strings parse as numbers, and the order of strings, are constants.

**KMenu.** `menu_finalize` on one parent and its entries: `PropagateChild` pushes
the dependency from above into one entry and its properties. Then `menu_finalize`
runs on each entry, those of a choice too: `open` is the stack of these calls,
`FinalizeEntry` the call from the loop over the parent's list, `CreateSubmenu` the
one for an entry that belongs below the innermost open one (`above` records where
it goes), `FinalizeReturns` the end of a call, after which the caller looks at the
same next entry. `TieChoiceValues` makes the entries left in the list of a choice
(`ValueEntries`) its values, and `CheckDeps` is `sym_check_deps` on all symbols in
any order of the hash table. The entries as parsed stay in `src`, so that properties
can compare what was written with what it became.

**KSymbol.** `sym_calc_value` and the setters as operators on a record that holds
what the user set, what has been computed (the symbols marked SYMBOL_VALID) and
whether the change count is zero. The code computes a symbol when it is first
looked at; the model computes all that are not valid at once, in an order in
which each comes after what it depends on. Since a value depends only on user
values and on such predecessors, the result is the same. The evaluation of an
expression is the constant operator `ExprValue(_, _)`, for which MCKConf
puts the one of KExpr: KExpr is recursive, as `expr.c` is, and KSymbol and KConf
stay free of recursive operators, so that they can be proved about for every
way to evaluate expressions.

**KFiles.** The files of the configuration tools, whatever the configurations
in them: `WriteTmp`, `RenameOld` and `RenameNew` are `conf_write`;
`conf_touch_dep`, `RenameHeader` and `RenameAuto` are the second half of
`conf_write_autoconf`; `Crash` may happen at each of these places. `HandEdit` and
`Make` are the user's editor and make, external to the code; `saved`, `touched`,
`built` and `torn` are history. What is computed in between is left open, up to
one condition: `Compared`, the first half of `conf_write_autoconf`, has every
symbol touched that the sources would see change. `FilesSpec` is so an abstract
specification of the programs. The dependency files still to be touched are a
set, `todo`; KConf takes them in the order of the hash table, some fixed one
(`NextTouched`).

**KConf.** The programs at work on these files: one program runs at a time,
`prog`, at a place `pc` in its main loop. `StartConf` reads and does what the mode
does without questions (`Loaded`, `Adjusted`); `check_conf`, `conf_skip`,
`conf_sym`, `conf_string`, `ChoiceSet` and `ChoicePick` are the walks and the
questions; `MconfKey` and the following are keys of mconf. `WriteSymbols` and
`Rewritten` are `conf_write` with what it writes and with the change count it
clears, `conf_touch_deps` compares with `auto.conf`; the file operations
(`FileStep`) are those of KFiles. `KeepsFiles` is the refinement: every step of
the programs is one that FilesSpec allows. `lost` and `reset` are history.

**MC modules** define instances: programs, geometries, requests, values.

## 4. Runs

| Run | Instance | What it shows |
| --- | --- | --- |
| `kmu` | SystemVerilog, 3 cores, dimensions 0..2, 2 launches | exactness, completion and fairness of the dispatch, and that launches complete |
| `kmu_chisel3` | Chisel, 3 cores | violation: a ready core is not served |
| `simt_paths` | 1 warp of 3 lanes, stack of 3; all pairs of 10 kinds of instructions, and all splitting kernels of length 3 | disjoint paths, bound of the stack |
| `simt_warps` | 2 warps of 3 lanes, stack of 1, 2 CTAs, another core storing | coherence of latched state, refinement with overflow and reuse after a fault, no starvation |
| `heap` | addresses modulo 14, heap 4..11, alignment 2, 3 slots | disjointness, exact checks, no foreign data, first fit, termination |
| `runtime` | 2 cores, 2 launches, 2 loads, both builds, with faults, timeouts and mismatches | success means that the whole grid has run, no silent fault, no leak, calls return; while no launch has failed, every block runs with the geometry, the kernel and the live arguments that were asked for |
| `difftest` | SystemVerilog, 2 cores, dimensions 0..2, 2 launches, stores that do not race | the cycle model never objects to a correct RTL, its shadow stays the PMEM |
| `iss` | blocks of up to 3 threads, 2 blocks, 2 launches, timeouts | coordinates, refinement of ScalarThreads, round robin, waits return |
| `lane` | SpinalHDL, 2-bit bytes, every opcode and funct3 | equal memory, results and refusals |
| `lane_sra` | SystemVerilog shifts | violation: `sra`/`srai` of a negative value |
| `kmenu` | blocks of one to three entries, below a menu and below a tristate choice, several hundred expressions, all assignments with modules on and off | rewriting keeps meanings, submenus hide nothing but below a boolean value of a choice that is m, exactly the entries left in a choice are tied, loops are found |
| `kconf` | 12 symbols in the shape of the repository's Kconfig, 10 scripts of programs and edits, crashes | cached values current, written files consistent, stable and minimal without loss, no configuration lost, no rebuild missed, refinement of FilesSpec, no change dropped by mconf, questions end |

### Bounds

Every bound is a constant: `MaxDim`, `MaxLaunches`, `MaxCtas`, `MaxBlocks`,
`MaxLoads`, `MaxAllocs`, `MaxKeys`, and the sets of programs, sizes, requests,
values, entries, scripts and answers.

* KMU: dimensions 0, 1 and 2 give a grid with no block, a last block that is
  also the first, and every carry; three cores are the least number that is not
  a power of two; two launches let the second start with any `rr_core`.
  Completion of all orders follows from `fin` being any set of resident CTAs.
* SimtCore: three lanes allow two nested splits, four paths fit nowhere; a stack
  of one entry overflows with three lanes; sizes range over all block sizes, so
  partial and absent warps occur. Programs past their end run into an illegal
  instruction. Two CTAs let the second meet what the first left.
* Heap: sizes cover zero, all that fit, one too many, sizes whose alignment
  wraps and sizes that are no 32-bit number. The addresses stop within one
  alignment unit of the modulus, as the assumption allows at most.
* Runtime: a grid of one block, and one of more blocks than cores, so that a
  failed launch leaves a walk that goes on; requests that each guard of
  `gpu_launch` refuses; two launches, the second of which meets what a failed
  first one left; two loads, so that a handle can be old.
* DiffTest: one word, since stores to different words do not meet; two launches,
  so that the shadow of the first can be stale in the second.
* Iss: one geometry is a partial warp, the other two blocks in other
  dimensions.
* Lane: two bits per byte keep the word small and every byte different; the
  widths, offsets and masks are those of the code. Accesses are aligned;
  misaligned ones are outside the instruction set's promises here.

* KMenu: the expressions are all conjunctions and disjunctions of pairs from a
  set of leaves that has every kind of operand the joins distinguish (bool,
  tristate, constant, comparison with `y`, `m` and `n`, a number), and negations
  and triples of a core of it. The tables of `expr_join_and` and `expr_join_or`
  look at two operands at a time; triples reach the joins across levels. Two
  entries are enough for the decision about a submenu, which looks at one entry at
  a time, and have the rich dependencies; three give submenus within submenus,
  two entries in one submenu, and an entry that the inner call leaves to the
  outer one.
* KConf: the symbols are two nested choices, a dependent bool, an int with a
  range and a derived symbol as in the repository's `Kconfig`, and modules, a
  tristate that selects another and an imply, which that file does not use. The
  scripts start every mode, in the pairs in which one reads what the other
  wrote; between two syncs `.config` is edited, so a sync meets what a killed
  one left. `MaxKeys = 2` lets mconf change two symbols, or load
  or save before or after a change. The files
  that can be edited in have a new symbol, a number out of range, and a symbol
  that no longer exists. Choices are boolean and not optional, as all are in the
  repository.

`lane` does not look for deadlocks, because a faulting instruction ends the
program, and `kmenu` does not, because finalizing menus ends. No other run may stop: an idle device, a host that makes no further
call, are steps of their own.

## 5. Fairness

* KMU: `WF(Clock)`, since `gpu_wait` ticks until `busy` falls, and
  `WF(Finishes(c))`: a resident CTA ends. The latter is an assumption on the
  kernel, which SimtCore discharges for kernels whose threads end.
* SimtCore: `WF(Step)`, the clock runs while a CTA is resident. Nothing is
  assumed about which warp is chosen; the round robin has to provide that.
* Heap: `WF(Scan)`, the loop of a running function.
* Runtime: `WF` of the steps inside a call and of the end of a resident CTA.
  The host need not make any call. The limit of `gpu_wait` is not fair:
  `CallsReturn` does not rely on it.
* DiffTest has safety properties only.
* Iss: `WF(gpu_iss_step)` and `WF(WaitDone)`, the loop of `gpu_model_wait`.
  Timeouts are not fair: `WaitReturns` does not rely on them.
* KMenu has safety properties only.
* KConf: a program that asks takes a step in the end, that is, the user answers
  or the walk goes on. Which answer is given is not fair: `AskTerminates` holds
  for every sequence of accepted answers. The condition is written out,
  `[]<>~Questions \/ []<><<Questions>>_vars`, because while a program asks only
  its own steps are possible and one always is; so it equals weak fairness of
  `AskStep`, and TLC need not evaluate the setters again to find out whether it
  is enabled.

## 6. Proofs

TLAPS checks all theorems for arbitrary constants that satisfy the named
assumptions of the modules. Eight modules hold proofs.

**KMUProofs** (any number of cores, all three backends).
`TypeCorrect`, `DispatchCorrect` (`DispatchOrder` and `DispatchExact`),
`CompletionCorrect` (`IdleMeansComplete`), `RoundRobinFair` (`BoundedBypass`) and
`WorkConserving` (`ReadyCoreServed`). The properties are not inductive alone:
`WalkInv` adds that a running walk stands on a block of the grid it was launched
with and that the grid register has not changed, without which a carry could
leave the grid; `ResidentInv` that a block served in this launch is retired or
held by some core, which connects `busy` with the history; `BypassInv` that
a core that was passed over is as much closer to the head of the round robin,
`bypassed[c] + Distance(c) <= NumCores - 1`. The last two theorems assume an
exact selection, the SystemVerilog backend or a number of cores that fills its
index; the run `kmu_chisel3` shows that this cannot be dropped.

**SimtCoreProofs** (any topology, stack depth, programs and instruction
semantics). `TypeCorrect`, `PipelineCorrect` (`ReadyIffIdle`, `IssueCoherent`),
`PathsCorrect` (`PathsPartition`) and `StackCorrect` (`StackBounded`). A divergent
branch splits the issue mask, which is the warp's mask only because of
`IssueCoherent`; so the pipeline invariant comes first and the partition of the
lanes rests on it. The bound of the stack follows by counting: disjoint
non-empty paths of one warp are at most as many as its lanes.

The same module has `CoreInvariant` and the refinement,
`CoreImplementsThreads` (`ImplementsScalarThreads`): every step of a
core is a step of the scalar threads of its CTA or a stutter, and a CTA is given
up only for a reason that `MustFault` documents. Two things make the mapping
work. `PathsPartition` says that a lane is in the mask of its warp or on exactly
one live entry of the stack, so that the CHOOSE in the mapping picks the entry
that will restore the lane (`ThreadFacts`). And memory instructions take several
edges in which lanes are done one by one: a lane has taken its step as soon as
its access is over, although its warp stands still; `MemInv` says which lanes
those are. The witnesses of an abstract step are the lanes that executed.

`RoundRobinTurns` (`WarpsTakeTurns`) is the safety half of `WarpsScheduled`: a
valid warp gets closer to its turn with every instruction of another warp, so it
waits for at most `NumWarps - 1` of them, whatever they are. It needs `TurnInv`:
the instruction in flight is that of the first valid warp from `rr_warp` on.

**HeapProofs** (any heap, alignment, table size and requests). `TypeCorrect`,
`AllocationSafe` (`BlocksDisjoint`), `AccessSafe` (`AccessExact`),
`DataIsolated` (`NoForeignData`), `LowestGapTaken` (`FirstFit`) and
`ScanTerminates` (`ScanAdvances`: every turn of the scan starts below the end of
the heap and raises the candidate, the safety half of `AllocReturns`). The
inductive invariant adds `ScanInv`: the candidate never lies below the heap, so the wrapped sum in the overlap test can
err only for a candidate that does not fit, which the final check refuses. The
assumption `HeapEnd + Align <= Modulus` is what keeps `align_up` from wrapping.
For first fit, `FirstInv` says that no aligned gap that is large enough lies
below the candidate: such a gap lies at or above the candidate, so it cannot
begin before the end of a block the candidate overlaps, and moving behind that
block, whichever block of the table it is, does not pass it. Here the base of
the heap has to be aligned, as 0x82000000 is (`gpu.h:10`).

**IssProofs** (any topology, geometries, kernels). `HartsInvariant`,
`CoordinatesCorrect` (`CoordinatesMatchCore`), `InterpreterImplementsThreads`
(`ImplementsScalarThreads`) and `RoundRobinHarts` (`HartsTakeTurns`: a hart that
runs takes the step or gets closer to its turn, with `RrInv`, the round robin
points at a hart; the safety half of `WaitReturns`). `IssInv` says that the contexts are those of the
geometry that was launched and none before a launch. The rest is arithmetic: the
interpreter divides a running number of threads by the sizes of warps and
blocks, the core counts up in each dimension, and both are one numbering in
mixed radix. The module first proves what it needs of `\div` and `%`, then that
such a numbering is a bijection.

**RuntimeProofs** (any number of cores, requests, launches, any outcome of a
launch). `HostInvariant`, `SuccessIsComplete` (`SuccessMeansComplete`),
`FaultsReported` (`NoSilentFault`), `LaunchesRunAsAsked` (`RunsAsAsked`) and
`ResourcesReleased` (`NothingLeaks`). `HostInv` cannot use KMU's invariant as it
stands, because the host may launch while the device still runs: `LaunchInv`
claims the intact walk only for the launch in flight and for what a successful one
has left; `ConfigInv` follows the registers while they are written one by one, which
restores the grid before the launch pulse needs it; `CtaInv` admits resident CTAs
of earlier launches, which have failed; `FaultInv` says that a CTA that faults
ends the wait at that edge, before the core can clear its flag. The finite
cardinality in `SuccessMeansComplete` needs `DispatchOrder`, the order X, Y, Z, to
show that as many dispatches as blocks are all the blocks.

**DiffTestProofs** (any number of cores, grids, addresses and stores).
`DiffInvariant`, `NoFalseAlarms` (`NoFalseAlarm`) and `ShadowCorrect`
(`ShadowExact`). `Twin` says that the cycle model has the registers of the RTL,
`BlocksKnown` that the block it remembers for a core is the one the KMU served,
`HostPhase` that the shadow is the memory while a launch runs, for which it
matters that the host launches only when the device is idle. Two assumptions,
both needed: `Backend = "verilog"`, whose selection of a core is the one the
cycle model computes (with three cores the Chisel selection is not, as
`kmu_chisel3` shows), and `~MayCollide`, no two cores store different data to
one byte at one edge, without which TLC finds a false alarm (section 7).

**LaneProofs** (any instructions and operands, every sequence of them).
`RefusalsAgree` (`FaultsMatch`) for every backend and any width of a byte. The
other theorems are for bytes of eight bits, those of the code: with the width a
variable, that its powers of two multiply is an induction over data.
`LaneInvariant` is the inductive invariant `LaneInv` for all three backends; it
names the two places where one of them differs, so that the theorems for the
runs' properties say how far they go: `MemoriesAgree` (`MemoryMatches`) for the
SystemVerilog and the SpinalHDL backend, because the Chisel core reports another
mask with LBU and LHU, and `ResultsAgree` (`ResultMatches`) for the Chisel and the
SpinalHDL backend, because the arithmetic right shift of Core.sv is logical
(`lane_sra`). The argument is arithmetic: a word is the sum of its bytes
(`\div` and `%` by powers of 256), a masked word access reads and writes just the
bytes an aligned access of one, two or four of them does, and the cores' sign
extensions and shifts are the interpreter's modulo 2^32.

**KConfProofs** has two layers. About KFiles (any configurations, sources and
sequences of programs, kills, edits and builds that FilesSpec allows):
`FilesInvariant`, `ConfigSafe` (`ConfigNeverLost`) and `RebuildSafe`
(`RebuildComplete`). `ConfigNeverLost` is
inductive once it says which of the two files it is: `.config` whenever it
exists (`Files_Config`). For the rebuilds, `auto.conf` is the pivot: whatever the
object was compiled with, and whatever `autoconf.h` has, agrees with `auto.conf`
on every symbol whose dependency file was not touched (`Files_Object`);
renaming `auto.conf` last is safe because by then the new values agree with the
old ones on all that was not touched (`Files_Sync`). The attempt to prove an
earlier `RebuildComplete` showed that it was false: see section 7.

About KConf (any Kconfig files, evaluation of expressions, scripts, answers and
keys): `ConfImplementsFiles` (`KeepsFiles`), every step of conf and mconf is a step
of FilesSpec or leaves the files alone, and from it `ConfNeverLoses`
(`ConfigNeverLost`) and `ConfRebuilds` (`RebuildComplete`). The step that needs an
invariant is `conf_touch_deps`. It walks over the symbols of the Kconfig files
and takes a symbol that is n and not in `auto.conf` for unchanged; the comment in
the code argues that "'no' (unset) isn't saved in auto.conf". `ConfInv` is that
argument: `auto.conf`, and the file about to become it, mentions only symbols the
walk visits and none with the value n (`ConfInvariant`). The assumption is that
no symbol is called as the field of `None`, and that a hand-written `.config`
exists.

Only model-checked:

* Liveness (`LaunchCompletes`, `WarpsScheduled`, `AllocReturns`, `CallsReturn`,
  `WaitReturns`, `AskTerminates`): the prover has no rules for fairness and
  ENABLED. What the schedule contributes to three of them is proved as safety:
  `WarpsTakeTurns`, `ScanAdvances` and `HartsTakeTurns`.
* KMenu (`RewritesPreserve`, `SubmenuSound`, `ChoiceValuesTied`, `LoopsFound`):
  expressions are trees, their rewritings and evaluation RECURSIVE operators, and
  what they compute for every tree is an induction over data.
* Of KConf what depends on computed values (`ValidCurrent`, `SaveLoadStable`,
  `ConfigConsistent`, `DefconfigRoundTrip`, `ChangeTracked`): all of them rest on
  what `Settle`, a fold over all symbols, computes, if only that it leaves the
  change count alone; that is an induction over the symbols.

The theorems about `DispatchOrder`, `ReadyCoreServed`, `ReadyIffIdle`,
`WarpsTakeTurns`, `ScanAdvances`, `HartsTakeTurns` and the type invariants hold for every instance, so no run repeats them. The inductive
invariants and these action properties were checked by TLC on the instances of the runs before they were
proved.

## 7. Where the code and its documents disagree

Shown by a run that ends in a violation:

* `kmu_chisel3` (`KMU.scala:47`, Chisel): the index of the selected core is cut
  to a power of two; with three cores the walk stalls while a core is ready.
* `lane_sra` (`Core.sv:272` and `286`): the arithmetic right shift is logical.

Met while modelling, and not a run of their own:

* The startup code derives a private stack from the physical id, but the
  interpreter gives one id to several running threads (`iss.cpp:364`): with more
  blocks than cores two running threads share a stack.
* A reference run that is given up leaves its stores in the PMEM (`gpu.c:450`):
  the snapshot is freed and not copied back.
* Lane and warp masks of the cycle model are 32-bit words (`difftest.cpp:136`);
  the configuration allows more than 32 lanes.
* The interpreter puts block n on core `n % cores` (`iss.cpp:364`), the KMU on
  the next ready core (`KMU.sv:21-27`), although
  `docs/reports/kmu-dcr-simt/implementation-report.md:44` calls the mappings the
  same. They differ once CTAs end out of order.
* A core clears its fault flag only when it accepts a CTA (`Core.sv:180`), and
  `gpu_rtl_wait` looks at the OR after its first edge (`rtl.cpp:164`): a launch
  after a faulting one may be reported as faulting although it is not.
* After a failed wait the walk goes on while the next launch writes the grid
  registers (`gpu.c:485`, `KMU.sv:52`); past a smaller dimension, `last_x`
  (`KMU.sv:32`) never holds and blocks outside the grid are dispatched until
  the launch pulse restarts the walk.
* The stores of one edge reach the PMEM in the order of the cores
  (`rtl.cpp:44-55`) and the shadow in sorted order (`difftest.cpp:659-661`),
  although the comment at `difftest.cpp:21-22` says that sorting makes
  simultaneous stores "independent of Verilator's module evaluation order": two
  cores that store different data to one byte at one edge make the comparison
  of the stored bytes fail. `MayCollide = TRUE` in `difftest.cfg` shows it.
* The cycle model writes a register before it walks (`difftest.cpp:615-658`), the
  KMU walks with the old value (`KMU.sv:32-34`, `44-72`). A grid register that
  the launch after a failed one writes while the old walk still goes on is
  reported as a mismatch.
* An address outside the shadow sets `m.failed` (`difftest.cpp:65`, `77`), which
  only `cycle_diff_failed` reads, and nothing calls that.
* The Chisel core reports byte mask 0 for LBU and LHU (`Core.scala:268-270`),
  the cycle model expects 15 (`difftest.cpp:520`).
* Reserved encodings of OP, loads and stores are executed by the cores
  (`Core.sv:230`, `283`), although `README.md:196` says that illegal
  instructions report a backend error.

In the Kconfig tools, whose behaviour is that of their origin:

* `conf_read` resets a number that is out of range (`confdata.c:568`) without
  invalidating what was computed from it. A `.config` written by that run, and
  the `auto.conf` and `autoconf.h` written after it, may disagree.
  `ValidCurrent` excludes this case by `reset`, `SaveLoadStable` by speaking of
  up-to-date values only.
* A load that fails in mconf has already cleared the change count
  (`confdata.c:519`), so that leaving mconf drops earlier changes without a
  question. `ChangeTracked` excludes it by `lost`. Saving to another file makes
  that file the edited one and clears the count as well.
* A loop of dependencies through a use of the choice symbol itself is found or
  not depending on the order of the hash table; `LoopsFound` says so.
* Submenus are made among the entries of a choice as well (`menu.c:431-432`,
  `455-502`), before its values are tied. In a tristate choice `C` with bools `A` and
  `B`, `B` depending on `A || T`, `B` goes below `A` and is no value of the choice: its
  prompt is not tied to `C=y`, and with C=m, T=y and A=n it is visible while `A`, below
  which it stands, is hidden. `SubmenuSound` names this case and `ChoiceValuesTied`
  says which entries are tied.
* `expr_trans_bool` (`expr.c:399`) is commented "bool FOO!=n => FOO" and tests for
  tristate: `select X if T != n` selects X only to m while T is m.
* A tristate choice loses its user value when one of its visible values is new
  (`symbol.c:288`), and `conf_write_defconfig` leaves out the default value of
  such a choice (`confdata.c:781`). The round trip would lose it; the repository
  has no such choice.
* `conf_string` (`conf.c:132`) at the end of its input offers the current value
  again and again if that value is invalid.
* fixdep is built, but `call_fixdep` (`scripts/config.mk:72`) is never called, and
  no rule depends on `auto.conf`, although the comment at `confdata.c:1092` says
  that "kbuild has a dependency on auto.conf". `RebuildComplete` is about the
  protocol that the tools implement, with an object that is compiled again by
  the dependency files of fixdep, and without a rule that repeats a killed sync.
  An object compiled between the kill and the next sync then has the new
  `autoconf.h` while `auto.conf` still has the old values. If `.config` goes back to
  those before the next sync, nothing is touched and the object stays as it is:
  mconf saves a configuration, `syncconfig` is killed after it renamed
  `autoconf.h`, make, the old configuration is restored, `syncconfig`, make.
  `RebuildComplete` excludes exactly the objects compiled in that window (`torn`).

## 8. What is not modelled, and why

* The inside of a core in the DiffTest cycle model, and the
  state machines of the Chisel and SpinalHDL cores: planned (section 2).
* The results of arithmetic other than right shifts and memory formats: the
  implementations are the same expression, and a model would repeat it.
* Addresses outside the PMEM, misaligned accesses, the layout of kernel image
  and stacks in the PMEM.
* Kernel files, tracing, waveforms, the launcher, the DPI bridge: input and
  output without state that the properties depend on.
* In the Kconfig tools: the lexer, the parser, the preprocessor and the dialogs
  (text processing and terminal output); hexadecimal numbers and their prefix;
  SYMBOL_NO_WRITE; `option defconfig_list` and `option allnoconfig_y`; the `KCONFIG_ALLCONFIG`, `KCONFIG_NOSILENTUPDATE` and
  `KCONFIG_OVERWRITECONFIG` variables; `listnewconfig` and `helpnewconfig`, which
  only print; the display of hidden options; I/O errors other than a crash.
  `conf_write_defconfig` truncates its file and writes it in one step: a kill in
  between loses the minimal configuration, and nothing claims otherwise.
  KMenu leaves out `imply` and defaults, which take the path of `select`, entries
  without a prompt, and the flattening of what is below those and below `if`
  (`menu.c:547-584`). In `menu_is_visible` a visible entry below an
  invisible symbol that is set makes that symbol visible too; no entry of the
  instance is of that kind.
* Loading a kernel between `gpu_launch` and `gpu_wait` is an action of Runtime,
  but no property speaks about the running kernel's image: the code has no guard
  and no document says what should happen.
