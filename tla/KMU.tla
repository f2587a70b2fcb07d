-------------------------------- MODULE KMU --------------------------------
(***************************************************************************)
(* The kernel management unit of OpenGPU: the registers the host programs  *)
(* through the DCR port, the walk over the thread blocks (CTAs) of a grid, *)
(* and their dispatch to the cores, as in hw/verilog/vsrc/KMU.sv and its   *)
(* Chisel and SpinalHDL ports, with the top level that connects it to the  *)
(* cores (GPU.sv).                                                         *)
(*                                                                         *)
(* One step of the specification is one rising edge of the clock: every    *)
(* register takes the value computed from the values before the edge.  A   *)
(* core is seen through its interface only: it is ready exactly when it    *)
(* holds no CTA (module SimtCore shows it), takes the CTA it is offered    *)
(* while ready, and gives it up some edges later, by completing or by a    *)
(* fault.  The ports whose value the KMU only forwards (startup PC,        *)
(* argument address and size, block dimensions) are one register, payload. *)
(***************************************************************************)
EXTENDS Integers, Sequences

CONSTANTS NumCores,     \* NUM_CORES
          Backend,      \* whose selection network: "verilog", "chisel", "spinal"
          MaxDim,       \* bound: largest value written to a grid dimension
          MaxLaunches   \* bound: number of launch pulses

ASSUME NumCoresAssumption == NumCores \in 1..64
ASSUME BackendAssumption == Backend \in {"verilog", "chisel", "spinal"}
ASSUME BoundsAssumption == MaxDim \in Nat /\ MaxLaunches \in Nat

Cores == 0 .. (NumCores - 1)

\* The number of values of a CB-bit core index, CB = max(1, clog2(NUM_CORES)).
CoreSlots == CHOOSE p \in {2, 4, 8, 16, 32, 64} :
               /\ p >= NumCores
               /\ \A q \in {2, 4, 8, 16, 32, 64} : q >= NumCores => p <= q

Index == [x : Nat, y : Nat, z : Nat]
Origin == [x |-> 0, y |-> 0, z |-> 0]

VARIABLES payload, grid_dim, block_size, block_idx,  \* kmu_if registers
          running, rr_core,
          core_active, core_fault,  \* per core: holds a CTA; its fault flag
          core_cta,                 \* per core: its last CTA, by launch and
                                    \* position in served
          \* History, read by the properties only:
          launches,       \* launch pulses so far
          launch_grid,    \* grid_dim at the last launch pulse
          launched,       \* the last launch pulse started a walk
          served,         \* block_idx of the CTAs accepted since the last launch
          retired,        \* positions in served whose CTA has left its core
          bypassed        \* per core: CTAs given to others while it was ready

regs == <<payload, grid_dim, block_size, block_idx, running, rr_core>>
cores == <<core_active, core_fault, core_cta>>
history == <<launches, launch_grid, launched, served, retired, bypassed>>
vars == <<regs, cores, history>>

(***************************************************************************)
(* Combinational logic.                                                    *)
(***************************************************************************)

\* Core.sv: core_ready, core_busy.  GPU.sv: io_gpu_fault.
Ready == {c \in Cores : ~core_active[c]}
\* Mutant of Busy: the resident CTAs are forgotten.
BusyWalkOnly == running
Busy == running \/ \E c \in Cores : core_active[c]
GpuFault == \E c \in Cores : core_fault[c]

\* i % NUM_CORES, and truncation to CB bits, for i < 2 * NUM_CORES.
ModCores(i) == IF i >= NumCores THEN i - NumCores ELSE i
TruncCore(i) == IF i >= CoreSlots THEN i - CoreSlots ELSE i

\* The core whose ready bit the selection reads at offset o from rr_core ...
Probed(o) == IF Backend = "spinal" THEN TruncCore(rr_core + o)
                                   ELSE ModCores(rr_core + o)
\* ... and the core index it yields when that bit is the first one set.
Picked(o) == IF Backend = "verilog" THEN ModCores(rr_core + o)
                                    ELSE TruncCore(rr_core + o)

FirstReady(o) == /\ Probed(o) \in Ready
                 /\ \A p \in Cores : p < o => Probed(p) \notin Ready

selected_core == IF \E o \in Cores : FirstReady(o)
                 THEN Picked(CHOOSE o \in Cores : FirstReady(o))
                 ELSE IF Backend = "verilog" THEN 0 ELSE rr_core

\* Mutant of cta_fire: the ready bit is taken for a busy bit.
cta_fire_inverted == running /\ Ready # {} /\ core_active[selected_core]

cta_fire == running /\ Ready # {} /\ selected_core \in Ready

\* Mutant of last_x: off by one at the edge of the grid.
last_x_late == block_idx.x = grid_dim.x

last_x == block_idx.x + 1 = grid_dim.x
last_y == block_idx.y + 1 = grid_dim.y
last_z == block_idx.z + 1 = grid_dim.z

(***************************************************************************)
(* The registers at a clock edge.  dcr is the set of register writes of    *)
(* the DCR port at this edge (at most one), launch its launch pulse, fin   *)
(* the cores whose CTA ends at this edge and flt those that end faulting.  *)
(***************************************************************************)

NextIdx == LET i == block_idx
           IN  IF ~last_x THEN [x |-> i.x + 1, y |-> i.y, z |-> i.z]
               ELSE IF ~last_y THEN [x |-> 0, y |-> i.y + 1, z |-> i.z]
               ELSE IF ~last_z THEN [x |-> 0, y |-> 0, z |-> i.z + 1]
               ELSE Origin

\* Mutant of RrNext: fixed priority.
RrNextFixed == rr_core

RrNext == IF selected_core = NumCores - 1 THEN 0 ELSE selected_core + 1

DcrUpdate(reg, old, dcr) ==
    IF \E d \in dcr : d.reg = reg THEN (CHOOSE d \in dcr : d.reg = reg).data ELSE old

DcrRegs(dcr) ==
    /\ payload' = DcrUpdate("payload", payload, dcr)
    /\ grid_dim' = [x |-> DcrUpdate("grid_x", grid_dim.x, dcr),
                    y |-> DcrUpdate("grid_y", grid_dim.y, dcr),
                    z |-> DcrUpdate("grid_z", grid_dim.z, dcr)]
    /\ block_size' = DcrUpdate("block_size", block_size, dcr)

WalkRegs(launch) ==
    \/ /\ launch
       /\ block_idx' = Origin
       /\ running' = (block_size # 0 /\ grid_dim.x # 0 /\ grid_dim.y # 0 /\ grid_dim.z # 0)
       /\ UNCHANGED rr_core
    \/ /\ ~launch /\ cta_fire
       /\ rr_core' = RrNext
       /\ block_idx' = NextIdx
       /\ running' = ~(last_x /\ last_y /\ last_z)
    \/ /\ ~launch /\ ~cta_fire
       /\ UNCHANGED <<block_idx, running, rr_core>>

\* A core takes the CTA offered to it even at the edge of a launch pulse.
Accepts(c) == cta_fire /\ c = selected_core

CoreRegs(fin, flt) ==
    /\ core_active' = [c \in Cores |-> Accepts(c) \/ (core_active[c] /\ c \notin fin)]
    /\ core_fault' = [c \in Cores |-> ~Accepts(c) /\ (core_fault[c] \/ c \in flt)]
    /\ core_cta' = [c \in Cores |->
                      IF Accepts(c) THEN [launch |-> launches, pos |-> Len(served) + 1]
                      ELSE core_cta[c]]

History(launch, fin) ==
    /\ launches' = IF launch THEN launches + 1 ELSE launches
    /\ launch_grid' = IF launch THEN grid_dim ELSE launch_grid
    /\ launched' = IF launch THEN running' ELSE launched
    /\ served' = IF launch THEN << >>
                 ELSE IF cta_fire THEN Append(served, block_idx) ELSE served
    /\ retired' = IF launch THEN {} ELSE retired \cup
                   {i \in DOMAIN served :
                      \E c \in fin : core_cta[c] = [launch |-> launches, pos |-> i]}
    /\ bypassed' = [c \in Cores |->
                      IF c \notin Ready \/ Accepts(c) THEN 0
                      ELSE IF cta_fire THEN bypassed[c] + 1 ELSE bypassed[c]]

Edge(dcr, launch, fin, flt) ==
    /\ DcrRegs(dcr)
    /\ WalkRegs(launch)
    /\ CoreRegs(fin, flt)
    /\ History(launch, fin)

(***************************************************************************)
(* The host's discipline when every launch succeeds: it writes a DCR or    *)
(* pulses launch only while the device is not busy (gpu_launch refuses to  *)
(* run while device->running, and gpu_wait returns success when busy is    *)
(* low).  Module Runtime drops this assumption.                            *)
(***************************************************************************)

DcrWrites == [reg : {"grid_x", "grid_y", "grid_z"}, data : 0..MaxDim]
               \cup [reg : {"block_size"}, data : {0, 1}]

WriteDcr == \E d \in DcrWrites :
                ~Busy /\ launches < MaxLaunches /\ Edge({d}, FALSE, {}, {})

Launch == ~Busy /\ launches < MaxLaunches /\ Edge({}, TRUE, {}, {})

\* The CTAs of fin end, the ones of flt with a fault.
Clock == \E fin \in SUBSET {c \in Cores : core_active[c]} : \E flt \in SUBSET fin :
            Edge({}, FALSE, fin, flt)

\* The reset edge of rtl_init.
Init ==
    /\ payload = 0
    /\ grid_dim = [x |-> 1, y |-> 1, z |-> 1] /\ block_size = 1
    /\ block_idx = Origin /\ running = FALSE /\ rr_core = 0
    /\ core_active = [c \in Cores |-> FALSE]
    /\ core_fault = [c \in Cores |-> FALSE]
    /\ core_cta = [c \in Cores |-> [launch |-> 0, pos |-> 0]]
    /\ launches = 0 /\ launch_grid = Origin /\ launched = FALSE
    /\ served = << >> /\ retired = {} /\ bypassed = [c \in Cores |-> 0]

Next == WriteDcr \/ Launch \/ Clock

Spec == Init /\ [][Next]_vars

\* The clock keeps running (gpu_rtl_wait ticks it) and a resident CTA ends.
Finishes(c) == \E fin \in SUBSET {d \in Cores : core_active[d]} :
                   c \in fin /\ Edge({}, FALSE, fin, {})
FairSpec == Spec /\ WF_vars(Clock)
                 /\ \A c \in Cores : WF_vars(Finishes(c))

(***************************************************************************)
(* Properties.                                                             *)
(***************************************************************************)

TypeOK ==
    /\ payload \in Nat /\ grid_dim \in Index /\ block_size \in Nat
    /\ block_idx \in Index /\ running \in BOOLEAN /\ rr_core \in Cores
    /\ core_active \in [Cores -> BOOLEAN] /\ core_fault \in [Cores -> BOOLEAN]
    /\ core_cta \in [Cores -> [launch : Nat, pos : Nat]]
    /\ launches \in Nat /\ launch_grid \in Index /\ launched \in BOOLEAN
    /\ served \in Seq(Index)
    /\ retired \in SUBSET Nat /\ bypassed \in [Cores -> Nat]

\* The blocks of a grid, and the order X before Y before Z.
Blocks(g) == [x : 0..(g.x - 1), y : 0..(g.y - 1), z : 0..(g.z - 1)]
Before(a, b) == \/ a.z < b.z
                \/ a.z = b.z /\ a.y < b.y
                \/ a.z = b.z /\ a.y = b.y /\ a.x < b.x

ServedBlocks == {served[i] : i \in DOMAIN served}

\* The walk serves the blocks of a launch in X, Y, Z order and none twice,
\* whatever the order in which the cores become ready (KMU.sv:62-71).
DispatchOrder ==
    \A i, j \in DOMAIN served : i < j => Before(served[i], served[j])

\* While the walk runs exactly the blocks before block_idx have been served,
\* and when it stops all of them have: no block of the grid is skipped, and
\* none outside it is served, at any carry from one dimension to the next.
DispatchExact ==
    launched =>
        ServedBlocks = {b \in Blocks(launch_grid) : running => Before(b, block_idx)}

\* busy never falls in the middle of a launch: once the host sees it low,
\* every block of the grid has been accepted by a core and has left it
\* (KMU.sv:76; gpu_rtl_wait takes busy low for completion).
IdleMeansComplete ==
    launched /\ ~Busy =>
        /\ retired = DOMAIN served
        /\ ServedBlocks = Blocks(launch_grid)

\* Round robin: a core that stays ready sees at most NUM_CORES - 1 CTAs go
\* to other cores before it is given one (KMU.sv:21-27,63).
BoundedBypass == \A c \in Cores : bypassed[c] <= NumCores - 1

\* Work conservation: an edge at which the walk runs and some core is ready
\* hands a CTA to a ready core (README: the KMU "dispatches them round-robin
\* to ready cores").
ReadyCoreServed ==
    [][running /\ Ready # {} => Len(served') = Len(served) + 1]_vars

\* Every launch that starts a walk completes, provided CTAs end.
LaunchCompletes == running ~> (~Busy /\ retired = DOMAIN served)

(***************************************************************************)
(* The inductive invariant behind the safety properties (KMUProofs).       *)
(***************************************************************************)

\* The walk stands on a block of the grid it was launched with.
WalkInv ==
    /\ launched => launch_grid.x > 0 /\ launch_grid.y > 0 /\ launch_grid.z > 0
    /\ running => /\ launched
                  /\ grid_dim = launch_grid
                  /\ block_idx \in Blocks(launch_grid)

\* Every CTA served in this launch is resident on a core or retired.
ResidentInv ==
    /\ retired \subseteq DOMAIN served
    /\ \A c \in Cores : core_active[c] => /\ core_cta[c].launch = launches
                                         /\ core_cta[c].pos \in DOMAIN served
    /\ \A i \in DOMAIN served \ retired :
           \E c \in Cores : core_active[c] /\ core_cta[c].pos = i

\* How far core c is from the head of the round robin.
Distance(c) == IF c >= rr_core THEN c - rr_core ELSE c + NumCores - rr_core

\* A core that was passed over has come as much closer to the head.
BypassInv == \A c \in Cores : bypassed[c] + Distance(c) <= NumCores - 1
=============================================================================
