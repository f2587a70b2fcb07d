------------------------------ MODULE DiffTest ------------------------------
(***************************************************************************)
(* DiffTest: at every clock edge rtl.cpp steps the RTL and the cycle model *)
(* of sw/sim/hm/difftest.cpp, and compares the packed state, the store     *)
(* transactions and the bytes stored; gpu_rtl_wait ends with a comparison  *)
(* of the whole PMEM.                                                      *)
(*                                                                         *)
(* The RTL is module KMU; the cycle model is the record m, its shadow PMEM *)
(* is the variable shadow.  The cores of both sides run the same kernel:   *)
(* as long as they agree, they end and store at the same edges, so the     *)
(* cores that end (fin, flt) and the stores (st, for the cores that store  *)
(* at this edge) are inputs of both.  A word has two bytes, a byte one     *)
(* bit; masks and data are numbers, as the order of stores needs it.       *)
(* The host is as in module Runtime, with launches that complete: it makes *)
(* no further call after a fault.                                          *)
(***************************************************************************)
EXTENDS KMU, FiniteSets

CONSTANTS Addr,         \* word addresses a kernel stores to
          MayCollide    \* two cores may store different data to a byte at one edge

ASSUME DiffAssumption == Addr \subseteq Nat /\ MayCollide \in BOOLEAN

VARIABLES m,            \* struct Model
          shadow,       \* m.mem
          active,       \* m.active
          pmem,         \* guest memory, by byte
          diff_failed,  \* of rtl.cpp
          phase         \* of the host: no launch, in gpu_rtl_launch, in gpu_rtl_wait

dvars == <<vars, m, shadow, active, pmem, diff_failed, phase>>

Stores == [addr : Addr, mask : 1..3, data : 0..3]
PBytes == Addr \X {0, 1}

\* Byte x is written by store s, and with what.
Covers(s, x) == x[1] = s.addr /\ (s.mask \div 2 ^ x[2]) % 2 = 1
ByteOf(s, x) == (s.data \div 2 ^ x[2]) % 2

\* The sets of simultaneous stores, one per storing core.
StoresOf(C) == UNION {[S -> Stores] : S \in SUBSET C}
Collide(st) == \E c, d \in DOMAIN st, x \in PBytes :
    Covers(st[c], x) /\ Covers(st[d], x) /\ ByteOf(st[c], x) # ByteOf(st[d], x)

(***************************************************************************)
(* The cycle model.                                                        *)
(***************************************************************************)

RefReady == {c \in Cores : ~m.core_active[c]}

\* Mutant of RefSelected: the search starts at core 0.
RefSelectedFromZero == IF RefReady = {} THEN 0
                       ELSE CHOOSE c \in RefReady : \A d \in RefReady : c <= d

RefSelected ==
    IF RefReady = {} THEN 0
    ELSE ModCores(m.rr_core + CHOOSE o \in Cores :
           /\ ModCores(m.rr_core + o) \in RefReady
           /\ \A p \in Cores : p < o => ModCores(m.rr_core + p) \notin RefReady)

RefFire == m.running /\ RefReady # {}

\* The registers after the DCR write, which precedes the walk.
RefDcr(dcr) ==
    [grid |-> [x |-> DcrUpdate("grid_x", m.grid_dim.x, dcr),
               y |-> DcrUpdate("grid_y", m.grid_dim.y, dcr),
               z |-> DcrUpdate("grid_z", m.grid_dim.z, dcr)],
     size |-> DcrUpdate("block_size", m.block_size, dcr)]

\* The walk over grid g: the next block, and whether this one was the last.
RefWalk(g) ==
    LET b == m.block_idx
    IN  IF b.x + 1 # g.x
        THEN [next |-> [x |-> b.x + 1, y |-> b.y, z |-> b.z], last |-> FALSE]
        ELSE IF b.y + 1 # g.y
        THEN [next |-> [x |-> 0, y |-> b.y + 1, z |-> b.z], last |-> FALSE]
        ELSE IF b.z + 1 # g.z
        THEN [next |-> [x |-> 0, y |-> 0, z |-> b.z + 1], last |-> FALSE]
        ELSE [next |-> Origin, last |-> TRUE]

cycle_diff_step(dcr, launch, fin, flt) ==
    LET r == RefDcr(dcr)
        walk == RefWalk(r.grid)
        accepts(c) == RefFire /\ c = RefSelected
    IN  [payload |-> DcrUpdate("payload", m.payload, dcr),
         grid_dim |-> r.grid, block_size |-> r.size,
         core_active |-> [c \in Cores |-> accepts(c) \/ (m.core_active[c] /\ c \notin fin)],
         core_fault |-> [c \in Cores |-> ~accepts(c) /\ (m.core_fault[c] \/ c \in flt)],
         core_block |-> [c \in Cores |-> IF accepts(c) THEN m.block_idx ELSE m.core_block[c]],
         block_idx |-> IF launch THEN Origin ELSE IF RefFire THEN walk.next ELSE m.block_idx,
         running |-> IF launch THEN r.size # 0 /\ r.grid.x # 0 /\ r.grid.y # 0 /\ r.grid.z # 0
                     ELSE m.running /\ ~(RefFire /\ walk.last),
         rr_core |-> IF launch \/ ~RefFire THEN m.rr_core
                     ELSE IF RefSelected = NumCores - 1 THEN 0 ELSE RefSelected + 1]

\* The words that are compared, of the RTL and of the cycle model.
diff_state ==
    [payload |-> payload, grid_dim |-> grid_dim, block_size |-> block_size,
     block_idx |-> block_idx, running |-> running, rr_core |-> rr_core,
     core_active |-> core_active, core_fault |-> core_fault, fault |-> GpuFault,
     core_block |-> [c \in {d \in Cores : core_active[d]} |-> served[core_cta[c].pos]],
     busy |-> Busy, ready |-> Ready,
     cta_valid |-> IF running /\ Ready # {} THEN {selected_core} \cap Cores ELSE {},
     selected |-> <<selected_core, Ready # {}>>]

pack ==
    [payload |-> m.payload, grid_dim |-> m.grid_dim, block_size |-> m.block_size,
     block_idx |-> m.block_idx, running |-> m.running, rr_core |-> m.rr_core,
     core_active |-> m.core_active, core_fault |-> m.core_fault,
     fault |-> \E c \in Cores : m.core_fault[c],
     core_block |-> [c \in {d \in Cores : m.core_active[d]} |-> m.core_block[c]],
     busy |-> m.running \/ \E c \in Cores : m.core_active[c], ready |-> RefReady,
     cta_valid |-> IF RefFire THEN {RefSelected} ELSE {},
     selected |-> <<RefSelected, RefReady # {}>>]

(***************************************************************************)
(* Stores.                                                                 *)
(***************************************************************************)

\* operator< of struct Store.
StoreLess(s, t) ==
    \/ s.addr < t.addr
    \/ s.addr = t.addr /\ s.mask < t.mask
    \/ s.addr = t.addr /\ s.mask = t.mask /\ s.data < t.data

\* tick writes the stores to the PMEM in the order of the cores ...
observe_stores(st) ==
    [x \in PBytes |->
       LET W == {c \in DOMAIN st : Covers(st[c], x)}
       IN  IF W = {} THEN pmem[x]
           ELSE ByteOf(st[CHOOSE c \in W : \A d \in W : d <= c], x)]

\* ... and the cycle model to its shadow in the order of the sorted stores.
store_ref(mem, expected) ==
    [x \in PBytes |->
       LET W == {s \in expected : Covers(s, x)}
       IN  IF W = {} THEN mem[x]
           ELSE ByteOf(CHOOSE s \in W : \A t \in W : t = s \/ StoreLess(t, s), x)]

\* The cores of the cycle model that store, of those that store at this edge.
RefStores(st) == {c \in DOMAIN st : m.core_active[c]}

\* The stores of the RTL that cycle_diff_observe_store records.
Observed(st) == {c \in DOMAIN st : active'}

\* The sorted transactions are the same.
cycle_diff_check_stores(st) ==
    \A s \in {st[c] : c \in DOMAIN st} :
        Cardinality({c \in Observed(st) : st[c] = s}) = Cardinality({c \in RefStores(st) : st[c] = s})

\* Mutant of cycle_diff_begin: the shadow of the launch before is kept.
cycle_diff_begin_stale(launch) == shadow
\* At a launch pulse the shadow is a copy of the PMEM.
cycle_diff_begin(launch) == IF launch THEN pmem ELSE shadow

\* Only the bytes stored at this edge are compared.
cycle_diff_check_dirty(expected) ==
    \A x \in PBytes : (\E s \in expected : Covers(s, x)) => pmem'[x] = shadow'[x]

(***************************************************************************)
(* One clock edge, and the host.                                           *)
(***************************************************************************)

tick(dcr, launch, fin, flt, st) ==
    LET expected == {st[c] : c \in RefStores(st)}
    IN  /\ MayCollide \/ ~Collide(st)
        /\ Edge(dcr, launch, fin, flt)
        /\ m' = cycle_diff_step(dcr, launch, fin, flt)
        /\ pmem' = observe_stores(st)
        /\ shadow' = store_ref(cycle_diff_begin(launch), expected)
        /\ active' = (active \/ launch)

\* What the comparisons of tick say of such an edge.
Mismatch(st) == \/ ~cycle_diff_check_stores(st)
                \/ diff_state' # pack'
                \/ active' /\ ~cycle_diff_check_dirty({st[c] : c \in RefStores(st)})

Quiet == [c \in {} |-> 0]    \* no core stores

DiffInit ==
    /\ Init
    /\ m = [payload |-> 0, grid_dim |-> grid_dim, block_size |-> 1, block_idx |-> Origin,
            running |-> FALSE, rr_core |-> 0, core_active |-> [c \in Cores |-> FALSE],
            core_fault |-> [c \in Cores |-> FALSE], core_block |-> [c \in Cores |-> Origin]]
    /\ pmem = [x \in PBytes |-> 0] /\ shadow = pmem
    /\ active = FALSE /\ diff_failed = FALSE /\ phase = "idle"

HostWrite == \E x \in PBytes, b \in {0, 1} :
    /\ phase = "idle" /\ launches < MaxLaunches
    /\ pmem' = [pmem EXCEPT ![x] = b]
    /\ UNCHANGED <<vars, m, shadow, active, diff_failed, phase>>

DiffWriteDcr == \E d \in DcrWrites :
    /\ phase = "idle" /\ launches < MaxLaunches
    /\ tick({d}, FALSE, {}, {}, Quiet)
    /\ diff_failed' = (diff_failed \/ Mismatch(Quiet))
    /\ UNCHANGED phase

DiffLaunch ==
    /\ phase = "idle" /\ launches < MaxLaunches
    /\ tick({}, TRUE, {}, {}, Quiet)
    /\ diff_failed' = (diff_failed \/ Mismatch(Quiet))
    /\ phase' = "settle"

\* An edge with the CTAs on the cores: the one that ends gpu_rtl_launch, and
\* those of gpu_rtl_wait, the last of which compares the whole PMEM.
DiffClock ==
    \E fin \in SUBSET {c \in Cores : core_active[c]} : \E flt \in SUBSET fin :
      \E st \in StoresOf({c \in Cores : core_active[c]} \ fin) :
        /\ phase \in {"settle", "wait"}
        /\ tick({}, FALSE, fin, flt, st)
        /\ LET failed == diff_failed \/ Mismatch(st)
           IN  \/ /\ phase = "settle" /\ phase' = "wait" /\ diff_failed' = failed
               \/ /\ phase = "wait" /\ (GpuFault' \/ failed)
                  /\ phase' = "failed" /\ diff_failed' = failed
               \/ /\ phase = "wait" /\ ~(GpuFault' \/ failed) /\ Busy'
                  /\ phase' = "wait" /\ diff_failed' = FALSE
               \/ /\ phase = "wait" /\ ~(GpuFault' \/ failed) /\ ~Busy'
                  /\ phase' = IF pmem' = shadow' THEN "idle" ELSE "failed"
                  /\ diff_failed' = (pmem' # shadow')

\* The host makes no further call.
Rest == /\ phase = "failed" \/ (phase = "idle" /\ launches = MaxLaunches)
        /\ UNCHANGED dvars

DiffNext == HostWrite \/ DiffWriteDcr \/ DiffLaunch \/ DiffClock \/ Rest

DiffSpec == DiffInit /\ [][DiffNext]_dvars

(***************************************************************************)
(* Properties.                                                             *)
(***************************************************************************)

\* Two models that are both right are never reported to differ (difftest.cpp:
\* sorting the stores "makes simultaneous multi-core stores independent of
\* Verilator's module evaluation order"): over any sequence of launches,
\* dispatches and stores the cycle model stays in step with the RTL.
NoFalseAlarm == ~diff_failed

\* While a launch runs, the shadow is the PMEM in every byte, although only the
\* bytes stored at an edge are compared and the host writes between launches.
ShadowExact == phase \in {"settle", "wait"} /\ ~diff_failed => shadow = pmem

(***************************************************************************)
(* The inductive invariant behind the properties (DiffTestProofs).         *)
(***************************************************************************)

\* The cycle model holds the registers of the RTL.
Twin ==
    m = [payload |-> payload, grid_dim |-> grid_dim, block_size |-> block_size,
         core_active |-> core_active, core_fault |-> core_fault,
         core_block |-> m.core_block, block_idx |-> block_idx,
         running |-> running, rr_core |-> rr_core]

\* It knows of each resident CTA the block the KMU served to it.
BlocksKnown == \A c \in Cores : core_active[c] =>
    core_cta[c].pos \in DOMAIN served /\ m.core_block[c] = served[core_cta[c].pos]

\* The host is between launches only while the device is idle; in one, the
\* cycle model records stores and its shadow is the memory.
HostPhase ==
    /\ phase \in {"idle", "settle", "wait", "failed"}
    /\ phase = "idle" => ~Busy
    /\ phase \in {"settle", "wait"} => active = TRUE /\ shadow = pmem

DiffInv == TypeOK /\ Twin /\ BlocksKnown /\ HostPhase /\ diff_failed = FALSE
=============================================================================
