--------------------------- MODULE DiffTestProofs ---------------------------
(***************************************************************************)
(* Proofs about DiffTest: the cycle model stays in step with the RTL, for  *)
(* every number of cores, every grid and every order of the stores, when   *)
(* the selection is the one of KMU.sv and no two cores store different     *)
(* data to a byte at one edge.                                             *)
(***************************************************************************)
EXTENDS DiffTest, KMUProofs

(***************************************************************************)
(* The selection and the walk of the cycle model.                          *)
(***************************************************************************)

\* What Twin says of the fields of the model.
LEMMA TwinFields ==
  ASSUME Twin
  PROVE  /\ m.payload = payload /\ m.grid_dim = grid_dim /\ m.block_size = block_size
         /\ m.core_active = core_active /\ m.core_fault = core_fault
         /\ m.block_idx = block_idx /\ m.running = running /\ m.rr_core = rr_core
BY DEF Twin

LEMMA TwinReady == Twin => RefReady = Ready
BY TwinFields DEF RefReady, Ready

\* The cycle model selects the core that the network of KMU.sv selects.
LEMMA TwinSelected ==
  ASSUME TypeOK, Twin, Backend = "verilog"
  PROVE  RefSelected = selected_core
<1>1. RefReady = Ready /\ m.rr_core = rr_core
  BY TwinReady, TwinFields
<1>2. \A o : Probed(o) = ModCores(rr_core + o) /\ Picked(o) = ModCores(rr_core + o)
  BY DEF Probed, Picked
<1>3. CASE Ready = {}
  <2>1. ~ \E o \in Cores : FirstReady(o)
    BY <1>3 DEF FirstReady
  <2> QED
    BY <1>1, <1>3, <2>1 DEF RefSelected, selected_core
<1>4. CASE Ready # {}
  <2> DEFINE P(o) == /\ ModCores(rr_core + o) \in Ready
                     /\ \A p \in Cores : p < o => ModCores(rr_core + p) \notin Ready
  <2>1. \A o : FirstReady(o) <=> P(o)
    BY <1>2 DEF FirstReady
  <2>2. (CHOOSE o \in Cores : FirstReady(o)) = CHOOSE o \in Cores : P(o)
    BY <2>1, Zenon
  <2>3. \E o \in Cores : FirstReady(o)
    BY <1>4, SelectionNearest DEF ExactSelection
  <2>4. selected_core = ModCores(rr_core + CHOOSE o \in Cores : P(o))
    BY <1>2, <2>2, <2>3, Zenon DEF selected_core
  <2>5. RefSelected = ModCores(rr_core + CHOOSE o \in Cores : P(o))
    BY <1>1, <1>4, Zenon DEF RefSelected
  <2> QED
    BY <2>4, <2>5, Zenon
<1> QED
  BY <1>3, <1>4

LEMMA TwinFire ==
  ASSUME TypeOK, Twin, Backend = "verilog"
  PROVE  /\ RefFire = cta_fire
         /\ \A c : (RefFire /\ c = RefSelected) = Accepts(c)
<1>1. RefFire <=> cta_fire
  BY TwinReady, TwinFields, SelectionNearest DEF RefFire, cta_fire, ExactSelection
<1>2. RefFire \in BOOLEAN /\ cta_fire \in BOOLEAN
  BY TwinFields DEF RefFire, cta_fire, TypeOK
<1>3. RefFire = cta_fire
  BY <1>1, <1>2, Zenon
<1> QED
  BY <1>3, TwinSelected, Zenon DEF Accepts

\* Without a register write the walk of the model is the walk of the KMU.
LEMMA TwinWalk ==
  ASSUME TypeOK, Twin
  PROVE  /\ RefDcr({}) = [grid |-> grid_dim, size |-> block_size]
         /\ RefWalk(grid_dim).next = NextIdx
         /\ RefWalk(grid_dim).last = (last_x /\ last_y /\ last_z)
<1>1. RefDcr({}) = [grid |-> grid_dim, size |-> block_size]
  <2>1. RefDcr({}) = [grid |-> [x |-> grid_dim.x, y |-> grid_dim.y, z |-> grid_dim.z],
                      size |-> block_size]
    BY TwinFields DEF RefDcr, DcrUpdate
  <2>2. grid_dim = [x |-> grid_dim.x, y |-> grid_dim.y, z |-> grid_dim.z]
    BY DEF TypeOK, Index
  <2> QED
    BY <2>1, <2>2
<1>2. m.block_idx = block_idx /\ block_idx \in Index
  BY TwinFields DEF TypeOK
<1>3. /\ RefWalk(grid_dim).next = NextIdx
      /\ RefWalk(grid_dim).last = (last_x /\ last_y /\ last_z)
  <2>1. CASE ~last_x
    BY <1>2, <2>1 DEF RefWalk, NextIdx, last_x
  <2>2. CASE last_x /\ ~last_y
    BY <1>2, <2>2 DEF RefWalk, NextIdx, last_x, last_y
  <2>3. CASE last_x /\ last_y /\ ~last_z
    BY <1>2, <2>3 DEF RefWalk, NextIdx, last_x, last_y, last_z
  <2>4. CASE last_x /\ last_y /\ last_z
    BY <1>2, <2>4 DEF RefWalk, NextIdx, last_x, last_y, last_z
  <2> QED
    BY <2>1, <2>2, <2>3, <2>4
<1> QED
  BY <1>1, <1>3

(***************************************************************************)
(* One edge: the cycle model follows the RTL, provided the host writes a   *)
(* register and pulses launch only while the device is idle.               *)
(***************************************************************************)

LEMMA TwinStep ==
  ASSUME TypeOK, Twin, BlocksKnown, Backend = "verilog",
         NEW dcr, NEW launch \in BOOLEAN, NEW fin, NEW flt,
         Edge(dcr, launch, fin, flt), m' = cycle_diff_step(dcr, launch, fin, flt),
         dcr # {} \/ launch => ~Busy, launch => dcr = {}
  PROVE  Twin' /\ BlocksKnown'
<1>1. DcrRegs(dcr) /\ WalkRegs(launch) /\ CoreRegs(fin, flt) /\ History(launch, fin)
  BY DEF Edge
<1>2. /\ RefFire = cta_fire
      /\ \A c : (RefFire /\ c = RefSelected) = Accepts(c)
      /\ RefSelected = selected_core
  BY TwinFire, TwinSelected
<1>3. /\ m.payload = payload /\ m.grid_dim = grid_dim /\ m.block_size = block_size
      /\ m.core_active = core_active /\ m.core_fault = core_fault
      /\ m.block_idx = block_idx /\ m.running = running /\ m.rr_core = rr_core
  BY TwinFields
<1> DEFINE r == RefDcr(dcr)
           walk == RefWalk(r.grid)
           cb == [c \in Cores |-> IF Accepts(c) THEN block_idx ELSE m.core_block[c]]
<1>4. r.grid = grid_dim' /\ r.size = block_size'
  BY <1>1, <1>3 DEF RefDcr, DcrRegs
<1>5. cta_fire \/ launch => /\ r.grid = grid_dim /\ r.size = block_size
                            /\ walk.next = NextIdx
                            /\ walk.last = (last_x /\ last_y /\ last_z)
  <2>1. cta_fire \/ launch => dcr = {}
    BY DEF cta_fire, Busy
  <2>2. RefDcr({}).grid = grid_dim /\ RefDcr({}).size = block_size
    BY TwinWalk
  <2> QED
    BY <2>1, <2>2, TwinWalk
<1>6. launch => ~cta_fire
  BY DEF cta_fire, Busy
<1> HIDE DEF r, walk
<1>7. m' = [payload |-> payload', grid_dim |-> grid_dim', block_size |-> block_size',
            core_active |-> core_active', core_fault |-> core_fault', core_block |-> cb,
            block_idx |-> block_idx', running |-> running', rr_core |-> rr_core']
  <2>1. m' = [payload |-> DcrUpdate("payload", m.payload, dcr),
              grid_dim |-> r.grid, block_size |-> r.size,
              core_active |-> [c \in Cores |-> (RefFire /\ c = RefSelected)
                                               \/ (m.core_active[c] /\ c \notin fin)],
              core_fault |-> [c \in Cores |-> ~(RefFire /\ c = RefSelected)
                                              /\ (m.core_fault[c] \/ c \in flt)],
              core_block |-> [c \in Cores |-> IF RefFire /\ c = RefSelected
                                              THEN m.block_idx ELSE m.core_block[c]],
              block_idx |-> IF launch THEN Origin
                            ELSE IF RefFire THEN walk.next ELSE m.block_idx,
              running |-> IF launch THEN r.size # 0 /\ r.grid.x # 0 /\ r.grid.y # 0
                                         /\ r.grid.z # 0
                          ELSE m.running /\ ~(RefFire /\ walk.last),
              rr_core |-> IF launch \/ ~RefFire THEN m.rr_core
                          ELSE IF RefSelected = NumCores - 1 THEN 0 ELSE RefSelected + 1]
    BY Zenon DEF cycle_diff_step, r, walk
  <2>2. DcrUpdate("payload", m.payload, dcr) = payload'
    BY <1>1, <1>3 DEF DcrRegs
  <2>3. [c \in Cores |-> (RefFire /\ c = RefSelected) \/ (m.core_active[c] /\ c \notin fin)]
          = core_active'
    BY <1>1, <1>2, <1>3, Zenon DEF CoreRegs
  <2>4. [c \in Cores |-> ~(RefFire /\ c = RefSelected) /\ (m.core_fault[c] \/ c \in flt)]
          = core_fault'
    BY <1>1, <1>2, <1>3, Zenon DEF CoreRegs
  <2>5. [c \in Cores |-> IF RefFire /\ c = RefSelected THEN m.block_idx ELSE m.core_block[c]]
          = cb
    BY <1>2, <1>3, Zenon
  <2>6. (IF launch THEN Origin ELSE IF RefFire THEN walk.next ELSE m.block_idx) = block_idx'
    BY <1>1, <1>2, <1>3, <1>5 DEF WalkRegs
  <2>7. (IF launch THEN r.size # 0 /\ r.grid.x # 0 /\ r.grid.y # 0 /\ r.grid.z # 0
         ELSE m.running /\ ~(RefFire /\ walk.last)) = running'
    <3>1. CASE launch
      BY <1>1, <1>5, <3>1, Zenon DEF WalkRegs
    <3>2. CASE ~launch /\ cta_fire
      <4>1. m.running = TRUE /\ running' = ~(last_x /\ last_y /\ last_z)
        BY <1>1, <1>3, <3>2 DEF WalkRegs, cta_fire, TypeOK
      <4>2. walk.last = (last_x /\ last_y /\ last_z)
        BY <1>5, <3>2
      <4> QED
        BY <1>2, <3>2, <4>1, <4>2, Zenon
    <3>3. CASE ~launch /\ ~cta_fire
      <4>1. running' = running /\ running \in BOOLEAN
        BY <1>1, <3>3 DEF WalkRegs, TypeOK
      <4> QED
        BY <1>2, <1>3, <3>3, <4>1, Zenon
    <3> QED
      BY <3>1, <3>2, <3>3
  <2>8. (IF launch \/ ~RefFire THEN m.rr_core
         ELSE IF RefSelected = NumCores - 1 THEN 0 ELSE RefSelected + 1) = rr_core'
    BY <1>1, <1>2, <1>3, <1>6 DEF WalkRegs, RrNext
  <2> QED
    BY <1>4, <2>1, <2>2, <2>3, <2>4, <2>5, <2>6, <2>7, <2>8, Zenon
<1>8. m'.core_block = cb
  BY <1>7
<1>9. Twin'
  BY <1>7, <1>8, Zenon DEF Twin
<1>10. BlocksKnown'
  <2> SUFFICES ASSUME NEW c \in Cores, core_active'[c]
               PROVE  /\ core_cta'[c].pos \in DOMAIN served'
                      /\ cb[c] = served'[core_cta'[c].pos]
    BY <1>8 DEF BlocksKnown
  <2>1. core_cta'[c] = IF Accepts(c) THEN [launch |-> launches, pos |-> Len(served) + 1]
                       ELSE core_cta[c]
    BY <1>1 DEF CoreRegs
  <2>2. ~launch
    <3>1. core_active[c] \/ Accepts(c)
      BY <1>1 DEF CoreRegs
    <3> QED
      BY <1>6, <3>1 DEF Accepts, Busy
  <2>3. served \in Seq(Index) /\ block_idx \in Index
    BY DEF TypeOK
  <2>4. CASE Accepts(c)
    <3>1. served' = Append(served, block_idx)
      BY <1>1, <2>2, <2>4 DEF History, Accepts
    <3> QED
      BY <2>1, <2>3, <2>4, <3>1
  <2>5. CASE ~Accepts(c)
    <3>1. core_active[c]
      BY <1>1, <2>5 DEF CoreRegs
    <3>2. /\ core_cta[c].pos \in DOMAIN served
          /\ m.core_block[c] = served[core_cta[c].pos]
      BY <3>1 DEF BlocksKnown
    <3>3. served' = served \/ served' = Append(served, block_idx)
      BY <1>1, <2>2 DEF History
    <3> QED
      BY <2>1, <2>3, <2>5, <3>2, <3>3
  <2> QED
    BY <2>4, <2>5
<1> QED
  BY <1>9, <1>10

\* What is compared agrees.
LEMMA PackAgrees ==
  Backend = "verilog" /\ TypeOK /\ Twin /\ BlocksKnown => diff_state = pack
<1> SUFFICES ASSUME Backend = "verilog", TypeOK, Twin, BlocksKnown PROVE diff_state = pack
  OBVIOUS
<1>1. /\ m.payload = payload /\ m.grid_dim = grid_dim /\ m.block_size = block_size
      /\ m.core_active = core_active /\ m.core_fault = core_fault
      /\ m.block_idx = block_idx /\ m.running = running /\ m.rr_core = rr_core
  BY TwinFields
<1>2. RefReady = Ready /\ RefSelected = selected_core /\ RefFire = cta_fire
  BY TwinReady, TwinSelected, TwinFire
<1>3. GpuFault = \E c \in Cores : m.core_fault[c]
  BY <1>1, Zenon DEF GpuFault
<1>4. Busy = (m.running \/ \E c \in Cores : m.core_active[c])
  BY <1>1, Zenon DEF Busy
<1>5. [c \in {d \in Cores : core_active[d]} |-> served[core_cta[c].pos]]
        = [c \in {d \in Cores : m.core_active[d]} |-> m.core_block[c]]
  BY <1>1 DEF BlocksKnown
<1>6. (IF running /\ Ready # {} THEN {selected_core} \cap Cores ELSE {})
        = (IF RefFire THEN {RefSelected} ELSE {})
  BY <1>2, SelectionNearest DEF cta_fire, ExactSelection, Ready
<1>7. <<selected_core, Ready # {}>> = <<RefSelected, RefReady # {}>>
  BY <1>2, Zenon
<1> QED
  BY <1>1, <1>2, <1>3, <1>4, <1>5, <1>6, <1>7, Zenon DEF diff_state, pack

LEMMA PackAgreesNext ==
  ASSUME Backend = "verilog", TypeOK', Twin', BlocksKnown'
  PROVE  diff_state' = pack'
<1>1. (Backend = "verilog" /\ TypeOK /\ Twin /\ BlocksKnown => diff_state = pack)'
  BY PackAgrees, PTL
<1> QED
  BY <1>1

(***************************************************************************)
(* The stores of an edge.                                                  *)
(***************************************************************************)

\* A nonempty set of bounded naturals has a greatest element.
LEMMA GreatestNat ==
  ASSUME NEW T, NEW b \in Nat, T \subseteq 0..b, T # {}
  PROVE  \E k \in T : \A j \in T : j <= k
<1> DEFINE U == {b - j : j \in T}
<1>1. U \subseteq Nat /\ U # {}
  <2>1. \A j \in T : b - j \in Nat
    OBVIOUS
  <2>2. PICK j : j \in T
    OBVIOUS
  <2>3. b - j \in U
    BY <2>2
  <2> QED
    BY <2>1, <2>3
<1>2. PICK u \in U : \A k \in U : u <= k
  <2> HIDE DEF U
  <2> QED
    BY <1>1, LeastNat
<1>3. PICK k \in T : u = b - k
  OBVIOUS
<1>4. \A j \in T : b - k <= b - j
  BY <1>2, <1>3
<1> QED
  BY <1>3, <1>4

\* Stores to one address are totally ordered by mask and data.
LEMMA GreatestStore ==
  ASSUME NEW W, W \subseteq Stores, W # {}, NEW a, \A s \in W : s.addr = a
  PROVE  \E s \in W : \A t \in W : t = s \/ StoreLess(t, s)
<1> DEFINE key(s) == 4 * s.mask + s.data
           T == {key(s) : s \in W}
<1>1. \A s \in W : s.mask \in 1..3 /\ s.data \in 0..3
  BY DEF Stores
<1>2. T \subseteq 0..15 /\ T # {}
  BY <1>1
<1>3. PICK k \in T : \A j \in T : j <= k
  <2> HIDE DEF T
  <2> QED
    BY <1>2, GreatestNat
<1>4. PICK s \in W : k = key(s)
  OBVIOUS
<1>5. ASSUME NEW t \in W PROVE t = s \/ StoreLess(t, s)
  <2>1. key(t) <= key(s)
    BY <1>3, <1>4
  <2>2. t.mask < s.mask \/ (t.mask = s.mask /\ t.data <= s.data)
    BY <1>1, <2>1
  <2>3. t.mask = s.mask /\ t.data = s.data => t = s
    BY DEF Stores
  <2> QED
    BY <1>1, <2>2, <2>3 DEF StoreLess
<1> QED
  BY <1>4, <1>5

\* Written in the order of the cores or in the order of the sorted stores, the
\* stores of an edge leave the same memory.
LEMMA SameMemory ==
  ASSUME NEW st \in StoresOf(Cores), ~Collide(st)
  PROVE  observe_stores(st) = store_ref(pmem, {st[c] : c \in DOMAIN st})
<1>1. DOMAIN st \subseteq Cores /\ \A c \in DOMAIN st : st[c] \in Stores
  BY DEF StoresOf
<1> SUFFICES ASSUME NEW x \in PBytes
             PROVE  observe_stores(st)[x] = store_ref(pmem, {st[c] : c \in DOMAIN st})[x]
  BY DEF observe_stores, store_ref
<1> DEFINE C == {c \in DOMAIN st : Covers(st[c], x)}
           W == {s \in {st[c] : c \in DOMAIN st} : Covers(s, x)}
           top == CHOOSE c \in C : \A d \in C : d <= c
           win == CHOOSE s \in W : \A t \in W : t = s \/ StoreLess(t, s)
<1>2. /\ observe_stores(st)[x] = IF C = {} THEN pmem[x] ELSE ByteOf(st[top], x)
      /\ store_ref(pmem, {st[c] : c \in DOMAIN st})[x]
           = IF W = {} THEN pmem[x] ELSE ByteOf(win, x)
  BY DEF observe_stores, store_ref
<1>3. C = {} <=> W = {}
  OBVIOUS
<1>4. CASE C # {}
  <2>1. \E c \in C : \A d \in C : d <= c
    <3>1. C \subseteq 0..(NumCores - 1) /\ NumCores - 1 \in Nat
      BY <1>1, NumCoresAssumption DEF Cores
    <3> HIDE DEF C
    <3> QED
      BY <1>4, <3>1, GreatestNat
  <2>2. top \in C
    BY <2>1, Zenon
  <2>3. \E s \in W : \A t \in W : t = s \/ StoreLess(t, s)
    <3>1. W \subseteq Stores /\ W # {} /\ \A s \in W : s.addr = x[1]
      BY <1>1, <1>3, <1>4 DEF Covers
    <3> HIDE DEF W
    <3> QED
      BY <3>1, GreatestStore
  <2>4. win \in W
    BY <2>3, Zenon
  <2> HIDE DEF top, win
  <2>5. PICK d \in DOMAIN st : win = st[d] /\ Covers(st[d], x)
    BY <2>4
  <2>6. ByteOf(st[top], x) = ByteOf(st[d], x)
    BY <2>2, <2>5 DEF Collide
  <2> QED
    BY <1>2, <1>3, <1>4, <2>5, <2>6
<1>5. CASE C = {}
  BY <1>2, <1>3, <1>5
<1> QED
  BY <1>4, <1>5

(***************************************************************************)
(* The invariant.                                                          *)
(***************************************************************************)

\* An edge at which no comparison fails.
LEMMA TickAgrees ==
  ASSUME DiffInv, Backend = "verilog", ~MayCollide,
         NEW dcr, DcrOK(dcr), NEW launch \in BOOLEAN,
         NEW fin \in SUBSET Cores, NEW flt,
         NEW st \in StoresOf({c \in Cores : core_active[c]}),
         tick(dcr, launch, fin, flt, st),
         dcr # {} \/ launch => ~Busy, launch => dcr = {},
         phase \in {"settle", "wait"} \/ st = Quiet
  PROVE  /\ TypeOK' /\ Twin' /\ BlocksKnown'
         /\ Mismatch(st) = FALSE
         /\ launch \/ phase \in {"settle", "wait"} => active' = TRUE /\ shadow' = pmem'
<1>1. /\ Edge(dcr, launch, fin, flt)
      /\ m' = cycle_diff_step(dcr, launch, fin, flt)
      /\ pmem' = observe_stores(st)
      /\ shadow' = store_ref(cycle_diff_begin(launch), {st[c] : c \in RefStores(st)})
      /\ active' = (active \/ launch)
      /\ ~Collide(st)
  BY DEF tick
<1>2. TypeOK /\ Twin /\ BlocksKnown
  BY DEF DiffInv
<1>3. TypeOK'
  BY <1>1, <1>2, EdgeType
<1>4. Twin' /\ BlocksKnown'
  BY <1>1, <1>2, TwinStep
<1>5. diff_state' = pack'
  BY <1>3, <1>4, PackAgreesNext
<1>6. st \in StoresOf(Cores) /\ \A c \in DOMAIN st : c \in Cores /\ core_active[c]
  BY DEF StoresOf
<1>7. RefStores(st) = DOMAIN st
  BY <1>2, <1>6, TwinFields DEF RefStores
<1>8. observe_stores(st) = store_ref(pmem, {st[c] : c \in RefStores(st)})
  BY <1>1, <1>6, <1>7, SameMemory
<1>9. launch \/ phase \in {"settle", "wait"} => active' = TRUE /\ shadow' = pmem'
  <2>1. CASE launch
    BY <1>1, <1>8, <2>1 DEF cycle_diff_begin
  <2>2. CASE phase \in {"settle", "wait"}
    <3>1. active = TRUE /\ shadow = pmem
      BY <2>2 DEF DiffInv, HostPhase
    <3>2. cycle_diff_begin(launch) = pmem
      BY <3>1 DEF cycle_diff_begin
    <3> QED
      BY <1>1, <1>8, <3>1, <3>2
  <2> QED
    BY <2>1, <2>2
<1>10. CASE phase \in {"settle", "wait"}
  <2>1. active' = TRUE /\ shadow' = pmem'
    BY <1>9, <1>10
  <2>2. Observed(st) = RefStores(st)
    BY <1>7, <2>1 DEF Observed
  <2>3. cycle_diff_check_stores(st)
    BY <2>2, Zenon DEF cycle_diff_check_stores
  <2>4. cycle_diff_check_dirty({st[c] : c \in RefStores(st)})
    BY <2>1, Zenon DEF cycle_diff_check_dirty
  <2>5. Mismatch(st) = FALSE
    BY <1>5, <2>3, <2>4, Zenon DEF Mismatch
  <2> QED
    BY <1>3, <1>4, <1>9, <2>5, Zenon
<1>11. CASE st = Quiet
  <2>1. DOMAIN st = {} /\ {st[c] : c \in RefStores(st)} = {}
    BY <1>7, <1>11 DEF Quiet
  <2>2. cycle_diff_check_stores(st)
    BY <2>1 DEF cycle_diff_check_stores
  <2>3. cycle_diff_check_dirty({st[c] : c \in RefStores(st)})
    BY <2>1 DEF cycle_diff_check_dirty
  <2>4. Mismatch(st) = FALSE
    BY <1>5, <2>2, <2>3, Zenon DEF Mismatch
  <2> QED
    BY <1>3, <1>4, <1>9, <2>4, Zenon
<1> QED
  BY <1>10, <1>11

LEMMA QuietStores == \A C : Quiet \in StoresOf(C)
<1> TAKE C
<1>1. Quiet \in [{} -> Stores] /\ {} \in SUBSET C
  BY DEF Quiet
<1>2. [{} -> Stores] \in {[S -> Stores] : S \in SUBSET C}
  BY <1>1
<1> QED
  BY <1>1, <1>2, Zenon DEF StoresOf

LEMMA DiffStep ==
  ASSUME DiffInv, Backend = "verilog", ~MayCollide, [DiffNext]_dvars
  PROVE  DiffInv'
<1>1. CASE HostWrite
  <2>1. UNCHANGED <<vars, m, shadow, active, diff_failed, phase>> /\ phase = "idle"
    BY <1>1 DEF HostWrite
  <2>2. TypeOK'
    BY <2>1 DEF DiffInv, TypeOK, vars, regs, cores, history
  <2>3. Twin' /\ BlocksKnown'
    BY <2>1 DEF DiffInv, Twin, BlocksKnown, vars, regs, cores, history
  <2>4. HostPhase'
    BY <2>1 DEF DiffInv, HostPhase, Busy, vars, regs, cores
  <2> QED
    BY <2>1, <2>2, <2>3, <2>4 DEF DiffInv
<1>2. CASE DiffWriteDcr
  <2>1. PICK d \in DcrWrites :
          /\ phase = "idle" /\ tick({d}, FALSE, {}, {}, Quiet)
          /\ diff_failed' = (diff_failed \/ Mismatch(Quiet)) /\ phase' = phase
    BY <1>2 DEF DiffWriteDcr
  <2>2. DcrOK({d})
    BY BoundsAssumption DEF DcrOK, DcrWrites
  <2>3. ~Busy /\ diff_failed = FALSE
    BY <2>1 DEF DiffInv, HostPhase
  <2>4. /\ TypeOK' /\ Twin' /\ BlocksKnown' /\ Mismatch(Quiet) = FALSE
    BY <2>1, <2>2, <2>3, QuietStores, TickAgrees
  <2>5. ~Busy'
    BY <2>1, <2>3 DEF tick, Edge, WalkRegs, CoreRegs, Busy, cta_fire, Accepts
  <2>6. diff_failed' = FALSE /\ HostPhase'
    BY <2>1, <2>3, <2>4, <2>5 DEF HostPhase
  <2> QED
    BY <2>4, <2>6 DEF DiffInv
<1>3. CASE DiffLaunch
  <2>1. /\ phase = "idle" /\ tick({}, TRUE, {}, {}, Quiet)
        /\ diff_failed' = (diff_failed \/ Mismatch(Quiet)) /\ phase' = "settle"
    BY <1>3 DEF DiffLaunch
  <2>2. ~Busy /\ diff_failed = FALSE /\ DcrOK({})
    BY <2>1 DEF DiffInv, HostPhase, DcrOK
  <2>3. /\ TypeOK' /\ Twin' /\ BlocksKnown' /\ Mismatch(Quiet) = FALSE
        /\ active' = TRUE /\ shadow' = pmem'
    BY <2>1, <2>2, QuietStores, TickAgrees
  <2>4. diff_failed' = FALSE /\ HostPhase'
    BY <2>1, <2>2, <2>3 DEF HostPhase
  <2> QED
    BY <2>3, <2>4 DEF DiffInv
<1>4. CASE DiffClock
  <2>1. PICK fin \in SUBSET {c \in Cores : core_active[c]} :
          \E flt \in SUBSET fin :
            \E st \in StoresOf({c \in Cores : core_active[c]} \ fin) :
              /\ phase \in {"settle", "wait"}
              /\ tick({}, FALSE, fin, flt, st)
              /\ LET failed == diff_failed \/ Mismatch(st)
                 IN  \/ /\ phase = "settle" /\ phase' = "wait" /\ diff_failed' = failed
                     \/ /\ phase = "wait" /\ (GpuFault' \/ failed)
                        /\ phase' = "failed" /\ diff_failed' = failed
                     \/ /\ phase = "wait" /\ ~(GpuFault' \/ failed) /\ Busy'
                        /\ phase' = "wait" /\ diff_failed' = FALSE
                     \/ /\ phase = "wait" /\ ~(GpuFault' \/ failed) /\ ~Busy'
                        /\ phase' = IF pmem' = shadow' THEN "idle" ELSE "failed"
                        /\ diff_failed' = (pmem' # shadow')
    BY <1>4, Zenon DEF DiffClock
  <2>2. PICK flt \in SUBSET fin, st \in StoresOf({c \in Cores : core_active[c]} \ fin) :
              /\ phase \in {"settle", "wait"}
              /\ tick({}, FALSE, fin, flt, st)
              /\ LET failed == diff_failed \/ Mismatch(st)
                 IN  \/ /\ phase = "settle" /\ phase' = "wait" /\ diff_failed' = failed
                     \/ /\ phase = "wait" /\ (GpuFault' \/ failed)
                        /\ phase' = "failed" /\ diff_failed' = failed
                     \/ /\ phase = "wait" /\ ~(GpuFault' \/ failed) /\ Busy'
                        /\ phase' = "wait" /\ diff_failed' = FALSE
                     \/ /\ phase = "wait" /\ ~(GpuFault' \/ failed) /\ ~Busy'
                        /\ phase' = IF pmem' = shadow' THEN "idle" ELSE "failed"
                        /\ diff_failed' = (pmem' # shadow')
    BY <2>1, Zenon
  <2>3. st \in StoresOf({c \in Cores : core_active[c]}) /\ fin \in SUBSET Cores
    BY DEF StoresOf
  <2>4. DcrOK({}) /\ diff_failed = FALSE
    BY DEF DcrOK, DiffInv
  <2>5. /\ TypeOK' /\ Twin' /\ BlocksKnown' /\ Mismatch(st) = FALSE
        /\ active' = TRUE /\ shadow' = pmem'
    BY <2>2, <2>3, <2>4, TickAgrees
  <2>6. diff_failed' = FALSE /\ HostPhase'
    BY <2>2, <2>4, <2>5 DEF HostPhase
  <2> QED
    BY <2>5, <2>6 DEF DiffInv
<1>5. CASE UNCHANGED dvars
  <2>1. TypeOK'
    BY <1>5 DEF DiffInv, TypeOK, dvars, vars, regs, cores, history
  <2>2. Twin' /\ BlocksKnown' /\ HostPhase'
    BY <1>5 DEF DiffInv, Twin, BlocksKnown, HostPhase, Busy, dvars, vars, regs, cores, history
  <2> QED
    BY <1>5, <2>1, <2>2 DEF DiffInv, dvars
<1>6. CASE Rest
  BY <1>5, <1>6 DEF Rest
<1> QED
  BY <1>1, <1>2, <1>3, <1>4, <1>5, <1>6 DEF DiffNext

\* The cycle model and the RTL agree after every edge: its registers are the
\* registers of the RTL, it knows the block of every resident CTA, and its
\* shadow is the memory while a launch runs.
THEOREM DiffInvariant ==
  ASSUME Backend = "verilog", ~MayCollide
  PROVE  DiffSpec => []DiffInv
<1>1. DiffInit => DiffInv
  <2> SUFFICES ASSUME DiffInit PROVE DiffInv
    OBVIOUS
  <2>1. TypeOK
    BY InitType DEF DiffInit
  <2>2. Twin
    BY DEF DiffInit, Init, Twin
  <2>3. BlocksKnown /\ HostPhase
    BY DEF DiffInit, Init, BlocksKnown, HostPhase, Busy
  <2> QED
    BY <2>1, <2>2, <2>3 DEF DiffInv, DiffInit
<1>2. DiffInv /\ [DiffNext]_dvars => DiffInv'
  BY DiffStep
<1> QED
  BY <1>1, <1>2, PTL DEF DiffSpec

\* DiffTest reports no difference between two models that are both right, over
\* any sequence of launches, for every number of cores and every grid.
THEOREM NoFalseAlarms ==
  ASSUME Backend = "verilog", ~MayCollide
  PROVE  DiffSpec => []NoFalseAlarm
<1>1. DiffInv => NoFalseAlarm
  BY DEF DiffInv, NoFalseAlarm
<1> QED
  BY <1>1, DiffInvariant, PTL

\* While a launch runs the shadow of the cycle model is the whole PMEM,
\* although only the bytes stored at an edge are compared.
THEOREM ShadowCorrect ==
  ASSUME Backend = "verilog", ~MayCollide
  PROVE  DiffSpec => []ShadowExact
<1>1. DiffInv => ShadowExact
  BY DEF DiffInv, HostPhase, ShadowExact
<1> QED
  BY <1>1, DiffInvariant, PTL
=============================================================================
