----------------------------- MODULE KMUProofs -----------------------------
(***************************************************************************)
(* Proofs about KMU, for every number of cores and every grid.             *)
(***************************************************************************)
EXTENDS KMU, TLAPS, WellFoundedInduction

WalkIInv == TypeOK /\ WalkInv /\ DispatchOrder /\ DispatchExact

(***************************************************************************)
(* The selection network.                                                  *)
(***************************************************************************)

LessPairs == {ss \in Nat \X Nat : ss[1] < ss[2]}

\* A nonempty set of naturals has a least element.
LEMMA LeastNat ==
  ASSUME NEW T, T \subseteq Nat, T # {}
  PROVE  \E m \in T : \A k \in T : m <= k
<1>1. IsWellFoundedOn(LessPairs, Nat)
  BY NatLessThanWellFounded, Zenon DEF LessPairs, OpToRel
<1>2. PICK m \in T : \A k \in T : ~ (<<k, m>> \in LessPairs)
  BY <1>1, WFMin, Zenon
<1>3. \A k \in T : ~(k < m)
  BY <1>2 DEF LessPairs
<1> QED
  BY <1>3

\* A CTA fires only to a ready core, and the head of the round robin moves to
\* a core index.
LEMMA FireFacts ==
  ASSUME TypeOK, cta_fire
  PROVE  /\ selected_core \in Cores /\ ~core_active[selected_core]
         /\ RrNext \in Cores
<1>1. selected_core \in Cores /\ ~core_active[selected_core]
  BY DEF cta_fire, Ready
<1>2. RrNext \in Cores
  BY <1>1, NumCoresAssumption DEF RrNext, Cores
<1> QED
  BY <1>1, <1>2

(***************************************************************************)
(* Type correctness.                                                       *)
(***************************************************************************)

\* The writes of the host carry values of the registers' type.
DcrOK(dcr) == \A d \in dcr : d.data \in Nat

LEMMA DcrUpdateType ==
  ASSUME NEW reg, NEW old \in Nat, NEW dcr, DcrOK(dcr)
  PROVE  DcrUpdate(reg, old, dcr) \in Nat
BY DEF DcrUpdate, DcrOK

\* Every clock edge keeps the registers in their types.
LEMMA EdgeType ==
  ASSUME TypeOK, NEW dcr, DcrOK(dcr), NEW launch \in BOOLEAN,
         NEW fin \in SUBSET Cores, NEW flt, Edge(dcr, launch, fin, flt)
  PROVE  TypeOK'
<1> USE DEF TypeOK
<1>1. payload' \in Nat /\ grid_dim' \in Index /\ block_size' \in Nat
  <2>1. grid_dim.x \in Nat /\ grid_dim.y \in Nat /\ grid_dim.z \in Nat
    BY DEF Index
  <2>2. DcrRegs(dcr)
    BY DEF Edge
  <2>3. /\ DcrUpdate("payload", payload, dcr) \in Nat
        /\ DcrUpdate("grid_x", grid_dim.x, dcr) \in Nat
        /\ DcrUpdate("grid_y", grid_dim.y, dcr) \in Nat
        /\ DcrUpdate("grid_z", grid_dim.z, dcr) \in Nat
        /\ DcrUpdate("block_size", block_size, dcr) \in Nat
    BY <2>1, DcrUpdateType, Zenon
  <2> QED
    BY <2>2, <2>3 DEF DcrRegs, Index
<1>2. block_idx' \in Index /\ running' \in BOOLEAN /\ rr_core' \in Cores
  <2>1. Origin \in Index
    BY DEF Origin, Index
  <2>2. NextIdx \in Index
    <3>1. block_idx.x \in Nat /\ block_idx.y \in Nat /\ block_idx.z \in Nat
      BY DEF Index
    <3> QED
      BY <2>1, <3>1, SMTT(20) DEF NextIdx, Index
  <2>3. WalkRegs(launch)
    BY DEF Edge
  <2>4. CASE launch
    BY <2>1, <2>3, <2>4 DEF WalkRegs
  <2>5. CASE ~launch /\ cta_fire
    BY <2>2, <2>3, <2>5, FireFacts DEF WalkRegs
  <2>6. CASE ~launch /\ ~cta_fire
    BY <2>3, <2>6 DEF WalkRegs
  <2> QED
    BY <2>4, <2>5, <2>6
<1>3. /\ core_active' \in [Cores -> BOOLEAN] /\ core_fault' \in [Cores -> BOOLEAN]
      /\ core_cta' \in [Cores -> [launch : Nat, pos : Nat]]
  <2>1. CoreRegs(fin, flt)
    BY DEF Edge
  <2>2. Len(served) + 1 \in Nat
    OBVIOUS
  <2>3. core_active' \in [Cores -> BOOLEAN]
    BY <2>1, Zenon DEF CoreRegs
  <2>4. core_fault' \in [Cores -> BOOLEAN]
    BY <2>1, Zenon DEF CoreRegs
  <2>5. core_cta' \in [Cores -> [launch : Nat, pos : Nat]]
    BY <2>1, <2>2 DEF CoreRegs
  <2> QED
    BY <2>3, <2>4, <2>5
<1>4. /\ launches' \in Nat /\ launch_grid' \in Index /\ launched' \in BOOLEAN
      /\ served' \in Seq(Index) /\ retired' \in SUBSET Nat
      /\ bypassed' \in [Cores -> Nat]
  <2>1. History(launch, fin)
    BY DEF Edge
  <2>2. launches' \in Nat /\ launch_grid' \in Index /\ launched' \in BOOLEAN
    BY <1>2, <2>1 DEF History
  <2>3. served' \in Seq(Index)
    BY <2>1 DEF History
  <2>4. retired' \in SUBSET Nat
    <3>1. DOMAIN served \subseteq Nat
      OBVIOUS
    <3>2. retired \in SUBSET Nat
      OBVIOUS
    <3> QED
      BY <2>1, <3>1, <3>2, Zenon DEF History
  <2>5. bypassed' \in [Cores -> Nat]
    BY <2>1 DEF History
  <2> QED
    BY <2>2, <2>3, <2>4, <2>5
<1> QED
  BY <1>1, <1>2, <1>3, <1>4

\* The clock edges the host's discipline allows.
HostEdge(dcr, launch, fin, flt) ==
    /\ DcrOK(dcr) /\ launch \in BOOLEAN /\ fin \in SUBSET Cores
    /\ Edge(dcr, launch, fin, flt)
    /\ dcr # {} \/ launch => ~Busy
    /\ launch => dcr = {}
    /\ \A c \in fin : core_active[c]

\* The next-state relation is made of such edges.
LEMMA NextIsEdge ==
  ASSUME Next
  PROVE  \E dcr, launch, fin, flt : HostEdge(dcr, launch, fin, flt)
<1>1. CASE WriteDcr
  <2>1. PICK d \in DcrWrites : ~Busy /\ Edge({d}, FALSE, {}, {})
    BY <1>1 DEF WriteDcr
  <2>2. DcrOK({d})
    BY BoundsAssumption DEF DcrOK, DcrWrites
  <2>3. HostEdge({d}, FALSE, {}, {})
    BY <2>1, <2>2 DEF HostEdge
  <2> QED
    BY <2>3, Zenon
<1>2. CASE Launch
  <2>1. HostEdge({}, TRUE, {}, {})
    BY <1>2 DEF Launch, HostEdge, DcrOK
  <2> QED
    BY <2>1, Zenon
<1>3. CASE Clock
  <2>1. PICK fin \in SUBSET {c \in Cores : core_active[c]} :
           \E flt \in SUBSET fin : Edge({}, FALSE, fin, flt)
    BY <1>3, Zenon DEF Clock
  <2>2. PICK flt \in SUBSET fin : Edge({}, FALSE, fin, flt)
    BY <2>1
  <2>3. HostEdge({}, FALSE, fin, flt)
    BY <2>2 DEF HostEdge, DcrOK
  <2> QED
    BY <2>3, Zenon
<1> QED
  BY <1>1, <1>2, <1>3 DEF Next

\* The reset values have the registers' types.
LEMMA InitType ==
  ASSUME Init
  PROVE  TypeOK
<1>1. payload \in Nat /\ grid_dim \in Index /\ block_size \in Nat
  BY DEF Init, Index
<1>2. Origin \in Index /\ 0 \in Cores
  BY NumCoresAssumption DEF Origin, Index, Cores
<1>3. served \in Seq(Index)
  BY DEF Init
<1>4. core_cta \in [Cores -> [launch : Nat, pos : Nat]]
  BY DEF Init
<1> QED
  BY <1>1, <1>2, <1>3, <1>4 DEF Init, TypeOK

\* The registers and the history of the KMU keep their types, for every number
\* of cores, every backend and every grid.
THEOREM TypeCorrect == Spec => []TypeOK
<1>1. Init => TypeOK
  BY InitType
<1>2. TypeOK /\ [Next]_vars => TypeOK'
  <2> SUFFICES ASSUME TypeOK, [Next]_vars PROVE TypeOK'
    OBVIOUS
  <2>1. CASE Next
    BY <2>1, NextIsEdge, EdgeType, Zenon DEF HostEdge
  <2>2. CASE UNCHANGED vars
    BY <2>2 DEF TypeOK, vars, regs, cores, history
  <2> QED
    BY <2>1, <2>2
<1> QED
  BY <1>1, <1>2, PTL DEF Spec

(***************************************************************************)
(* The walk over the grid.                                                 *)
(***************************************************************************)

\* Two indices that agree in every dimension are equal.
LEMMA IndexExt ==
  ASSUME NEW a \in Index, NEW b \in Index, a.x = b.x, a.y = b.y, a.z = b.z
  PROVE  a = b
BY DEF Index

LEMMA BlocksAreIndices ==
  ASSUME NEW g \in Index
  PROVE  \A b : b \in Blocks(g) <=> b \in Index /\ b.x < g.x /\ b.y < g.y /\ b.z < g.z
<1> SUFFICES ASSUME NEW b
             PROVE  b \in Blocks(g) <=>
                      b \in Index /\ b.x < g.x /\ b.y < g.y /\ b.z < g.z
  OBVIOUS
<1>1. g.x \in Nat /\ g.y \in Nat /\ g.z \in Nat
  BY DEF Index
<1>2. ASSUME b \in Blocks(g)
      PROVE  b \in Index /\ b.x < g.x /\ b.y < g.y /\ b.z < g.z
  BY <1>1, <1>2 DEF Blocks, Index
<1>3. ASSUME b \in Index, b.x < g.x, b.y < g.y, b.z < g.z
      PROVE  b \in Blocks(g)
  BY <1>1, <1>3 DEF Blocks, Index
<1> QED
  BY <1>2, <1>3

\* The successor of a block in the walk: it is a block of the grid, and the
\* blocks before it are the blocks before the old one and the old one itself.
LEMMA Successor ==
  ASSUME grid_dim \in Index, block_idx \in Blocks(grid_dim)
  PROVE  IF last_x /\ last_y /\ last_z
         THEN \A b \in Blocks(grid_dim) : Before(b, block_idx) \/ b = block_idx
         ELSE /\ NextIdx \in Blocks(grid_dim)
              /\ \A b \in Blocks(grid_dim) :
                    Before(b, NextIdx) <=> Before(b, block_idx) \/ b = block_idx
              /\ Before(block_idx, NextIdx)
<1> DEFINE i == block_idx
           g == grid_dim
<1>1. /\ i \in Index /\ i.x \in Nat /\ i.y \in Nat /\ i.z \in Nat
      /\ i.x < g.x /\ i.y < g.y /\ i.z < g.z
      /\ g.x \in Nat /\ g.y \in Nat /\ g.z \in Nat
  <2>1. i \in Index /\ i.x < g.x /\ i.y < g.y /\ i.z < g.z
    BY BlocksAreIndices, Zenon
  <2> QED
    BY <2>1 DEF Index
<1>2. \A b \in Blocks(g) :
        /\ b.x \in Nat /\ b.y \in Nat /\ b.z \in Nat
        /\ b.x < g.x /\ b.y < g.y /\ b.z < g.z
        /\ b = i <=> b.x = i.x /\ b.y = i.y /\ b.z = i.z
  <2> SUFFICES ASSUME NEW b \in Blocks(g)
               PROVE  /\ b.x \in Nat /\ b.y \in Nat /\ b.z \in Nat
                      /\ b.x < g.x /\ b.y < g.y /\ b.z < g.z
                      /\ b = i <=> b.x = i.x /\ b.y = i.y /\ b.z = i.z
    OBVIOUS
  <2>1. b \in Index /\ b.x < g.x /\ b.y < g.y /\ b.z < g.z
    BY BlocksAreIndices, Zenon
  <2>2. b = i <=> b.x = i.x /\ b.y = i.y /\ b.z = i.z
    BY <1>1, <2>1, IndexExt, Zenon
  <2> QED
    BY <2>1, <2>2 DEF Index
<1>3. CASE ~last_x
  <2>1. /\ NextIdx \in Index
        /\ NextIdx.x = i.x + 1 /\ NextIdx.y = i.y /\ NextIdx.z = i.z
    BY <1>1, <1>3 DEF NextIdx, Index
  <2>2. NextIdx \in Blocks(g)
    BY <1>1, <1>3, <2>1, BlocksAreIndices DEF last_x
  <2> QED
    BY <1>1, <1>2, <1>3, <2>1, <2>2 DEF Before
<1>4. CASE last_x /\ ~last_y
  <2>1. /\ NextIdx \in Index
        /\ NextIdx.x = 0 /\ NextIdx.y = i.y + 1 /\ NextIdx.z = i.z
    BY <1>1, <1>4 DEF NextIdx, Index
  <2>2. NextIdx \in Blocks(g)
    BY <1>1, <1>4, <2>1, BlocksAreIndices DEF last_y
  <2> QED
    BY <1>1, <1>2, <1>4, <2>1, <2>2 DEF Before, last_x
<1>5. CASE last_x /\ last_y /\ ~last_z
  <2>1. /\ NextIdx \in Index
        /\ NextIdx.x = 0 /\ NextIdx.y = 0 /\ NextIdx.z = i.z + 1
    BY <1>1, <1>5 DEF NextIdx, Index
  <2>2. NextIdx \in Blocks(g)
    BY <1>1, <1>5, <2>1, BlocksAreIndices DEF last_z
  <2> QED
    BY <1>1, <1>2, <1>5, <2>1, <2>2 DEF Before, last_x, last_y
<1>6. CASE last_x /\ last_y /\ last_z
  BY <1>1, <1>2, <1>6 DEF Before, last_x, last_y, last_z
<1> QED
  BY <1>3, <1>4, <1>5, <1>6

\* An edge without a DCR write leaves the grid as it is.
LEMMA GridKept ==
  ASSUME TypeOK, DcrRegs({})
  PROVE  grid_dim' = grid_dim
<1>1. grid_dim' = [x |-> grid_dim.x, y |-> grid_dim.y, z |-> grid_dim.z]
  BY DEF DcrRegs, DcrUpdate
<1> QED
  BY <1>1 DEF TypeOK, Index

\* A launch pulse starts a walk from its origin, whatever it interrupts.
LEMMA LaunchWalk ==
  ASSUME TypeOK, NEW fin, NEW flt, Edge({}, TRUE, fin, flt)
  PROVE  WalkInv' /\ DispatchOrder' /\ DispatchExact'
<1>1. grid_dim' = grid_dim /\ launch_grid' = grid_dim
  BY GridKept DEF Edge, History
<1>2. served' = << >> /\ launched' = running' /\ block_idx' = Origin
  BY DEF Edge, History, WalkRegs
<1>3. running' => grid_dim.x # 0 /\ grid_dim.y # 0 /\ grid_dim.z # 0
  BY DEF Edge, WalkRegs
<1>4. grid_dim \in Index /\ grid_dim.x \in Nat /\ grid_dim.y \in Nat /\ grid_dim.z \in Nat
  BY DEF TypeOK, Index
<1>5. Origin \in Index /\ Origin.x = 0 /\ Origin.y = 0 /\ Origin.z = 0
  BY DEF Origin, Index
<1>6. WalkInv'
  <2>1. running' => Origin \in Blocks(grid_dim)
    BY <1>3, <1>4, <1>5, BlocksAreIndices
  <2> QED
    BY <1>1, <1>2, <1>3, <1>4, <2>1 DEF WalkInv, Blocks
<1>7. DispatchOrder'
  BY <1>2 DEF DispatchOrder
<1>8. DispatchExact'
  <2>1. ServedBlocks' = {}
    BY <1>2 DEF ServedBlocks
  <2>2. \A b \in Blocks(grid_dim) : ~Before(b, Origin)
    <3>1. \A b \in Blocks(grid_dim) : b.x \in Nat /\ b.y \in Nat /\ b.z \in Nat
      BY <1>4, BlocksAreIndices DEF Index
    <3> QED
      BY <1>5, <3>1 DEF Before
  <2> QED
    BY <1>1, <1>2, <2>1, <2>2 DEF DispatchExact, Blocks, Before
<1> QED
  BY <1>6, <1>7, <1>8

\* The walk invariant, the order and the exactness of the dispatch survive
\* every clock edge that does not write a register under a running walk.
LEMMA WalkStep ==
  ASSUME WalkIInv, NEW dcr, NEW launch \in BOOLEAN, NEW fin, NEW flt,
         Edge(dcr, launch, fin, flt),
         dcr # {} => ~running, launch => dcr = {}
  PROVE  WalkInv' /\ DispatchOrder' /\ DispatchExact'
<1> USE DEF WalkIInv
<1>1. /\ DcrRegs(dcr) /\ WalkRegs(launch) /\ History(launch, fin)
      /\ TypeOK
      /\ dcr # {} => ~running
  BY DEF Edge
<1>2. CASE launch
  <2>1. dcr = {} /\ launch = TRUE
    BY <1>2
  <2>2. Edge({}, TRUE, fin, flt)
    BY <2>1
  <2> QED
    BY <1>1, <2>2, LaunchWalk
<1>3. CASE ~launch /\ cta_fire
  <2>1. running /\ dcr = {}
    BY <1>1, <1>3 DEF cta_fire
  <2>2. /\ grid_dim' = grid_dim /\ launch_grid' = launch_grid
        /\ launched' = launched
        /\ served' = Append(served, block_idx)
        /\ block_idx' = NextIdx
        /\ running' = ~(last_x /\ last_y /\ last_z)
    BY <1>1, <1>3, <2>1, GridKept DEF History, WalkRegs
  <2>3. /\ launched /\ grid_dim = launch_grid /\ block_idx \in Blocks(launch_grid)
        /\ launch_grid.x > 0 /\ launch_grid.y > 0 /\ launch_grid.z > 0
    BY <2>1 DEF WalkInv
  <2>4. grid_dim \in Index /\ block_idx \in Index /\ served \in Seq(Index)
    BY <1>1 DEF TypeOK
  <2>5. IF last_x /\ last_y /\ last_z
        THEN \A b \in Blocks(grid_dim) : Before(b, block_idx) \/ b = block_idx
        ELSE /\ NextIdx \in Blocks(grid_dim)
             /\ \A b \in Blocks(grid_dim) :
                   Before(b, NextIdx) <=> Before(b, block_idx) \/ b = block_idx
             /\ Before(block_idx, NextIdx)
    BY <2>3, <2>4, Successor
  <2>6. ServedBlocks = {b \in Blocks(launch_grid) : Before(b, block_idx)}
    BY <2>1, <2>3 DEF DispatchExact
  <2>7. /\ DOMAIN served' = DOMAIN served \cup {Len(served) + 1}
        /\ \A i \in DOMAIN served : served'[i] = served[i] /\ i < Len(served) + 1
        /\ served'[Len(served) + 1] = block_idx
    BY <2>2, <2>4
  <2>8. ServedBlocks' = ServedBlocks \cup {block_idx}
    BY <2>7 DEF ServedBlocks
  <2>9. WalkInv'
    BY <2>2, <2>3, <2>5 DEF WalkInv, Blocks
  <2>10. DispatchOrder'
    <3>1. \A i \in DOMAIN served : Before(served[i], block_idx)
      BY <2>6 DEF ServedBlocks
    <3>2. \A i \in DOMAIN served : i \in Nat /\ i <= Len(served)
      BY <2>4
    <3> SUFFICES ASSUME NEW i \in DOMAIN served', NEW j \in DOMAIN served', i < j
                 PROVE  Before(served'[i], served'[j])
      BY Zenon DEF DispatchOrder, Before
    <3>3. i \in DOMAIN served
      BY <2>4, <2>7, <3>2
    <3>4. CASE j \in DOMAIN served
      BY <2>7, <3>3, <3>4 DEF DispatchOrder
    <3>5. CASE j = Len(served) + 1
      BY <2>7, <3>1, <3>3, <3>5
    <3> QED
      BY <2>7, <3>4, <3>5
  <2>11. DispatchExact'
    <3>1. CASE last_x /\ last_y /\ last_z
      <4>1. ServedBlocks' = Blocks(launch_grid)
        BY <2>3, <2>5, <2>6, <2>8, <3>1
      <4>2. ~running'
        BY <2>2, <3>1
      <4> QED
        BY <2>2, <4>1, <4>2 DEF DispatchExact, Blocks
    <3>2. CASE ~(last_x /\ last_y /\ last_z)
      <4>1. ServedBlocks' = {b \in Blocks(launch_grid) : Before(b, NextIdx)}
        BY <2>3, <2>5, <2>6, <2>8, <3>2
      <4>2. running'
        BY <2>2, <3>2
      <4> QED
        BY <2>2, <4>1, <4>2 DEF DispatchExact, Blocks, Before
    <3> QED
      BY <3>1, <3>2
  <2> QED
    BY <2>9, <2>10, <2>11
<1>4. CASE ~launch /\ ~cta_fire
  <2>1. /\ UNCHANGED <<launch_grid, launched, served, block_idx, running>>
    BY <1>1, <1>4 DEF History, WalkRegs
  <2>2. running => grid_dim' = grid_dim
    BY <1>1, GridKept
  <2> QED
    BY <2>1, <2>2 DEF WalkInv, DispatchOrder, DispatchExact, ServedBlocks, Blocks, Before
<1> QED
  BY <1>1, <1>2, <1>3, <1>4

\* The KMU serves the blocks of every launch in X, Y, Z order, each exactly
\* once and all of them, for every grid, number of cores and backend and
\* whatever the order in which cores become ready.
THEOREM DispatchCorrect == Spec => [](DispatchOrder /\ DispatchExact)
<1>1. Init => WalkInv /\ DispatchOrder /\ DispatchExact
  BY DEF Init, WalkInv, DispatchOrder, DispatchExact
<1>2. TypeOK /\ WalkInv /\ DispatchOrder /\ DispatchExact /\ [Next]_vars
        => WalkInv' /\ DispatchOrder' /\ DispatchExact'
  <2> SUFFICES ASSUME WalkIInv, [Next]_vars
               PROVE  WalkInv' /\ DispatchOrder' /\ DispatchExact'
    BY DEF WalkIInv
  <2>1. CASE Next
    <3>1. PICK dcr, launch, fin, flt : HostEdge(dcr, launch, fin, flt)
      BY <2>1, NextIsEdge, Zenon
    <3>2. /\ launch \in BOOLEAN /\ Edge(dcr, launch, fin, flt)
          /\ (dcr # {} => ~running) /\ (launch => dcr = {})
      BY <3>1 DEF HostEdge, Busy
    <3> QED
      BY <3>2, WalkStep, Zenon
  <2>2. CASE UNCHANGED vars
    BY <2>2 DEF WalkIInv, WalkInv, DispatchOrder, DispatchExact, ServedBlocks,
                Blocks, Before, vars, regs, history
  <2> QED
    BY <2>1, <2>2
<1> QED
  BY <1>1, <1>2, TypeCorrect, PTL DEF Spec

(***************************************************************************)
(* Completion.                                                             *)
(***************************************************************************)

\* Every served CTA stays accounted for, as resident or as retired.
LEMMA ResidentStep ==
  ASSUME TypeOK, ResidentInv, NEW dcr, NEW launch, NEW fin, NEW flt,
         HostEdge(dcr, launch, fin, flt)
  PROVE  ResidentInv'
<1>1. /\ CoreRegs(fin, flt) /\ History(launch, fin)
      /\ launch => ~Busy
      /\ launch \in BOOLEAN
      /\ \A c \in fin : core_active[c]
  BY DEF HostEdge, Edge
<1>2. CASE launch
  <2>1. \A c \in Cores : ~core_active[c] /\ ~Accepts(c)
    BY <1>1, <1>2 DEF Busy, Accepts, cta_fire
  <2>2. \A c \in Cores : ~core_active'[c]
    BY <1>1, <2>1 DEF CoreRegs
  <2>3. served' = << >> /\ retired' = {}
    BY <1>1, <1>2 DEF History
  <2> QED
    BY <2>2, <2>3 DEF ResidentInv
<1>3. CASE ~launch
  <2> DEFINE Cta(i) == [launch |-> launches, pos |-> i]
             Gone == {i \in DOMAIN served : \E c \in fin : core_cta[c] = Cta(i)}
  <2>1. launches' = launches /\ retired' = retired \cup Gone
    BY <1>1, <1>3 DEF History
  <2>2. \A c \in Cores : core_active[c] => core_cta[c] = Cta(core_cta[c].pos)
    BY DEF ResidentInv, TypeOK
  <2>3. \A i \in DOMAIN served \ retired' :
          \E c \in Cores : core_active[c] /\ c \notin fin /\ core_cta[c].pos = i
    <3> SUFFICES ASSUME NEW i \in DOMAIN served, i \notin retired'
                 PROVE  \E c \in Cores :
                          core_active[c] /\ c \notin fin /\ core_cta[c].pos = i
      OBVIOUS
    <3>1. PICK c \in Cores : core_active[c] /\ core_cta[c].pos = i
      BY <2>1 DEF ResidentInv
    <3>2. c \notin fin
      BY <2>1, <2>2, <3>1
    <3> QED
      BY <3>1, <3>2
  <2>4. /\ \A c \in Cores : core_active[c] /\ c \notin fin /\ ~Accepts(c)
                             => core_active'[c] /\ core_cta'[c] = core_cta[c]
        /\ \A c \in Cores : core_active'[c] /\ ~Accepts(c)
                             => core_active[c] /\ core_cta'[c] = core_cta[c]
        /\ \A c \in Cores : Accepts(c) => /\ core_active'[c]
                                          /\ core_cta'[c] = Cta(Len(served) + 1)
    BY <1>1 DEF CoreRegs
  <2>5. \A c \in Cores : Accepts(c) => ~core_active[c]
    BY FireFacts DEF Accepts
  <2>6. CASE cta_fire
    <3>1. served \in Seq(Index) /\ block_idx \in Index
      BY DEF TypeOK
    <3>2. served' = Append(served, block_idx)
      BY <1>1, <1>3, <2>6 DEF History
    <3>3. DOMAIN served' = DOMAIN served \cup {Len(served) + 1}
      BY <3>1, <3>2
    <3>4. selected_core \in Cores /\ Accepts(selected_core)
      BY <2>6, FireFacts DEF Accepts
    <3>5. retired' \subseteq DOMAIN served'
      BY <2>1, <3>3 DEF ResidentInv
    <3>6. \A c \in Cores : core_active'[c] => /\ core_cta'[c].launch = launches'
                                            /\ core_cta'[c].pos \in DOMAIN served'
      BY <2>1, <2>4, <3>3 DEF ResidentInv
    <3>7. \A i \in DOMAIN served' \ retired' :
             \E c \in Cores : core_active'[c] /\ core_cta'[c].pos = i
      <4> SUFFICES ASSUME NEW i \in DOMAIN served', i \notin retired'
                   PROVE  \E c \in Cores : core_active'[c] /\ core_cta'[c].pos = i
        OBVIOUS
      <4>1. CASE i \in DOMAIN served
        <5>1. PICK c \in Cores : core_active[c] /\ c \notin fin /\ core_cta[c].pos = i
          BY <2>3, <4>1
        <5>2. core_active'[c] /\ core_cta'[c] = core_cta[c]
          BY <2>4, <2>5, <5>1
        <5> QED
          BY <5>1, <5>2
      <4>2. CASE i = Len(served) + 1
        BY <2>4, <3>4, <4>2
      <4> QED
        BY <3>3, <4>1, <4>2
    <3> QED
      BY <3>5, <3>6, <3>7 DEF ResidentInv
  <2>7. CASE ~cta_fire
    <3>1. served' = served /\ \A c \in Cores : ~Accepts(c)
      BY <1>1, <1>3, <2>7 DEF History, Accepts
    <3>2. retired' \subseteq DOMAIN served'
      BY <2>1, <3>1 DEF ResidentInv
    <3>3. \A c \in Cores : core_active'[c] => /\ core_cta'[c].launch = launches'
                                            /\ core_cta'[c].pos \in DOMAIN served'
      BY <2>1, <2>4, <3>1 DEF ResidentInv
    <3>4. \A i \in DOMAIN served' \ retired' :
             \E c \in Cores : core_active'[c] /\ core_cta'[c].pos = i
      BY <2>3, <2>4, <3>1
    <3> QED
      BY <3>2, <3>3, <3>4 DEF ResidentInv
  <2> QED
    BY <2>6, <2>7
<1> QED
  BY <1>1, <1>2, <1>3

\* When the host sees busy low after a launch, every block of the grid has been
\* accepted by a core exactly once and has left it.
THEOREM CompletionCorrect == Spec => []IdleMeansComplete
<1>1. Init => ResidentInv
  BY DEF Init, ResidentInv
<1>2. TypeOK /\ ResidentInv /\ [Next]_vars => ResidentInv'
  <2> SUFFICES ASSUME TypeOK, ResidentInv, [Next]_vars PROVE ResidentInv'
    OBVIOUS
  <2>1. CASE Next
    BY <2>1, NextIsEdge, ResidentStep, Zenon
  <2>2. CASE UNCHANGED vars
    BY <2>2 DEF ResidentInv, vars, cores, history
  <2> QED
    BY <2>1, <2>2
<1>3. ResidentInv /\ DispatchOrder /\ DispatchExact => IdleMeansComplete
  BY DEF ResidentInv, DispatchExact, IdleMeansComplete, Busy
<1> QED
  BY <1>1, <1>2, <1>3, TypeCorrect, DispatchCorrect, PTL DEF Spec

(***************************************************************************)
(* Round robin, for the selection network of KMU.sv and for the Chisel and *)
(* SpinalHDL ones when the number of cores fills the core index.           *)
(***************************************************************************)

ExactSelection == Backend = "verilog" \/ NumCores = CoreSlots

\* The core selected is ready and no ready core is closer to the head.
LEMMA SelectionNearest ==
  ASSUME TypeOK, ExactSelection, Ready # {}
  PROVE  /\ selected_core \in Ready
         /\ \A c \in Ready : Distance(selected_core) <= Distance(c)
         /\ \E o \in Cores : FirstReady(o)
<1> USE NumCoresAssumption DEF TypeOK
<1>1. rr_core \in 0..(NumCores - 1) /\ NumCores \in Nat /\ Cores = 0..(NumCores - 1)
  BY DEF Cores
<1>2. \A o \in Cores : /\ Probed(o) = Picked(o) /\ Probed(o) \in Cores
                       /\ Distance(Probed(o)) = o
  <2> SUFFICES ASSUME NEW o \in Cores
               PROVE  /\ Probed(o) = Picked(o) /\ Probed(o) \in Cores
                      /\ Distance(Probed(o)) = o
    OBVIOUS
  <2>1. CASE rr_core + o >= NumCores
    <3>1. ModCores(rr_core + o) = rr_core + o - NumCores
      BY <1>1, <2>1 DEF ModCores
    <3>2. NumCores = CoreSlots => TruncCore(rr_core + o) = rr_core + o - NumCores
      BY <1>1, <2>1 DEF TruncCore
    <3>3. Probed(o) = rr_core + o - NumCores /\ Picked(o) = rr_core + o - NumCores
      BY <3>1, <3>2 DEF ExactSelection, Probed, Picked
    <3> QED
      BY <1>1, <2>1, <3>3 DEF Distance
  <2>2. CASE ~(rr_core + o >= NumCores)
    <3>1. Probed(o) = rr_core + o /\ Picked(o) = rr_core + o
      BY <2>2 DEF ExactSelection, Probed, Picked, ModCores, TruncCore
    <3> QED
      BY <1>1, <2>2, <3>1 DEF Distance
  <2> QED
    BY <2>1, <2>2
<1>3. \A c \in Cores : Distance(c) \in Cores /\ Probed(Distance(c)) = c
  BY <1>1 DEF ExactSelection, Probed, ModCores, TruncCore, Distance
<1> DEFINE T == {o \in Cores : Probed(o) \in Ready}
<1>4. T \subseteq Nat /\ T # {}
  <2>1. PICK c \in Cores : c \in Ready
    BY Zenon DEF Ready
  <2>2. Distance(c) \in T
    BY <1>3, <2>1
  <2> QED
    BY <1>1, <2>2
<1>5. PICK m \in T : \A k \in T : m <= k
  BY <1>4, LeastNat
<1>6. FirstReady(m) /\ m \in Cores
  BY <1>1, <1>5 DEF FirstReady
<1> DEFINE o == CHOOSE o \in Cores : FirstReady(o)
<1>7. o \in Cores /\ FirstReady(o)
  BY <1>6, Zenon
<1>8. selected_core = Picked(o)
  BY <1>6, Zenon DEF selected_core
<1> HIDE DEF o
<1>9. selected_core \in Ready /\ Distance(selected_core) = o
  BY <1>2, <1>7, <1>8 DEF FirstReady
<1>10. \A c \in Ready : Distance(c) >= o
  <2> SUFFICES ASSUME NEW c \in Ready PROVE Distance(c) >= o
    OBVIOUS
  <2>1. c \in Cores /\ Distance(c) \in Cores /\ Probed(Distance(c)) = c
    BY <1>3 DEF Ready
  <2>2. ~(Distance(c) < o)
    BY <1>7, <2>1 DEF FirstReady
  <2> QED
    BY <1>1, <1>7, <2>1, <2>2
<1> QED
  BY <1>6, <1>9, <1>10

LEMMA BypassStep ==
  ASSUME TypeOK, BypassInv, ExactSelection,
         NEW dcr, NEW launch, NEW fin, NEW flt, HostEdge(dcr, launch, fin, flt)
  PROVE  BypassInv'
<1>1. WalkRegs(launch) /\ History(launch, fin) /\ launch \in BOOLEAN /\ (launch => ~running)
  BY DEF HostEdge, Edge, Busy
<1>2. /\ rr_core \in 0..(NumCores - 1) /\ NumCores \in Nat /\ NumCores > 0
      /\ Cores = 0..(NumCores - 1) /\ bypassed \in [Cores -> Nat]
  BY NumCoresAssumption DEF Cores, TypeOK
<1> SUFFICES ASSUME NEW c \in Cores
             PROVE  bypassed'[c] + Distance(c)' <= NumCores - 1
  BY DEF BypassInv
<1>3. bypassed[c] \in Nat /\ bypassed[c] + Distance(c) <= NumCores - 1
  BY <1>2 DEF BypassInv
<1>4. bypassed'[c] = IF c \notin Ready \/ Accepts(c) THEN 0
                     ELSE IF cta_fire THEN bypassed[c] + 1 ELSE bypassed[c]
  BY <1>1 DEF History
<1>5. CASE cta_fire
  <2>1. /\ rr_core' = RrNext
        /\ selected_core \in Cores
        /\ \A d \in Ready : Distance(selected_core) <= Distance(d)
    BY <1>1, <1>5, FireFacts, SelectionNearest DEF WalkRegs, cta_fire
  <2>2. rr_core' = IF selected_core = NumCores - 1 THEN 0 ELSE selected_core + 1
    BY <2>1 DEF RrNext
  <2>3. CASE c \notin Ready \/ Accepts(c)
    BY <1>2, <1>4, <2>1, <2>2, <2>3 DEF Distance
  <2>4. CASE c \in Ready /\ ~Accepts(c)
    <3>1. c # selected_core /\ Distance(selected_core) <= Distance(c)
      BY <1>5, <2>1, <2>4 DEF Accepts
    <3>2. bypassed'[c] = bypassed[c] + 1
      BY <1>4, <1>5, <2>4
    <3> QED
      BY <1>2, <1>3, <2>1, <2>2, <3>1, <3>2 DEF Distance
  <2> QED
    BY <2>3, <2>4
<1>6. CASE ~cta_fire
  <2>1. rr_core' = rr_core
    BY <1>1, <1>6 DEF WalkRegs
  <2>2. bypassed'[c] = 0 \/ bypassed'[c] = bypassed[c]
    BY <1>4, <1>6
  <2> QED
    BY <1>2, <1>3, <2>1, <2>2 DEF Distance
<1> QED
  BY <1>5, <1>6

\* With an exact selection a core that stays ready is passed over at most
\* NUM_CORES - 1 times, for every number of cores.
THEOREM RoundRobinFair == ASSUME ExactSelection PROVE Spec => []BoundedBypass
<1>1. Init => BypassInv
  BY NumCoresAssumption DEF Init, BypassInv, Distance, Cores
<1>2. TypeOK /\ BypassInv /\ [Next]_vars => BypassInv'
  <2> SUFFICES ASSUME TypeOK, BypassInv, [Next]_vars PROVE BypassInv'
    OBVIOUS
  <2>1. CASE Next
    BY <2>1, NextIsEdge, BypassStep, Zenon
  <2>2. CASE UNCHANGED vars
    BY <2>2 DEF BypassInv, Distance, vars, regs, history
  <2> QED
    BY <2>1, <2>2
<1>3. TypeOK /\ BypassInv => BoundedBypass
  <2> SUFFICES ASSUME TypeOK, BypassInv, NEW c \in Cores
               PROVE  bypassed[c] <= NumCores - 1
    BY DEF BoundedBypass
  <2>1. bypassed[c] \in Nat /\ rr_core \in 0..(NumCores - 1) /\ NumCores \in Nat
    BY NumCoresAssumption DEF TypeOK, Cores
  <2>2. Distance(c) \in Nat
    BY <2>1 DEF Distance, Cores
  <2> QED
    BY <2>1, <2>2 DEF BypassInv
<1> QED
  BY <1>1, <1>2, <1>3, TypeCorrect, PTL DEF Spec

\* With an exact selection no ready core is left idle while the walk runs, for
\* every number of cores (kmu_chisel3 is the case it excludes).
THEOREM WorkConserving == ASSUME ExactSelection PROVE Spec => ReadyCoreServed
<1>1. TypeOK /\ [Next]_vars
        => [running /\ Ready # {} => Len(served') = Len(served) + 1]_vars
  <2> SUFFICES ASSUME TypeOK, Next, running, Ready # {}
               PROVE  Len(served') = Len(served) + 1
    OBVIOUS
  <2>1. cta_fire
    BY SelectionNearest DEF cta_fire
  <2>2. PICK dcr, launch, fin, flt : HostEdge(dcr, launch, fin, flt)
    BY NextIsEdge, Zenon
  <2>3. ~launch /\ History(launch, fin)
    BY <2>2 DEF HostEdge, Edge, Busy
  <2>4. served' = Append(served, block_idx)
    BY <2>1, <2>3 DEF History
  <2> QED
    BY <2>4 DEF TypeOK
<1> QED
  BY <1>1, TypeCorrect, PTL DEF Spec, ReadyCoreServed
=============================================================================
