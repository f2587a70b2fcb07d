-------------------------------- MODULE Iss --------------------------------
(***************************************************************************)
(* The C instruction-set simulator, sw/sim/sm/iss.cpp, with the loop of    *)
(* gpu_model_wait (sw/sim/model.cpp) that drives it: the software backend, *)
(* and the reference model of DiffTest.  A launch makes one context        *)
(* ("core" in the source, hart here) per thread of the grid; a step        *)
(* executes one instruction of the next hart, round robin, that has not    *)
(* halted.  There are no warps, except that a jalr looks for other lanes   *)
(* of its warp.                                                            *)
(*                                                                         *)
(* As in SimtCore, the registers of a hart are one value, pc counts        *)
(* instructions and what an instruction computes is a constant operator.   *)
(***************************************************************************)
EXTENDS Integers

CONSTANTS NumCores, NumWarps, NumThreads,   \* the hardware topology
          Data, Zero, Addr, Programs,
          Result(_, _, _, _), Takes(_, _), JalrTarget(_, _), Address(_, _),
          Geometries,     \* launches: grid and block dimensions
          MaxBlocks,      \* bound: blocks of a grid
          MaxLaunches,    \* bound: launches
          MayTimeout      \* the kernel may outlast the step limit of the host

Dim == [x : Nat, y : Nat, z : Nat]
Size(d) == d.x * d.y * d.z

ASSUME IssTopology ==
    NumCores \in Nat \ {0} /\ NumWarps \in Nat \ {0} /\ NumThreads \in Nat \ {0}
ASSUME IssBounds == MaxBlocks \in Nat /\ MaxLaunches \in Nat /\ MayTimeout \in BOOLEAN
\* What gpu_launch lets through, within the bound on the number of blocks.
ASSUME IssGeometries ==
    /\ Geometries \subseteq [grid : Dim, block : Dim]
    /\ \A g \in Geometries : /\ Size(g.grid) \in 1..MaxBlocks
                             /\ Size(g.block) \in 1..(NumWarps * NumThreads)

NoGeometry == [grid |-> [x |-> 1, y |-> 1, z |-> 1], block |-> [x |-> 1, y |-> 1, z |-> 1]]
Illegal == [op |-> "illegal", target |-> 0]

VARIABLES cores,      \* per hart of the launch: pc, register, halted
          rr, faulted,
          geometry,   \* launch_grid, launch_block
          prog, mem,
          waiting,    \* inside the loop of gpu_model_wait
          launches    \* history: launches so far

vars == <<cores, rr, faulted, geometry, prog, mem, waiting, launches>>

(***************************************************************************)
(* The context of a hart.                                                  *)
(***************************************************************************)

ncores == Size(geometry.grid) * Size(geometry.block)
Harts == DOMAIN cores

Local(h) == h % Size(geometry.block)
BlockOf(h) == h \div Size(geometry.block)
lane_id(h) == Local(h) % NumThreads
warp_id(h) == Local(h) \div NumThreads
physical_id(h) == (BlockOf(h) % NumCores) * (NumWarps * NumThreads) + Local(h)

\* Mutant of thread_idx: the row is not reduced by the block's height.
thread_idx_unreduced(h) ==
    LET d == geometry.block
    IN  [x |-> Local(h) % d.x, y |-> Local(h) \div d.x, z |-> Local(h) \div (d.x * d.y)]

thread_idx(h) ==
    LET d == geometry.block
    IN  [x |-> Local(h) % d.x, y |-> (Local(h) \div d.x) % d.y,
         z |-> Local(h) \div (d.x * d.y)]

block_idx(h) ==
    LET g == geometry.grid
    IN  [x |-> BlockOf(h) % g.x, y |-> (BlockOf(h) \div g.x) % g.y,
         z |-> BlockOf(h) \div (g.x * g.y)]

\* Core.sv: what a core derives for lane i of the block b it accepts.
core_thread_idx(i) ==
    LET d == geometry.block
    IN  [x |-> i % d.x, y |-> (i \div d.x) % d.y, z |-> i \div (d.x * d.y)]
core_global_id(b, i) ==
    ((b.z * geometry.grid.y + b.y) * geometry.grid.x + b.x) * Size(geometry.block) + i

\* The warps of all blocks in one row.
Warp(h) == BlockOf(h) * NumWarps + warp_id(h)

same_warp(h, i) == warp_id(h) = warp_id(i) /\ block_idx(h) = block_idx(i)

(***************************************************************************)
(* Launch: gpu_iss_init, the DCR mirror and gpu_iss_launch.                *)
(***************************************************************************)

Init ==
    /\ cores = << >> /\ rr = 0 /\ faulted = FALSE
    /\ geometry = NoGeometry
    /\ prog = << >> /\ mem = [a \in Addr |-> Zero] /\ waiting = FALSE /\ launches = 0

\* Mutant of gpu_iss_launch: the fault of the last launch is not cleared.
gpu_iss_launch_faulted(p, g) ==
    /\ ~waiting /\ launches < MaxLaunches
    /\ geometry' = g
    /\ cores' = [h \in 0..(Size(g.grid) * Size(g.block) - 1) |->
                   [pc |-> 0, reg |-> Zero, halted |-> FALSE]]
    /\ rr' = 0 /\ UNCHANGED faulted
    /\ prog' = p /\ waiting' = TRUE /\ launches' = launches + 1
    /\ UNCHANGED mem

gpu_iss_launch(p, g) ==
    /\ ~waiting /\ launches < MaxLaunches
    /\ geometry' = g
    /\ cores' = [h \in 0..(Size(g.grid) * Size(g.block) - 1) |->
                   [pc |-> 0, reg |-> Zero, halted |-> FALSE]]
    /\ rr' = 0 /\ faulted' = FALSE
    /\ prog' = p /\ waiting' = TRUE /\ launches' = launches + 1
    /\ UNCHANGED mem

(***************************************************************************)
(* gpu_iss_step.                                                           *)
(***************************************************************************)

gpu_iss_done == faulted \/ (Harts # {} /\ \A h \in Harts : cores[h].halted)

\* (rr + i) % ncores for i < ncores.
From(i) == IF rr + i >= ncores THEN rr + i - ncores ELSE rr + i

\* The first hart from rr on that has not halted.
Scheduled(h) ==
    /\ waiting /\ ~gpu_iss_done
    /\ \E i \in Harts : /\ h = From(i) /\ ~cores[h].halted
                        /\ \A j \in Harts : j < i => cores[From(j)].halted

\* Mutant of Advance: the next hart is always the first one.
AdvanceNot(h) == rr' = 0
\* The scan leaves rr behind the hart it has found.
Advance(h) == rr' = IF h + 1 = ncores THEN 0 ELSE h + 1

InstAt(pc) == IF pc \in DOMAIN prog THEN prog[pc] ELSE Illegal
Inst(h) == InstAt(cores[h].pc)

ToNext(h, c) == /\ Scheduled(h) /\ Advance(h)
                /\ cores' = [cores EXCEPT ![h] = c]

Value(h) == Result(Inst(h), Warp(h), lane_id(h), cores[h].reg)

StepAlu(h) ==
    /\ Inst(h).op \in {"alu", "jal"}
    /\ ToNext(h, [pc |-> IF Inst(h).op = "jal" THEN Inst(h).target ELSE cores[h].pc + 1,
                  reg |-> Value(h), halted |-> FALSE])
    /\ UNCHANGED <<faulted, geometry, prog, mem, waiting, launches>>

StepBranch(h) ==
    /\ Inst(h).op = "branch"
    /\ ToNext(h, [cores[h] EXCEPT !.pc = IF Takes(Inst(h), cores[h].reg)
                                         THEN Inst(h).target ELSE @ + 1])
    /\ UNCHANGED <<faulted, geometry, prog, mem, waiting, launches>>

Target(h) == JalrTarget(Inst(h), cores[h].reg)

\* A lane of the same warp that stands at this jalr and would go elsewhere.
Diverges(h) == \E i \in Harts \ {h} :
    /\ ~cores[i].halted /\ cores[i].pc = cores[h].pc /\ same_warp(h, i)
    /\ JalrTarget(Inst(h), cores[i].reg) # Target(h)

StepJalr(h) ==
    /\ Inst(h).op = "jalr" /\ ~Diverges(h)
    /\ ToNext(h, [pc |-> Target(h), reg |-> Value(h), halted |-> FALSE])
    /\ UNCHANGED <<faulted, geometry, prog, mem, waiting, launches>>

StepEbreak(h) ==
    /\ Inst(h).op = "ebreak"
    /\ ToNext(h, [cores[h] EXCEPT !.halted = TRUE])
    /\ UNCHANGED <<faulted, geometry, prog, mem, waiting, launches>>

StepLoad(h) ==
    /\ Inst(h).op = "load"
    /\ ToNext(h, [cores[h] EXCEPT !.pc = @ + 1, !.reg = mem[Address(Inst(h), @)]])
    /\ UNCHANGED <<faulted, geometry, prog, mem, waiting, launches>>

StepStore(h) ==
    /\ Inst(h).op = "store"
    /\ ToNext(h, [cores[h] EXCEPT !.pc = @ + 1])
    /\ mem' = [mem EXCEPT ![Address(Inst(h), cores[h].reg)] = cores[h].reg]
    /\ UNCHANGED <<faulted, geometry, prog, waiting, launches>>

\* fault_core: the whole launch is over.
StepFault(h) ==
    /\ Inst(h).op \in {"illegal", "badbranch", "badreg"} \/ (Inst(h).op = "jalr" /\ Diverges(h))
    /\ ToNext(h, [cores[h] EXCEPT !.halted = TRUE])
    /\ faulted' = TRUE
    /\ UNCHANGED <<geometry, prog, mem, waiting, launches>>

gpu_iss_step == \E h \in Harts :
    \/ StepAlu(h) \/ StepBranch(h) \/ StepJalr(h) \/ StepEbreak(h)
    \/ StepLoad(h) \/ StepStore(h) \/ StepFault(h)

\* gpu_model_wait returns.
WaitDone == /\ waiting /\ gpu_iss_done /\ waiting' = FALSE
            /\ UNCHANGED <<cores, rr, faulted, geometry, prog, mem, launches>>

\* After max_steps steps; the harts stay where they are.
WaitTimeout == /\ MayTimeout /\ waiting /\ ~gpu_iss_done /\ waiting' = FALSE
               /\ UNCHANGED <<cores, rr, faulted, geometry, prog, mem, launches>>

Launch == \E p \in Programs, g \in Geometries : gpu_iss_launch(p, g)

\* The host makes no further call.
Rest == ~waiting /\ launches = MaxLaunches /\ UNCHANGED vars

Next == Launch \/ gpu_iss_step \/ WaitDone \/ WaitTimeout \/ Rest

Spec == Init /\ [][Next]_vars
\* gpu_model_wait is a loop of the calling thread.
FairSpec == Spec /\ WF_vars(gpu_iss_step) /\ WF_vars(WaitDone)

(***************************************************************************)
(* Properties.                                                             *)
(***************************************************************************)

\* The coordinates the interpreter hands out are the ones the cores derive: a
\* hart is the lane of its block whose global id it has, and every thread of
\* every block of the grid is one hart (iss.cpp:359-376, Core.sv:185-198).
CoordinatesMatchCore ==
    /\ \A h \in Harts : /\ core_global_id(block_idx(h), Local(h)) = h
                        /\ core_thread_idx(Local(h)) = thread_idx(h)
    /\ Harts # {} =>
         {<<block_idx(h), thread_idx(h)>> : h \in Harts} =
             LET In(d) == [x : 0..(d.x - 1), y : 0..(d.y - 1), z : 0..(d.z - 1)]
             IN  In(geometry.grid) \X In(geometry.block)

\* gpu_model_wait returns, for kernels whose threads wait for each other, even
\* within a warp: the round robin reaches every hart that has not halted,
\* whatever the others do (iss.cpp:381-393).
WaitReturns == waiting ~> ~waiting

\* How far the round robin is from hart h.
Ahead(h) == IF h >= rr THEN h - rr ELSE h + ncores - rr

\* A running hart takes the step or gets closer to its turn: it waits for at most
\* ncores - 1 steps, whatever the other harts execute and whichever of them halt
\* meanwhile (iss.cpp:381-393; IssProofs).
HartsTakeTurns ==
    [][waiting /\ waiting' =>
         \A h \in Harts : cores[h].halted \/ Scheduled(h) \/ Ahead(h)' < Ahead(h)]_vars

(***************************************************************************)
(* The refinement of ScalarThreads.                                        *)
(***************************************************************************)

AllTids == (0..(MaxBlocks * NumWarps - 1)) \X (0..(NumThreads - 1))

\* Thread i of a block is lane i % NumThreads of its warp i \div NumThreads.
TidsOf(g) == {<<b * NumWarps + (i \div NumThreads), i % NumThreads>> :
                b \in 0..(Size(g.grid) - 1), i \in 0..(Size(g.block) - 1)}

ThreadOf(t) ==
    IF waiting /\ ~faulted
       /\ \E h \in Harts : Warp(h) = t[1] /\ lane_id(h) = t[2] /\ ~cores[h].halted
    THEN LET h == CHOOSE k \in Harts : Warp(k) = t[1] /\ lane_id(k) = t[2]
         IN  [run |-> TRUE, pc |-> cores[h].pc, reg |-> cores[h].reg]
    ELSE [run |-> FALSE, pc |-> 0, reg |-> Zero]

Scalar == INSTANCE ScalarThreads WITH
            NumWarps <- MaxBlocks * NumWarps, StackDepth <- NumThreads,
            OtherStores <- {}, Starts <- {TidsOf(g) : g \in Geometries},
            MayAbandon <- MayTimeout,
            active <- waiting /\ ~faulted, fault <- faulted,
            thread <- [t \in AllTids |-> ThreadOf(t)]

\* The interpreter makes the promise the cores make: every hart behaves like a
\* scalar thread, gpu_model_wait reports completion only when all have stopped,
\* and a fault is raised only for a documented reason and ends the launch.
ImplementsScalarThreads == Scalar!SSpec

(***************************************************************************)
(* The inductive invariant behind the properties (IssProofs): the contexts *)
(* are those of the launched grid, and there are none before a launch.     *)
(***************************************************************************)

IsContext(c) == /\ DOMAIN c = {"pc", "reg", "halted"} /\ c.halted \in BOOLEAN
                /\ c = [pc |-> c.pc, reg |-> c.reg, halted |-> c.halted]

IssInv == /\ Harts # {} => geometry \in Geometries /\ Harts = 0..(ncores - 1)
          /\ waiting => Harts # {}
          /\ waiting \in BOOLEAN /\ faulted \in BOOLEAN
          /\ \A h \in Harts : IsContext(cores[h])

\* The round robin points at a hart.
RrInv == Harts # {} => rr \in Harts
=============================================================================
