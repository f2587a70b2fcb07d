------------------------------- MODULE MCIss -------------------------------
(***************************************************************************)
(* Instances of Iss for TLC, with the instructions of MCSimtCore.          *)
(***************************************************************************)
EXTENDS Iss

I(op, target) == [op |-> op, target |-> target]
ReadLane == I("alu", 0)
Increment == I("alu", 1)

MCData == 0 .. (NumThreads - 1)
MCResult(i, w, t, v) ==
    CASE i = ReadLane -> t
      [] i = Increment -> (v + 1) % NumThreads
      [] OTHER -> v
MCTakes(i, v) == v = 0
MCJalrTarget(i, v) == IF v = 0 THEN i.target ELSE 5
MCAddress(i, v) == CHOOSE a \in Addr : TRUE

\* Every pair of instructions after ReadLane, all of them going forward, and
\* lane 0 spinning until lane 1 has stored its number.  The three kinds of
\* illegal encodings share one action, so one of them stands for all.
AllKinds == {Increment, I("jal", 4), I("jalr", 3), I("branch", 3), I("ebreak", 0),
             I("load", 0), I("store", 0), I("illegal", 0)}
PairPrograms == {[pc \in 0..4 |-> CASE pc = 0 -> ReadLane [] pc \in {1, 2} -> p[pc]
                                     [] OTHER -> I("ebreak", 0)] : p \in [1..2 -> AllKinds]}
SpinProgram ==
    [pc \in 0..6 |-> <<ReadLane, I("branch", 4), I("store", 0), I("ebreak", 0),
                       I("load", 0), I("branch", 4), I("ebreak", 0)>>[pc + 1]]
AnyPrograms == PairPrograms \cup {SpinProgram}
ShortPrograms == {[pc \in 0..1 |-> <<ReadLane, I("ebreak", 0)>>[pc + 1]]}

D(x, y, z) == [x |-> x, y |-> y, z |-> z]
G(grid, block) == [grid |-> grid, block |-> block]

\* A partial warp, and two blocks of two threads along other dimensions.
SmallGeometries == {G(D(1, 1, 1), D(3, 1, 1)), G(D(1, 2, 1), D(1, 1, 2))}
\* Every geometry within the bounds.
AllGeometries ==
    {g \in [grid : [x : 1..3, y : 1..3, z : 1..3], block : [x : 1..4, y : 1..4, z : 1..4]] :
       Size(g.grid) <= MaxBlocks /\ Size(g.block) <= NumWarps * NumThreads}
=============================================================================
