----------------------------- MODULE MCSimtCore -----------------------------
(***************************************************************************)
(* Instances of SimtCore for TLC.  A lane's register is a number below     *)
(* NumThreads, and every program begins by reading the lane number into    *)
(* it, so that branches and jumps can tell the lanes apart.                *)
(***************************************************************************)
EXTENDS SimtCore, Sequences

I(op, target) == [op |-> op, target |-> target]
ReadLane == I("alu", 0)
Increment == I("alu", 1)
ReadWarp == I("alu", 2)

MCData == 0 .. (NumThreads - 1)
MCResult(i, w, t, v) ==
    CASE i = ReadLane -> t
      [] i = ReadWarp -> w % NumThreads
      [] i = Increment -> (v + 1) % NumThreads
      [] OTHER -> v
MCTakes(i, v) == v = 0
MCJalrTarget(i, v) == IF v = 0 THEN i.target ELSE 0
MCOtherStores == Addr \X {1}
MCAddress(i, v) == CHOOSE a \in Addr : TRUE

\* Every program of n instructions over kinds, after ReadLane.
ProgramsOver(n, kinds) == {[pc \in 0..n |-> IF pc = 0 THEN ReadLane ELSE p[pc]] :
                             p \in [1..n -> kinds]}

\* Every kind of instruction, every pair of them; running past the end faults.
AllKinds == {Increment, I("jal", 2), I("jalr", 3), I("branch", 3), I("ebreak", 0),
             I("load", 0), I("store", 0), I("illegal", 0), I("badbranch", 0),
             I("badreg", 0)}
AnyPrograms == ProgramsOver(2, AllKinds)

\* Programs that split warps, up to three times, around memory accesses.
SplitKinds == {Increment, I("branch", 1), I("branch", 4), I("store", 0),
               I("load", 0), I("ebreak", 0)}
SplitPrograms == {[pc \in 0..4 |-> IF pc = 4 THEN I("ebreak", 0) ELSE p[pc]] :
                    p \in ProgramsOver(3, SplitKinds)}

PathPrograms == AnyPrograms \cup SplitPrograms

\* Programs for a core that takes one CTA after another: splits that run into a
\* fault with a path on the stack, by a bad register or by overflow, a store
\* the next CTA may load, and warp 0 spinning until warp 1 has stored.
Prog(s) == [pc \in 0..6 |-> IF pc < Len(s) THEN s[pc + 1] ELSE I("ebreak", 0)]
WarpPrograms ==
    {Prog(<<ReadLane, I("branch", 3), I("badreg", 0), I("store", 0)>>),
     Prog(<<ReadLane, I("branch", 4), Increment, I("branch", 5), I("load", 0)>>),
     Prog(<<ReadLane, I("store", 0), I("load", 0), I("branch", 4)>>),
     Prog(<<ReadWarp, I("branch", 4), I("store", 0), I("ebreak", 0), I("load", 0),
            I("branch", 4)>>)}
=============================================================================
