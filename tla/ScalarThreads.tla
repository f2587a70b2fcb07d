--------------------------- MODULE ScalarThreads ---------------------------
(***************************************************************************)
(* What an execution model promises to the kernel it runs, be it a core    *)
(* (SimtCore, for the threads of a CTA) or the interpreter (Iss, for the   *)
(* threads of a grid): independent scalar threads over one memory.  There  *)
(* are no masks, stacks, schedulers or pipelines here: a thread has a      *)
(* program counter and a register file, executes one instruction at a time *)
(* at its own pc, and stops at ebreak.  Threads may step together, except  *)
(* when they access the memory.  They complete when none of them runs any  *)
(* more, and are given up early only for one of the reasons the README     *)
(* documents, and then with a fault, or because the host stops waiting.    *)
(***************************************************************************)
EXTENDS Naturals

CONSTANTS NumWarps, NumThreads, StackDepth,
          Data, Zero, Addr,
          Programs,               \* kernels: functions from pc to instruction
          Result(_, _, _, _),     \* register value written: inst, warp, lane, old
          Takes(_, _),            \* whether a branch is taken: inst, value
          JalrTarget(_, _),       \* target of a jalr: inst, value
          Address(_, _),          \* address of a load or store: inst, value
          OtherStores,            \* stores of the other cores: <<addr, data>>
          Starts,                 \* the sets of threads that may be started together
          MayAbandon              \* the host may stop waiting, and drop the threads

Warps == 0 .. (NumWarps - 1)
Lanes == 0 .. (NumThreads - 1)
Tids == Warps \X Lanes

Illegal == [op |-> "illegal", target |-> 0]
Off == [run |-> FALSE, pc |-> 0, reg |-> Zero]

\* Memory outside the loaded image reads as zero, which is no instruction.
InstAt(prog, pc) == IF pc \in DOMAIN prog THEN prog[pc] ELSE Illegal

VARIABLES active, fault, prog, thread, mem

svars == <<active, fault, prog, thread, mem>>

Running == {i \in Tids : thread[i].run}
At(i) == InstAt(prog, thread[i].pc)

SInit == /\ active = FALSE /\ fault = FALSE /\ prog = << >>
         /\ thread = [i \in Tids |-> Off]
         /\ mem = [a \in Addr |-> Zero]

\* The threads of a CTA or a grid start at pc 0 with cleared registers.
Start == \E p \in Programs, S \in Starts :
    /\ ~active /\ active' = TRUE /\ fault' = FALSE
    /\ prog' = p
    /\ thread' = [i \in Tids |-> IF i \in S
                                 THEN [run |-> TRUE, pc |-> 0, reg |-> Zero] ELSE Off]
    /\ UNCHANGED mem

\* The thread after one instruction that does not touch the memory.
After(i) ==
    LET th == thread[i] inst == At(i) r == Result(inst, i[1], i[2], th.reg)
    IN  CASE inst.op = "alu"    -> [th EXCEPT !.pc = @ + 1, !.reg = r]
          [] inst.op = "jal"    -> [th EXCEPT !.pc = inst.target, !.reg = r]
          [] inst.op = "jalr"   -> [th EXCEPT !.pc = JalrTarget(inst, th.reg), !.reg = r]
          [] inst.op = "branch" -> [th EXCEPT !.pc = IF Takes(inst, th.reg)
                                                     THEN inst.target ELSE @ + 1]
          [] inst.op = "ebreak" -> Off

Advance == \E S \in (SUBSET Running) \ {{}} :
    /\ \A i \in S : At(i).op \in {"alu", "jal", "jalr", "branch", "ebreak"}
    /\ thread' = [i \in Tids |-> IF i \in S THEN After(i) ELSE thread[i]]
    /\ UNCHANGED <<active, fault, prog, mem>>

LoadStep == \E i \in Running :
    /\ At(i).op = "load"
    /\ thread' = [thread EXCEPT ![i].pc = @ + 1,
                                ![i].reg = mem[Address(At(i), thread[i].reg)]]
    /\ UNCHANGED <<active, fault, prog, mem>>

StoreStep == \E i \in Running :
    /\ At(i).op = "store"
    /\ thread' = [thread EXCEPT ![i].pc = @ + 1]
    /\ mem' = [mem EXCEPT ![Address(At(i), thread[i].reg)] = thread[i].reg]
    /\ UNCHANGED <<active, fault, prog>>

Complete == /\ active /\ Running = {} /\ active' = FALSE
            /\ UNCHANGED <<fault, prog, thread, mem>>

\* The documented reasons to give up a CTA: a thread stands at an illegal
\* instruction, two lanes of a warp at one jalr have different targets, or
\* (only with more lanes than the stack can hold paths for) a branch splits a
\* warp.
MustFault ==
    \/ \E i \in Running : At(i).op \in {"illegal", "badreg", "badbranch"}
    \/ \E i, j \in Running :
          /\ i[1] = j[1] /\ thread[i].pc = thread[j].pc
          /\ \/ /\ At(i).op = "jalr"
                /\ JalrTarget(At(i), thread[i].reg) # JalrTarget(At(j), thread[j].reg)
             \/ /\ At(i).op = "branch" /\ NumThreads > StackDepth + 1
                /\ Takes(At(i), thread[i].reg) # Takes(At(j), thread[j].reg)

Abort == /\ active /\ MustFault /\ active' = FALSE /\ fault' = TRUE
         /\ thread' = [i \in Tids |-> Off]
         /\ UNCHANGED <<prog, mem>>

Abandon == /\ active /\ MayAbandon /\ active' = FALSE
           /\ thread' = [i \in Tids |-> Off]
           /\ UNCHANGED <<fault, prog, mem>>

OtherCore == \E s \in OtherStores : /\ mem' = [mem EXCEPT ![s[1]] = s[2]]
                                    /\ UNCHANGED <<active, fault, prog, thread>>

SNext == Start \/ Advance \/ LoadStep \/ StoreStep \/ Complete \/ Abort \/ Abandon \/ OtherCore

SSpec == SInit /\ [][SNext]_svars
=============================================================================
