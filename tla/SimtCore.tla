------------------------------ MODULE SimtCore ------------------------------
(***************************************************************************)
(* A core of OpenGPU, hw/verilog/vsrc/Riscv/Core.sv: it holds one CTA of   *)
(* up to NumWarps * NumThreads threads, schedules its warps round robin,   *)
(* and executes one instruction of a warp at a time for the lanes of the   *)
(* warp's mask.  A branch on which the lanes disagree pushes the taken     *)
(* path on the warp's stack and goes on with the others; ebreak ends the   *)
(* current path and pops the next one.                                     *)
(*                                                                         *)
(* One step is one clock edge of the core (or a store of another core).    *)
(* The register file of a lane is one value, and the instructions are      *)
(* kinds with a target; what they compute is given by the constant         *)
(* operators Result, Takes, JalrTarget and Address.  pc counts             *)
(* instructions.  The decoded fields that Core.sv keeps from EXEC are      *)
(* functions of issue_inst, which is the instruction at issue_pc.          *)
(***************************************************************************)
EXTENDS Integers, FiniteSets

CONSTANTS NumWarps, NumThreads, StackDepth, Data, Zero, Addr, Programs,
          Result(_, _, _, _), Takes(_, _), JalrTarget(_, _), Address(_, _),
          OtherStores,
          MaxCtas          \* bound: CTAs the core accepts

ASSUME TopologyAssumption ==
    NumWarps \in Nat \ {0} /\ NumThreads \in Nat \ {0} /\ StackDepth \in Nat \ {0}
ASSUME BoundAssumption == MaxCtas \in Nat
ASSUME DataAssumption == Zero \in Data /\ OtherStores \subseteq Addr \X Data

Warps == 0 .. (NumWarps - 1)
Lanes == 0 .. (NumThreads - 1)
Slots == 0 .. (StackDepth - 1)
States == {"SCHED", "FETCH", "EXEC", "MEM_REQ", "MEM_RESP"}
Ops == {"alu", "jal", "jalr", "branch", "ebreak", "load", "store",
        "illegal",     \* an opcode, CSR or ALU function Core.sv does not support
        "badbranch",   \* a branch with an unsupported funct3
        "badreg"}      \* an operand register x16..x31
Inst == [op : Ops, target : Nat]
Illegal == [op |-> "illegal", target |-> 0]

ASSUME ProgramAssumption ==
    Programs # {} /\ \A p \in Programs : \A pc \in DOMAIN p : p[pc] \in Inst

AllInsts == (UNION {{p[pc] : pc \in DOMAIN p} : p \in Programs}) \cup {Illegal}

\* What the instructions compute stays in the data the lanes hold.
ASSUME SemanticsAssumption ==
    \A i \in AllInsts : \A v \in Data :
        /\ \A w \in Warps, t \in Lanes : Result(i, w, t, v) \in Data
        /\ Takes(i, v) \in BOOLEAN
        /\ JalrTarget(i, v) \in Nat
        /\ Address(i, v) \in Addr

VARIABLES
    state, cta_active, fault_r, rr_warp,
    issue_warp, issue_mask, issue_pc, mem_thread,
    warp_pc, warp_mask, warp_valid,           \* per warp
    stack_sp, stack_pc, stack_mask,           \* per warp, and per slot
    gprs,                                     \* per warp and lane
    mem,                                      \* SimDataMem, shared by the cores
    prog,                                     \* SimInstMem
    cta_size, ctas     \* history: size of the resident CTA, CTAs accepted

issue == <<issue_warp, issue_mask, issue_pc>>
stacks == <<stack_sp, stack_pc, stack_mask>>
warpvars == <<warp_pc, warp_mask, warp_valid, stacks>>
cta == <<prog, cta_size, ctas>>
vars == <<state, cta_active, fault_r, rr_warp, issue, mem_thread, warpvars,
          gprs, mem, cta>>

InstAt(pc) == IF pc \in DOMAIN prog THEN prog[pc] ELSE Illegal
issue_inst == InstAt(issue_pc)

\* core_ready and core_busy of the KMU interface.
cta_ready == ~cta_active /\ state = "SCHED"

InitialMask(w, size) == {t \in Lanes : w * NumThreads + t < size}

Init ==
    /\ state = "SCHED" /\ cta_active = FALSE /\ fault_r = FALSE /\ rr_warp = 0
    /\ issue_warp = 0 /\ issue_mask = {} /\ issue_pc = 0 /\ mem_thread = 0
    /\ warp_pc = [w \in Warps |-> 0] /\ warp_mask = [w \in Warps |-> {}]
    /\ warp_valid = [w \in Warps |-> FALSE]
    /\ stack_sp = [w \in Warps |-> 0]
    /\ stack_pc = [w \in Warps |-> [s \in Slots |-> 0]]
    /\ stack_mask = [w \in Warps |-> [s \in Slots |-> {}]]
    /\ gprs = [w \in Warps |-> [t \in Lanes |-> Zero]]
    /\ mem = [a \in Addr |-> Zero]
    /\ prog = << >> /\ cta_size = 0 /\ ctas = 0

\* Mutant of Accept: the divergence stacks of the last CTA are kept.
AcceptKeepStack(p, size) ==
    /\ cta_ready /\ ctas < MaxCtas
    /\ cta_active' = TRUE /\ fault_r' = FALSE /\ state' = "SCHED" /\ rr_warp' = 0
    /\ warp_pc' = [w \in Warps |-> 0]
    /\ warp_mask' = [w \in Warps |-> InitialMask(w, size)]
    /\ warp_valid' = [w \in Warps |-> w * NumThreads < size]
    /\ gprs' = [w \in Warps |-> [t \in Lanes |-> Zero]]
    /\ prog' = p /\ cta_size' = size /\ ctas' = ctas + 1
    /\ UNCHANGED <<issue, mem_thread, stacks, mem>>

\* A CTA of the size the host may ask for, at the KMU's ready/valid handshake.
Accept(p, size) ==
    /\ cta_ready /\ ctas < MaxCtas
    /\ cta_active' = TRUE /\ fault_r' = FALSE /\ state' = "SCHED" /\ rr_warp' = 0
    /\ warp_pc' = [w \in Warps |-> 0]
    /\ stack_sp' = [w \in Warps |-> 0]
    /\ warp_mask' = [w \in Warps |-> InitialMask(w, size)]
    /\ warp_valid' = [w \in Warps |-> w * NumThreads < size]
    /\ gprs' = [w \in Warps |-> [t \in Lanes |-> Zero]]
    /\ prog' = p /\ cta_size' = size /\ ctas' = ctas + 1
    /\ UNCHANGED <<issue, mem_thread, stack_pc, stack_mask, mem>>

(***************************************************************************)
(* SCHED and FETCH.                                                        *)
(***************************************************************************)

\* i % WARPS for i < 2 * WARPS.
ModWarps(i) == IF i >= NumWarps THEN i - NumWarps ELSE i

\* The first valid warp from rr_warp on.
IsNextWarp(w) ==
    \E o \in Warps : /\ w = ModWarps(rr_warp + o) /\ warp_valid[w]
                     /\ \A p \in Warps : p < o => ~warp_valid[ModWarps(rr_warp + p)]

\* Mutant of SchedIssue: the mask of the round-robin head is latched.
SchedIssueHeadMask(w) ==
    /\ cta_active /\ state = "SCHED" /\ IsNextWarp(w)
    /\ issue_warp' = w /\ issue_mask' = warp_mask[rr_warp] /\ issue_pc' = warp_pc[w]
    /\ state' = "FETCH"
    /\ UNCHANGED <<cta_active, fault_r, rr_warp, mem_thread, warpvars, gprs, mem, cta>>

SchedIssue(w) ==
    /\ cta_active /\ state = "SCHED" /\ IsNextWarp(w)
    /\ issue_warp' = w /\ issue_mask' = warp_mask[w] /\ issue_pc' = warp_pc[w]
    /\ state' = "FETCH"
    /\ UNCHANGED <<cta_active, fault_r, rr_warp, mem_thread, warpvars, gprs, mem, cta>>

SchedDrained ==
    /\ cta_active /\ state = "SCHED" /\ \A w \in Warps : ~warp_valid[w]
    /\ cta_active' = FALSE
    /\ UNCHANGED <<state, fault_r, rr_warp, issue, mem_thread, warpvars, gprs, mem, cta>>

Fetch ==
    /\ cta_active /\ state = "FETCH" /\ state' = "EXEC"
    /\ UNCHANGED <<cta_active, fault_r, rr_warp, issue, mem_thread, warpvars, gprs, mem, cta>>

(***************************************************************************)
(* EXEC.                                                                   *)
(***************************************************************************)

\* Mutant of RrWarpNext: fixed priority.
RrWarpNextFixed == 0

RrWarpNext == IF issue_warp = NumWarps - 1 THEN 0 ELSE issue_warp + 1

advance_warp == rr_warp' = RrWarpNext /\ state' = "SCHED"

RaiseFault == fault_r' = TRUE /\ cta_active' = FALSE

Exec(op) == cta_active /\ state = "EXEC" /\ issue_inst.op = op

\* An operand register outside RV32E: rr_warp stays.
ExecBadReg ==
    /\ Exec("badreg")
    /\ RaiseFault /\ state' = "SCHED"
    /\ UNCHANGED <<rr_warp, issue, mem_thread, warpvars, gprs, mem, cta>>

ExecMemory ==
    /\ Exec("load") \/ Exec("store")
    /\ mem_thread' = 0 /\ state' = "MEM_REQ"
    /\ UNCHANGED <<cta_active, fault_r, rr_warp, issue, warpvars, gprs, mem, cta>>

\* ebreak ends the current path: the warp goes on with the path on top of its
\* stack, or becomes invalid.
ExecEbreak ==
    LET w == issue_warp top == stack_sp[w] - 1
    IN  /\ Exec("ebreak")
        /\ advance_warp
        /\ \/ /\ stack_sp[w] # 0
              /\ stack_sp' = [stack_sp EXCEPT ![w] = top]
              /\ warp_pc' = [warp_pc EXCEPT ![w] = stack_pc[w][top]]
              /\ warp_mask' = [warp_mask EXCEPT ![w] = stack_mask[w][top]]
              /\ UNCHANGED warp_valid
           \/ /\ stack_sp[w] = 0
              /\ warp_valid' = [warp_valid EXCEPT ![w] = FALSE]
              /\ UNCHANGED <<stack_sp, warp_pc, warp_mask>>
        /\ UNCHANGED <<cta_active, fault_r, issue, mem_thread, stack_pc, stack_mask,
                       gprs, mem, cta>>

taken_mask == {t \in issue_mask : Takes(issue_inst, gprs[issue_warp][t])}
fall_mask == issue_mask \ taken_mask
\* Mutant of Diverges: a branch that every lane takes is pushed as well.
DivergesOnTaken == taken_mask # {}

Diverges == taken_mask # {} /\ fall_mask # {}

\* All lanes agree.
ExecUniformBranch ==
    LET w == issue_warp
    IN  /\ Exec("branch") /\ ~Diverges
        /\ warp_pc' = [warp_pc EXCEPT
                         ![w] = IF taken_mask # {} THEN issue_inst.target ELSE issue_pc + 1]
        /\ warp_mask' = [warp_mask EXCEPT
                           ![w] = IF taken_mask # {} THEN taken_mask ELSE fall_mask]
        /\ advance_warp
        /\ UNCHANGED <<cta_active, fault_r, issue, mem_thread, warp_valid, stacks,
                       gprs, mem, cta>>

\* Mutant of ExecDivergentBranch: the warp goes on with all its lanes.
ExecDivergentBranchAllLanes ==
    LET w == issue_warp sp == stack_sp[issue_warp]
    IN  /\ Exec("branch") /\ Diverges /\ sp < StackDepth
        /\ stack_pc' = [stack_pc EXCEPT ![w][sp] = issue_inst.target]
        /\ stack_mask' = [stack_mask EXCEPT ![w][sp] = taken_mask]
        /\ stack_sp' = [stack_sp EXCEPT ![w] = sp + 1]
        /\ warp_pc' = [warp_pc EXCEPT ![w] = issue_pc + 1]
        /\ advance_warp
        /\ UNCHANGED <<cta_active, fault_r, issue, mem_thread, warp_mask, warp_valid,
                       gprs, mem, cta>>

\* The lanes that take the branch wait on the stack, the others go on.
ExecDivergentBranch ==
    LET w == issue_warp sp == stack_sp[issue_warp]
    IN  /\ Exec("branch") /\ Diverges /\ sp < StackDepth
        /\ stack_pc' = [stack_pc EXCEPT ![w][sp] = issue_inst.target]
        /\ stack_mask' = [stack_mask EXCEPT ![w][sp] = taken_mask]
        /\ stack_sp' = [stack_sp EXCEPT ![w] = sp + 1]
        /\ warp_pc' = [warp_pc EXCEPT ![w] = issue_pc + 1]
        /\ warp_mask' = [warp_mask EXCEPT ![w] = fall_mask]
        /\ advance_warp
        /\ UNCHANGED <<cta_active, fault_r, issue, mem_thread, warp_valid, gprs, mem, cta>>

\* The divergence stack is full, or the branch is not supported.
ExecBranchFault ==
    /\ \/ Exec("branch") /\ Diverges /\ stack_sp[issue_warp] >= StackDepth
       \/ Exec("badbranch")
    /\ RaiseFault /\ advance_warp
    /\ UNCHANGED <<issue, mem_thread, warpvars, gprs, mem, cta>>

\* The registers of the lanes of the warp after an ALU, CSR or jump instruction;
\* they are written also when the instruction faults.
Written == [gprs EXCEPT ![issue_warp] =
              [t \in Lanes |-> IF t \in issue_mask
                               THEN Result(issue_inst, issue_warp, t, gprs[issue_warp][t])
                               ELSE gprs[issue_warp][t]]]

Targets == {JalrTarget(issue_inst, gprs[issue_warp][t]) : t \in issue_mask}
divergent_target == issue_inst.op = "jalr" /\ \E a, b \in Targets : a # b

ExecFault ==
    /\ Exec("illegal") \/ (Exec("jalr") /\ divergent_target)
    /\ gprs' = Written
    /\ RaiseFault /\ advance_warp
    /\ UNCHANGED <<issue, mem_thread, warpvars, mem, cta>>

\* next_pc of the last lane, which all active lanes share.
ExecAlu ==
    /\ \/ Exec("alu") /\ warp_pc' = [warp_pc EXCEPT ![issue_warp] = issue_pc + 1]
       \/ Exec("jal") /\ warp_pc' = [warp_pc EXCEPT ![issue_warp] = issue_inst.target]
       \/ /\ Exec("jalr") /\ ~divergent_target
          /\ \E pc \in Targets : warp_pc' = [warp_pc EXCEPT ![issue_warp] = pc]
    /\ gprs' = Written
    /\ advance_warp
    /\ UNCHANGED <<cta_active, fault_r, issue, mem_thread, warp_mask, warp_valid, stacks,
                   mem, cta>>

(***************************************************************************)
(* MEM_REQ and MEM_RESP: the lanes access the memory one after another.    *)
(***************************************************************************)

LastLane == mem_thread = NumThreads - 1

FinishMemory == /\ warp_pc' = [warp_pc EXCEPT ![issue_warp] = issue_pc + 1]
                /\ advance_warp
                /\ UNCHANGED mem_thread

MemSkip ==
    /\ cta_active /\ state = "MEM_REQ" /\ mem_thread \notin issue_mask
    /\ \/ LastLane /\ FinishMemory
       \/ /\ ~LastLane /\ mem_thread' = mem_thread + 1
          /\ UNCHANGED <<state, rr_warp, warp_pc>>
    /\ UNCHANGED <<cta_active, fault_r, issue, warp_mask, warp_valid, stacks, gprs, mem, cta>>

LaneValue == gprs[issue_warp][mem_thread]

\* dmem_wen is high for one cycle, in MEM_REQ.
MemRequest ==
    /\ cta_active /\ state = "MEM_REQ" /\ mem_thread \in issue_mask
    /\ state' = "MEM_RESP"
    /\ mem' = IF issue_inst.op = "store"
              THEN [mem EXCEPT ![Address(issue_inst, LaneValue)] = LaneValue] ELSE mem
    /\ UNCHANGED <<cta_active, fault_r, rr_warp, issue, mem_thread, warpvars, gprs, cta>>

\* A load takes dmem_rdata at the edge that leaves MEM_RESP.
MemResponse ==
    /\ cta_active /\ state = "MEM_RESP"
    /\ gprs' = IF issue_inst.op = "load"
               THEN [gprs EXCEPT ![issue_warp][mem_thread] =
                                    mem[Address(issue_inst, LaneValue)]] ELSE gprs
    /\ \/ LastLane /\ FinishMemory
       \/ /\ ~LastLane /\ mem_thread' = mem_thread + 1 /\ state' = "MEM_REQ"
          /\ UNCHANGED <<rr_warp, warp_pc>>
    /\ UNCHANGED <<cta_active, fault_r, issue, warp_mask, warp_valid, stacks, mem, cta>>

\* Another core stores to the shared memory.
OtherStore == \E s \in OtherStores :
    /\ mem' = [mem EXCEPT ![s[1]] = s[2]]
    /\ UNCHANGED <<state, cta_active, fault_r, rr_warp, issue, mem_thread, warpvars, gprs, cta>>

AcceptAny == \E p \in Programs, size \in 1..(NumWarps * NumThreads) : Accept(p, size)

\* An edge at which no CTA is held or offered.
Idle == cta_ready /\ UNCHANGED vars

Step == \/ \E w \in Warps : SchedIssue(w)
        \/ SchedDrained \/ Fetch
        \/ ExecBadReg \/ ExecMemory \/ ExecEbreak
        \/ ExecUniformBranch \/ ExecDivergentBranch \/ ExecBranchFault
        \/ ExecFault \/ ExecAlu
        \/ MemSkip \/ MemRequest \/ MemResponse

Next == AcceptAny \/ Step \/ Idle \/ OtherStore

Spec == Init /\ [][Next]_vars

\* The clock of a core that holds a CTA keeps running.
FairSpec == Spec /\ WF_vars(Step)

(***************************************************************************)
(* Properties.                                                             *)
(***************************************************************************)

TypeOK ==
    /\ state \in States /\ cta_active \in BOOLEAN /\ fault_r \in BOOLEAN
    /\ rr_warp \in Warps /\ issue_warp \in Warps /\ mem_thread \in Lanes
    /\ issue_mask \in SUBSET Lanes /\ issue_pc \in Nat
    /\ warp_pc \in [Warps -> Nat] /\ warp_mask \in [Warps -> SUBSET Lanes]
    /\ warp_valid \in [Warps -> BOOLEAN]
    /\ stack_sp \in [Warps -> 0..StackDepth]
    /\ stack_pc \in [Warps -> [Slots -> Nat]]
    /\ stack_mask \in [Warps -> [Slots -> SUBSET Lanes]]
    /\ gprs \in [Warps -> [Lanes -> Data]]
    /\ mem \in [Addr -> Data]
    /\ prog \in Programs \cup {<< >>} /\ cta_size \in Nat /\ ctas \in Nat

\* The core is ready for a CTA exactly when it holds none: a fault, in whatever
\* state it strikes, leaves no half-finished instruction behind (Core.sv:68,229,
\* 245,322).  The KMU relies on it to take busy for the negation of ready.
ReadyIffIdle == cta_ready <=> ~cta_active

\* From FETCH on, the latched issue registers agree with the warp they were
\* read from: nothing changes the warp's pc or mask under the instruction.
IssueCoherent ==
    cta_active /\ state # "SCHED" =>
        /\ warp_valid[issue_warp]
        /\ issue_mask = warp_mask[issue_warp] /\ issue_pc = warp_pc[issue_warp]

\* The paths of a warp: the current one and the ones on its stack.
Live(w) == 0 .. (stack_sp[w] - 1)
Deferred(w, s) == stack_mask[w][s]

\* Each path of a valid warp has lanes of the CTA, and no lane is on two paths:
\* divergence neither loses nor duplicates a lane, and no path is empty.
PathsPartition ==
    cta_active => \A w \in Warps : warp_valid[w] =>
        /\ warp_mask[w] # {} /\ warp_mask[w] \subseteq InitialMask(w, cta_size)
        /\ \A s \in Live(w) : /\ Deferred(w, s) # {}
                              /\ Deferred(w, s) \subseteq InitialMask(w, cta_size)
                              /\ Deferred(w, s) \cap warp_mask[w] = {}
        /\ \A r, s \in Live(w) : r # s => Deferred(w, r) \cap Deferred(w, s) = {}

\* A warp never has more deferred paths than lanes that could be on them, so
\* with at most StackDepth + 1 lanes per warp the stack cannot overflow
\* (Core.sv:247; the README lists overflow among the faults).
StackBounded ==
    cta_active => \A w \in Warps : warp_valid[w] => stack_sp[w] <= NumThreads - 1

\* Every valid warp of the CTA is issued again and again until the CTA ends,
\* whatever the other warps execute (the round robin of Core.sv:203-212).
WarpsScheduled ==
    \A w \in Warps : (cta_active /\ warp_valid[w])
                        ~> (~cta_active \/ (state = "FETCH" /\ issue_warp = w))

\* How far the round robin is from warp w.
Ahead(w) == ModWarps(w + NumWarps - rr_warp)

\* A valid warp gets closer with every instruction of another warp, and no
\* further in between: it waits for at most NumWarps - 1 instructions, whatever
\* they are and whichever warps end meanwhile (Core.sv:203-212; SimtCoreProofs).
WarpsTakeTurns ==
    [][\A w \in Warps :
         (cta_active /\ cta_active' /\ warp_valid[w] /\ (state = "SCHED" \/ issue_warp # w)) =>
            IF state # "SCHED" /\ state' = "SCHED"
            THEN Ahead(w)' < Ahead(w) ELSE Ahead(w)' = Ahead(w)]_vars

\* The instruction in flight is that of the first valid warp from rr_warp on.
TurnInv == (cta_active /\ state # "SCHED") => IsNextWarp(issue_warp)

(***************************************************************************)
(* The refinement of ScalarThreads.                                        *)
(***************************************************************************)

\* The lanes of the issuing warp that have already done their memory access.
Accessed(w) ==
    IF w # issue_warp \/ state \notin {"MEM_REQ", "MEM_RESP"} THEN {}
    ELSE {t \in issue_mask : \/ t < mem_thread
                             \/ /\ t = mem_thread /\ state = "MEM_RESP"
                                /\ issue_inst.op = "store"}

ThreadOf(w, t) ==
    IF ~cta_active \/ ~warp_valid[w] THEN [run |-> FALSE, pc |-> 0, reg |-> Zero]
    ELSE IF t \in warp_mask[w]
    THEN [run |-> TRUE, reg |-> gprs[w][t],
          pc |-> IF t \in Accessed(w) THEN warp_pc[w] + 1 ELSE warp_pc[w]]
    ELSE IF \E s \in Live(w) : t \in Deferred(w, s)
    THEN [run |-> TRUE, reg |-> gprs[w][t],
          pc |-> stack_pc[w][CHOOSE s \in Live(w) : t \in Deferred(w, s)]]
    ELSE [run |-> FALSE, pc |-> 0, reg |-> Zero]

Scalar == INSTANCE ScalarThreads WITH
            active <- cta_active, fault <- fault_r, MayAbandon <- FALSE,
            Starts <- {{i \in Warps \X Lanes : i[2] \in InitialMask(i[1], size)} :
                         size \in 1..(NumWarps * NumThreads)},
            thread <- [i \in Warps \X Lanes |-> ThreadOf(i[1], i[2])]

\* The warps, masks and stacks of the core are invisible to the kernel: every
\* lane follows the path a scalar thread with its registers would follow, the
\* CTA completes only when every thread has reached its ebreak, and it is given
\* up, with a fault, only for a documented reason.
ImplementsScalarThreads == Scalar!SSpec
=============================================================================
