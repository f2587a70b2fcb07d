--------------------------- MODULE SimtCoreProofs ---------------------------
(***************************************************************************)
(* Proofs about SimtCore, for every number of warps, lanes and stack       *)
(* slots, every set of kernels and every meaning of their instructions:    *)
(* first its invariants, then that a core implements the scalar threads of *)
(* its CTA.                                                                *)
(***************************************************************************)
EXTENDS SimtCore, TLAPS, FiniteSetTheorems

(***************************************************************************)
(* Facts about the instruction at a pc.                                    *)
(***************************************************************************)

\* Whatever the pc, the core fetches an instruction of a loaded kernel, or the
\* zero word, which is illegal.
LEMMA InstFacts ==
  ASSUME TypeOK, NEW pc
  PROVE  InstAt(pc) \in AllInsts /\ InstAt(pc) \in Inst
<1>1. Illegal \in AllInsts /\ Illegal \in Inst
  <2>1. Illegal \in AllInsts
    BY Zenon DEF AllInsts
  <2>2. Illegal \in Inst
    BY DEF Illegal, Inst, Ops
  <2> QED
    BY <2>1, <2>2
<1>2. CASE pc \in DOMAIN prog /\ prog \in Programs
  <2>1. InstAt(pc) = prog[pc]
    BY <1>2 DEF InstAt
  <2>2. prog[pc] \in Inst
    BY <1>2, ProgramAssumption
  <2>3. prog[pc] \in AllInsts
    <3> DEFINE insts(p) == {p[q] : q \in DOMAIN p}
    <3>1. prog[pc] \in insts(prog)
      BY <1>2
    <3>2. insts(prog) \in {insts(p) : p \in Programs}
      BY <1>2
    <3>3. prog[pc] \in UNION {insts(p) : p \in Programs}
      BY <3>1, <3>2, Zenon
    <3> QED
      BY <3>3, Zenon DEF AllInsts
  <2> QED
    BY <2>1, <2>2, <2>3
<1>3. CASE ~(pc \in DOMAIN prog /\ prog \in Programs)
  <2>1. pc \notin DOMAIN prog
    <3>1. prog \in Programs \/ prog = << >>
      BY DEF TypeOK
    <3>2. prog = << >> => DOMAIN prog = {}
      OBVIOUS
    <3> QED
      BY <1>3, <3>1, <3>2
  <2> QED
    BY <1>1, <2>1 DEF InstAt
<1> QED
  BY <1>2, <1>3

LEMMA LaneFacts ==
  ASSUME TypeOK, NEW t \in Lanes
  PROVE  /\ gprs[issue_warp][t] \in Data
         /\ Result(issue_inst, issue_warp, t, gprs[issue_warp][t]) \in Data
         /\ JalrTarget(issue_inst, gprs[issue_warp][t]) \in Nat
         /\ Address(issue_inst, gprs[issue_warp][t]) \in Addr
<1>1. gprs[issue_warp][t] \in Data /\ issue_warp \in Warps
  BY DEF TypeOK
<1>2. issue_inst \in AllInsts
  BY InstFacts DEF issue_inst
<1> QED
  BY <1>1, <1>2, SemanticsAssumption

LEMMA WrittenType == TypeOK => Written \in [Warps -> [Lanes -> Data]]
<1> SUFFICES ASSUME TypeOK PROVE Written \in [Warps -> [Lanes -> Data]]
  OBVIOUS
<1> DEFINE row == [t \in Lanes |-> IF t \in issue_mask
                     THEN Result(issue_inst, issue_warp, t, gprs[issue_warp][t])
                     ELSE gprs[issue_warp][t]]
<1>1. row \in [Lanes -> Data]
  BY LaneFacts
<1>2. Written = [gprs EXCEPT ![issue_warp] = row]
  BY DEF Written
<1> HIDE DEF row
<1> QED
  BY <1>1, <1>2 DEF TypeOK

LEMMA IndexFacts ==
  /\ NumWarps \in Nat /\ NumThreads \in Nat /\ StackDepth \in Nat
  /\ NumWarps > 0 /\ NumThreads > 0 /\ StackDepth > 0
  /\ 0 \in Warps /\ 0 \in Lanes
BY TopologyAssumption DEF Warps, Lanes

LEMMA RrWarpNextType == TypeOK => RrWarpNext \in Warps
BY IndexFacts DEF TypeOK, RrWarpNext, Warps

(***************************************************************************)
(* Type correctness.                                                       *)
(***************************************************************************)

LEMMA TypeStep ==
  ASSUME TypeOK, Next
  PROVE  TypeOK'
<1> USE IndexFacts
<1>1. ASSUME NEW p \in Programs, NEW size \in 1..(NumWarps * NumThreads), Accept(p, size)
      PROVE  TypeOK'
  <2>1. size \in Nat
    BY <1>1
  <2>2. [w \in Warps |-> InitialMask(w, size)] \in [Warps -> SUBSET Lanes]
    BY DEF InitialMask
  <2>3. [w \in Warps |-> [t \in Lanes |-> Zero]] \in [Warps -> [Lanes -> Data]]
    BY DataAssumption
  <2>4. \A w \in Warps : (w * NumThreads < size) \in BOOLEAN
    BY <2>1 DEF Warps
  <2>5. warp_valid' \in [Warps -> BOOLEAN]
    BY <1>1, <2>4, Zenon DEF Accept
  <2> QED
    <3>1. /\ state' = "SCHED" /\ cta_active' = TRUE /\ fault_r' = FALSE /\ rr_warp' = 0
          /\ warp_pc' = [w \in Warps |-> 0] /\ stack_sp' = [w \in Warps |-> 0]
          /\ warp_mask' = [w \in Warps |-> InitialMask(w, size)]
          /\ gprs' = [w \in Warps |-> [t \in Lanes |-> Zero]]
          /\ prog' = p /\ cta_size' = size /\ ctas' = ctas + 1
          /\ UNCHANGED <<issue_warp, issue_mask, issue_pc, mem_thread, stack_pc,
                         stack_mask, mem>>
      BY <1>1 DEF Accept, issue
    <3>2. warp_pc' \in [Warps -> Nat] /\ stack_sp' \in [Warps -> 0..StackDepth]
      BY <3>1
    <3>3. warp_mask' \in [Warps -> SUBSET Lanes]
      BY <2>2, <3>1, Zenon
    <3>4. gprs' \in [Warps -> [Lanes -> Data]]
      BY <2>3, <3>1, Zenon
    <3>5. /\ state' \in States /\ rr_warp' \in Warps /\ cta_size' \in Nat /\ ctas' \in Nat
          /\ prog' \in Programs \cup {<< >>}
      BY <2>1, <3>1 DEF TypeOK, States
    <3> QED
      BY <2>5, <3>1, <3>2, <3>3, <3>4, <3>5 DEF TypeOK
<1>2. ASSUME NEW w \in Warps, SchedIssue(w)
      PROVE  TypeOK'
  BY <1>2 DEF SchedIssue, TypeOK, States, warpvars, stacks, cta
<1>3. CASE SchedDrained
  BY <1>3 DEF SchedDrained, TypeOK, States, warpvars, stacks, cta, issue
<1>4. CASE Fetch
  BY <1>4 DEF Fetch, TypeOK, States, warpvars, stacks, cta, issue
<1>5. CASE ExecBadReg
  BY <1>5 DEF ExecBadReg, RaiseFault, TypeOK, States, warpvars, stacks, cta, issue
<1>6. CASE ExecMemory
  BY <1>6 DEF ExecMemory, TypeOK, States, warpvars, stacks, cta, issue
<1>7. CASE ExecEbreak
  <2>1. state' = "SCHED" /\ rr_warp' \in Warps
    BY <1>7, RrWarpNextType DEF ExecEbreak, advance_warp
  <2>2. /\ UNCHANGED <<cta_active, fault_r, issue, mem_thread, stack_pc, stack_mask,
                       gprs, mem, cta>>
    BY <1>7 DEF ExecEbreak
  <2>3. CASE stack_sp[issue_warp] # 0
    <3>1. /\ stack_sp' = [stack_sp EXCEPT ![issue_warp] = stack_sp[issue_warp] - 1]
          /\ warp_pc' = [warp_pc EXCEPT
                ![issue_warp] = stack_pc[issue_warp][stack_sp[issue_warp] - 1]]
          /\ warp_mask' = [warp_mask EXCEPT
                ![issue_warp] = stack_mask[issue_warp][stack_sp[issue_warp] - 1]]
          /\ warp_valid' = warp_valid
      BY <1>7, <2>3 DEF ExecEbreak
    <3>2. stack_sp[issue_warp] - 1 \in Slots /\ stack_sp[issue_warp] - 1 \in 0..StackDepth
      <4>1. stack_sp[issue_warp] \in 0..StackDepth
        BY DEF TypeOK
      <4> QED
        BY <2>3, <4>1 DEF Slots
    <3>3. /\ stack_pc[issue_warp][stack_sp[issue_warp] - 1] \in Nat
          /\ stack_mask[issue_warp][stack_sp[issue_warp] - 1] \in SUBSET Lanes
      BY <3>2 DEF TypeOK
    <3> QED
      BY <2>1, <2>2, <3>1, <3>2, <3>3 DEF TypeOK, States, cta, issue
  <2>4. CASE stack_sp[issue_warp] = 0
    <3>1. /\ warp_valid' = [warp_valid EXCEPT ![issue_warp] = FALSE]
          /\ UNCHANGED <<stack_sp, warp_pc, warp_mask>>
      BY <1>7, <2>4 DEF ExecEbreak
    <3> QED
      BY <2>1, <2>2, <3>1 DEF TypeOK, States, cta, issue
  <2> QED
    BY <2>3, <2>4
<1>8. CASE ExecUniformBranch
  <2>1. taken_mask \in SUBSET Lanes /\ fall_mask \in SUBSET Lanes
    BY DEF taken_mask, fall_mask, TypeOK
  <2>2. issue_inst.target \in Nat /\ issue_pc + 1 \in Nat
    BY InstFacts DEF issue_inst, Inst, TypeOK
  <2> QED
    BY <1>8, <2>1, <2>2, RrWarpNextType
    DEF ExecUniformBranch, advance_warp, TypeOK, States, stacks, cta, issue
<1>9. CASE ExecDivergentBranch
  <2>1. taken_mask \in SUBSET Lanes /\ fall_mask \in SUBSET Lanes
    BY DEF taken_mask, fall_mask, TypeOK
  <2>2. issue_inst.target \in Nat /\ issue_pc + 1 \in Nat
    BY InstFacts DEF issue_inst, Inst, TypeOK
  <2>3. /\ stack_sp[issue_warp] \in Slots
        /\ stack_sp[issue_warp] + 1 \in 0..StackDepth
    <3>1. stack_sp[issue_warp] \in 0..StackDepth
      BY DEF TypeOK
    <3>2. stack_sp[issue_warp] < StackDepth
      BY <1>9 DEF ExecDivergentBranch
    <3> QED
      BY <3>1, <3>2 DEF Slots
  <2>4. stack_pc' \in [Warps -> [Slots -> Nat]]
    BY <1>9, <2>2, <2>3 DEF ExecDivergentBranch, TypeOK
  <2>5. stack_mask' \in [Warps -> [Slots -> SUBSET Lanes]]
    BY <1>9, <2>1, <2>3 DEF ExecDivergentBranch, TypeOK
  <2> QED
    BY <1>9, <2>1, <2>2, <2>3, <2>4, <2>5, RrWarpNextType
    DEF ExecDivergentBranch, advance_warp, TypeOK, States, cta, issue
<1>10. CASE ExecBranchFault
  BY <1>10, RrWarpNextType
  DEF ExecBranchFault, RaiseFault, advance_warp, TypeOK, States, warpvars, stacks, cta, issue
<1>11. CASE ExecFault
  BY <1>11, RrWarpNextType, WrittenType
  DEF ExecFault, RaiseFault, advance_warp, TypeOK, States, warpvars, stacks, cta, issue
<1>12. CASE ExecAlu
  <2>1. warp_pc' \in [Warps -> Nat]
    <3>1. issue_inst.target \in Nat /\ issue_pc + 1 \in Nat
      BY InstFacts DEF issue_inst, Inst, TypeOK
    <3>2. \A pc \in Targets : pc \in Nat
      BY LaneFacts DEF Targets, TypeOK
    <3> QED
      BY <1>12, <3>1, <3>2 DEF ExecAlu, TypeOK
  <2> QED
    BY <1>12, <2>1, RrWarpNextType, WrittenType
    DEF ExecAlu, advance_warp, TypeOK, States, stacks, cta, issue
<1>13. CASE MemSkip
  <2>1. CASE LastLane /\ FinishMemory
    BY <1>13, <2>1, RrWarpNextType
    DEF MemSkip, FinishMemory, advance_warp, TypeOK, States, stacks, cta, issue
  <2>2. CASE ~LastLane
    <3>1. mem_thread' = mem_thread + 1 /\ mem_thread + 1 \in Lanes
      BY <1>13, <2>2 DEF MemSkip, LastLane, TypeOK, Lanes
    <3> QED
      BY <1>13, <2>2, <3>1 DEF MemSkip, TypeOK, stacks, cta, issue
  <2> QED
    BY <1>13, <2>1, <2>2 DEF MemSkip
<1>14. CASE MemRequest
  <2>1. mem' \in [Addr -> Data]
    BY <1>14, LaneFacts DEF MemRequest, LaneValue, TypeOK
  <2> QED
    BY <1>14, <2>1 DEF MemRequest, TypeOK, States, warpvars, stacks, cta, issue
<1>15. CASE MemResponse
  <2>1. gprs' \in [Warps -> [Lanes -> Data]]
    <3>1. mem[Address(issue_inst, LaneValue)] \in Data
      BY LaneFacts DEF LaneValue, TypeOK
    <3> QED
      BY <1>15, <3>1 DEF MemResponse, TypeOK
  <2>2. /\ mem_thread' \in Lanes /\ state' \in States /\ rr_warp' \in Warps
        /\ warp_pc' \in [Warps -> Nat]
    <3>1. CASE LastLane /\ FinishMemory
      BY <3>1, RrWarpNextType DEF FinishMemory, advance_warp, TypeOK, States
    <3>2. CASE ~LastLane
      <4>1. mem_thread' = mem_thread + 1 /\ mem_thread + 1 \in Lanes
        BY <1>15, <3>2 DEF MemResponse, LastLane, TypeOK, Lanes
      <4> QED
        BY <1>15, <3>2, <4>1 DEF MemResponse, TypeOK, States
    <3> QED
      BY <1>15, <3>1, <3>2 DEF MemResponse
  <2> QED
    BY <1>15, <2>1, <2>2 DEF MemResponse, TypeOK, stacks, cta, issue
<1>16. CASE Idle
  BY <1>16 DEF Idle, TypeOK, vars, warpvars, stacks, cta, issue
<1>17. CASE OtherStore
  BY <1>17, DataAssumption DEF OtherStore, TypeOK, warpvars, stacks, cta, issue
<1> QED
  BY <1>1, <1>2, <1>3, <1>4, <1>5, <1>6, <1>7, <1>8, <1>9, <1>10, <1>11, <1>12,
     <1>13, <1>14, <1>15, <1>16, <1>17
  DEF Next, Step, AcceptAny

\* The registers of the core keep their types: in particular the stack pointer
\* never leaves the stack, and the round-robin and lane counters never leave
\* the warps and lanes.
THEOREM TypeCorrect == Spec => []TypeOK
<1>1. Init => TypeOK
  <2> SUFFICES ASSUME Init PROVE TypeOK
    OBVIOUS
  <2>1. /\ 0 \in 0..StackDepth
        /\ [w \in Warps |-> [s \in Slots |-> 0]] \in [Warps -> [Slots -> Nat]]
        /\ [w \in Warps |-> [s \in Slots |-> {}]] \in [Warps -> [Slots -> SUBSET Lanes]]
    BY IndexFacts
  <2>2. [w \in Warps |-> [t \in Lanes |-> Zero]] \in [Warps -> [Lanes -> Data]]
    BY DataAssumption
  <2> QED
    BY <2>1, <2>2, IndexFacts, DataAssumption DEF Init, TypeOK, States
<1>2. TypeOK /\ [Next]_vars => TypeOK'
  <2> SUFFICES ASSUME TypeOK, [Next]_vars PROVE TypeOK'
    OBVIOUS
  <2>1. CASE Next
    BY <2>1, TypeStep
  <2>2. CASE UNCHANGED vars
    BY <2>2 DEF TypeOK, vars, warpvars, stacks, cta, issue
  <2> QED
    BY <2>1, <2>2
<1> QED
  BY <1>1, <1>2, PTL DEF Spec

(***************************************************************************)
(* The pipeline: the core is ready when idle, and the issue registers      *)
(* agree with the issuing warp.                                            *)
(***************************************************************************)

PipelineInv == (~cta_active => state = "SCHED") /\ IssueCoherent

LEMMA PipelineStep ==
  ASSUME TypeOK, PipelineInv, Next
  PROVE  PipelineInv'
<1> USE DEF PipelineInv, IssueCoherent
<1>1. ASSUME NEW p \in Programs, NEW size \in 1..(NumWarps * NumThreads), Accept(p, size)
      PROVE  PipelineInv'
  BY <1>1 DEF Accept
<1>2. ASSUME NEW w \in Warps, SchedIssue(w)
      PROVE  PipelineInv'
  BY <1>2 DEF SchedIssue, IsNextWarp, warpvars
<1>3. CASE SchedDrained
  BY <1>3 DEF SchedDrained
<1>4. CASE Fetch
  BY <1>4 DEF Fetch, warpvars, issue
<1>5. CASE ExecBadReg
  BY <1>5 DEF ExecBadReg, RaiseFault
<1>6. CASE ExecMemory
  BY <1>6 DEF ExecMemory, Exec, warpvars, issue
<1>7. CASE ExecEbreak \/ ExecUniformBranch \/ ExecDivergentBranch
  BY <1>7 DEF ExecEbreak, ExecUniformBranch, ExecDivergentBranch, Exec, advance_warp
<1>8. CASE ExecBranchFault \/ ExecFault
  BY <1>8 DEF ExecBranchFault, ExecFault, RaiseFault, advance_warp
<1>9. CASE ExecAlu
  BY <1>9 DEF ExecAlu, advance_warp
<1>10. CASE MemSkip
  BY <1>10 DEF MemSkip, FinishMemory, advance_warp, issue
<1>11. CASE MemRequest
  BY <1>11 DEF MemRequest, warpvars, issue
<1>12. CASE MemResponse
  BY <1>12 DEF MemResponse, FinishMemory, advance_warp, issue
<1>13. CASE Idle \/ OtherStore
  BY <1>13 DEF Idle, OtherStore, vars, warpvars, issue
<1> QED
  BY <1>1, <1>2, <1>3, <1>4, <1>5, <1>6, <1>7, <1>8, <1>9, <1>10, <1>11, <1>12, <1>13
  DEF Next, Step, AcceptAny

\* A core is ready for a CTA exactly when it holds none, and no warp changes
\* under the instruction that is in flight for it.
THEOREM PipelineCorrect == Spec => [](ReadyIffIdle /\ IssueCoherent)
<1>1. Init => PipelineInv
  BY DEF Init, PipelineInv, IssueCoherent
<1>2. TypeOK /\ PipelineInv /\ [Next]_vars => PipelineInv'
  <2> SUFFICES ASSUME TypeOK, PipelineInv, [Next]_vars PROVE PipelineInv'
    OBVIOUS
  <2>1. CASE Next
    BY <2>1, PipelineStep
  <2>2. CASE UNCHANGED vars
    BY <2>2 DEF PipelineInv, IssueCoherent, vars, warpvars, issue
  <2> QED
    BY <2>1, <2>2
<1>3. PipelineInv => ReadyIffIdle /\ IssueCoherent
  BY DEF PipelineInv, ReadyIffIdle, cta_ready
<1> QED
  BY <1>1, <1>2, <1>3, TypeCorrect, PTL DEF Spec

(***************************************************************************)
(* The paths of a warp.                                                    *)
(***************************************************************************)

\* PathsPartition for one warp.
WarpPaths(w) ==
    /\ warp_mask[w] # {} /\ warp_mask[w] \subseteq InitialMask(w, cta_size)
    /\ \A s \in Live(w) : /\ Deferred(w, s) # {}
                          /\ Deferred(w, s) \subseteq InitialMask(w, cta_size)
                          /\ Deferred(w, s) \cap warp_mask[w] = {}
    /\ \A r, s \in Live(w) : r # s => Deferred(w, r) \cap Deferred(w, s) = {}

LEMMA PathsByWarp ==
  PathsPartition <=> (cta_active => \A w \in Warps : warp_valid[w] => WarpPaths(w))
BY Zenon DEF PathsPartition, WarpPaths

\* A step that leaves masks and stacks alone keeps the partition.
LEMMA PathsKept ==
  ASSUME PathsPartition, cta_active' => cta_active,
         UNCHANGED <<warp_mask, warp_valid, stack_sp, stack_mask, cta_size>>
  PROVE  PathsPartition'
BY DEF PathsPartition, Live, Deferred, InitialMask

\* The partition only matters for the warp a step changes.
LEMMA OtherWarpsKept ==
  ASSUME PathsPartition, cta_active, NEW w \in Warps, cta_size' = cta_size,
         \A v \in Warps : v # w => /\ warp_mask'[v] = warp_mask[v]
                                  /\ warp_valid'[v] = warp_valid[v]
                                  /\ stack_sp'[v] = stack_sp[v]
                                  /\ stack_mask'[v] = stack_mask[v],
         warp_valid'[w] => WarpPaths(w)'
  PROVE  PathsPartition'
<1>1. ASSUME NEW v \in Warps, v # w, warp_valid'[v]
      PROVE  WarpPaths(v)'
  <2>1. WarpPaths(v)
    BY <1>1, PathsByWarp
  <2> QED
    BY <1>1, <2>1 DEF WarpPaths, Live, Deferred, InitialMask
<1>2. \A v \in Warps : warp_valid'[v] => WarpPaths(v)'
  BY <1>1
<1> QED
  BY <1>2, Zenon DEF PathsPartition, WarpPaths

LEMMA AcceptPaths ==
  ASSUME NEW p \in Programs, NEW size \in 1..(NumWarps * NumThreads), Accept(p, size)
  PROVE  PathsPartition'
<1> SUFFICES ASSUME NEW w \in Warps, warp_valid'[w] PROVE WarpPaths(w)'
  BY Zenon DEF PathsPartition, WarpPaths
<1>1. /\ warp_mask'[w] = InitialMask(w, size) /\ cta_size' = size
      /\ stack_sp'[w] = 0 /\ w * NumThreads < size
  BY DEF Accept
<1>2. InitialMask(w, size) # {}
  <2>1. w * NumThreads \in Int /\ 0 \in Lanes
    BY IndexFacts DEF Warps
  <2>2. w * NumThreads + 0 < size
    BY <1>1, <2>1
  <2> QED
    BY <2>1, <2>2 DEF InitialMask
<1>3. Live(w)' = {}
  BY <1>1 DEF Live
<1> QED
  BY <1>1, <1>2, <1>3 DEF WarpPaths, InitialMask

LEMMA EbreakPaths ==
  ASSUME TypeOK, PathsPartition, PipelineInv, ExecEbreak
  PROVE  PathsPartition'
<1>1. PICK w \in Warps : w = issue_warp
  BY DEF TypeOK
<1>2. PICK sp \in Nat : sp = stack_sp[w]
  BY DEF TypeOK
<1>3. /\ cta_active /\ cta_size' = cta_size /\ stack_mask' = stack_mask
      /\ warp_valid[w]
  BY <1>1 DEF ExecEbreak, Exec, TypeOK, PipelineInv, IssueCoherent, cta
<1>4. WarpPaths(w)
  BY <1>3, PathsByWarp
<1>5. CASE sp # 0
  <2>1. /\ stack_sp' = [stack_sp EXCEPT ![w] = sp - 1]
        /\ warp_mask' = [warp_mask EXCEPT ![w] = stack_mask[w][sp - 1]]
        /\ warp_valid' = warp_valid
    BY <1>1, <1>2, <1>5 DEF ExecEbreak
  <2>2. /\ stack_sp'[w] = sp - 1
        /\ warp_mask'[w] = Deferred(w, sp - 1)
    BY <2>1 DEF TypeOK, Deferred
  <2>3. /\ Live(w)' \subseteq Live(w)
        /\ sp - 1 \in Live(w) /\ sp - 1 \notin Live(w)'
    BY <1>2, <1>5, <2>2 DEF Live
  <2>4. WarpPaths(w)'
    <3>1. \A s : Deferred(w, s)' = Deferred(w, s)
      BY <1>3 DEF Deferred
    <3>2. \A s \in Live(w) :
             /\ Deferred(w, s) # {}
             /\ Deferred(w, s) \subseteq InitialMask(w, cta_size)
      BY <1>4 DEF WarpPaths
    <3>3. \A r, s \in Live(w) : r # s => Deferred(w, r) \cap Deferred(w, s) = {}
      BY <1>4 DEF WarpPaths
    <3>4. InitialMask(w, cta_size)' = InitialMask(w, cta_size)
      BY <1>3 DEF InitialMask
    <3>5. /\ warp_mask'[w] # {} /\ warp_mask'[w] \subseteq InitialMask(w, cta_size)
      BY <2>2, <2>3, <3>2
    <3>6. \A s \in Live(w)' : Deferred(w, s) \cap warp_mask'[w] = {}
      BY <2>2, <2>3, <3>3
    <3>7. \A s \in Live(w)' :
             /\ Deferred(w, s)' # {}
             /\ Deferred(w, s)' \subseteq InitialMask(w, cta_size)'
             /\ Deferred(w, s)' \cap warp_mask'[w] = {}
      BY <2>3, <3>1, <3>2, <3>4, <3>6, Zenon
    <3>8. \A r, s \in Live(w)' : r # s => Deferred(w, r)' \cap Deferred(w, s)' = {}
      BY <2>3, <3>1, <3>3, Zenon
    <3> QED
      BY <3>4, <3>5, <3>7, <3>8, Zenon DEF WarpPaths
  <2> QED
    BY <1>3, <2>1, <2>4, OtherWarpsKept DEF TypeOK
<1>6. CASE sp = 0
  <2>1. /\ warp_valid' = [warp_valid EXCEPT ![w] = FALSE]
        /\ UNCHANGED <<stack_sp, warp_mask>>
    BY <1>1, <1>2, <1>6 DEF ExecEbreak
  <2> QED
    BY <1>3, <2>1, OtherWarpsKept DEF TypeOK
<1> QED
  BY <1>5, <1>6

LEMMA UniformBranchPaths ==
  ASSUME TypeOK, PathsPartition, PipelineInv, ExecUniformBranch
  PROVE  PathsPartition'
<1>1. /\ issue_warp \in Warps /\ cta_active /\ warp_valid[issue_warp]
      /\ issue_mask = warp_mask[issue_warp]
  BY DEF ExecUniformBranch, Exec, TypeOK, PipelineInv, IssueCoherent
<1>2. issue_mask # {}
  BY <1>1 DEF PathsPartition
<1>3. (IF taken_mask # {} THEN taken_mask ELSE fall_mask) = issue_mask
  BY <1>2 DEF ExecUniformBranch, Diverges, taken_mask, fall_mask
<1>4. warp_mask' = warp_mask
  BY <1>1, <1>3 DEF ExecUniformBranch, TypeOK
<1> QED
  BY <1>4, PathsKept DEF ExecUniformBranch, stacks, cta

LEMMA DivergentBranchPaths ==
  ASSUME TypeOK, PathsPartition, PipelineInv, ExecDivergentBranch
  PROVE  PathsPartition'
<1>1. PICK w \in Warps : w = issue_warp
  BY DEF TypeOK
<1>2. PICK sp \in Slots : sp = stack_sp[w]
  <2>1. stack_sp[w] \in 0..StackDepth /\ stack_sp[w] < StackDepth
    BY <1>1 DEF ExecDivergentBranch, TypeOK
  <2> QED
    BY <2>1, IndexFacts DEF Slots
<1>3. /\ cta_active /\ cta_size' = cta_size /\ warp_valid' = warp_valid
      /\ warp_valid[w] /\ issue_mask = warp_mask[w] /\ sp \in Nat
  BY <1>1, <1>2, IndexFacts
  DEF ExecDivergentBranch, Exec, TypeOK, PipelineInv, IssueCoherent, cta, Slots
<1>4. WarpPaths(w)
  BY <1>3, PathsByWarp
<1>5. PICK T : T = taken_mask
  OBVIOUS
<1>6. PICK F : F = fall_mask
  OBVIOUS
<1>7. T # {} /\ F # {} /\ T \cup F = warp_mask[w] /\ T \cap F = {}
  BY <1>3, <1>5, <1>6 DEF ExecDivergentBranch, Diverges, taken_mask, fall_mask
<1>8. /\ stack_mask' = [stack_mask EXCEPT ![w][sp] = T]
      /\ stack_sp' = [stack_sp EXCEPT ![w] = sp + 1]
      /\ warp_mask' = [warp_mask EXCEPT ![w] = F]
  BY <1>1, <1>2, <1>5, <1>6 DEF ExecDivergentBranch
<1>9. /\ stack_sp'[w] = sp + 1 /\ warp_mask'[w] = F
      /\ stack_mask'[w] = [stack_mask[w] EXCEPT ![sp] = T]
  BY <1>8 DEF TypeOK
<1>10. Live(w)' = Live(w) \cup {sp} /\ sp \notin Live(w)
  BY <1>2, <1>3, <1>9 DEF Live
<1>11. Live(w) \subseteq Slots
  BY <1>2, <1>3, IndexFacts DEF Live, Slots
<1>12. stack_mask[w] \in [Slots -> SUBSET Lanes]
  BY DEF TypeOK
<1>13. \A s \in Live(w) : Deferred(w, s)' = Deferred(w, s)
  BY <1>9, <1>10, <1>11, <1>12 DEF Deferred
<1>14. Deferred(w, sp)' = T
  BY <1>9, <1>12 DEF Deferred
<1>15. WarpPaths(w)'
  <2>1. PICK I : I = InitialMask(w, cta_size)
    OBVIOUS
  <2>2. InitialMask(w, cta_size)' = I
    BY <1>3, <2>1 DEF InitialMask
  <2>3. warp_mask[w] \subseteq I
    BY <1>4, <2>1 DEF WarpPaths
  <2>4. F \subseteq I /\ T \subseteq I
    BY <1>7, <2>3
  <2>5. \A s \in Live(w) : /\ Deferred(w, s) # {} /\ Deferred(w, s) \subseteq I
                           /\ Deferred(w, s) \cap warp_mask[w] = {}
    BY <1>4, <2>1, Zenon DEF WarpPaths
  <2>6. \A s \in Live(w) : Deferred(w, s) \cap F = {} /\ Deferred(w, s) \cap T = {}
    BY <1>7, <2>5
  <2>7. \A s \in Live(w)' : /\ Deferred(w, s)' # {} /\ Deferred(w, s)' \subseteq I
                            /\ Deferred(w, s)' \cap F = {}
    BY <1>7, <1>10, <1>13, <1>14, <2>4, <2>5, <2>6
  <2>8. \A r, s \in Live(w)' : r # s => Deferred(w, r)' \cap Deferred(w, s)' = {}
    <3> SUFFICES ASSUME NEW r \in Live(w)', NEW s \in Live(w)', r # s
                 PROVE  Deferred(w, r)' \cap Deferred(w, s)' = {}
      BY Zenon
    <3>1. CASE r \in Live(w) /\ s \in Live(w)
      BY <1>4, <1>13, <3>1 DEF WarpPaths
    <3>2. CASE r = sp /\ s \in Live(w)
      <4>1. Deferred(w, s) \cap T = {} /\ Deferred(w, s)' = Deferred(w, s)
        BY <1>13, <2>6, <3>2
      <4> QED
        BY <1>14, <3>2, <4>1
    <3>3. CASE s = sp /\ r \in Live(w)
      <4>1. Deferred(w, r) \cap T = {} /\ Deferred(w, r)' = Deferred(w, r)
        BY <1>13, <2>6, <3>3
      <4> QED
        BY <1>14, <3>3, <4>1
    <3> QED
      BY <1>10, <3>1, <3>2, <3>3
  <2> QED
    BY <1>7, <1>9, <2>2, <2>4, <2>7, <2>8, Zenon DEF WarpPaths
<1>16. \A v \in Warps : v # w => /\ warp_mask'[v] = warp_mask[v]
                                /\ stack_sp'[v] = stack_sp[v]
                                /\ stack_mask'[v] = stack_mask[v]
  BY <1>8 DEF TypeOK
<1> QED
  BY <1>3, <1>15, <1>16, OtherWarpsKept

LEMMA PathsStep ==
  ASSUME TypeOK, PipelineInv, PathsPartition, Next
  PROVE  PathsPartition'
<1>1. ASSUME NEW p \in Programs, NEW size \in 1..(NumWarps * NumThreads), Accept(p, size)
      PROVE  PathsPartition'
  BY <1>1, AcceptPaths
<1>2. ASSUME NEW w \in Warps, SchedIssue(w)
      PROVE  PathsPartition'
  BY <1>2, PathsKept DEF SchedIssue, warpvars, stacks, cta
<1>3. CASE SchedDrained \/ Fetch
  BY <1>3, PathsKept DEF SchedDrained, Fetch, warpvars, stacks, cta
<1>4. CASE ExecBadReg \/ ExecBranchFault \/ ExecFault
  BY <1>4, PathsKept
  DEF ExecBadReg, ExecBranchFault, ExecFault, RaiseFault, warpvars, stacks, cta
<1>5. CASE ExecMemory \/ ExecAlu
  BY <1>5, PathsKept DEF ExecMemory, ExecAlu, warpvars, stacks, cta
<1>6. CASE ExecEbreak
  BY <1>6, EbreakPaths
<1>7. CASE ExecUniformBranch
  BY <1>7, UniformBranchPaths
<1>8. CASE ExecDivergentBranch
  BY <1>8, DivergentBranchPaths
<1>9. CASE MemSkip \/ MemRequest \/ MemResponse
  BY <1>9, PathsKept DEF MemSkip, MemRequest, MemResponse, warpvars, stacks, cta
<1>10. CASE Idle \/ OtherStore
  BY <1>10, PathsKept DEF Idle, OtherStore, vars, warpvars, stacks, cta
<1> QED
  BY <1>1, <1>2, <1>3, <1>4, <1>5, <1>6, <1>7, <1>8, <1>9, <1>10
  DEF Next, Step, AcceptAny

\* Divergence and reconvergence neither lose nor duplicate a lane, whatever the
\* kernel, the topology and the depth of the stack.
THEOREM PathsCorrect == Spec => []PathsPartition
<1>1. Init => PipelineInv /\ PathsPartition
  BY DEF Init, PipelineInv, IssueCoherent, PathsPartition
<1>2. TypeOK /\ PipelineInv /\ PathsPartition /\ [Next]_vars
        => PipelineInv' /\ PathsPartition'
  <2> SUFFICES ASSUME TypeOK, PipelineInv, PathsPartition, [Next]_vars
               PROVE  PipelineInv' /\ PathsPartition'
    OBVIOUS
  <2>1. CASE Next
    BY <2>1, PipelineStep, PathsStep
  <2>2. CASE UNCHANGED vars
    <3>1. PipelineInv'
      BY <2>2 DEF PipelineInv, IssueCoherent, vars, warpvars, issue
    <3>2. PathsPartition'
      BY <2>2, PathsKept DEF vars, warpvars, stacks, cta
    <3> QED
      BY <3>1, <3>2
  <2> QED
    BY <2>1, <2>2
<1> QED
  BY <1>1, <1>2, TypeCorrect, PTL DEF Spec

\* Disjoint non-empty sets of lanes cannot be more numerous than the lanes.
LEMMA DisjointLanes ==
  ASSUME NEW n \in Nat, NEW P \in [0..n -> SUBSET Lanes],
         \A s \in 0..n : P[s] # {},
         \A r, s \in 0..n : r # s => P[r] \cap P[s] = {}
  PROVE  n + 1 <= NumThreads
<1> DEFINE S == 0..n
           f == [s \in S |-> CHOOSE t \in P[s] : TRUE]
<1>1. \A s \in S : f[s] \in P[s] /\ P[s] \subseteq Lanes
  OBVIOUS
<1>2. f \in [S -> Lanes]
  BY <1>1
<1>3. ~ \E r, s \in S : r # s /\ f[r] = f[s]
  BY <1>1
<1>4. /\ IsFiniteSet(S) /\ Cardinality(S) = n + 1
      /\ IsFiniteSet(Lanes) /\ Cardinality(Lanes) = NumThreads
  <2>1. \A b \in Nat : IsFiniteSet(0..b) /\ Cardinality(0..b) = b + 1
    <3> TAKE b \in Nat
    <3>1. 0 \in Int /\ b \in Int /\ ~(0 > b) /\ b - 0 + 1 = b + 1
      OBVIOUS
    <3> QED
      BY <3>1, FS_Interval
  <2>2. NumThreads - 1 \in Nat /\ (NumThreads - 1) + 1 = NumThreads
    BY TopologyAssumption
  <2> QED
    BY <2>1, <2>2 DEF Lanes
<1>5. ~(Cardinality(Lanes) < Cardinality(S))
  <2> HIDE DEF f, S
  <2> QED
    BY <1>2, <1>3, <1>4, FS_PigeonHole
<1> QED
  BY <1>4, <1>5, TopologyAssumption

\* The deferred paths of a warp and the current one are not more numerous than
\* the lanes; nor are they when the current one is split in two.
LEMMA PathsBound ==
  ASSUME TypeOK, NEW w \in Warps, WarpPaths(w)
  PROVE  /\ stack_sp[w] <= NumThreads - 1
         /\ \A T, F \in SUBSET warp_mask[w] :
               T # {} /\ F # {} /\ T \cap F = {} => stack_sp[w] <= NumThreads - 2
<1>1. PICK sp \in Nat : sp = stack_sp[w]
  BY DEF TypeOK
<1>2. Live(w) \subseteq Slots /\ \A s \in 0..sp : s # sp => s \in Live(w)
  <2>1. sp <= StackDepth
    BY <1>1 DEF TypeOK
  <2> QED
    BY <1>1, <2>1, IndexFacts DEF Live, Slots
<1>3. /\ warp_mask[w] # {} /\ warp_mask[w] \subseteq Lanes
      /\ \A s \in Live(w) : /\ Deferred(w, s) # {} /\ Deferred(w, s) \subseteq Lanes
                             /\ Deferred(w, s) \cap warp_mask[w] = {}
      /\ \A r, s \in Live(w) : r # s => Deferred(w, r) \cap Deferred(w, s) = {}
  BY <1>2 DEF TypeOK, Deferred, WarpPaths
<1>4. stack_sp[w] <= NumThreads - 1
  <2> DEFINE P == [s \in 0..sp |-> IF s = sp THEN warp_mask[w] ELSE Deferred(w, s)]
  <2>1. P \in [0..sp -> SUBSET Lanes]
    BY <1>2, <1>3
  <2>2. \A s \in 0..sp : P[s] # {}
    BY <1>2, <1>3
  <2>3. \A r, s \in 0..sp : r # s => P[r] \cap P[s] = {}
    <3> SUFFICES ASSUME NEW r \in 0..sp, NEW s \in 0..sp, r # s PROVE P[r] \cap P[s] = {}
      BY Zenon
    <3>1. CASE r = sp
      BY <1>2, <1>3, <3>1
    <3>2. CASE s = sp
      BY <1>2, <1>3, <3>2
    <3>3. CASE r # sp /\ s # sp
      BY <1>2, <1>3, <3>3
    <3> QED
      BY <3>1, <3>2, <3>3
  <2>4. sp + 1 <= NumThreads
    BY <2>1, <2>2, <2>3, DisjointLanes
  <2> QED
    BY <1>1, <2>4, TopologyAssumption
<1>5. ASSUME NEW T \in SUBSET warp_mask[w], NEW F \in SUBSET warp_mask[w],
             T # {}, F # {}, T \cap F = {}
      PROVE  stack_sp[w] <= NumThreads - 2
  <2> DEFINE P == [s \in 0..(sp + 1) |-> IF s = sp THEN T
                                         ELSE IF s = sp + 1 THEN F ELSE Deferred(w, s)]
  <2>1. \A s \in 0..(sp + 1) : s # sp /\ s # sp + 1 => s \in Live(w)
    BY <1>2
  <2>2. P \in [0..(sp + 1) -> SUBSET Lanes]
    BY <1>3, <2>1
  <2>3. \A s \in 0..(sp + 1) : P[s] # {}
    BY <1>3, <1>5, <2>1
  <2>4. \A r, s \in 0..(sp + 1) : r # s => P[r] \cap P[s] = {}
    <3>1. \A s \in Live(w) : Deferred(w, s) \cap T = {} /\ Deferred(w, s) \cap F = {}
      BY <1>3
    <3> QED
      BY <1>3, <1>5, <2>1, <3>1
  <2>5. (sp + 1) + 1 <= NumThreads
    <3>1. sp + 1 \in Nat
      OBVIOUS
    <3> HIDE DEF P
    <3> QED
      BY <2>2, <2>3, <2>4, <3>1, DisjointLanes
  <2> QED
    BY <1>1, <2>5, TopologyAssumption
<1> QED
  BY <1>4, <1>5

\* A warp never defers more paths than it has other lanes: a stack with one
\* slot less than the warp has lanes cannot overflow.
THEOREM StackCorrect == Spec => []StackBounded
<1>1. TypeOK /\ PathsPartition => StackBounded
  BY PathsByWarp, PathsBound DEF StackBounded
<1> QED
  BY <1>1, TypeCorrect, PathsCorrect, PTL

(***************************************************************************)
(* A core implements the scalar threads of its CTA: every step of SimtCore *)
(* is a step of ScalarThreads, or none, under the mapping of SimtCore.     *)
(***************************************************************************)


Off == [run |-> FALSE, pc |-> 0, reg |-> Zero]

\* The thread of a lane, path by path: the CHOOSE of ThreadOf has one candidate
\* because no lane is on two paths.
ThreadIs ==
  \A w \in Warps, t \in Lanes :
    /\ ~(cta_active /\ warp_valid[w]) => ThreadOf(w, t) = Off
    /\ cta_active /\ warp_valid[w] =>
         /\ t \in warp_mask[w] =>
              ThreadOf(w, t) = [run |-> TRUE, reg |-> gprs[w][t],
                                pc |-> IF t \in Accessed(w) THEN warp_pc[w] + 1
                                       ELSE warp_pc[w]]
         /\ \A s \in Live(w) : t \in Deferred(w, s) =>
              ThreadOf(w, t) = [run |-> TRUE, reg |-> gprs[w][t], pc |-> stack_pc[w][s]]
         /\ t \notin warp_mask[w] /\ (\A s \in Live(w) : t \notin Deferred(w, s)) =>
              ThreadOf(w, t) = Off

LEMMA ThreadFacts == PathsPartition => ThreadIs
<1> SUFFICES ASSUME PathsPartition, NEW w \in Warps, NEW t \in Lanes
    PROVE
    /\ ~(cta_active /\ warp_valid[w]) => ThreadOf(w, t) = Off
    /\ cta_active /\ warp_valid[w] =>
         /\ t \in warp_mask[w] =>
              ThreadOf(w, t) = [run |-> TRUE, reg |-> gprs[w][t],
                                pc |-> IF t \in Accessed(w) THEN warp_pc[w] + 1
                                       ELSE warp_pc[w]]
         /\ \A s \in Live(w) : t \in Deferred(w, s) =>
              ThreadOf(w, t) = [run |-> TRUE, reg |-> gprs[w][t], pc |-> stack_pc[w][s]]
         /\ t \notin warp_mask[w] /\ (\A s \in Live(w) : t \notin Deferred(w, s)) =>
              ThreadOf(w, t) = Off
  BY Zenon DEF ThreadIs
<1>1. CASE ~(cta_active /\ warp_valid[w])
  BY <1>1 DEF ThreadOf, Off
<1>2. CASE cta_active /\ warp_valid[w]
  <2>1. WarpPaths(w)
    BY <1>2, PathsByWarp
  <2>2. CASE t \in warp_mask[w]
    <3>1. \A s \in Live(w) : t \notin Deferred(w, s)
      BY <2>1, <2>2 DEF WarpPaths
    <3> QED
      BY <1>2, <2>2, <3>1 DEF ThreadOf
  <2>3. ASSUME t \notin warp_mask[w], NEW s \in Live(w), t \in Deferred(w, s)
        PROVE  ThreadOf(w, t) = [run |-> TRUE, reg |-> gprs[w][t], pc |-> stack_pc[w][s]]
    <3> DEFINE r == CHOOSE r \in Live(w) : t \in Deferred(w, r)
    <3>1. r \in Live(w) /\ t \in Deferred(w, r)
      BY <2>3, Zenon
    <3>2. r = s
      <4> HIDE DEF r
      <4> QED
        BY <2>1, <2>3, <3>1 DEF WarpPaths
    <3>3. ThreadOf(w, t) = [run |-> TRUE, reg |-> gprs[w][t], pc |-> stack_pc[w][r]]
      BY <1>2, <2>3, Zenon DEF ThreadOf
    <3> QED
      BY <3>2, <3>3, Zenon
  <2>4. CASE t \notin warp_mask[w] /\ (\A s \in Live(w) : t \notin Deferred(w, s))
    BY <1>2, <2>4 DEF ThreadOf, Off
  <2> QED
    BY <1>2, <2>2, <2>3, <2>4
<1> QED
  BY <1>1, <1>2

LEMMA ThreadFactsNext == PathsPartition' => ThreadIs'
<1>1. (PathsPartition => ThreadIs)'
  BY ThreadFacts, PTL
<1> QED
  BY <1>1

(***************************************************************************)
(* A lane whose warp is executing a memory instruction.                    *)
(***************************************************************************)

\* In the memory states the instruction is a load or a store, and the lane that
\* waits for its response is an active one.
MemInv ==
    cta_active /\ state \in {"MEM_REQ", "MEM_RESP"} =>
        /\ issue_inst.op \in {"load", "store"}
        /\ state = "MEM_RESP" => mem_thread \in issue_mask

CoreInv == TypeOK /\ PipelineInv /\ PathsPartition /\ MemInv

LEMMA MemInvStep ==
  ASSUME MemInv, Next
  PROVE  MemInv'
<1> USE DEF MemInv, issue_inst, InstAt, issue, cta
<1>1. ASSUME NEW p \in Programs, NEW size \in 1..(NumWarps * NumThreads), Accept(p, size)
      PROVE  MemInv'
  BY <1>1 DEF Accept
<1>2. ASSUME NEW w \in Warps, SchedIssue(w)
      PROVE  MemInv'
  BY <1>2 DEF SchedIssue
<1>3. CASE SchedDrained \/ Fetch
  BY <1>3 DEF SchedDrained, Fetch
<1>4. CASE ExecBadReg \/ ExecBranchFault \/ ExecFault
  BY <1>4 DEF ExecBadReg, ExecBranchFault, ExecFault, RaiseFault
<1>5. CASE ExecMemory
  BY <1>5 DEF ExecMemory, Exec
<1>6. CASE ExecEbreak \/ ExecUniformBranch \/ ExecDivergentBranch \/ ExecAlu
  BY <1>6 DEF ExecEbreak, ExecUniformBranch, ExecDivergentBranch, ExecAlu, advance_warp
<1>7. CASE MemSkip
  BY <1>7 DEF MemSkip, FinishMemory, advance_warp
<1>8. CASE MemRequest
  BY <1>8 DEF MemRequest
<1>9. CASE MemResponse
  BY <1>9 DEF MemResponse, FinishMemory, advance_warp
<1>10. CASE Idle \/ OtherStore
  <2>1. UNCHANGED <<cta_active, state, issue_mask, issue_pc, mem_thread, prog>>
    BY <1>10 DEF Idle, OtherStore, vars
  <2> QED
    BY <2>1
<1> QED
  BY <1>1, <1>2, <1>3, <1>4, <1>5, <1>6, <1>7, <1>8, <1>9, <1>10, Zenon
  DEF Next, Step, AcceptAny

\* The invariant the simulation rests on.
THEOREM CoreInvariant == Spec => []CoreInv
<1>1. Init => PipelineInv /\ MemInv
  BY DEF Init, PipelineInv, IssueCoherent, MemInv
<1>2. MemInv /\ [Next]_vars => MemInv'
  <2> SUFFICES ASSUME MemInv, [Next]_vars PROVE MemInv'
    OBVIOUS
  <2>1. CASE Next
    BY <2>1, MemInvStep
  <2>2. CASE UNCHANGED vars
    BY <2>2 DEF MemInv, issue_inst, InstAt, vars, issue, cta
  <2> QED
    BY <2>1, <2>2
<1>3. TypeOK /\ PipelineInv /\ [Next]_vars => PipelineInv'
  <2> SUFFICES ASSUME TypeOK, PipelineInv, [Next]_vars PROVE PipelineInv'
    OBVIOUS
  <2>1. CASE Next
    BY <2>1, PipelineStep
  <2>2. CASE UNCHANGED vars
    BY <2>2 DEF PipelineInv, IssueCoherent, vars, warpvars, issue
  <2> QED
    BY <2>1, <2>2
<1> QED
  BY <1>1, <1>2, <1>3, TypeCorrect, PathsCorrect, PTL DEF Spec, CoreInv

(***************************************************************************)
(* The abstract state.                                                     *)
(***************************************************************************)

\* Running, and the instruction a thread stands at, in the terms of the core.
LEMMA AbstractState ==
  /\ Scalar!Tids = Warps \X Lanes
  /\ \A w \in Warps, t \in Lanes :
        /\ <<w, t>> \in Scalar!Running <=> ThreadOf(w, t).run
        /\ Scalar!At(<<w, t>>) = InstAt(ThreadOf(w, t).pc)
<1>1. Scalar!Tids = Warps \X Lanes
  BY DEF Scalar!Tids, Scalar!Warps, Scalar!Lanes, Warps, Lanes
<1> QED
  BY <1>1 DEF Scalar!Running, Scalar!At, Scalar!InstAt, Scalar!Illegal, InstAt, Illegal

\* A step that changes no thread, no memory and no status is invisible.
LEMMA StutterIntro ==
  ASSUME UNCHANGED <<cta_active, fault_r, prog, mem>>,
         \A w \in Warps, t \in Lanes : ThreadOf(w, t)' = ThreadOf(w, t)
  PROVE  UNCHANGED Scalar!svars
BY DEF Scalar!svars

\* The thread that executes the issued instruction, as the core knows it ...
Before(t) == [run |-> TRUE, reg |-> gprs[issue_warp][t], pc |-> issue_pc]
\* ... and after one that does not touch the memory.
NextReg(t) == IF issue_inst.op = "branch" THEN gprs[issue_warp][t]
              ELSE Result(issue_inst, issue_warp, t, gprs[issue_warp][t])
NextPc(t) == CASE issue_inst.op = "alu" -> issue_pc + 1
               [] issue_inst.op = "jal" -> issue_inst.target
               [] issue_inst.op = "jalr" -> JalrTarget(issue_inst, gprs[issue_warp][t])
               [] issue_inst.op = "branch" -> IF Takes(issue_inst, gprs[issue_warp][t])
                                              THEN issue_inst.target ELSE issue_pc + 1
After(t) == IF issue_inst.op = "ebreak" THEN Off
            ELSE [run |-> TRUE, reg |-> NextReg(t), pc |-> NextPc(t)]

\* A step of the active lanes of the issuing warp, together, is a step of as
\* many threads.
LEMMA AdvanceIntro ==
  ASSUME TypeOK, NEW iw \in Warps, iw = issue_warp, issue_mask # {},
         UNCHANGED <<cta_active, fault_r, prog, mem>>,
         issue_inst.op \in {"alu", "jal", "jalr", "branch", "ebreak"},
         \A t \in issue_mask : ThreadOf(iw, t) = Before(t) /\ ThreadOf(iw, t)' = After(t),
         \A w \in Warps, t \in Lanes :
            w # iw \/ t \notin issue_mask => ThreadOf(w, t)' = ThreadOf(w, t)
  PROVE  Scalar!SNext
<1> DEFINE S == {<<iw, t>> : t \in issue_mask}
           thr == [i \in Warps \X Lanes |-> ThreadOf(i[1], i[2])]
<1>1. issue_mask \subseteq Lanes
  BY DEF TypeOK
<1>2. S \in (SUBSET Scalar!Running) \ {{}}
  <2>1. \A t \in issue_mask : <<iw, t>> \in Scalar!Running
    BY <1>1, AbstractState DEF Before
  <2>2. S # {}
    OBVIOUS
  <2> QED
    BY <2>1, <2>2
<1>3. \A t \in issue_mask : /\ Scalar!At(<<iw, t>>) = issue_inst
                            /\ Scalar!After(<<iw, t>>) = After(t)
  <2> SUFFICES ASSUME NEW t \in issue_mask
               PROVE  /\ Scalar!At(<<iw, t>>) = issue_inst
                      /\ Scalar!After(<<iw, t>>) = After(t)
    OBVIOUS
  <2>1. Scalar!At(<<iw, t>>) = issue_inst
    BY <1>1, AbstractState DEF Before, issue_inst
  <2>2. /\ thr[<<iw, t>>] = Before(t)
        /\ <<iw, t>>[1] = issue_warp /\ <<iw, t>>[2] = t
    BY <1>1
  <2> DEFINE v == gprs[issue_warp][t]
             r == Result(issue_inst, issue_warp, t, v)
             b == Before(t)
  <2>3. b.reg = v /\ b.pc = issue_pc
    BY DEF Before
  <2>4. CASE issue_inst.op = "alu"
    <3>1. Scalar!After(<<iw, t>>) = [b EXCEPT !.pc = b.pc + 1, !.reg = r]
      BY <2>1, <2>2, <2>3, <2>4 DEF Scalar!After
    <3> QED
      BY <2>1, <2>4, <3>1 DEF After, NextReg, NextPc, Before
  <2>5. CASE issue_inst.op = "jal"
    <3>1. Scalar!After(<<iw, t>>) = [b EXCEPT !.pc = issue_inst.target, !.reg = r]
      BY <2>1, <2>2, <2>3, <2>5 DEF Scalar!After
    <3> QED
      BY <2>1, <2>5, <3>1 DEF After, NextReg, NextPc, Before
  <2>6. CASE issue_inst.op = "jalr"
    <3>1. Scalar!After(<<iw, t>>) =
            [b EXCEPT !.pc = JalrTarget(issue_inst, v), !.reg = r]
      BY <2>1, <2>2, <2>3, <2>6 DEF Scalar!After
    <3> QED
      BY <2>1, <2>6, <3>1 DEF After, NextReg, NextPc, Before
  <2>7. CASE issue_inst.op = "branch"
    <3>1. thr[<<iw, t>>].reg = v /\ thr[<<iw, t>>].pc = issue_pc
      BY <2>2, <2>3, Zenon
    <3>2. Scalar!After(<<iw, t>>) = [thr[<<iw, t>>] EXCEPT
            !.pc = IF Takes(Scalar!At(<<iw, t>>), thr[<<iw, t>>].reg)
                   THEN Scalar!At(<<iw, t>>).target ELSE thr[<<iw, t>>].pc + 1]
      BY <2>1, <2>7 DEF Scalar!After
    <3>3. Scalar!After(<<iw, t>>) =
            [b EXCEPT !.pc = IF Takes(issue_inst, v) THEN issue_inst.target ELSE issue_pc + 1]
      BY <2>1, <2>2, <3>1, <3>2, Zenon
    <3> QED
      BY <2>1, <2>7, <3>3 DEF After, NextReg, NextPc, Before
  <2>8. CASE issue_inst.op = "ebreak"
    <3>1. Scalar!After(<<iw, t>>) = Scalar!Off
      BY <2>1, <2>8 DEF Scalar!After
    <3> QED
      BY <2>1, <2>8, <3>1 DEF After, Scalar!Off, Off
  <2> QED
    BY <2>4, <2>5, <2>6, <2>7, <2>8
<1>4. \A i \in S : Scalar!At(i).op \in {"alu", "jal", "jalr", "branch", "ebreak"}
  BY <1>3
<1>5. thr' = [i \in Scalar!Tids |-> IF i \in S THEN Scalar!After(i) ELSE thr[i]]
  <2>1. \A i \in Warps \X Lanes :
          ThreadOf(i[1], i[2])' = IF i \in S THEN Scalar!After(i) ELSE ThreadOf(i[1], i[2])
    <3> SUFFICES ASSUME NEW w \in Warps, NEW t \in Lanes
                 PROVE  ThreadOf(w, t)' = IF <<w, t>> \in S THEN Scalar!After(<<w, t>>)
                                          ELSE ThreadOf(w, t)
      OBVIOUS
    <3>1. CASE w = iw /\ t \in issue_mask
      <4>1. <<w, t>> \in S
        BY <3>1
      <4> QED
        BY <1>3, <3>1, <4>1, Zenon
    <3>2. CASE ~(w = iw /\ t \in issue_mask)
      BY <3>2
    <3> QED
      BY <3>1, <3>2
  <2> QED
    BY <2>1, AbstractState
<1>6. Scalar!Advance
  BY <1>2, <1>4, <1>5, Zenon DEF Scalar!Advance
<1> QED
  BY <1>6 DEF Scalar!SNext

\* A lane whose path, registers and progress are left alone.
LEMMA LaneKept ==
  ASSUME ThreadIs, ThreadIs', NEW w \in Warps, NEW t \in Lanes,
         cta_active' = cta_active, warp_valid'[w] = warp_valid[w],
         warp_mask'[w] = warp_mask[w], stack_sp'[w] = stack_sp[w],
         stack_pc'[w] = stack_pc[w], stack_mask'[w] = stack_mask[w],
         gprs'[w][t] = gprs[w][t],
         t \in warp_mask[w] =>
            (IF t \in Accessed(w)' THEN warp_pc'[w] + 1 ELSE warp_pc'[w])
              = (IF t \in Accessed(w) THEN warp_pc[w] + 1 ELSE warp_pc[w])
  PROVE  ThreadOf(w, t)' = ThreadOf(w, t)
<1>1. Live(w)' = Live(w) /\ \A s : Deferred(w, s)' = Deferred(w, s)
  BY DEF Live, Deferred
<1>2. CASE ~(cta_active /\ warp_valid[w])
  BY <1>2 DEF ThreadIs, Off
<1>3. CASE cta_active /\ warp_valid[w] /\ t \in warp_mask[w]
  <2> DEFINE p == IF t \in Accessed(w) THEN warp_pc[w] + 1 ELSE warp_pc[w]
             q == IF t \in Accessed(w)' THEN warp_pc'[w] + 1 ELSE warp_pc'[w]
  <2>1. ThreadOf(w, t) = [run |-> TRUE, reg |-> gprs[w][t], pc |-> p]
    BY <1>3, Zenon DEF ThreadIs
  <2>2. ThreadOf(w, t)' = [run |-> TRUE, reg |-> gprs'[w][t], pc |-> q]
    BY <1>3, Zenon DEF ThreadIs
  <2>3. q = p
    BY <1>3, Zenon
  <2> HIDE DEF p, q
  <2> QED
    BY <2>1, <2>2, <2>3
<1>4. ASSUME cta_active, warp_valid[w], NEW s \in Live(w), t \in Deferred(w, s)
      PROVE  ThreadOf(w, t)' = ThreadOf(w, t)
  <2>1. s \in Live(w)' /\ t \in Deferred(w, s)' /\ cta_active' /\ warp_valid'[w]
    BY <1>1, <1>4
  <2>2. ThreadOf(w, t) = [run |-> TRUE, reg |-> gprs[w][t], pc |-> stack_pc[w][s]]
    BY <1>4, Zenon DEF ThreadIs
  <2>3. ThreadOf(w, t)' = [run |-> TRUE, reg |-> gprs'[w][t], pc |-> stack_pc'[w][s]]
    BY <2>1, Zenon DEF ThreadIs
  <2> QED
    BY <2>2, <2>3
<1>5. CASE /\ cta_active /\ warp_valid[w] /\ t \notin warp_mask[w]
           /\ \A s \in Live(w) : t \notin Deferred(w, s)
  <2>1. \A s \in Live(w)' : t \notin Deferred(w, s)'
    BY <1>1, <1>5
  <2> QED
    BY <1>5, <2>1 DEF ThreadIs, Off
<1> QED
  BY <1>2, <1>3, <1>4, <1>5

LEMMA InitMaps == Init => Scalar!SInit
BY DEF Init, Scalar!SInit, ThreadOf, Scalar!Tids, Scalar!Warps, Scalar!Lanes, Scalar!Off, Warps, Lanes

(***************************************************************************)
(* Steps the kernel does not see.                                          *)
(***************************************************************************)

\* The pc of an active lane, which runs ahead of its warp after its access.
LanePc(w, t) == IF t \in Accessed(w) THEN warp_pc[w] + 1 ELSE warp_pc[w]

\* The warps, masks, stacks and registers are left alone, and every active lane
\* keeps its pc.
LEMMA QuietStep ==
  ASSUME ThreadIs, ThreadIs',
         UNCHANGED <<cta_active, fault_r, prog, mem, warp_valid, warp_mask,
                     stack_sp, stack_pc, stack_mask, gprs>>,
         \A w \in Warps : \A t \in warp_mask[w] : LanePc(w, t)' = LanePc(w, t)
  PROVE  UNCHANGED Scalar!svars
<1>1. ASSUME NEW w \in Warps, NEW t \in Lanes
      PROVE  ThreadOf(w, t)' = ThreadOf(w, t)
  <2>1. t \in warp_mask[w] =>
            (IF t \in Accessed(w)' THEN warp_pc'[w] + 1 ELSE warp_pc'[w])
              = (IF t \in Accessed(w) THEN warp_pc[w] + 1 ELSE warp_pc[w])
    BY Zenon DEF LanePc
  <2> QED
    BY <2>1, LaneKept
<1> QED
  BY <1>1, StutterIntro, Zenon

LEMMA SchedIssueQuiet ==
  ASSUME TypeOK, ThreadIs, ThreadIs', NEW v \in Warps, SchedIssue(v)
  PROVE  UNCHANGED Scalar!svars
<1>1. \A w \in Warps : \A t \in warp_mask[w] : LanePc(w, t)' = LanePc(w, t)
  BY DEF SchedIssue, LanePc, Accessed, warpvars
<1> QED
  BY <1>1, QuietStep DEF SchedIssue, warpvars, stacks, cta

LEMMA FetchQuiet ==
  ASSUME TypeOK, ThreadIs, ThreadIs', Fetch
  PROVE  UNCHANGED Scalar!svars
<1>1. \A w \in Warps : \A t \in warp_mask[w] : LanePc(w, t)' = LanePc(w, t)
  BY DEF Fetch, LanePc, Accessed, warpvars
<1> QED
  BY <1>1, QuietStep DEF Fetch, warpvars, stacks, cta

LEMMA ExecMemoryQuiet ==
  ASSUME TypeOK, ThreadIs, ThreadIs', ExecMemory
  PROVE  UNCHANGED Scalar!svars
<1>1. \A w \in Warps : \A t \in warp_mask[w] : LanePc(w, t)' = LanePc(w, t)
  <2>1. \A t \in issue_mask : ~(t < 0)
    BY IndexFacts DEF TypeOK, Lanes
  <2>2. \A w : Accessed(w)' = {}
    BY <2>1 DEF ExecMemory, Accessed, issue
  <2>3. \A w : Accessed(w) = {}
    BY DEF ExecMemory, Exec, Accessed
  <2> QED
    BY <2>2, <2>3 DEF ExecMemory, LanePc, warpvars
<1> QED
  BY <1>1, QuietStep DEF ExecMemory, warpvars, stacks, cta

LEMMA MemSkipQuiet ==
  ASSUME TypeOK, PipelineInv, ThreadIs, ThreadIs', MemSkip
  PROVE  UNCHANGED Scalar!svars
<1> USE IndexFacts DEF MemSkip
<1>1. /\ issue_mask \subseteq Lanes /\ mem_thread \in Lanes /\ issue_warp \in Warps
      /\ warp_pc \in [Warps -> Nat]
      /\ issue_pc = warp_pc[issue_warp] /\ issue_mask = warp_mask[issue_warp]
  BY DEF TypeOK, PipelineInv, IssueCoherent
<1>2. Accessed(issue_warp) = {t \in issue_mask : t < mem_thread}
  BY DEF Accessed
<1>3. \A w : w # issue_warp => Accessed(w) = {}
  BY DEF Accessed
<1>4. \A w \in Warps : \A t \in warp_mask[w] : LanePc(w, t)' = LanePc(w, t)
  <2>1. CASE LastLane /\ FinishMemory
    <3>1. Accessed(issue_warp) = issue_mask
      BY <1>1, <1>2, <2>1 DEF LastLane, Lanes
    <3>2. \A w : Accessed(w)' = {}
      BY <2>1 DEF FinishMemory, advance_warp, Accessed
    <3> QED
      BY <1>1, <1>3, <2>1, <3>1, <3>2 DEF FinishMemory, LanePc
  <2>2. CASE ~LastLane
    <3>1. \A t \in issue_mask : t < mem_thread + 1 <=> t < mem_thread
      BY <1>1 DEF Lanes
    <3>2. \A w : Accessed(w)' = Accessed(w)
      BY <2>2, <3>1 DEF Accessed, issue
    <3> QED
      BY <2>2, <3>2 DEF LanePc
  <2> QED
    BY <2>1, <2>2
<1> QED
  BY <1>4, QuietStep DEF stacks, cta

(***************************************************************************)
(* The accesses of the lanes.                                              *)
(***************************************************************************)

\* What is known in the memory states.
LEMMA MemoryState ==
  ASSUME CoreInv, cta_active, state \in {"MEM_REQ", "MEM_RESP"}
  PROVE  /\ issue_warp \in Warps /\ mem_thread \in Lanes /\ issue_mask \subseteq Lanes
         /\ warp_valid[issue_warp]
         /\ issue_pc = warp_pc[issue_warp] /\ issue_mask = warp_mask[issue_warp]
         /\ warp_pc \in [Warps -> Nat] /\ gprs \in [Warps -> [Lanes -> Data]]
         /\ issue_inst.op \in {"load", "store"}
         /\ \A w : w # issue_warp => Accessed(w) = {}
BY DEF CoreInv, TypeOK, PipelineInv, IssueCoherent, MemInv, Accessed

\* The lane at its access is a thread that runs at the instruction.
LEMMA AccessingThread ==
  ASSUME CoreInv, ThreadIs, cta_active, state \in {"MEM_REQ", "MEM_RESP"},
         mem_thread \in issue_mask, mem_thread \notin Accessed(issue_warp)
  PROVE  /\ ThreadOf(issue_warp, mem_thread) = Before(mem_thread)
         /\ <<issue_warp, mem_thread>> \in Scalar!Running
         /\ Scalar!At(<<issue_warp, mem_thread>>) = issue_inst
<1>1. ThreadOf(issue_warp, mem_thread) = Before(mem_thread)
  BY MemoryState DEF ThreadIs, Before
<1> QED
  BY <1>1, MemoryState, AbstractState DEF Before, issue_inst

\* The state after an access: one thread moves on, the others stay.
Threads == [i \in Warps \X Lanes |-> ThreadOf(i[1], i[2])]

OneMoves(iw, mt, p, v, u) ==
  /\ ThreadOf(iw, mt) = [run |-> TRUE, reg |-> v, pc |-> p]
  /\ ThreadOf(iw, mt)' = [run |-> TRUE, reg |-> u, pc |-> p + 1]
  /\ \A w \in Warps, t \in Lanes :
        <<w, t>> # <<iw, mt>> => ThreadOf(w, t)' = ThreadOf(w, t)

Loaded(iw, mt, u) ==
  Threads' = [Threads EXCEPT ![<<iw, mt>>].pc = @ + 1, ![<<iw, mt>>].reg = u]

Stepped(iw, mt) == Threads' = [Threads EXCEPT ![<<iw, mt>>].pc = @ + 1]

LEMMA OneThread ==
  ASSUME NEW iw \in Warps, NEW mt \in Lanes, NEW p, NEW v, NEW u,
         OneMoves(iw, mt, p, v, u)
  PROVE  Loaded(iw, mt, u) /\ (u = v => Stepped(iw, mt))
<1> USE DEF OneMoves
<1> DEFINE x == <<iw, mt>>
           b == [run |-> TRUE, reg |-> v, pc |-> p]
<1>1. PICK c : c = [b EXCEPT !.pc = p + 1]
  OBVIOUS
<1>2. PICK a : a = [c EXCEPT !.reg = u]
  OBVIOUS
<1>3. c = [run |-> TRUE, reg |-> v, pc |-> p + 1] /\ b.pc = p
  BY <1>1
<1>4. a = [run |-> TRUE, reg |-> u, pc |-> p + 1]
  BY <1>2, <1>3
<1>5. u = v => a = c
  BY <1>3, <1>4
<1>6. \A i \in Warps \X Lanes :
         ThreadOf(i[1], i[2])' = IF i = x THEN a ELSE ThreadOf(i[1], i[2])
  BY <1>4
<1>7. Threads' = [Threads EXCEPT ![x] = a]
  BY <1>6 DEF Threads
<1>8. x \in DOMAIN Threads /\ Threads[x] = b
  BY DEF Threads
<1> DEFINE m == [Threads EXCEPT ![x] = c]
<1> HIDE DEF x, b
<1>9. [Threads EXCEPT ![x].pc = @ + 1] = m
  BY <1>1, <1>3, <1>8, Zenon
<1>10. m[x] = c /\ [m EXCEPT ![x] = a] = [Threads EXCEPT ![x] = a]
  BY <1>8
<1> HIDE DEF m
<1>11. [m EXCEPT ![x].reg = u] = [m EXCEPT ![x] = a]
  BY <1>2, <1>10, Zenon
<1>12. [Threads EXCEPT ![x].pc = @ + 1, ![x].reg = u] = [m EXCEPT ![x].reg = u]
  BY <1>9, Zenon
<1> QED
  BY <1>5, <1>7, <1>9, <1>10, <1>11, <1>12, Zenon DEF x, m, Loaded, Stepped

LEMMA MemRequestQuiet ==
  ASSUME CoreInv, ThreadIs, ThreadIs', MemRequest, issue_inst.op # "store"
  PROVE  UNCHANGED Scalar!svars
<1>1. \A w : Accessed(w)' = Accessed(w)
  BY DEF MemRequest, Accessed, issue, cta, issue_inst, InstAt
<1>2. \A w \in Warps : \A t \in warp_mask[w] : LanePc(w, t)' = LanePc(w, t)
  BY <1>1 DEF LanePc, MemRequest, warpvars
<1> QED
  BY <1>2, QuietStep DEF MemRequest, warpvars, stacks, cta

\* A store is done when it is requested.
LEMMA MemRequestStores ==
  ASSUME CoreInv, ThreadIs, ThreadIs', MemRequest, issue_inst.op = "store"
  PROVE  Scalar!StoreStep
<1> DEFINE thr == [i \in Warps \X Lanes |-> ThreadOf(i[1], i[2])]
<1>1. PICK iw \in Warps, mt \in Lanes : iw = issue_warp /\ mt = mem_thread
  BY MemoryState DEF MemRequest
<1>2. /\ mt \notin Accessed(iw) /\ mt \in warp_mask[iw] /\ warp_valid[iw]
      /\ iw = issue_warp' /\ cta_active
  BY <1>1, MemoryState DEF MemRequest, Accessed, Lanes, issue
<1>3. /\ ThreadOf(iw, mt) = Before(mt)
      /\ <<iw, mt>> \in Scalar!Running
      /\ Scalar!At(<<iw, mt>>) = issue_inst
  BY <1>1, <1>2, AccessingThread DEF MemRequest
<1>4. /\ \A w : w # iw => Accessed(w)' = Accessed(w)
      /\ Accessed(iw)' = Accessed(iw) \cup {mt}
  <2>1. \A t \in issue_mask : t \in Lanes
    BY MemoryState DEF MemRequest
  <2>2. \A w : w # iw => Accessed(w)' = Accessed(w)
    BY <1>1, <1>2 DEF Accessed
  <2>3. Accessed(iw)' = {t \in issue_mask : t < mem_thread \/ t = mem_thread}
    BY <1>1 DEF MemRequest, Accessed, issue, cta, issue_inst, InstAt
  <2>4. Accessed(iw) = {t \in issue_mask : t < mem_thread}
    BY <1>1 DEF MemRequest, Accessed
  <2> QED
    BY <1>1, <2>2, <2>3, <2>4 DEF MemRequest
<1>5. ASSUME NEW w \in Warps, NEW t \in Lanes, <<w, t>> # <<iw, mt>>
      PROVE  ThreadOf(w, t)' = ThreadOf(w, t)
  <2>1. t \in Accessed(w)' <=> t \in Accessed(w)
    BY <1>4, <1>5
  <2> QED
    BY <2>1, LaneKept DEF MemRequest, warpvars, stacks
<1>6. ThreadOf(iw, mt)' = [run |-> TRUE, reg |-> gprs[iw][mt], pc |-> issue_pc + 1]
  <2>1. mt \in Accessed(iw)'
    BY <1>4
  <2>2. ThreadOf(iw, mt)' = [run |-> TRUE, reg |-> gprs'[iw][mt], pc |-> warp_pc'[iw] + 1]
    BY <1>2, <2>1 DEF ThreadIs, MemRequest, warpvars
  <2>3. gprs' = gprs /\ warp_pc' = warp_pc /\ issue_pc = warp_pc[iw]
    BY <1>1, MemoryState DEF MemRequest, warpvars
  <2> QED
    BY <2>2, <2>3
<1>7. thr' = [thr EXCEPT ![<<iw, mt>>].pc = @ + 1]
  <2>1. PICK v, p : v = gprs[iw][mt] /\ p = issue_pc
    OBVIOUS
  <2>2. /\ ThreadOf(iw, mt) = [run |-> TRUE, reg |-> v, pc |-> p]
        /\ ThreadOf(iw, mt)' = [run |-> TRUE, reg |-> v, pc |-> p + 1]
    BY <1>1, <1>3, <1>6, <2>1 DEF Before
  <2>3. OneMoves(iw, mt, p, v, v)
    BY <1>5, <2>2, Zenon DEF OneMoves
  <2>4. Stepped(iw, mt)
    BY <2>3, OneThread
  <2> QED
    BY <2>4, Zenon DEF Threads, Stepped
<1>8. mem' = [mem EXCEPT ![Address(Scalar!At(<<iw, mt>>), thr[<<iw, mt>>].reg)]
                            = thr[<<iw, mt>>].reg]
  <2>1. thr[<<iw, mt>>].reg = LaneValue
    BY <1>1, <1>3 DEF Before, LaneValue
  <2> QED
    BY <1>3, <2>1 DEF MemRequest
<1>9. Scalar!At(<<iw, mt>>).op = "store" /\ UNCHANGED <<cta_active, fault_r, prog>>
  BY <1>3 DEF MemRequest, cta
<1> QED
  BY <1>3, <1>7, <1>8, <1>9, Zenon DEF Scalar!StoreStep

\* A response ends the access of the lane, and the instruction when it is the
\* last one.
LEMMA ResponsePcs ==
  ASSUME CoreInv, MemResponse
  PROVE  \A w \in Warps : \A t \in warp_mask[w] :
            LanePc(w, t)' = IF w = issue_warp /\ t = mem_thread THEN issue_pc + 1
                            ELSE LanePc(w, t)
<1>1. /\ issue_warp \in Warps /\ mem_thread \in Lanes /\ issue_mask \subseteq Lanes
      /\ warp_pc \in [Warps -> Nat] /\ mem_thread \in issue_mask
      /\ issue_pc = warp_pc[issue_warp] /\ issue_mask = warp_mask[issue_warp]
      /\ \A w : w # issue_warp => Accessed(w) = {}
  BY MemoryState DEF MemResponse, CoreInv, MemInv
<1>2. \A t \in issue_mask : t # mem_thread => (t \in Accessed(issue_warp) <=> t < mem_thread)
  BY DEF MemResponse, Accessed
<1>3. CASE LastLane /\ FinishMemory
  <2>1. \A w : Accessed(w)' = {}
    BY <1>3 DEF FinishMemory, advance_warp, Accessed
  <2>2. \A t \in issue_mask : t # mem_thread => t \in Accessed(issue_warp)
    BY <1>1, <1>2, <1>3, IndexFacts DEF LastLane, Lanes
  <2> QED
    BY <1>1, <1>3, <2>1, <2>2 DEF FinishMemory, LanePc
<1>4. CASE ~LastLane
  <2>1. Accessed(issue_warp)' = {t \in issue_mask : t < mem_thread + 1}
    BY <1>4 DEF MemResponse, Accessed, issue
  <2>2. \A t \in issue_mask : t < mem_thread + 1 <=> t < mem_thread \/ t = mem_thread
    BY <1>1, IndexFacts DEF Lanes
  <2>3. \A w : w # issue_warp => Accessed(w)' = {}
    BY DEF MemResponse, Accessed, issue
  <2>4. warp_pc' = warp_pc
    BY <1>4 DEF MemResponse
  <2>5. \A t \in issue_mask : t \in Accessed(issue_warp)' <=>
                                 t = mem_thread \/ t \in Accessed(issue_warp)
    BY <1>2, <2>1, <2>2, IndexFacts DEF Lanes
  <2> QED
    BY <1>1, <2>3, <2>4, <2>5 DEF LanePc
<1> QED
  BY <1>3, <1>4 DEF MemResponse

\* The store of the lane was done at the request.
LEMMA MemResponseQuiet ==
  ASSUME CoreInv, ThreadIs, ThreadIs', MemResponse, issue_inst.op # "load"
  PROVE  UNCHANGED Scalar!svars
<1>1. LanePc(issue_warp, mem_thread) = issue_pc + 1
  BY MemoryState DEF CoreInv, MemInv, MemResponse, LanePc, Accessed
<1>2. \A w \in Warps : \A t \in warp_mask[w] : LanePc(w, t)' = LanePc(w, t)
  BY <1>1, ResponsePcs
<1> QED
  BY <1>2, QuietStep DEF MemResponse, stacks, cta

\* A load takes the value that the memory has at the response.
LEMMA MemResponseLoads ==
  ASSUME CoreInv, ThreadIs, ThreadIs', MemResponse, issue_inst.op = "load"
  PROVE  Scalar!LoadStep
<1> DEFINE thr == [i \in Warps \X Lanes |-> ThreadOf(i[1], i[2])]
<1>1. PICK iw \in Warps, mt \in Lanes : iw = issue_warp /\ mt = mem_thread
  BY MemoryState DEF MemResponse
<1>2. /\ mt \notin Accessed(iw) /\ mt \in warp_mask[iw] /\ warp_valid[iw] /\ cta_active
      /\ mem_thread \in issue_mask
  BY <1>1, MemoryState DEF CoreInv, MemInv, MemResponse, Accessed, Lanes
<1>3. /\ ThreadOf(iw, mt) = Before(mt)
      /\ <<iw, mt>> \in Scalar!Running
      /\ Scalar!At(<<iw, mt>>) = issue_inst
  BY <1>1, <1>2, AccessingThread DEF MemResponse
<1>4. PICK v, p, u : /\ v = gprs[iw][mt] /\ p = issue_pc
                     /\ u = mem[Address(issue_inst, v)]
  OBVIOUS
<1>5. gprs' = [gprs EXCEPT ![iw][mt] = u] /\ gprs \in [Warps -> [Lanes -> Data]]
  BY <1>1, <1>4 DEF MemResponse, LaneValue, CoreInv, TypeOK
<1>6. ASSUME NEW w \in Warps, NEW t \in Lanes, <<w, t>> # <<iw, mt>>
      PROVE  ThreadOf(w, t)' = ThreadOf(w, t)
  <2>1. gprs'[w][t] = gprs[w][t]
    BY <1>5, <1>6
  <2>2. t \in warp_mask[w] => LanePc(w, t)' = LanePc(w, t)
    BY <1>1, <1>6, ResponsePcs
  <2>3. t \in warp_mask[w] =>
            (IF t \in Accessed(w)' THEN warp_pc'[w] + 1 ELSE warp_pc'[w])
              = (IF t \in Accessed(w) THEN warp_pc[w] + 1 ELSE warp_pc[w])
    BY <2>2, Zenon DEF LanePc
  <2> QED
    BY <2>1, <2>3, LaneKept DEF MemResponse, stacks
<1>7. ThreadOf(iw, mt)' = [run |-> TRUE, reg |-> u, pc |-> p + 1]
  <2>1. LanePc(iw, mt)' = p + 1
    BY <1>1, <1>2, <1>4, ResponsePcs
  <2>2. gprs'[iw][mt] = u
    BY <1>5
  <2>3. cta_active' /\ warp_valid'[iw] /\ mt \in warp_mask'[iw]
    BY <1>2 DEF MemResponse
  <2>4. ThreadOf(iw, mt)' = [run |-> TRUE, reg |-> gprs'[iw][mt], pc |-> LanePc(iw, mt)']
    BY <2>3, Zenon DEF ThreadIs, LanePc
  <2> QED
    BY <2>1, <2>2, <2>4
<1>8. thr' = [thr EXCEPT ![<<iw, mt>>].pc = @ + 1, ![<<iw, mt>>].reg = u]
  <2>1. ThreadOf(iw, mt) = [run |-> TRUE, reg |-> v, pc |-> p]
    BY <1>1, <1>3, <1>4 DEF Before
  <2>2. OneMoves(iw, mt, p, v, u)
    BY <1>6, <1>7, <2>1, Zenon DEF OneMoves
  <2>3. Loaded(iw, mt, u)
    BY <2>2, OneThread
  <2> QED
    BY <2>3, Zenon DEF Threads, Loaded
<1>9. u = mem[Address(Scalar!At(<<iw, mt>>), thr[<<iw, mt>>].reg)]
  <2>1. thr[<<iw, mt>>].reg = v
    BY <1>1, <1>3, <1>4 DEF Before
  <2> QED
    BY <1>3, <1>4, <2>1
<1>10. Scalar!At(<<iw, mt>>).op = "load" /\ UNCHANGED <<cta_active, fault_r, prog, mem>>
  BY <1>3 DEF MemResponse, cta
<1> QED
  BY <1>3, <1>8, <1>9, <1>10, Zenon DEF Scalar!LoadStep

(***************************************************************************)
(* A CTA starts, completes, and is given up.                               *)
(***************************************************************************)

LEMMA OtherStoreMaps ==
  ASSUME TypeOK, ThreadIs, ThreadIs', OtherStore
  PROVE  Scalar!OtherCore
<1>1. PICK s \in OtherStores :
        /\ mem' = [mem EXCEPT ![s[1]] = s[2]]
        /\ UNCHANGED <<state, cta_active, fault_r, rr_warp, issue, mem_thread, warpvars,
                       gprs, cta>>
  BY DEF OtherStore
<1>2. \A w \in Warps, t \in Lanes : ThreadOf(w, t)' = ThreadOf(w, t)
  <2> TAKE w \in Warps, t \in Lanes
  <2>1. Accessed(w)' = Accessed(w)
    BY <1>1 DEF Accessed, issue, cta, issue_inst, InstAt
  <2> QED
    BY <1>1, <2>1, LaneKept DEF warpvars, stacks
<1>3. UNCHANGED <<cta_active, fault_r, prog>>
  BY <1>1 DEF cta
<1> QED
  BY <1>1, <1>2, <1>3 DEF Scalar!OtherCore

LEMMA AcceptMaps ==
  ASSUME ThreadIs', AcceptAny
  PROVE  Scalar!Start
<1>1. PICK p \in Programs, size \in 1..(NumWarps * NumThreads) : Accept(p, size)
  BY DEF AcceptAny
<1> DEFINE S == {i \in Warps \X Lanes : i[2] \in InitialMask(i[1], size)}
           new == [run |-> TRUE, pc |-> 0, reg |-> Zero]
<1>2. ASSUME NEW w \in Warps, NEW t \in Lanes
      PROVE  ThreadOf(w, t)' = IF <<w, t>> \in S THEN new ELSE Off
  <2>1. /\ cta_active' = TRUE /\ state' = "SCHED"
        /\ warp_pc'[w] = 0 /\ stack_sp'[w] = 0 /\ gprs'[w][t] = Zero
        /\ warp_mask'[w] = InitialMask(w, size) /\ warp_valid'[w] = (w * NumThreads < size)
    BY <1>1 DEF Accept
  <2>2. Live(w)' = {}
    BY <2>1 DEF Live
  <2>3. Accessed(w)' = {}
    BY <2>1 DEF Accessed
  <2>4. <<w, t>> \in S <=> t \in InitialMask(w, size)
    OBVIOUS
  <2>5. CASE t \in InitialMask(w, size)
    <3>1. PICK n \in Int : n = w * NumThreads
      BY IndexFacts DEF Warps
    <3>2. size \in Int /\ t \in Nat /\ n + t < size
      BY <2>5, <3>1, IndexFacts DEF InitialMask, Lanes
    <3>3. n < size
      BY <3>2
    <3>4. warp_valid'[w]
      BY <2>1, <3>1, <3>3
    <3> QED
      BY <2>1, <2>3, <2>4, <2>5, <3>4 DEF ThreadIs
  <2>6. CASE t \notin InitialMask(w, size)
    BY <2>1, <2>2, <2>4, <2>6 DEF ThreadIs, Off
  <2> QED
    BY <2>5, <2>6
<1>3. [i \in Warps \X Lanes |-> ThreadOf(i[1], i[2])]'
        = [i \in Scalar!Tids |-> IF i \in S THEN new ELSE Scalar!Off]
  <2>1. \A i \in Warps \X Lanes :
          ThreadOf(i[1], i[2])' = IF i \in S THEN new ELSE Scalar!Off
    BY <1>2 DEF Off, Scalar!Off
  <2> QED
    BY <2>1, AbstractState
<1>4. ~cta_active /\ cta_active' = TRUE /\ fault_r' = FALSE /\ prog' = p /\ mem' = mem
  BY <1>1 DEF Accept, cta_ready
<1>5. S \in {{i \in Warps \X Lanes : i[2] \in InitialMask(i[1], z)} :
                z \in 1..(NumWarps * NumThreads)}
  OBVIOUS
<1> HIDE DEF S
<1> QED
  BY <1>3, <1>4, <1>5, Zenon DEF Scalar!Start

LEMMA DrainedMaps ==
  ASSUME ThreadIs, ThreadIs', SchedDrained
  PROVE  Scalar!Complete
<1>1. \A w \in Warps, t \in Lanes : ThreadOf(w, t)' = Off /\ ThreadOf(w, t) = Off
  BY DEF SchedDrained, ThreadIs
<1>2. Scalar!Running = {}
  <2>1. \A w \in Warps, t \in Lanes : <<w, t>> \notin Scalar!Running
    <3>1. ~Off.run
      BY DEF Off
    <3> QED
      BY <1>1, <3>1, AbstractState, Zenon
  <2> QED
    BY <2>1, AbstractState DEF Scalar!Running
<1> QED
  BY <1>1, <1>2 DEF Scalar!Complete, SchedDrained, cta

\* The active lanes of a warp in EXEC are threads that run at the instruction.
LEMMA ExecutingThreads ==
  ASSUME CoreInv, ThreadIs, cta_active, state = "EXEC"
  PROVE  /\ issue_warp \in Warps /\ warp_valid[issue_warp]
         /\ issue_mask # {} /\ issue_mask \subseteq Lanes
         /\ issue_pc = warp_pc[issue_warp] /\ issue_mask = warp_mask[issue_warp]
         /\ \A t \in issue_mask : /\ ThreadOf(issue_warp, t) = Before(t)
                                  /\ <<issue_warp, t>> \in Scalar!Running
                                  /\ Scalar!At(<<issue_warp, t>>) = issue_inst
<1>1. /\ issue_warp \in Warps /\ warp_valid[issue_warp] /\ issue_mask \subseteq Lanes
      /\ issue_pc = warp_pc[issue_warp] /\ issue_mask = warp_mask[issue_warp]
  BY DEF CoreInv, TypeOK, PipelineInv, IssueCoherent
<1>2. issue_mask # {}
  BY <1>1 DEF CoreInv, PathsPartition
<1>3. \A t \in issue_mask : ThreadOf(issue_warp, t) = Before(t)
  <2> TAKE t \in issue_mask
  <2>1. t \notin Accessed(issue_warp) /\ t \in Lanes
    BY <1>1 DEF Accessed
  <2> QED
    BY <1>1, <2>1 DEF ThreadIs, Before
<1> QED
  BY <1>1, <1>2, <1>3, AbstractState DEF Before, issue_inst

\* A step that gives up the CTA.
LEMMA AbortIntro ==
  ASSUME ThreadIs', cta_active, RaiseFault, UNCHANGED <<prog, mem>>, Scalar!MustFault
  PROVE  Scalar!SNext
<1>1. \A w \in Warps, t \in Lanes : ThreadOf(w, t)' = Off
  BY Zenon DEF RaiseFault, ThreadIs
<1>2. [i \in Warps \X Lanes |-> ThreadOf(i[1], i[2])]' = [i \in Scalar!Tids |-> Scalar!Off]
  BY <1>1, AbstractState DEF Off, Scalar!Off
<1>3. Scalar!Abort
  BY <1>2, Zenon DEF Scalar!Abort, RaiseFault
<1> QED
  BY <1>3 DEF Scalar!SNext

LEMMA BadRegMaps ==
  ASSUME CoreInv, ThreadIs, ThreadIs', ExecBadReg
  PROVE  Scalar!SNext
<1>1. Scalar!MustFault
  BY ExecutingThreads DEF ExecBadReg, Exec, Scalar!MustFault
<1> QED
  BY <1>1, AbortIntro DEF ExecBadReg, Exec, cta

\* A lane that takes the branch and one that does not differ.
LEMMA BranchFaultMaps ==
  ASSUME CoreInv, ThreadIs, ThreadIs', ExecBranchFault
  PROVE  Scalar!SNext
<1> DEFINE thr == [i \in Warps \X Lanes |-> ThreadOf(i[1], i[2])]
<1>1. CASE Exec("badbranch")
  <2>1. Scalar!MustFault
    BY <1>1, ExecutingThreads DEF Exec, Scalar!MustFault
  <2> QED
    BY <1>1, <2>1, AbortIntro DEF ExecBranchFault, Exec, cta
<1>2. CASE Exec("branch") /\ Diverges /\ stack_sp[issue_warp] >= StackDepth
  <2>1. cta_active /\ state = "EXEC" /\ issue_inst.op = "branch"
    BY <1>2 DEF Exec
  <2>2. NumThreads > StackDepth + 1
    <3>1. WarpPaths(issue_warp)
      BY <2>1, ExecutingThreads, PathsByWarp DEF CoreInv
    <3>2. /\ taken_mask \in SUBSET warp_mask[issue_warp] /\ taken_mask # {}
          /\ fall_mask \in SUBSET warp_mask[issue_warp] /\ fall_mask # {}
          /\ taken_mask \cap fall_mask = {}
      BY <1>2, <2>1, ExecutingThreads DEF Diverges, taken_mask, fall_mask
    <3>3. stack_sp[issue_warp] <= NumThreads - 2
      BY <2>1, <3>1, <3>2, ExecutingThreads, PathsBound DEF CoreInv
    <3>4. stack_sp[issue_warp] \in Nat
      BY DEF CoreInv, TypeOK
    <3> QED
      BY <1>2, <3>3, <3>4, IndexFacts
  <2>3. PICK t \in issue_mask, f \in issue_mask :
           /\ Takes(issue_inst, gprs[issue_warp][t])
           /\ ~Takes(issue_inst, gprs[issue_warp][f])
    BY <1>2 DEF Diverges, taken_mask, fall_mask
  <2>4. PICK i, j : i = <<issue_warp, t>> /\ j = <<issue_warp, f>>
    OBVIOUS
  <2>5. /\ i \in Scalar!Running /\ j \in Scalar!Running /\ i[1] = j[1]
        /\ Scalar!At(i) = issue_inst /\ Scalar!At(j) = issue_inst
        /\ thr[i] = Before(t) /\ thr[j] = Before(f)
    BY <2>1, <2>4, ExecutingThreads
  <2>6. /\ thr[i].pc = thr[j].pc
        /\ thr[i].reg = gprs[issue_warp][t] /\ thr[j].reg = gprs[issue_warp][f]
    BY <2>5 DEF Before
  <2>7. Takes(Scalar!At(i), thr[i].reg) # Takes(Scalar!At(j), thr[j].reg)
    BY <2>3, <2>5, <2>6, Zenon
  <2>8. Scalar!At(i).op = "branch"
    BY <2>1, <2>5, Zenon
  <2>9. Scalar!MustFault
    BY <2>2, <2>5, <2>6, <2>7, <2>8, Zenon DEF Scalar!MustFault
  <2> QED
    BY <2>1, <2>9, AbortIntro DEF ExecBranchFault, cta
<1> QED
  BY <1>1, <1>2 DEF ExecBranchFault

LEMMA FaultMaps ==
  ASSUME CoreInv, ThreadIs, ThreadIs', ExecFault
  PROVE  Scalar!SNext
<1> DEFINE thr == [i \in Warps \X Lanes |-> ThreadOf(i[1], i[2])]
<1>1. CASE Exec("illegal")
  <2>1. Scalar!MustFault
    BY <1>1, ExecutingThreads DEF Exec, Scalar!MustFault
  <2> QED
    BY <1>1, <2>1, AbortIntro DEF ExecFault, Exec, cta
<1>2. CASE Exec("jalr") /\ divergent_target
  <2>1. cta_active /\ state = "EXEC" /\ issue_inst.op = "jalr"
    BY <1>2 DEF Exec
  <2>2. PICK t \in issue_mask, f \in issue_mask :
           JalrTarget(issue_inst, gprs[issue_warp][t])
              # JalrTarget(issue_inst, gprs[issue_warp][f])
    BY <1>2 DEF divergent_target, Targets
  <2>3. PICK i, j : i = <<issue_warp, t>> /\ j = <<issue_warp, f>>
    OBVIOUS
  <2>4. /\ i \in Scalar!Running /\ j \in Scalar!Running /\ i[1] = j[1]
        /\ Scalar!At(i) = issue_inst /\ Scalar!At(j) = issue_inst
        /\ thr[i] = Before(t) /\ thr[j] = Before(f)
    BY <2>1, <2>3, ExecutingThreads
  <2>5. /\ thr[i].pc = thr[j].pc
        /\ thr[i].reg = gprs[issue_warp][t] /\ thr[j].reg = gprs[issue_warp][f]
    BY <2>4 DEF Before
  <2>6. JalrTarget(Scalar!At(i), thr[i].reg) # JalrTarget(Scalar!At(j), thr[j].reg)
    BY <2>2, <2>4, <2>5, Zenon
  <2>7. Scalar!At(i).op = "jalr"
    BY <2>1, <2>4, Zenon
  <2>8. Scalar!MustFault
    BY <2>4, <2>5, <2>6, <2>7, Zenon DEF Scalar!MustFault
  <2> QED
    BY <2>1, <2>8, AbortIntro DEF ExecFault, cta
<1> QED
  BY <1>1, <1>2 DEF ExecFault

(***************************************************************************)
(* The active lanes execute an instruction together.                       *)
(***************************************************************************)

\* The threads of the other warps do not move.
LEMMA OtherWarps ==
  ASSUME ThreadIs, ThreadIs', state = "EXEC", state' = "SCHED", cta_active' = cta_active,
         NEW w \in Warps,
         /\ warp_valid'[w] = warp_valid[w] /\ warp_mask'[w] = warp_mask[w]
         /\ warp_pc'[w] = warp_pc[w] /\ stack_sp'[w] = stack_sp[w]
         /\ stack_pc'[w] = stack_pc[w] /\ stack_mask'[w] = stack_mask[w]
         /\ gprs'[w] = gprs[w]
  PROVE  \A t \in Lanes : ThreadOf(w, t)' = ThreadOf(w, t)
<1> TAKE t \in Lanes
<1>1. Accessed(w)' = {} /\ Accessed(w) = {}
  BY DEF Accessed
<1> QED
  BY <1>1, LaneKept

LEMMA AluMaps ==
  ASSUME CoreInv, ThreadIs, ThreadIs', ExecAlu
  PROVE  Scalar!SNext
<1>1. PICK iw \in Warps : iw = issue_warp
  BY DEF CoreInv, TypeOK
<1>2. /\ cta_active /\ state = "EXEC" /\ state' = "SCHED"
      /\ issue_inst.op \in {"alu", "jal", "jalr"}
      /\ UNCHANGED <<cta_active, fault_r, prog, mem, warp_mask, warp_valid,
                     stack_sp, stack_pc, stack_mask>>
  BY DEF ExecAlu, Exec, advance_warp, stacks, cta
<1>3. TypeOK /\ gprs \in [Warps -> [Lanes -> Data]] /\ warp_pc \in [Warps -> Nat]
  BY DEF CoreInv, TypeOK
<1>4. /\ warp_valid[iw] /\ issue_mask # {} /\ issue_mask \subseteq Lanes
      /\ issue_mask = warp_mask[iw]
      /\ \A t \in issue_mask : ThreadOf(iw, t) = Before(t)
  BY <1>1, <1>2, ExecutingThreads
<1>5. /\ \A w \in Warps : w # iw => gprs'[w] = gprs[w] /\ warp_pc'[w] = warp_pc[w]
      /\ \A t \in Lanes : gprs'[iw][t] = IF t \in issue_mask THEN NextReg(t) ELSE gprs[iw][t]
  <2>1. gprs' = Written
    BY DEF ExecAlu
  <2>2. /\ \A w \in Warps : w # iw => gprs'[w] = gprs[w]
        /\ \A t \in Lanes : gprs'[iw][t] = IF t \in issue_mask THEN NextReg(t) ELSE gprs[iw][t]
    BY <1>1, <1>2, <1>3, <2>1 DEF Written, NextReg
  <2>3. \A w \in Warps : w # iw => warp_pc'[w] = warp_pc[w]
    BY <1>1, <1>3 DEF ExecAlu
  <2> QED
    BY <2>2, <2>3
<1>6. \A t \in issue_mask : warp_pc'[iw] = NextPc(t)
  <2>1. CASE Exec("alu")
    BY <1>1, <1>3, <2>1 DEF ExecAlu, Exec, NextPc
  <2>2. CASE Exec("jal")
    BY <1>1, <1>3, <2>2 DEF ExecAlu, Exec, NextPc
  <2>3. CASE Exec("jalr")
    <3>1. ~divergent_target
      BY <2>3 DEF ExecAlu, Exec
    <3>2. PICK pc \in Targets : warp_pc' = [warp_pc EXCEPT ![issue_warp] = pc]
      BY <2>3 DEF ExecAlu, Exec
    <3>3. \A t \in issue_mask : JalrTarget(issue_inst, gprs[issue_warp][t]) = pc
      BY <2>3, <3>1, <3>2 DEF divergent_target, Targets, Exec
    <3>4. \A t \in issue_mask : NextPc(t) = pc
      BY <2>3, <3>3 DEF Exec, NextPc
    <3> QED
      BY <1>1, <1>3, <3>2, <3>4
  <2> QED
    BY <2>1, <2>2, <2>3 DEF ExecAlu
<1>7. \A t \in Lanes : t \notin Accessed(iw)' /\ t \notin Accessed(iw)
  BY <1>2 DEF Accessed
<1>8. \A t \in issue_mask : ThreadOf(iw, t)' = After(t)
  <2> TAKE t \in issue_mask
  <2>1. ThreadOf(iw, t)' = [run |-> TRUE, reg |-> gprs'[iw][t], pc |-> warp_pc'[iw]]
    BY <1>2, <1>4, <1>7 DEF ThreadIs
  <2>2. After(t) = [run |-> TRUE, reg |-> NextReg(t), pc |-> NextPc(t)]
    BY <1>2 DEF After
  <2> QED
    BY <1>4, <1>5, <1>6, <2>1, <2>2
<1>9. \A w \in Warps, t \in Lanes :
         w # iw \/ t \notin issue_mask => ThreadOf(w, t)' = ThreadOf(w, t)
  <2>1. ASSUME NEW w \in Warps, NEW t \in Lanes, w # iw
        PROVE  ThreadOf(w, t)' = ThreadOf(w, t)
    BY <1>2, <1>5, <2>1, OtherWarps
  <2>2. ASSUME NEW t \in Lanes, t \notin issue_mask
        PROVE  ThreadOf(iw, t)' = ThreadOf(iw, t)
    BY <1>2, <1>4, <1>5, <2>2, LaneKept
  <2> QED
    BY <2>1, <2>2
<1> QED
  BY <1>1, <1>2, <1>3, <1>4, <1>8, <1>9, AdvanceIntro

LEMMA UniformBranchMaps ==
  ASSUME CoreInv, ThreadIs, ThreadIs', ExecUniformBranch
  PROVE  Scalar!SNext
<1>1. PICK iw \in Warps : iw = issue_warp
  BY DEF CoreInv, TypeOK
<1>2. /\ cta_active /\ state = "EXEC" /\ state' = "SCHED"
      /\ issue_inst.op = "branch"
      /\ UNCHANGED <<cta_active, fault_r, prog, mem, warp_valid, gprs,
                     stack_sp, stack_pc, stack_mask>>
  BY DEF ExecUniformBranch, Exec, advance_warp, stacks, cta
<1>3. TypeOK /\ warp_mask \in [Warps -> SUBSET Lanes] /\ warp_pc \in [Warps -> Nat]
  BY DEF CoreInv, TypeOK
<1>4. /\ warp_valid[iw] /\ issue_mask # {} /\ issue_mask \subseteq Lanes
      /\ issue_mask = warp_mask[iw]
      /\ \A t \in issue_mask : ThreadOf(iw, t) = Before(t)
  BY <1>1, <1>2, ExecutingThreads
<1>5. (IF taken_mask # {} THEN taken_mask ELSE fall_mask) = issue_mask
  BY <1>4 DEF ExecUniformBranch, Diverges, taken_mask, fall_mask
<1>6. /\ warp_mask' = warp_mask
      /\ \A w \in Warps : w # iw => warp_pc'[w] = warp_pc[w]
      /\ warp_pc'[iw] = IF taken_mask # {} THEN issue_inst.target ELSE issue_pc + 1
  BY <1>1, <1>3, <1>4, <1>5 DEF ExecUniformBranch
<1>7. \A t \in issue_mask : warp_pc'[iw] = NextPc(t)
  <2> TAKE t \in issue_mask
  <2>1. NextPc(t) = IF Takes(issue_inst, gprs[issue_warp][t])
                    THEN issue_inst.target ELSE issue_pc + 1
    BY <1>2 DEF NextPc
  <2>2. taken_mask # {} <=> Takes(issue_inst, gprs[issue_warp][t])
    BY <1>5 DEF taken_mask
  <2> QED
    BY <1>6, <2>1, <2>2, Zenon
<1>8. \A t \in Lanes : t \notin Accessed(iw)' /\ t \notin Accessed(iw)
  BY <1>2 DEF Accessed
<1>9. \A t \in issue_mask : ThreadOf(iw, t)' = After(t)
  <2> TAKE t \in issue_mask
  <2>1. ThreadOf(iw, t)' = [run |-> TRUE, reg |-> gprs'[iw][t], pc |-> warp_pc'[iw]]
    BY <1>2, <1>4, <1>6, <1>8 DEF ThreadIs
  <2>2. After(t) = [run |-> TRUE, reg |-> gprs[iw][t], pc |-> NextPc(t)]
    BY <1>1, <1>2 DEF After, NextReg
  <2> QED
    BY <1>2, <1>7, <2>1, <2>2
<1>10. \A w \in Warps, t \in Lanes :
         w # iw \/ t \notin issue_mask => ThreadOf(w, t)' = ThreadOf(w, t)
  <2>1. ASSUME NEW w \in Warps, NEW t \in Lanes, w # iw
        PROVE  ThreadOf(w, t)' = ThreadOf(w, t)
    BY <1>2, <1>6, <2>1, OtherWarps
  <2>2. ASSUME NEW t \in Lanes, t \notin issue_mask
        PROVE  ThreadOf(iw, t)' = ThreadOf(iw, t)
    BY <1>2, <1>4, <1>6, <2>2, LaneKept
  <2> QED
    BY <2>1, <2>2
<1> QED
  BY <1>1, <1>2, <1>3, <1>4, <1>9, <1>10, AdvanceIntro

\* The lanes that take the branch are found on the stack, at the target, and
\* the paths below keep their slots.
LEMMA DivergentBranchMaps ==
  ASSUME CoreInv, ThreadIs, ThreadIs', ExecDivergentBranch
  PROVE  Scalar!SNext
<1>1. PICK iw \in Warps : iw = issue_warp
  BY DEF CoreInv, TypeOK
<1>2. /\ cta_active /\ state = "EXEC" /\ state' = "SCHED"
      /\ issue_inst.op = "branch"
      /\ UNCHANGED <<cta_active, fault_r, prog, mem, warp_valid, gprs>>
  BY DEF ExecDivergentBranch, Exec, advance_warp, cta
<1>3. /\ TypeOK /\ warp_mask \in [Warps -> SUBSET Lanes] /\ warp_pc \in [Warps -> Nat]
      /\ stack_sp \in [Warps -> 0..StackDepth]
      /\ stack_pc \in [Warps -> [Slots -> Nat]]
      /\ stack_mask \in [Warps -> [Slots -> SUBSET Lanes]]
  BY DEF CoreInv, TypeOK
<1>4. /\ warp_valid[iw] /\ issue_mask # {} /\ issue_mask \subseteq Lanes
      /\ issue_mask = warp_mask[iw]
      /\ \A t \in issue_mask : ThreadOf(iw, t) = Before(t)
  BY <1>1, <1>2, ExecutingThreads
<1>5. PICK sp \in Slots : sp = stack_sp[iw]
  <2>1. stack_sp[iw] \in 0..StackDepth /\ stack_sp[iw] < StackDepth
    BY <1>1, <1>3 DEF ExecDivergentBranch
  <2> QED
    BY <2>1, IndexFacts DEF Slots
<1>6. /\ stack_pc' = [stack_pc EXCEPT ![iw][sp] = issue_inst.target]
      /\ stack_mask' = [stack_mask EXCEPT ![iw][sp] = taken_mask]
      /\ stack_sp' = [stack_sp EXCEPT ![iw] = sp + 1]
      /\ warp_pc' = [warp_pc EXCEPT ![iw] = issue_pc + 1]
      /\ warp_mask' = [warp_mask EXCEPT ![iw] = fall_mask]
  BY <1>1, <1>5 DEF ExecDivergentBranch
<1>7. /\ Live(iw)' = Live(iw) \cup {sp}
      /\ Live(iw) \subseteq Slots /\ sp \notin Live(iw)
  <2>1. stack_sp'[iw] = sp + 1 /\ sp \in Nat /\ sp < StackDepth
    BY <1>3, <1>5, <1>6, IndexFacts DEF Slots
  <2> QED
    BY <1>5, <2>1, IndexFacts DEF Live, Slots
<1>8. /\ stack_pc'[iw][sp] = issue_inst.target /\ Deferred(iw, sp)' = taken_mask
      /\ \A s \in Live(iw) : /\ stack_pc'[iw][s] = stack_pc[iw][s]
                             /\ Deferred(iw, s)' = Deferred(iw, s)
      /\ warp_pc'[iw] = issue_pc + 1 /\ warp_mask'[iw] = fall_mask
  BY <1>3, <1>6, <1>7 DEF Deferred
<1>9. \A t \in Lanes : t \notin Accessed(iw)' /\ t \notin Accessed(iw)
  BY <1>2 DEF Accessed
<1>10. \A t \in issue_mask : ThreadOf(iw, t)' = After(t)
  <2> TAKE t \in issue_mask
  <2>1. After(t) = [run |-> TRUE, reg |-> gprs[iw][t], pc |-> NextPc(t)]
    BY <1>1, <1>2 DEF After, NextReg
  <2>2. NextPc(t) = IF Takes(issue_inst, gprs[issue_warp][t])
                    THEN issue_inst.target ELSE issue_pc + 1
    BY <1>2 DEF NextPc
  <2>3. CASE Takes(issue_inst, gprs[issue_warp][t])
    <3>1. t \in taken_mask
      BY <2>3 DEF taken_mask
    <3>2. sp \in Live(iw)' /\ t \in Deferred(iw, sp)'
      BY <1>7, <1>8, <3>1
    <3>3. ThreadOf(iw, t)' = [run |-> TRUE, reg |-> gprs'[iw][t], pc |-> stack_pc'[iw][sp]]
      BY <1>2, <1>4, <3>2 DEF ThreadIs
    <3>4. NextPc(t) = issue_inst.target
      BY <2>2, <2>3, Zenon
    <3> QED
      BY <1>2, <1>8, <2>1, <3>3, <3>4
  <2>4. CASE ~Takes(issue_inst, gprs[issue_warp][t])
    <3>1. t \in warp_mask'[iw]
      BY <1>8, <2>4 DEF taken_mask, fall_mask
    <3>2. ThreadOf(iw, t)' = [run |-> TRUE, reg |-> gprs'[iw][t], pc |-> warp_pc'[iw]]
      BY <1>2, <1>4, <1>9, <3>1 DEF ThreadIs
    <3>3. NextPc(t) = issue_pc + 1
      BY <2>2, <2>4, Zenon
    <3> QED
      BY <1>2, <1>8, <2>1, <3>2, <3>3
  <2> QED
    BY <2>3, <2>4
<1>11. ASSUME NEW t \in Lanes, t \notin issue_mask
       PROVE  ThreadOf(iw, t)' = ThreadOf(iw, t)
  <2>1. t \notin warp_mask'[iw] /\ t \notin taken_mask
    BY <1>8, <1>11 DEF taken_mask, fall_mask
  <2>2. ASSUME NEW s \in Live(iw), t \in Deferred(iw, s)
        PROVE  ThreadOf(iw, t)' = ThreadOf(iw, t)
    <3>1. ThreadOf(iw, t) = [run |-> TRUE, reg |-> gprs[iw][t], pc |-> stack_pc[iw][s]]
      BY <1>2, <1>4, <2>2 DEF ThreadIs
    <3>2. s \in Live(iw)' /\ t \in Deferred(iw, s)'
      BY <1>7, <1>8, <2>2
    <3>3. ThreadOf(iw, t)' = [run |-> TRUE, reg |-> gprs'[iw][t], pc |-> stack_pc'[iw][s]]
      BY <1>2, <1>4, <3>2 DEF ThreadIs
    <3> QED
      BY <1>2, <1>8, <3>1, <3>3
  <2>3. CASE \A s \in Live(iw) : t \notin Deferred(iw, s)
    <3>1. \A s \in Live(iw)' : t \notin Deferred(iw, s)'
      BY <1>7, <1>8, <2>1, <2>3
    <3>2. ThreadOf(iw, t) = Off
      BY <1>2, <1>4, <1>11, <2>3 DEF ThreadIs
    <3>3. ThreadOf(iw, t)' = Off
      BY <1>2, <1>4, <2>1, <3>1, Zenon DEF ThreadIs
    <3> QED
      BY <3>2, <3>3
  <2> QED
    BY <2>2, <2>3
<1>12. \A w \in Warps, t \in Lanes :
         w # iw \/ t \notin issue_mask => ThreadOf(w, t)' = ThreadOf(w, t)
  <2>1. ASSUME NEW w \in Warps, NEW t \in Lanes, w # iw
        PROVE  ThreadOf(w, t)' = ThreadOf(w, t)
    <3>1. /\ warp_valid'[w] = warp_valid[w] /\ warp_mask'[w] = warp_mask[w]
          /\ warp_pc'[w] = warp_pc[w] /\ stack_sp'[w] = stack_sp[w]
          /\ stack_pc'[w] = stack_pc[w] /\ stack_mask'[w] = stack_mask[w]
          /\ gprs'[w] = gprs[w]
      BY <1>2, <1>3, <1>6, <2>1
    <3> QED
      BY <1>2, <3>1, OtherWarps
  <2> QED
    BY <1>11, <2>1
<1> QED
  BY <1>1, <1>2, <1>3, <1>4, <1>10, <1>12, AdvanceIntro

\* The lanes of the path on top of the stack become active where they were
\* deferred, or the warp had no other lane.
LEMMA EbreakMaps ==
  ASSUME CoreInv, ThreadIs, ThreadIs', ExecEbreak
  PROVE  Scalar!SNext
<1>1. PICK iw \in Warps : iw = issue_warp
  BY DEF CoreInv, TypeOK
<1>2. /\ cta_active /\ state = "EXEC" /\ state' = "SCHED"
      /\ issue_inst.op = "ebreak"
      /\ UNCHANGED <<cta_active, fault_r, prog, mem, gprs, stack_pc, stack_mask>>
  BY DEF ExecEbreak, Exec, advance_warp, cta
<1>3. /\ TypeOK /\ warp_mask \in [Warps -> SUBSET Lanes] /\ warp_pc \in [Warps -> Nat]
      /\ stack_sp \in [Warps -> 0..StackDepth] /\ warp_valid \in [Warps -> BOOLEAN]
  BY DEF CoreInv, TypeOK
<1>4. /\ warp_valid[iw] /\ issue_mask # {} /\ issue_mask \subseteq Lanes
      /\ issue_mask = warp_mask[iw]
      /\ \A t \in issue_mask : ThreadOf(iw, t) = Before(t)
  BY <1>1, <1>2, ExecutingThreads
<1>5. \A t \in issue_mask : After(t) = Off
  BY <1>2 DEF After
<1>6. \A t \in Lanes : t \notin Accessed(iw)' /\ t \notin Accessed(iw)
  BY <1>2 DEF Accessed
<1>7. \A s : Deferred(iw, s)' = Deferred(iw, s)
  BY <1>2 DEF Deferred
<1>8. WarpPaths(iw)
  BY <1>2, <1>4, PathsByWarp DEF CoreInv
<1>9. PICK sp \in 0..StackDepth : sp = stack_sp[iw]
  BY <1>3
<1>10. /\ \A w \in Warps : w # iw => /\ warp_valid'[w] = warp_valid[w]
                                     /\ warp_mask'[w] = warp_mask[w]
                                     /\ warp_pc'[w] = warp_pc[w]
                                     /\ stack_sp'[w] = stack_sp[w]
  BY <1>1, <1>3 DEF ExecEbreak
<1>11. \A t \in Lanes : ThreadOf(iw, t)' = IF t \in issue_mask THEN Off ELSE ThreadOf(iw, t)
  <2>1. CASE sp = 0
    <3>1. ~warp_valid'[iw]
      BY <1>1, <1>3, <1>9, <2>1 DEF ExecEbreak
    <3>2. Live(iw) = {}
      BY <1>9, <2>1 DEF Live
    <3>3. \A t \in Lanes : ThreadOf(iw, t)' = Off
      BY <3>1, Zenon DEF ThreadIs
    <3>4. \A t \in Lanes : t \notin issue_mask => ThreadOf(iw, t) = Off
      BY <1>2, <1>4, <3>2 DEF ThreadIs
    <3> QED
      BY <3>3, <3>4
  <2>2. CASE sp # 0
    <3>1. /\ stack_sp'[iw] = sp - 1
          /\ warp_pc'[iw] = stack_pc[iw][sp - 1]
          /\ warp_mask'[iw] = Deferred(iw, sp - 1)
          /\ warp_valid'[iw]
      BY <1>1, <1>3, <1>4, <1>9, <2>2 DEF ExecEbreak, Deferred
    <3>2. Live(iw) = Live(iw)' \cup {sp - 1}
      BY <1>9, <2>2, <3>1, IndexFacts DEF Live
    <3>3. \A s \in Live(iw) : Deferred(iw, s) \cap issue_mask = {}
      BY <1>4, <1>8 DEF WarpPaths
    <3> TAKE t \in Lanes
    <3>4. CASE t \in issue_mask
      <4>1. t \notin warp_mask'[iw]
        BY <3>1, <3>2, <3>3, <3>4
      <4>2. \A s \in Live(iw)' : t \notin Deferred(iw, s)'
        BY <1>7, <3>2, <3>3, <3>4
      <4>3. ThreadOf(iw, t)' = Off
        BY <1>2, <3>1, <4>1, <4>2, Zenon DEF ThreadIs
      <4> QED
        BY <3>4, <4>3
    <3>5. CASE t \in warp_mask'[iw]
      <4>1. sp - 1 \in Live(iw) /\ t \in Deferred(iw, sp - 1)
        BY <3>1, <3>2, <3>5
      <4>2. ThreadOf(iw, t) = [run |-> TRUE, reg |-> gprs[iw][t], pc |-> stack_pc[iw][sp - 1]]
        BY <1>2, <1>4, <4>1 DEF ThreadIs
      <4>3. ThreadOf(iw, t)' = [run |-> TRUE, reg |-> gprs'[iw][t], pc |-> warp_pc'[iw]]
        BY <1>2, <1>6, <3>1, <3>5 DEF ThreadIs
      <4>4. t \notin issue_mask
        BY <3>3, <4>1
      <4> QED
        BY <1>2, <3>1, <4>2, <4>3, <4>4
    <3>6. ASSUME NEW s \in Live(iw)', t \in Deferred(iw, s)
          PROVE  ThreadOf(iw, t)' = ThreadOf(iw, t) /\ t \notin issue_mask
      <4>1. s \in Live(iw) /\ t \in Deferred(iw, s)'
        BY <1>7, <3>2, <3>6
      <4>2. ThreadOf(iw, t) = [run |-> TRUE, reg |-> gprs[iw][t], pc |-> stack_pc[iw][s]]
        BY <1>2, <1>4, <3>6, <4>1 DEF ThreadIs
      <4>3. ThreadOf(iw, t)' = [run |-> TRUE, reg |-> gprs'[iw][t], pc |-> stack_pc'[iw][s]]
        BY <1>2, <3>1, <4>1 DEF ThreadIs
      <4>4. t \notin issue_mask
        BY <3>3, <3>6, <4>1
      <4> QED
        BY <1>2, <4>2, <4>3, <4>4
    <3>7. CASE /\ t \notin issue_mask /\ t \notin warp_mask'[iw]
               /\ \A s \in Live(iw)' : t \notin Deferred(iw, s)
      <4>1. \A s \in Live(iw)' : t \notin Deferred(iw, s)'
        BY <1>7, <3>7
      <4>2. \A s \in Live(iw) : t \notin Deferred(iw, s)
        BY <3>1, <3>2, <3>7
      <4>3. ThreadOf(iw, t) = Off
        BY <1>2, <1>4, <3>7, <4>2 DEF ThreadIs
      <4>4. ThreadOf(iw, t)' = Off
        BY <1>2, <3>1, <3>7, <4>1, Zenon DEF ThreadIs
      <4> QED
        BY <4>3, <4>4
    <3> QED
      BY <3>4, <3>5, <3>6, <3>7
  <2> QED
    BY <2>1, <2>2
<1>12. \A w \in Warps, t \in Lanes : w # iw => ThreadOf(w, t)' = ThreadOf(w, t)
  BY <1>2, <1>10, OtherWarps
<1>13. \A t \in issue_mask : ThreadOf(iw, t) = Before(t) /\ ThreadOf(iw, t)' = After(t)
  BY <1>4, <1>5, <1>11
<1>14. \A w \in Warps, t \in Lanes :
         w # iw \/ t \notin issue_mask => ThreadOf(w, t)' = ThreadOf(w, t)
  BY <1>11, <1>12
<1> QED
  BY <1>1, <1>2, <1>3, <1>4, <1>13, <1>14, AdvanceIntro

(***************************************************************************)
(* The refinement.                                                         *)
(***************************************************************************)

LEMMA StepSimulation ==
  ASSUME CoreInv, CoreInv', [Next]_vars
  PROVE  [Scalar!SNext]_(Scalar!svars)
<1> USE DEF Scalar!SNext
<1>1. ThreadIs /\ ThreadIs' /\ TypeOK /\ PipelineInv
  BY ThreadFacts, ThreadFactsNext DEF CoreInv
<1>2. CASE AcceptAny
  BY <1>1, <1>2, AcceptMaps
<1>3. ASSUME NEW w \in Warps, SchedIssue(w) PROVE UNCHANGED Scalar!svars
  BY <1>1, <1>3, SchedIssueQuiet
<1>4. CASE SchedDrained
  BY <1>1, <1>4, DrainedMaps
<1>5. CASE Fetch
  BY <1>1, <1>5, FetchQuiet
<1>6. CASE ExecBadReg \/ ExecBranchFault \/ ExecFault
  BY <1>1, <1>6, BadRegMaps, BranchFaultMaps, FaultMaps
<1>7. CASE ExecMemory
  BY <1>1, <1>7, ExecMemoryQuiet
<1>8. CASE ExecEbreak \/ ExecUniformBranch \/ ExecDivergentBranch \/ ExecAlu
  BY <1>1, <1>8, EbreakMaps, UniformBranchMaps, DivergentBranchMaps, AluMaps
<1>9. CASE MemSkip
  BY <1>1, <1>9, MemSkipQuiet
<1>10. CASE MemRequest
  BY <1>1, <1>10, MemRequestQuiet, MemRequestStores
<1>11. CASE MemResponse
  BY <1>1, <1>11, MemResponseQuiet, MemResponseLoads
<1>12. CASE OtherStore
  BY <1>1, <1>12, OtherStoreMaps
<1>13. CASE UNCHANGED vars
  <2>1. \A w \in Warps : \A t \in warp_mask[w] : LanePc(w, t)' = LanePc(w, t)
    BY <1>13 DEF vars, LanePc, Accessed, issue, cta, warpvars, issue_inst, InstAt
  <2> QED
    BY <1>1, <1>13, <2>1, QuietStep DEF vars, warpvars, stacks, cta
<1>14. CASE Idle
  BY <1>13, <1>14 DEF Idle
<1> QED
  BY <1>2, <1>3, <1>4, <1>5, <1>6, <1>7, <1>8, <1>9, <1>10, <1>11, <1>12, <1>13, <1>14, Zenon
  DEF Next, Step

\* The core implements the scalar threads of its CTA: masks, stacks, scheduler
\* and pipeline are invisible to every kernel, a CTA completes only when each of
\* its threads has reached its ebreak, and is given up only for a documented
\* reason, and then with a fault.
THEOREM CoreImplementsThreads == Spec => ImplementsScalarThreads
<1>1. CoreInv /\ CoreInv' /\ [Next]_vars => [Scalar!SNext]_(Scalar!svars)
  BY StepSimulation
<1> QED
  BY <1>1, InitMaps, CoreInvariant, PTL DEF Spec, ImplementsScalarThreads, Scalar!SSpec

(***************************************************************************)
(* The round robin over the warps.                                         *)
(***************************************************************************)

\* Offsets from rr_warp number the warps.
LEMMA Offsets ==
  ASSUME NEW r \in Warps, NEW o \in Warps, NEW w \in Warps
  PROVE  (w = ModWarps(r + o)) <=> (o = ModWarps(w + NumWarps - r))
BY IndexFacts DEF ModWarps, Warps

LEMMA AheadType == TypeOK => \A w \in Warps : Ahead(w) \in Warps
BY IndexFacts DEF TypeOK, Ahead, ModWarps, Warps

\* No valid warp is closer to the round robin than the next one.
LEMMA NextIsClosest ==
  ASSUME TypeOK, NEW v \in Warps, NEW w \in Warps, IsNextWarp(v), warp_valid[w]
  PROVE  Ahead(v) <= Ahead(w)
<1>1. PICK o \in Warps : /\ v = ModWarps(rr_warp + o)
                         /\ \A p \in Warps : p < o => ~warp_valid[ModWarps(rr_warp + p)]
  BY DEF IsNextWarp
<1>2. rr_warp \in Warps
  BY DEF TypeOK
<1>3. o = Ahead(v)
  BY <1>1, <1>2, Offsets DEF Ahead
<1>4. Ahead(w) \in Warps
  BY AheadType
<1>5. w = ModWarps(rr_warp + Ahead(w))
  BY <1>2, <1>4, Offsets DEF Ahead
<1>6. ~(Ahead(w) < o)
  BY <1>1, <1>4, <1>5
<1> QED
  BY <1>3, <1>4, <1>6 DEF Warps

\* What a step does to the round robin: nothing, or it moves behind the warp
\* whose instruction has ended.
LEMMA RoundRobinStep ==
  ASSUME TypeOK, PipelineInv, Next, cta_active, cta_active'
  PROVE  \/ /\ UNCHANGED <<rr_warp, warp_valid, issue_warp>>
            /\ state # "SCHED" /\ state' # "SCHED"
         \/ /\ UNCHANGED rr_warp /\ state = "SCHED"
            /\ state' = "SCHED" \/ (IsNextWarp(issue_warp') /\ UNCHANGED warp_valid)
         \/ /\ rr_warp' = RrWarpNext /\ state # "SCHED" /\ state' = "SCHED"
<1>1. ASSUME NEW p \in Programs, NEW size \in 1..(NumWarps * NumThreads), Accept(p, size)
      PROVE  FALSE
  BY <1>1 DEF Accept, cta_ready
<1>2. ASSUME NEW w \in Warps, SchedIssue(w)
      PROVE  /\ UNCHANGED rr_warp /\ state = "SCHED"
             /\ IsNextWarp(issue_warp') /\ UNCHANGED warp_valid
  BY <1>2 DEF SchedIssue, warpvars
<1>3. ~SchedDrained /\ ~ExecBadReg /\ ~ExecBranchFault /\ ~ExecFault /\ ~Idle
  BY DEF SchedDrained, ExecBadReg, ExecBranchFault, ExecFault, RaiseFault, Idle, cta_ready
<1>4. CASE Fetch \/ ExecMemory \/ MemRequest
  BY <1>4 DEF Fetch, ExecMemory, MemRequest, Exec, warpvars, issue
<1>5. CASE ExecEbreak \/ ExecUniformBranch \/ ExecDivergentBranch \/ ExecAlu
  BY <1>5 DEF ExecEbreak, ExecUniformBranch, ExecDivergentBranch, ExecAlu, Exec, advance_warp
<1>6. CASE MemSkip
  BY <1>6 DEF MemSkip, FinishMemory, advance_warp, issue
<1>7. CASE MemResponse
  BY <1>7 DEF MemResponse, FinishMemory, advance_warp, issue
<1>8. CASE OtherStore
  BY <1>8 DEF OtherStore, warpvars, issue
<1> QED
  BY <1>1, <1>2, <1>3, <1>4, <1>5, <1>6, <1>7, <1>8 DEF Next, Step, AcceptAny

LEMMA TurnStep ==
  ASSUME TypeOK, PipelineInv, TurnInv, Next
  PROVE  TurnInv'
<1> SUFFICES ASSUME cta_active', state' # "SCHED" PROVE IsNextWarp(issue_warp)'
  BY DEF TurnInv
<1>1. CASE ~cta_active
  <2>1. ASSUME NEW p \in Programs, NEW size \in 1..(NumWarps * NumThreads), Accept(p, size)
        PROVE  FALSE
    BY <2>1 DEF Accept
  <2>2. ~Step /\ ~Idle /\ ~OtherStore
    BY <1>1 DEF Step, SchedIssue, SchedDrained, Fetch, ExecBadReg, ExecMemory, ExecEbreak,
                ExecUniformBranch, ExecDivergentBranch, ExecBranchFault, ExecFault, ExecAlu,
                Exec, MemSkip, MemRequest, MemResponse, Idle, OtherStore, vars
  <2> QED
    BY <2>1, <2>2 DEF Next, AcceptAny
<1>2. CASE cta_active
  <2>1. \/ UNCHANGED <<rr_warp, warp_valid, issue_warp>> /\ state # "SCHED"
        \/ UNCHANGED <<rr_warp, warp_valid>> /\ IsNextWarp(issue_warp')
    BY <1>2, RoundRobinStep
  <2> QED
    BY <1>2, <2>1 DEF TurnInv, IsNextWarp
<1> QED
  BY <1>1, <1>2

LEMMA TurnTaken ==
  ASSUME TypeOK, PipelineInv, TurnInv, Next, NEW w \in Warps,
         cta_active, cta_active', warp_valid[w], state = "SCHED" \/ issue_warp # w
  PROVE  IF state # "SCHED" /\ state' = "SCHED"
         THEN Ahead(w)' < Ahead(w) ELSE Ahead(w)' = Ahead(w)
<1>1. CASE state # "SCHED" /\ state' = "SCHED"
  <2>1. rr_warp' = RrWarpNext
    BY <1>1, RoundRobinStep
  <2>2. rr_warp \in Warps /\ issue_warp \in Warps
    BY DEF TypeOK
  <2>3. Ahead(issue_warp) <= Ahead(w)
    BY <1>1, <2>2, NextIsClosest DEF TurnInv
  <2> QED
    BY <1>1, <2>1, <2>2, <2>3, IndexFacts DEF Ahead, ModWarps, RrWarpNext, Warps
<1>2. CASE ~(state # "SCHED" /\ state' = "SCHED")
  <2>1. rr_warp' = rr_warp
    BY <1>2, RoundRobinStep
  <2> QED
    BY <1>2, <2>1 DEF Ahead
<1> QED
  BY <1>1, <1>2

\* The safety half of WarpsScheduled: no valid warp is passed over, for every
\* number of warps and every kernel.
THEOREM RoundRobinTurns == Spec => WarpsTakeTurns
<1>1. Init => PipelineInv /\ TurnInv
  BY DEF Init, PipelineInv, IssueCoherent, TurnInv
<1>2. TypeOK /\ PipelineInv /\ TurnInv /\ [Next]_vars => PipelineInv' /\ TurnInv'
  <2> SUFFICES ASSUME TypeOK, PipelineInv, TurnInv, [Next]_vars
               PROVE  PipelineInv' /\ TurnInv'
    OBVIOUS
  <2>1. CASE Next
    BY <2>1, PipelineStep, TurnStep
  <2>2. CASE UNCHANGED vars
    BY <2>2 DEF PipelineInv, IssueCoherent, TurnInv, IsNextWarp, vars, warpvars, issue
  <2> QED
    BY <2>1, <2>2
<1>3. TypeOK /\ PipelineInv /\ TurnInv /\ [Next]_vars =>
        [\A w \in Warps :
           (cta_active /\ cta_active' /\ warp_valid[w] /\ (state = "SCHED" \/ issue_warp # w)) =>
              IF state # "SCHED" /\ state' = "SCHED"
              THEN Ahead(w)' < Ahead(w) ELSE Ahead(w)' = Ahead(w)]_vars
  BY TurnTaken
<1> QED
  BY <1>1, <1>2, <1>3, TypeCorrect, PTL DEF Spec, WarpsTakeTurns
=============================================================================
