--------------------------- MODULE RuntimeProofs ---------------------------
(***************************************************************************)
(* Proofs about Runtime: what gpu_launch and gpu_wait promise, for every   *)
(* number of cores, every set of requests and any sequence of launches     *)
(* that complete, fault, time out or are given up.                         *)
(***************************************************************************)
EXTENDS Runtime, KMUProofs, FiniteSetTheorems

(***************************************************************************)
(* Clock edges under the host.                                             *)
(***************************************************************************)

\* The part of Tick that concerns the device, with its choices as parameters.
TickOf(dcr, launch, fin, flt) ==
    /\ fin \in SUBSET {c \in Cores : core_active[c]}
    /\ flt \in SUBSET {c \in fin : core_cta[c].launch \in faulty}
    /\ Edge(dcr, launch, fin, flt)
    /\ faulted' = faulted \cup {core_cta[c].launch : c \in flt}

LEMMA TickIsEdge ==
  ASSUME NEW dcr, NEW launch, Tick(dcr, launch)
  PROVE  \E fin, flt : TickOf(dcr, launch, fin, flt)
BY Zenon DEF Tick, TickOf

\* What an edge does to the cores: a CTA is accepted by a core that is ready,
\* and the ones that end were resident.
LEMMA CoreEdge ==
  ASSUME TypeOK, NEW dcr, NEW launch, NEW fin, NEW flt, TickOf(dcr, launch, fin, flt)
  PROVE  /\ \A c \in Cores : Accepts(c) => ~core_active[c] /\ running
         /\ \A c \in Cores : Accepts(c) =>
               core_active'[c] /\ core_cta'[c] = [launch |-> launches, pos |-> Len(served) + 1]
         /\ \A c \in Cores : core_active'[c] /\ ~Accepts(c) =>
               core_active[c] /\ c \notin fin
         /\ \A c \in Cores : core_active[c] =>
               /\ core_cta'[c] = core_cta[c]
               /\ core_active'[c] <=> c \notin fin
               /\ c \in flt => core_fault'[c]
<1>1. CoreRegs(fin, flt)
  BY DEF TickOf, Edge
<1>2. \A c \in Cores : Accepts(c) => ~core_active[c] /\ running
  BY FireFacts DEF Accepts, cta_fire
<1>3. \A c \in Cores :
        /\ core_active'[c] = (Accepts(c) \/ (core_active[c] /\ c \notin fin))
        /\ core_fault'[c] = (~Accepts(c) /\ (core_fault[c] \/ c \in flt))
        /\ core_cta'[c] = IF Accepts(c) THEN [launch |-> launches, pos |-> Len(served) + 1]
                          ELSE core_cta[c]
  BY <1>1, Zenon DEF CoreRegs
<1> QED
  BY <1>2, <1>3

\* Every CTA served since the last launch pulse stays accounted for, whatever
\* earlier launches have left on the cores.
LEMMA CtaStep ==
  ASSUME TypeOK, CtaInv, NEW dcr, NEW launch \in BOOLEAN, NEW fin, NEW flt,
         TickOf(dcr, launch, fin, flt)
  PROVE  CtaInv'
<1>1. History(launch, fin) /\ launches \in Nat
  BY DEF TickOf, Edge, TypeOK
<1>2. CASE launch
  <2>1. served' = << >> /\ retired' = {} /\ launches' = launches + 1
    BY <1>1, <1>2 DEF History
  <2>2. \A c \in Cores : core_active'[c] => core_cta'[c].launch <= launches
    BY <1>1, CoreEdge DEF CtaInv
  <2>3. \A c \in Cores : core_active'[c] =>
          core_cta'[c].launch <= launches' /\ core_cta'[c].launch # launches'
    <3>1. \A c \in Cores : core_active'[c] => core_cta'[c].launch \in Nat
      BY <1>1, CoreEdge DEF TypeOK
    <3> QED
      BY <1>1, <2>1, <2>2, <3>1
  <2> QED
    BY <2>1, <2>3 DEF CtaInv
<1>3. CASE ~launch
  <2> DEFINE Cta(i) == [launch |-> launches, pos |-> i]
             Gone == {i \in DOMAIN served : \E c \in fin : core_cta[c] = Cta(i)}
  <2>1. launches' = launches /\ retired' = retired \cup Gone
    BY <1>1, <1>3 DEF History
  <2>2. \A i \in DOMAIN served \ retired' :
          \E c \in Cores : core_active'[c] /\ core_cta'[c] = Cta(i)
    <3> SUFFICES ASSUME NEW i \in DOMAIN served, i \notin retired'
                 PROVE  \E c \in Cores : core_active'[c] /\ core_cta'[c] = Cta(i)
      OBVIOUS
    <3>1. PICK c \in Cores : core_active[c] /\ core_cta[c] = Cta(i)
      BY <2>1 DEF CtaInv
    <3>2. c \notin fin
      BY <2>1, <3>1
    <3> QED
      BY <3>1, <3>2, CoreEdge
  <2>3. CASE cta_fire
    <3>1. served' = Append(served, block_idx)
      BY <1>1, <1>3, <2>3 DEF History
    <3>2. DOMAIN served' = DOMAIN served \cup {Len(served) + 1}
      BY <3>1 DEF TypeOK
    <3>3. retired' \subseteq DOMAIN served'
      BY <2>1, <3>2 DEF CtaInv
    <3>4. \A c \in Cores : core_active'[c] =>
             /\ core_cta'[c].launch <= launches'
             /\ core_cta'[c].launch = launches' => core_cta'[c].pos \in DOMAIN served'
      BY <1>1, <2>1, <3>2, CoreEdge DEF CtaInv
    <3>5. selected_core \in Cores /\ Accepts(selected_core)
      BY <2>3, FireFacts DEF Accepts
    <3>6. \A i \in DOMAIN served' \ retired' :
             \E c \in Cores : core_active'[c] /\ core_cta'[c] = Cta(i)
      BY <2>2, <3>2, <3>5, CoreEdge
    <3> QED
      BY <2>1, <3>3, <3>4, <3>6 DEF CtaInv
  <2>4. CASE ~cta_fire
    <3>1. served' = served /\ \A c \in Cores : ~Accepts(c)
      BY <1>1, <1>3, <2>4 DEF History, Accepts
    <3>2. retired' \subseteq DOMAIN served'
      BY <2>1, <3>1 DEF CtaInv
    <3>3. \A c \in Cores : core_active'[c] =>
             /\ core_cta'[c].launch <= launches'
             /\ core_cta'[c].launch = launches' => core_cta'[c].pos \in DOMAIN served'
      BY <2>1, <3>1, CoreEdge DEF CtaInv
    <3> QED
      BY <2>1, <2>2, <3>1, <3>2, <3>3 DEF CtaInv
  <2> QED
    BY <2>3, <2>4
<1> QED
  BY <1>2, <1>3

(***************************************************************************)
(* Type correctness.                                                       *)
(***************************************************************************)

\* What a request holds.
LEMMA RequestType ==
  ASSUME NEW r \in Requests \cup {NoRequest}
  PROVE  r.grid \in Index /\ r.block \in Nat /\ r.args \in BOOLEAN
<1>1. CASE r \in Requests
  BY <1>1, RuntimeAssumption
<1>2. CASE r = NoRequest
  BY <1>2 DEF NoRequest, Origin, Index
<1> QED
  BY <1>1, <1>2

\* configure_model writes values of the registers' types.
LEMMA DcrWriteOK ==
  ASSUME HostTypeOK
  PROVE  DcrOK({DcrWrite(dcr_step)})
<1>1. request.req \in Requests \cup {NoRequest}
  BY DEF HostTypeOK
<1>2. /\ request.req.grid.x \in Nat /\ request.req.grid.y \in Nat
      /\ request.req.grid.z \in Nat /\ request.req.block \in Nat
  BY <1>1, RequestType DEF Index
<1>3. dcr_step \in 1..10 /\ Launching \in Nat
  BY DEF HostTypeOK, TypeOK, DcrSteps, Launching
<1>4. DcrWrite(dcr_step).data \in Nat
  BY <1>2, <1>3 DEF DcrWrite
<1> QED
  BY <1>4 DEF DcrOK

\* An edge under the host keeps the device and the history of faults in type.
LEMMA TickType ==
  ASSUME HostTypeOK, NEW dcr, NEW launch \in BOOLEAN, DcrOK(dcr), Tick(dcr, launch)
  PROVE  TypeOK' /\ diff_failed' \in BOOLEAN /\ faulted' \subseteq Nat
<1>1. PICK fin, flt : TickOf(dcr, launch, fin, flt)
  BY TickIsEdge, Zenon
<1>2. TypeOK'
  <2>1. fin \in SUBSET Cores /\ Edge(dcr, launch, fin, flt) /\ TypeOK
    BY <1>1 DEF TickOf, HostTypeOK
  <2> QED
    BY <2>1, EdgeType
<1>3. diff_failed' \in BOOLEAN
  BY DEF Tick, HostTypeOK
<1>4. faulted' \subseteq Nat
  <2>1. \A c \in flt : c \in Cores
    BY <1>1 DEF TickOf
  <2>2. \A c \in Cores : core_cta[c].launch \in Nat
    BY DEF HostTypeOK, TypeOK
  <2>3. {core_cta[c].launch : c \in flt} \subseteq Nat
    BY <2>1, <2>2, Zenon
  <2> QED
    BY <1>1, <2>3 DEF TickOf, HostTypeOK
<1> QED
  BY <1>2, <1>3, <1>4

\* The actions that leave the device alone.
LEMMA DeviceIdle ==
  ASSUME UNCHANGED vars
  PROVE  /\ TypeOK => TypeOK'
         /\ WalkInv => WalkInv'
         /\ DispatchOrder => DispatchOrder'
         /\ DispatchExact => DispatchExact'
         /\ CtaInv => CtaInv'
         /\ Busy' = Busy
<1> USE DEF vars, regs, cores, history
<1>1. TypeOK => TypeOK'
  BY DEF TypeOK
<1>2. WalkInv => WalkInv'
  BY DEF WalkInv, Blocks
<1>3. DispatchOrder => DispatchOrder'
  BY DEF DispatchOrder, Before
<1>4. DispatchExact => DispatchExact'
  BY DEF DispatchExact, ServedBlocks, Blocks, Before
<1>5. CtaInv => CtaInv'
  BY DEF CtaInv
<1>6. Busy' = Busy
  BY DEF Busy
<1> QED
  BY <1>1, <1>2, <1>3, <1>4, <1>5, <1>6

\* The three ends of a turn of gpu_wait: it returns a failure, it returns
\* success, or it goes on.
LEMMA WaitStep ==
  ASSUME WaitTick \/ WaitTimeout
  PROVE  /\ phase = "wait" /\ Tick({}, FALSE)
         /\ UNCHANGED <<difftest, opened, kernel_generation, kernels, kernelvars,
                        reference_fault, pmem_ref, request, dcr_step, calls, requests, faulty>>
         /\ \/ /\ reference' = FALSE
               /\ \E r \in {"backend", "timeout"} : WaitReturn(r)
            \/ Completed /\ WaitReturn("success") /\ reference' = FALSE
            \/ /\ ~RtlFault /\ Busy'
               /\ UNCHANGED <<phase, dev_running, args, ended, reference>>
<1>1. CASE WaitTick
  BY <1>1, Zenon DEF WaitTick
<1>2. CASE WaitTimeout
  BY <1>2, Zenon DEF WaitTimeout
<1> QED
  BY <1>1, <1>2

\* Every step of the host keeps the types.
LEMMA HostTypeStep ==
  ASSUME HostTypeOK, HostNext
  PROVE  HostTypeOK'
<1> USE DEF device, kernelvars, diff, args
<1>0. Launching \in Nat /\ launches \in Nat
  BY DEF HostTypeOK, TypeOK, Launching
<1>1. CASE gpu_device_open
  BY <1>1, DeviceIdle DEF gpu_device_open, HostTypeOK
<1>2. CASE gpu_device_close
  BY <1>2, DeviceIdle DEF gpu_device_close, HostTypeOK
<1>3. CASE gpu_kernel_load_memory
  BY <1>3, DeviceIdle DEF gpu_kernel_load_memory, HostTypeOK
<1>4. ASSUME NEW k \in kernels, NEW r \in Requests, NEW f \in {FALSE, MayFault},
             gpu_launch(k, r, f)
      PROVE  HostTypeOK'
  <2>1. f \in BOOLEAN
    BY RuntimeAssumption
  <2>2. request' \in [req : Requests \cup {NoRequest}, faulty : BOOLEAN]
    BY <1>4, <2>1 DEF gpu_launch
  <2>3. launch_args' \in Nat /\ scratch' \subseteq Nat
    BY <1>0, <1>4 DEF gpu_launch, HostTypeOK
  <2> QED
    BY <1>4, <2>2, <2>3, DeviceIdle DEF gpu_launch, HostTypeOK, Phases, DcrSteps
<1>5. CASE configure_model
  <2>1. TypeOK' /\ diff_failed' \in BOOLEAN /\ faulted' \subseteq Nat
    BY <1>5, DcrWriteOK, TickType DEF configure_model
  <2>2. phase' \in Phases /\ dcr_step' \in DcrSteps
    BY <1>5 DEF configure_model, HostTypeOK, Phases, DcrSteps
  <2> QED
    BY <1>5, <2>1, <2>2 DEF configure_model, HostTypeOK
<1>6. CASE ReferenceRun
  BY <1>6, DeviceIdle DEF ReferenceRun, HostTypeOK, Phases
<1>7. CASE ReferenceFail
  <2>1. request' \in [req : Requests \cup {NoRequest}, faulty : BOOLEAN]
    BY <1>7 DEF ReferenceFail, NoLaunch
  <2> QED
    BY <1>7, <2>1, DeviceIdle DEF ReferenceFail, release_launch_args, HostTypeOK, Phases
<1>8. CASE LaunchPulse
  <2>1. TypeOK' /\ diff_failed' \in BOOLEAN /\ faulted' \subseteq Nat
    BY <1>8, TickType DEF LaunchPulse, DcrOK
  <2>2. faulty' \subseteq Nat
    BY <1>0, <1>8 DEF LaunchPulse, HostTypeOK
  <2>3. requests' \in [Launches -> Requests \cup {NoRequest}]
    BY <1>8 DEF LaunchPulse, HostTypeOK
  <2> QED
    BY <1>8, <2>1, <2>2, <2>3 DEF LaunchPulse, HostTypeOK, Phases
<1>9. CASE LaunchSettle
  <2>1. TypeOK' /\ diff_failed' \in BOOLEAN /\ faulted' \subseteq Nat
    BY <1>9, TickType DEF LaunchSettle, DcrOK
  <2>2. request' \in [req : Requests \cup {NoRequest}, faulty : BOOLEAN]
    BY <1>9 DEF LaunchSettle, NoLaunch
  <2> QED
    BY <1>9, <2>1, <2>2 DEF LaunchSettle, HostTypeOK, Phases
<1>10. CASE gpu_wait
  BY <1>10, DeviceIdle DEF gpu_wait, HostTypeOK, Phases
<1>11. CASE WaitTick \/ WaitTimeout
  <2>1. TypeOK' /\ diff_failed' \in BOOLEAN /\ faulted' \subseteq Nat
    BY <1>11, WaitStep, TickType DEF DcrOK
  <2>2. ASSUME NEW r \in {"backend", "timeout", "success"}, WaitReturn(r), reference' = FALSE
        PROVE  HostTypeOK'
    <3>1. ended' \in [Launches -> {"none", "success", "backend", "timeout"}]
      BY <2>2 DEF WaitReturn, HostTypeOK
    <3> QED
      BY <1>11, <2>1, <2>2, <3>1, WaitStep
         DEF WaitReturn, release_launch_args, HostTypeOK, Phases
  <2>3. CASE UNCHANGED <<phase, dev_running, args, ended, reference>>
    BY <1>11, <2>1, <2>3, WaitStep DEF HostTypeOK
  <2> QED
    BY <1>11, <2>2, <2>3, WaitStep
<1> QED
  BY <1>1, <1>2, <1>3, <1>4, <1>5, <1>6, <1>7, <1>8, <1>9, <1>10, <1>11, Zenon
     DEF HostNext, LaunchStep

(***************************************************************************)
(* Where a call can be, the handles and the argument scratch.              *)
(***************************************************************************)

\* The launch counter at an edge.
LEMMA TickLaunches ==
  ASSUME NEW dcr, NEW launch \in BOOLEAN, Tick(dcr, launch)
  PROVE  launches' = IF launch THEN launches + 1 ELSE launches
BY DEF Tick, Edge, History

LEMMA CallStep ==
  ASSUME HostTypeOK, CallInv, HostNext
  PROVE  CallInv'
<1> USE DEF device, kernelvars, diff, args, vars, history, Preparing, InFlight
<1>0. /\ launches \in Nat /\ calls \in Nat /\ MaxLaunches \in Nat
      /\ Launches = 1..MaxLaunches
      /\ dev_running \in BOOLEAN /\ opened \in BOOLEAN
  BY BoundsAssumption DEF HostTypeOK, TypeOK, Launches
<1>1. CASE gpu_device_open
  BY <1>0, <1>1 DEF gpu_device_open, CallInv
<1>2. CASE gpu_device_close
  BY <1>0, <1>2 DEF gpu_device_close, CallInv
<1>3. CASE gpu_kernel_load_memory
  BY <1>0, <1>3 DEF gpu_kernel_load_memory, CallInv
<1>4. ASSUME NEW k \in kernels, NEW r \in Requests, NEW f \in {FALSE, MayFault},
             gpu_launch(k, r, f)
      PROVE  CallInv'
  BY <1>0, <1>4 DEF gpu_launch, Launchable, CallInv
<1>5. CASE configure_model
  <2>1. launches' = launches
    BY <1>5, TickLaunches DEF configure_model
  <2> QED
    BY <1>0, <1>5, <2>1 DEF configure_model, CallInv
<1>6. CASE ReferenceRun
  BY <1>0, <1>6 DEF ReferenceRun, CallInv
<1>7. CASE ReferenceFail
  BY <1>0, <1>7 DEF ReferenceFail, CallInv
<1>8. CASE LaunchPulse
  <2>1. launches' = launches + 1
    BY <1>8, TickLaunches DEF LaunchPulse
  <2> QED
    BY <1>0, <1>8, <2>1 DEF LaunchPulse, CallInv
<1>9. CASE LaunchSettle
  <2>1. launches' = launches
    BY <1>9, TickLaunches DEF LaunchSettle
  <2> QED
    BY <1>0, <1>9, <2>1 DEF LaunchSettle, CallInv
<1>10. CASE gpu_wait
  BY <1>0, <1>10 DEF gpu_wait, CallInv
<1>11. CASE WaitTick \/ WaitTimeout
  <2>1. launches' = launches
    BY <1>11, WaitStep, TickLaunches
  <2>2. ASSUME NEW r, WaitReturn(r)
        PROVE  CallInv'
    <3>1. \A n \in Launches : n # launches => ended'[n] = ended[n]
      BY <2>2 DEF WaitReturn, HostTypeOK
    <3>2. phase = "wait" /\ opened' = opened /\ calls' = calls
      BY <1>11, WaitStep
    <3>3. phase' = "idle" /\ ~dev_running'
      BY <2>2 DEF WaitReturn
    <3> QED
      BY <1>0, <2>1, <3>1, <3>2, <3>3 DEF CallInv
  <2>3. CASE UNCHANGED <<phase, dev_running, args, ended, reference>>
    BY <1>0, <1>11, <2>1, <2>3, WaitStep DEF CallInv
  <2> QED
    BY <1>11, <2>2, <2>3, WaitStep
<1> QED
  BY <1>1, <1>2, <1>3, <1>4, <1>5, <1>6, <1>7, <1>8, <1>9, <1>10, <1>11, Zenon
     DEF HostNext, LaunchStep

LEMMA KernelStep ==
  ASSUME HostTypeOK, KernelInv, HostNext
  PROVE  KernelInv'
<1>1. CASE gpu_device_open
  BY <1>1 DEF gpu_device_open, KernelInv
<1>2. CASE gpu_device_close
  BY <1>2 DEF gpu_device_close, KernelInv
<1>3. CASE gpu_kernel_load_memory
  BY <1>3 DEF gpu_kernel_load_memory, KernelInv, HostTypeOK
<1>4. CASE UNCHANGED <<kernels, kernel_generation, image>>
  BY <1>4 DEF KernelInv
<1>5. \/ gpu_device_open \/ gpu_device_close \/ gpu_kernel_load_memory
      \/ UNCHANGED <<kernels, kernel_generation, image>>
  <2> USE DEF device, kernelvars
  <2>1. ASSUME NEW k \in kernels, NEW r \in Requests, NEW f \in {FALSE, MayFault},
               gpu_launch(k, r, f)
        PROVE  UNCHANGED <<kernels, kernel_generation, image>>
    BY <2>1 DEF gpu_launch
  <2>2. CASE LaunchStep
    BY <2>2 DEF LaunchStep, configure_model, ReferenceRun, ReferenceFail, LaunchPulse,
                LaunchSettle
  <2>3. CASE gpu_wait \/ WaitTick \/ WaitTimeout
    BY <2>3 DEF gpu_wait, WaitTick, WaitTimeout
  <2> QED
    BY <2>1, <2>2, <2>3, Zenon DEF HostNext
<1> QED
  BY <1>1, <1>2, <1>3, <1>4, <1>5

\* The scratch of a launch is kept until gpu_wait has returned for it, and no
\* longer, on every way out.
LEMMA ScratchStep ==
  ASSUME HostTypeOK, CallInv, ScratchInv, HostNext
  PROVE  ScratchInv'
<1> USE DEF device, kernelvars, diff, args, vars, history, Preparing, InFlight, Launching
<1>0. /\ launches \in Nat /\ calls \in Nat /\ MaxLaunches \in Nat
      /\ Launches = 1..MaxLaunches /\ launch_args \in Nat
      /\ dev_running \in BOOLEAN /\ opened \in BOOLEAN
  BY BoundsAssumption DEF HostTypeOK, TypeOK, Launches
<1>1. CASE gpu_device_open
  BY <1>0, <1>1 DEF gpu_device_open, CallInv, ScratchInv
<1>2. CASE gpu_device_close
  BY <1>0, <1>2 DEF gpu_device_close, CallInv, ScratchInv
<1>3. CASE gpu_kernel_load_memory
  BY <1>0, <1>3 DEF gpu_kernel_load_memory, ScratchInv
<1>4. ASSUME NEW k \in kernels, NEW r \in Requests, NEW f \in {FALSE, MayFault},
             gpu_launch(k, r, f)
      PROVE  ScratchInv'
  <2>1. launch_args = 0 /\ scratch = {} /\ ~reference
    BY <1>0, <1>4 DEF gpu_launch, Launchable, ScratchInv
  <2>2. /\ phase' = "configure" /\ ~dev_running' /\ reference' = reference
        /\ launches' = launches /\ request'.req = r
    BY <1>4 DEF gpu_launch, Launchable
  <2>3. /\ launch_args' = IF r.args THEN launches + 1 ELSE 0
        /\ scratch' = IF r.args THEN {launches + 1} ELSE {}
    BY <1>4, <2>1 DEF gpu_launch
  <2>4. scratch' = IF launch_args' = 0 THEN {} ELSE {launch_args'}
    <3>1. CASE r.args
      BY <1>0, <2>3, <3>1
    <3>2. CASE ~r.args
      BY <2>3, <3>2
    <3> QED
      BY <3>1, <3>2
  <2> QED
    BY <1>0, <2>1, <2>2, <2>3, <2>4 DEF ScratchInv
<1>5. CASE configure_model
  <2>1. launches' = launches
    BY <1>5, TickLaunches DEF configure_model
  <2> QED
    BY <1>0, <1>5, <2>1 DEF configure_model, CallInv, ScratchInv
<1>6. CASE ReferenceRun
  BY <1>0, <1>6 DEF ReferenceRun, CallInv, ScratchInv
<1>7. CASE ReferenceFail
  BY <1>0, <1>7 DEF ReferenceFail, release_launch_args, CallInv, ScratchInv
<1>8. CASE LaunchPulse
  <2>1. launches' = launches + 1
    BY <1>8, TickLaunches DEF LaunchPulse
  <2>2. launches + 1 \in Launches
    BY <1>0, <1>8 DEF LaunchPulse, CallInv
  <2>3. requests'[launches'] = request.req
    BY <1>8, <2>1, <2>2 DEF LaunchPulse, HostTypeOK
  <2> QED
    BY <1>0, <1>8, <2>1, <2>3 DEF LaunchPulse, CallInv, ScratchInv
<1>9. CASE LaunchSettle
  <2>1. launches' = launches
    BY <1>9, TickLaunches DEF LaunchSettle
  <2> QED
    BY <1>0, <1>9, <2>1 DEF LaunchSettle, CallInv, ScratchInv
<1>10. CASE gpu_wait
  BY <1>0, <1>10 DEF gpu_wait, ScratchInv
<1>11. CASE WaitTick \/ WaitTimeout
  <2>1. launches' = launches
    BY <1>11, WaitStep, TickLaunches
  <2>2. ASSUME NEW r, WaitReturn(r), reference' = FALSE
        PROVE  ScratchInv'
    BY <1>0, <2>2 DEF WaitReturn, release_launch_args, ScratchInv
  <2>3. CASE UNCHANGED <<phase, dev_running, args, ended, reference>>
    BY <1>0, <1>11, <2>1, <2>3, WaitStep DEF ScratchInv
  <2> QED
    BY <1>11, <2>2, <2>3, WaitStep
<1> QED
  BY <1>1, <1>2, <1>3, <1>4, <1>5, <1>6, <1>7, <1>8, <1>9, <1>10, <1>11, Zenon
     DEF HostNext, LaunchStep

(***************************************************************************)
(* What the registers hold.                                                *)
(***************************************************************************)

LEMMA QuietRegs ==
  ASSUME TypeOK, NEW launch, Tick({}, launch)
  PROVE  payload' = payload /\ grid_dim' = grid_dim /\ block_size' = block_size
<1>1. DcrRegs({})
  BY DEF Tick, Edge
<1> QED
  BY <1>1, GridKept DEF DcrRegs, DcrUpdate

LEMMA WrittenRegs ==
  ASSUME NEW d, NEW launch, Tick({d}, launch)
  PROVE  /\ payload' = IF d.reg = "payload" THEN d.data ELSE payload
         /\ grid_dim'.x = IF d.reg = "grid_x" THEN d.data ELSE grid_dim.x
         /\ grid_dim'.y = IF d.reg = "grid_y" THEN d.data ELSE grid_dim.y
         /\ grid_dim'.z = IF d.reg = "grid_z" THEN d.data ELSE grid_dim.z
         /\ block_size' = IF d.reg = "block_size" THEN d.data ELSE block_size
<1>1. DcrRegs({d})
  BY DEF Tick, Edge
<1>2. \A reg, old : DcrUpdate(reg, old, {d}) = IF d.reg = reg THEN d.data ELSE old
  BY DEF DcrUpdate
<1> QED
  BY <1>1, <1>2 DEF DcrRegs

\* The ten writes of configure_model leave in the registers what was asked for,
\* and nothing changes them until the next launch.
LEMMA ConfigStep ==
  ASSUME HostTypeOK, CallInv, ConfigInv, HostNext
  PROVE  ConfigInv'
<1> USE DEF device, kernelvars, diff, args, Preparing, InFlight, Launching
<1>0. /\ launches \in Nat /\ calls \in Nat /\ MaxLaunches \in Nat /\ TypeOK
      /\ Launches = 1..MaxLaunches
      /\ dev_running \in BOOLEAN /\ opened \in BOOLEAN /\ dcr_step \in 1..10
  BY BoundsAssumption DEF HostTypeOK, TypeOK, Launches, DcrSteps
<1>1. ASSUME UNCHANGED <<payload, grid_dim, block_size, launches, request, requests, dcr_step>>,
             Preparing' => Preparing /\ (phase' # "configure" => phase # "configure"),
             InFlight' => InFlight
      PROVE  ConfigInv'
  BY <1>0, <1>1 DEF ConfigInv, ValidGeometry
<1>2. CASE gpu_device_open \/ gpu_device_close \/ gpu_kernel_load_memory
  <2>1. /\ UNCHANGED <<payload, grid_dim, block_size, launches, request, requests, dcr_step>>
        /\ phase = "idle" /\ phase' = "idle" /\ (dev_running' => dev_running)
    BY <1>2 DEF gpu_device_open, gpu_device_close, gpu_kernel_load_memory, vars, regs, history
  <2> QED
    BY <1>1, <2>1
<1>3. ASSUME NEW k \in kernels, NEW r \in Requests, NEW f \in {FALSE, MayFault},
             gpu_launch(k, r, f)
      PROVE  ConfigInv'
  <2>1. /\ phase' = "configure" /\ ~dev_running' /\ dcr_step' = 1
        /\ request'.req = r /\ ValidGeometry(r)
    BY <1>3 DEF gpu_launch, Launchable
  <2> QED
    BY <2>1 DEF ConfigInv, ValidGeometry
<1>4. CASE configure_model
  <2> DEFINE d == DcrWrite(dcr_step)
             q == request.req
  <2>1. /\ launches' = launches /\ request' = request
        /\ phase = "configure" /\ dev_running' = dev_running /\ ~dev_running
        /\ q \in Requests /\ ValidGeometry(q)
    BY <1>4, <1>0, TickLaunches DEF configure_model, ConfigInv, CallInv
  <2>2. /\ payload' = IF d.reg = "payload" THEN d.data ELSE payload
        /\ grid_dim'.x = IF d.reg = "grid_x" THEN d.data ELSE grid_dim.x
        /\ grid_dim'.y = IF d.reg = "grid_y" THEN d.data ELSE grid_dim.y
        /\ grid_dim'.z = IF d.reg = "grid_z" THEN d.data ELSE grid_dim.z
        /\ block_size' = IF d.reg = "block_size" THEN d.data ELSE block_size
    BY <1>4, WrittenRegs DEF configure_model
  <2>3. /\ dcr_step <= 6 => d.reg = "payload" /\ d.data = launches + 1
        /\ dcr_step = 7 => d.reg = "grid_x" /\ d.data = q.grid.x
        /\ dcr_step = 8 => d.reg = "grid_y" /\ d.data = q.grid.y
        /\ dcr_step = 9 => d.reg = "grid_z" /\ d.data = q.grid.z
        /\ dcr_step = 10 => d.reg = "block_size" /\ d.data = q.block
    BY <1>0 DEF DcrWrite
  <2>4. \/ dcr_step < 10 /\ dcr_step' = dcr_step + 1 /\ phase' = "configure"
        \/ dcr_step = 10 /\ dcr_step' = 1 /\ phase' \in {"reference", "pulse"}
    BY <1>4 DEF configure_model
  <2>5. /\ dcr_step > 1 => payload = launches + 1
        /\ dcr_step > 7 => grid_dim.x = q.grid.x
        /\ dcr_step > 8 => grid_dim.y = q.grid.y
        /\ dcr_step > 9 => grid_dim.z = q.grid.z
    BY <2>1 DEF ConfigInv
  <2> HIDE DEF d
  <2>6. /\ payload' = launches + 1
        /\ dcr_step >= 7 => grid_dim'.x = q.grid.x
        /\ dcr_step >= 8 => grid_dim'.y = q.grid.y
        /\ dcr_step >= 9 => grid_dim'.z = q.grid.z
        /\ dcr_step = 10 => block_size' = q.block
    BY <1>0, <2>2, <2>3, <2>5
  <2> QED
    BY <1>0, <2>1, <2>4, <2>6 DEF ConfigInv, ValidGeometry
<1>5. CASE ReferenceRun \/ ReferenceFail
  <2>1. CASE ReferenceRun
    BY <1>1, <2>1 DEF ReferenceRun, vars, regs, history
  <2>2. CASE ReferenceFail
    <3>1. phase' = "idle" /\ ~dev_running'
      BY <2>2 DEF ReferenceFail, CallInv
    <3> QED
      BY <3>1 DEF ConfigInv
  <2> QED
    BY <1>5, <2>1, <2>2
<1>6. CASE LaunchPulse
  <2>1. /\ payload' = payload /\ grid_dim' = grid_dim /\ block_size' = block_size
        /\ launches' = launches + 1 /\ launches + 1 \in Launches
    <3>1. Tick({}, TRUE) /\ phase = "pulse"
      BY <1>6 DEF LaunchPulse
    <3>2. launches + 1 \in Launches
      BY <1>0, <3>1 DEF CallInv
    <3> QED
      BY <1>0, <3>1, <3>2, QuietRegs, TickLaunches
  <2>2. requests'[launches'] = request.req
    BY <1>6, <2>1 DEF LaunchPulse, HostTypeOK
  <2>3. /\ payload = launches + 1 /\ block_size = request.req.block
        /\ grid_dim.x = request.req.grid.x /\ grid_dim.y = request.req.grid.y
        /\ grid_dim.z = request.req.grid.z
        /\ request.req \in Requests /\ ValidGeometry(request.req)
    BY <1>6 DEF LaunchPulse, ConfigInv
  <2>4. grid_dim = request.req.grid
    BY <1>0, <2>3, RequestType, IndexExt DEF TypeOK
  <2> QED
    BY <1>6, <2>1, <2>2, <2>3, <2>4 DEF LaunchPulse, ConfigInv, ValidGeometry
<1>7. CASE LaunchSettle
  <2>1. /\ payload' = payload /\ grid_dim' = grid_dim /\ block_size' = block_size
        /\ launches' = launches
    BY <1>0, <1>7, QuietRegs, TickLaunches DEF LaunchSettle
  <2> QED
    BY <1>7, <2>1 DEF LaunchSettle, ConfigInv, ValidGeometry
<1>8. CASE gpu_wait
  BY <1>1, <1>8 DEF gpu_wait, vars, regs, history
<1>9. CASE WaitTick \/ WaitTimeout
  <2>1. /\ payload' = payload /\ grid_dim' = grid_dim /\ block_size' = block_size
        /\ launches' = launches /\ phase = "wait"
        /\ UNCHANGED <<request, requests, dcr_step>>
    BY <1>0, <1>9, WaitStep, QuietRegs, TickLaunches
  <2>2. phase' \in {"idle", "wait"} 
    BY <1>9, WaitStep DEF WaitReturn
  <2> QED
    BY <1>1, <2>1, <2>2
<1> QED
  BY <1>2, <1>3, <1>4, <1>5, <1>6, <1>7, <1>8, <1>9, Zenon DEF HostNext, LaunchStep

(***************************************************************************)
(* The walk of the launch in flight.                                       *)
(***************************************************************************)

\* A device that is not busy stays so at any edge that is not a launch pulse.
LEMMA IdleEdge ==
  ASSUME TypeOK, ~Busy, NEW dcr, Tick(dcr, FALSE)
  PROVE  ~Busy'
<1>1. PICK fin, flt : TickOf(dcr, FALSE, fin, flt)
  BY TickIsEdge, Zenon
<1>2. ~running /\ \A c \in Cores : ~core_active[c]
  BY DEF Busy
<1>3. ~running'
  BY <1>1, <1>2 DEF TickOf, Edge, WalkRegs, cta_fire
<1>4. \A c \in Cores : ~core_active'[c]
  BY <1>1, <1>2, CoreEdge
<1> QED
  BY <1>3, <1>4 DEF Busy

\* The walk under an edge of the host that is not a launch pulse.
LEMMA WalkKept ==
  ASSUME WalkIInv, NEW dcr, dcr # {} => ~running, Tick(dcr, FALSE)
  PROVE  /\ WalkInv' /\ DispatchOrder' /\ DispatchExact'
         /\ launched' = launched /\ launch_grid' = launch_grid
<1>1. PICK fin, flt : TickOf(dcr, FALSE, fin, flt)
  BY TickIsEdge, Zenon
<1>2. Edge(dcr, FALSE, fin, flt)
  BY <1>1 DEF TickOf
<1>3. WalkInv' /\ DispatchOrder' /\ DispatchExact'
  BY <1>2, WalkStep
<1> QED
  BY <1>2, <1>3 DEF Edge, History

\* The actions of the host between two clock edges.
QuietAction ==
    \/ gpu_device_open \/ gpu_device_close \/ gpu_kernel_load_memory
    \/ \E k \in kernels, r \in Requests, f \in {FALSE, MayFault} : gpu_launch(k, r, f)
    \/ ReferenceRun \/ ReferenceFail \/ gpu_wait

LEMMA QuietStep ==
  ASSUME HostTypeOK, CallInv, QuietAction
  PROVE  /\ UNCHANGED <<vars, requests, faulted, ended>>
         /\ InFlight' = InFlight
         /\ phase # "settle" /\ phase' # "settle"
<1> USE DEF device, InFlight, CallInv
<1>0. dev_running \in BOOLEAN /\ opened \in BOOLEAN
  BY DEF HostTypeOK
<1>1. CASE gpu_device_open
  BY <1>0, <1>1 DEF gpu_device_open
<1>2. CASE gpu_device_close
  BY <1>0, <1>2 DEF gpu_device_close
<1>3. CASE gpu_kernel_load_memory
  BY <1>3 DEF gpu_kernel_load_memory
<1>4. ASSUME NEW k \in kernels, NEW r \in Requests, NEW f \in {FALSE, MayFault},
             gpu_launch(k, r, f)
      PROVE  /\ UNCHANGED <<vars, requests, faulted, ended>>
             /\ InFlight' = InFlight
             /\ phase # "settle" /\ phase' # "settle"
  BY <1>0, <1>4 DEF gpu_launch, Launchable
<1>5. CASE ReferenceRun
  BY <1>5 DEF ReferenceRun
<1>6. CASE ReferenceFail
  BY <1>6 DEF ReferenceFail
<1>7. CASE gpu_wait
  BY <1>0, <1>7 DEF gpu_wait
<1> QED
  BY <1>1, <1>2, <1>3, <1>4, <1>5, <1>6, <1>7, Zenon DEF QuietAction

\* The other actions are clock edges.
LEMMA HostActions ==
  ASSUME HostNext
  PROVE  \/ QuietAction \/ configure_model \/ LaunchPulse \/ LaunchSettle
         \/ WaitTick \/ WaitTimeout
BY Zenon DEF HostNext, LaunchStep, QuietAction

\* The launch pulse of a request that gpu_launch has accepted starts its walk.
LEMMA PulseStarts ==
  ASSUME HostTypeOK, CallInv, ConfigInv, LaunchPulse
  PROVE  /\ launches' = launches + 1 /\ launches + 1 \in Launches
         /\ requests'[launches'] = request.req
         /\ launched' /\ launch_grid' = request.req.grid
         /\ ended' = ended /\ ended[launches'] = "none"
<1>0. /\ launches \in Nat /\ calls \in Nat /\ MaxLaunches \in Nat /\ TypeOK
      /\ Launches = 1..MaxLaunches
  BY BoundsAssumption DEF HostTypeOK, TypeOK, Launches
<1>1. phase = "pulse" /\ Tick({}, TRUE) /\ ended' = ended
  BY DEF LaunchPulse
<1>2. launches' = launches + 1 /\ launches + 1 \in Launches
  <2>1. launches' = launches + 1
    BY <1>1, TickLaunches
  <2>2. launches < calls /\ calls <= MaxLaunches
    BY <1>1 DEF CallInv, Preparing
  <2> QED
    BY <1>0, <2>1, <2>2
<1>3. requests'[launches'] = request.req
  BY <1>2 DEF LaunchPulse, HostTypeOK, Launching
<1>4. /\ block_size = request.req.block
      /\ grid_dim.x = request.req.grid.x /\ grid_dim.y = request.req.grid.y
      /\ grid_dim.z = request.req.grid.z
      /\ request.req \in Requests /\ ValidGeometry(request.req)
  BY <1>1 DEF ConfigInv, Preparing
<1>5. grid_dim = request.req.grid
  BY <1>0, <1>4, RequestType, IndexExt DEF TypeOK
<1>6. PICK fin, flt : TickOf({}, TRUE, fin, flt)
  BY <1>1, TickIsEdge, Zenon
<1>7. WalkRegs(TRUE) /\ History(TRUE, fin)
  BY <1>6 DEF TickOf, Edge
<1>8. running' = TRUE
  BY <1>4, <1>7 DEF WalkRegs, ValidGeometry
<1>9. launched' /\ launch_grid' = request.req.grid
  BY <1>5, <1>7, <1>8 DEF History
<1>10. ended[launches'] = "none"
  BY <1>0, <1>2 DEF CallInv
<1> QED
  BY <1>1, <1>2, <1>3, <1>9, <1>10

LEMMA LaunchKept ==
  ASSUME HostTypeOK, CallInv, ConfigInv, LaunchInv, HostNext
  PROVE  LaunchInv'
<1>0. /\ launches \in Nat /\ MaxLaunches \in Nat /\ TypeOK /\ launches <= MaxLaunches
      /\ Launches = 1..MaxLaunches
  BY BoundsAssumption DEF HostTypeOK, TypeOK, Launches, CallInv
<1>1. CASE QuietAction
  <2>1. /\ UNCHANGED <<vars, requests, ended>> /\ InFlight' = InFlight
        /\ launches' = launches /\ launched' = launched /\ launch_grid' = launch_grid
    BY <1>1, QuietStep DEF vars, history
  <2>2. Succeeded' = Succeeded /\ Busy' = Busy
    BY <2>1, DeviceIdle DEF Succeeded
  <2> QED
    BY <2>1, <2>2, DeviceIdle DEF LaunchInv
<1>2. CASE configure_model
  <2>1. /\ Tick({DcrWrite(dcr_step)}, FALSE) /\ ~InFlight'
        /\ launches' = launches /\ ended' = ended /\ requests' = requests
    BY <1>2, TickLaunches DEF configure_model, InFlight, CallInv, device
  <2> SUFFICES ASSUME Succeeded' PROVE LaunchInv'
    BY <2>1 DEF LaunchInv
  <2>2. Succeeded
    BY <2>1 DEF Succeeded
  <2>3. ~Busy /\ WalkIInv /\ launched /\ launch_grid = requests[launches].grid
    BY <1>0, <2>2 DEF LaunchInv, WalkIInv
  <2>4. ~Busy' /\ ~running
    BY <1>0, <2>1, <2>3, IdleEdge DEF Busy
  <2>5. /\ WalkInv' /\ DispatchOrder' /\ DispatchExact'
        /\ launched' = launched /\ launch_grid' = launch_grid
    BY <2>1, <2>3, <2>4, WalkKept
  <2> QED
    BY <2>1, <2>3, <2>4, <2>5 DEF LaunchInv
<1>3. CASE LaunchPulse
  <2>1. PICK fin, flt : TickOf({}, TRUE, fin, flt)
    BY <1>3, TickIsEdge, Zenon DEF LaunchPulse
  <2>2. WalkInv' /\ DispatchOrder' /\ DispatchExact'
    BY <1>0, <2>1, LaunchWalk DEF TickOf
  <2>3. ~Succeeded'
    BY <1>3, PulseStarts DEF Succeeded
  <2> QED
    BY <1>3, <2>2, <2>3, PulseStarts DEF LaunchInv
<1>4. CASE LaunchSettle \/ WaitTick \/ WaitTimeout
  <2>1. /\ Tick({}, FALSE) /\ InFlight /\ requests' = requests
    BY <1>4, WaitStep DEF LaunchSettle, InFlight
  <2>2. launches' = launches /\ launches \in Launches /\ ended[launches] = "none"
    <3>1. launches' = launches
      BY <2>1, TickLaunches
    <3>2. launches \in Launches
      BY <1>0, <2>1 DEF CallInv
    <3> QED
      BY <2>1, <3>1, <3>2 DEF CallInv
  <2>3. WalkIInv /\ launched /\ launch_grid = requests[launches].grid
    BY <1>0, <2>1 DEF LaunchInv, WalkIInv
  <2>4. /\ WalkInv' /\ DispatchOrder' /\ DispatchExact'
        /\ launched' = launched /\ launch_grid' = launch_grid
    BY <2>1, <2>3, WalkKept
  <2>5. Succeeded' => ~Busy'
    <3>1. CASE ended' = ended
      BY <2>2, <3>1 DEF Succeeded
    <3>2. ASSUME NEW r \in {"backend", "timeout"}, WaitReturn(r)
          PROVE  ~Succeeded'
      BY <2>2, <3>2 DEF Succeeded, WaitReturn, HostTypeOK
    <3>3. CASE Completed
      BY <3>3 DEF Completed
    <3>4. CASE LaunchSettle
      BY <3>1, <3>4, Zenon DEF LaunchSettle
    <3>5. CASE WaitTick \/ WaitTimeout
      BY <3>1, <3>2, <3>3, <3>5, WaitStep, Zenon
    <3> QED
      BY <1>4, <3>4, <3>5
  <2> QED
    BY <2>1, <2>2, <2>3, <2>4, <2>5 DEF LaunchInv
<1> QED
  BY <1>1, <1>2, <1>3, <1>4, HostActions

(***************************************************************************)
(* The CTAs on the cores and their faults.                                 *)
(***************************************************************************)

LEMMA CtaKept ==
  ASSUME HostTypeOK, CallInv, CtaInv, HostNext
  PROVE  CtaInv'
<1>1. CASE QuietAction
  BY <1>1, QuietStep, DeviceIdle
<1>2. ASSUME NEW dcr, NEW launch \in BOOLEAN, Tick(dcr, launch)
      PROVE  CtaInv'
  <2>1. PICK fin, flt : TickOf(dcr, launch, fin, flt)
    BY <1>2, TickIsEdge, Zenon
  <2> QED
    BY <2>1, CtaStep DEF HostTypeOK
<1>3. CASE configure_model
  BY <1>2, <1>3 DEF configure_model
<1>4. CASE LaunchPulse
  BY <1>2, <1>4 DEF LaunchPulse
<1>5. CASE LaunchSettle
  BY <1>2, <1>5 DEF LaunchSettle
<1>6. CASE WaitTick \/ WaitTimeout
  BY <1>2, <1>6, WaitStep
<1> QED
  BY <1>1, <1>3, <1>4, <1>5, <1>6, HostActions

\* An edge adds no fault of a later launch or of one that has succeeded, and no
\* CTA of one that has succeeded.
LEMMA FaultTick ==
  ASSUME HostTypeOK, LaunchInv, CtaInv, FaultInv,
         NEW dcr, NEW launch, NEW fin, NEW flt, TickOf(dcr, launch, fin, flt)
  PROVE  /\ \A n \in faulted' : n <= launches
         /\ \A c \in Cores : core_active'[c] => core_cta'[c].launch <= launches
         /\ \A n \in Launches : ended[n] = "success" =>
               /\ n \notin faulted'
               /\ \A c \in Cores : core_active'[c] => core_cta'[c].launch # n
<1>0. /\ TypeOK /\ launches \in Nat
      /\ \A c \in Cores : core_cta[c].launch \in Nat
  BY DEF HostTypeOK, TypeOK
<1>1. /\ \A c \in flt : c \in Cores /\ core_active[c]
      /\ faulted' = faulted \cup {core_cta[c].launch : c \in flt}
  BY DEF TickOf
<1>2. \A n \in faulted' : n <= launches
  BY <1>0, <1>1 DEF FaultInv, CtaInv
<1>3. \A c \in Cores : core_active'[c] => core_cta'[c].launch <= launches
  BY <1>0, CoreEdge DEF CtaInv
<1>4. ASSUME NEW n \in Launches, ended[n] = "success"
      PROVE  n \notin faulted' /\ \A c \in Cores : core_active'[c] => core_cta'[c].launch # n
  <2>1. n \notin faulted'
    BY <1>1, <1>4 DEF FaultInv
  <2>2. ASSUME NEW c \in Cores, core_active'[c]
        PROVE  core_cta'[c].launch # n
    <3>1. CASE ~Accepts(c)
      BY <1>0, <1>4, <2>2, <3>1, CoreEdge DEF FaultInv
    <3>2. CASE Accepts(c)
      <4>1. core_cta'[c].launch = launches /\ running
        BY <1>0, <3>2, CoreEdge
      <4>2. CASE launches = n
        <5>1. Succeeded
          BY <1>4, <4>2, BoundsAssumption DEF Succeeded, Launches
        <5> QED
          BY <4>1, <5>1 DEF LaunchInv, Busy
      <4> QED
        BY <4>1, <4>2
    <3> QED
      BY <3>1, <3>2
  <2> QED
    BY <2>1, <2>2
<1> QED
  BY <1>2, <1>3, <1>4

\* A CTA that faults raises the fault flag of its core at that edge.
LEMMA FaultShows ==
  ASSUME TypeOK, NEW dcr, NEW launch, NEW fin, NEW flt, TickOf(dcr, launch, fin, flt),
         ~GpuFault'
  PROVE  flt = {}
<1>1. \A c \in flt : c \in Cores /\ core_active[c]
  BY DEF TickOf
<1>2. \A c \in flt : core_fault'[c]
  BY <1>1, CoreEdge
<1> QED
  BY <1>1, <1>2 DEF GpuFault

LEMMA FaultStep ==
  ASSUME HostTypeOK, CallInv, ConfigInv, LaunchInv, CtaInv, FaultInv, HostNext
  PROVE  FaultInv'
<1>0. /\ launches \in Nat /\ MaxLaunches \in Nat /\ TypeOK /\ launches <= MaxLaunches
      /\ Launches = 1..MaxLaunches /\ faulted \subseteq Nat
  BY BoundsAssumption DEF HostTypeOK, TypeOK, Launches, CallInv
<1>1. CASE QuietAction
  <2>1. /\ UNCHANGED <<core_active, core_cta, launches, faulted, ended>>
        /\ InFlight' = InFlight /\ phase' # "settle"
    BY <1>1, QuietStep DEF vars, cores, history
  <2> QED
    BY <2>1 DEF FaultInv
<1>2. CASE configure_model
  <2>1. /\ Tick({DcrWrite(dcr_step)}, FALSE) /\ ~InFlight' /\ phase' # "settle"
        /\ launches' = launches /\ ended' = ended
    BY <1>2, TickLaunches DEF configure_model, InFlight, CallInv, device
  <2>2. PICK fin, flt : TickOf({DcrWrite(dcr_step)}, FALSE, fin, flt)
    BY <2>1, TickIsEdge, Zenon
  <2> QED
    BY <2>1, <2>2, FaultTick DEF FaultInv
<1>3. CASE LaunchPulse
  <2>1. PICK fin, flt : TickOf({}, TRUE, fin, flt)
    BY <1>3, TickIsEdge, Zenon DEF LaunchPulse
  <2>2. launches' = launches + 1 /\ ended' = ended
    BY <1>3, PulseStarts
  <2>3. TypeOK' /\ faulted' \subseteq Nat
    BY <1>3, TickType DEF LaunchPulse, DcrOK
  <2>4. /\ \A n \in faulted' : n < launches'
        /\ \A c \in Cores : core_active'[c] => core_cta'[c].launch < launches'
    <3>1. \A c \in Cores : core_cta'[c].launch \in Nat
      BY <2>3 DEF TypeOK
    <3>2. /\ \A n \in faulted' : n <= launches
          /\ \A c \in Cores : core_active'[c] => core_cta'[c].launch <= launches
      BY <2>1, FaultTick, Zenon
    <3> QED
      BY <1>0, <2>2, <2>3, <3>1, <3>2
  <2>5. launches' \notin faulted' /\ \A n \in faulted' : n <= launches'
    BY <1>0, <2>2, <2>3, <2>4
  <2> QED
    BY <2>1, <2>2, <2>4, <2>5, FaultTick DEF FaultInv
<1>4. CASE LaunchSettle
  <2>1. PICK fin, flt : TickOf({}, FALSE, fin, flt)
    BY <1>4, TickIsEdge, Zenon DEF LaunchSettle
  <2>2. launches' = launches /\ ended' = ended /\ phase = "settle" /\ phase' = "idle"
    BY <1>4, TickLaunches DEF LaunchSettle
  <2>3. launches \notin faulted'
    <3>1. /\ \A c \in flt : c \in Cores /\ core_active[c]
          /\ faulted' = faulted \cup {core_cta[c].launch : c \in flt}
      BY <2>1 DEF TickOf
    <3>2. \A c \in flt : core_cta[c].launch < launches /\ core_cta[c].launch \in Nat
      BY <1>0, <2>2, <3>1 DEF FaultInv, TypeOK
    <3>3. launches \notin faulted
      BY <2>2 DEF FaultInv, InFlight
    <3> QED
      BY <1>0, <3>1, <3>2, <3>3
  <2> QED
    BY <2>1, <2>2, <2>3, FaultTick DEF FaultInv
<1>5. CASE WaitTick \/ WaitTimeout
  <2>1. PICK fin, flt : TickOf({}, FALSE, fin, flt)
    BY <1>5, WaitStep, TickIsEdge, Zenon
  <2>2. launches' = launches /\ phase = "wait" /\ InFlight
    BY <1>5, TickLaunches, WaitStep DEF InFlight
  <2>3. launches \in Launches
    BY <1>0, <2>2 DEF CallInv
  <2>4. ~GpuFault' => launches \notin faulted'
    <3> SUFFICES ASSUME ~GpuFault' PROVE launches \notin faulted'
      OBVIOUS
    <3>1. flt = {}
      BY <1>0, <2>1, FaultShows
    <3>2. faulted' = faulted
      BY <2>1, <3>1 DEF TickOf
    <3> QED
      BY <2>2, <3>2 DEF FaultInv
  <2>5. ASSUME NEW r, WaitReturn(r)
        PROVE  /\ ~InFlight' /\ phase' = "idle"
               /\ ended'[launches] = r
               /\ \A n \in Launches : n # launches => ended'[n] = ended[n]
    BY <2>3, <2>5 DEF WaitReturn, InFlight, HostTypeOK
  <2>6. ASSUME NEW r \in {"backend", "timeout"}, WaitReturn(r)
        PROVE  FaultInv'
    BY <2>1, <2>2, <2>5, <2>6, FaultTick DEF FaultInv
  <2>7. CASE Completed /\ WaitReturn("success")
    <3>1. launches \notin faulted' /\ \A c \in Cores : ~core_active'[c]
      BY <2>4, <2>7 DEF Completed, RtlFault, Busy
    <3> QED
      BY <2>1, <2>2, <2>5, <2>7, <3>1, FaultTick DEF FaultInv
  <2>8. CASE ~RtlFault /\ UNCHANGED <<phase, dev_running, args, ended, reference>>
    <3>1. launches \notin faulted'
      BY <2>4, <2>8 DEF RtlFault
    <3> QED
      BY <2>1, <2>2, <2>8, <3>1, FaultTick DEF FaultInv
  <2> QED
    BY <1>5, <2>6, <2>7, <2>8, WaitStep, Zenon
<1> QED
  BY <1>1, <1>2, <1>3, <1>4, <1>5, HostActions

\* As long as no launch fails, each one has the device for itself.
LEMMA CleanStep ==
  ASSUME HostTypeOK, CallInv, CtaInv, CleanInv, HostNext
  PROVE  CleanInv'
<1>0. /\ launches \in Nat /\ MaxLaunches \in Nat /\ TypeOK /\ launches <= MaxLaunches
      /\ Launches = 1..MaxLaunches
  BY BoundsAssumption DEF HostTypeOK, TypeOK, Launches, CallInv
<1>1. CASE QuietAction
  <2>1. /\ UNCHANGED <<vars, core_active, core_cta, launches, ended>>
        /\ InFlight' = InFlight
    BY <1>1, QuietStep DEF vars, cores, history
  <2>2. Busy' = Busy
    BY <2>1, DeviceIdle
  <2> QED
    BY <2>1, <2>2 DEF CleanInv, Clean
<1>2. CASE configure_model
  <2>1. /\ Tick({DcrWrite(dcr_step)}, FALSE) /\ ~InFlight
        /\ launches' = launches /\ ended' = ended
    BY <1>2, TickLaunches DEF configure_model, InFlight, CallInv
  <2> SUFFICES ASSUME Clean' PROVE CleanInv'
    BY DEF CleanInv
  <2>2. ~Busy
    BY <2>1 DEF CleanInv, Clean
  <2>3. ~Busy'
    BY <1>0, <2>1, <2>2, IdleEdge
  <2> QED
    BY <2>3 DEF CleanInv, Busy
<1>3. CASE LaunchPulse
  <2>1. PICK fin, flt : TickOf({}, TRUE, fin, flt)
    BY <1>3, TickIsEdge, Zenon DEF LaunchPulse
  <2>2. ended' = ended /\ InFlight' /\ ~InFlight
    BY <1>3 DEF LaunchPulse, InFlight, CallInv
  <2> SUFFICES ASSUME Clean' PROVE CleanInv'
    BY DEF CleanInv
  <2>3. ~Busy
    BY <2>2 DEF CleanInv, Clean
  <2>4. \A c \in Cores : ~core_active'[c]
    BY <1>0, <2>1, <2>3, CoreEdge DEF Busy
  <2> QED
    BY <2>2, <2>4 DEF CleanInv
<1>4. CASE LaunchSettle \/ WaitTick \/ WaitTimeout
  <2>1. Tick({}, FALSE) /\ InFlight
    BY <1>4, WaitStep DEF LaunchSettle, InFlight
  <2>2. PICK fin, flt : TickOf({}, FALSE, fin, flt)
    BY <2>1, TickIsEdge, Zenon
  <2>3. launches' = launches /\ launches \in Launches /\ ended[launches] = "none"
    <3>1. launches' = launches
      BY <2>1, TickLaunches
    <3>2. launches \in Launches
      BY <1>0, <2>1 DEF CallInv
    <3> QED
      BY <2>1, <3>1, <3>2 DEF CallInv
  <2>4. Clean => \A c \in Cores : core_active'[c] => core_cta'[c].launch = launches'
    <3>1. ASSUME Clean, NEW c \in Cores, core_active'[c]
          PROVE  core_cta'[c].launch = launches
      <4>1. CASE Accepts(c)
        <5>1. core_cta'[c] = [launch |-> launches, pos |-> Len(served) + 1]
          BY <1>0, <2>2, <4>1, CoreEdge, Zenon
        <5> QED
          BY <5>1
      <4>2. CASE ~Accepts(c)
        <5>1. core_active[c] /\ core_cta'[c] = core_cta[c]
          BY <1>0, <2>2, <3>1, <4>2, CoreEdge, Zenon
        <5> QED
          BY <3>1, <5>1, Zenon DEF CleanInv
      <4> QED
        BY <4>1, <4>2
    <3> QED
      BY <2>3, <3>1
  <2>5. ASSUME NEW r \in {"backend", "timeout"}, WaitReturn(r)
        PROVE  ~Clean'
    BY <2>3, <2>5 DEF WaitReturn, HostTypeOK, Clean
  <2>6. CASE Completed /\ WaitReturn("success")
    BY <2>6 DEF Completed, Busy, CleanInv
  <2>7. CASE ended' = ended /\ InFlight'
    BY <2>4, <2>7 DEF CleanInv, Clean
  <2>8. CASE LaunchSettle
    BY <2>7, <2>8 DEF LaunchSettle, InFlight
  <2>9. CASE WaitTick \/ WaitTimeout
    <3>1. CASE UNCHANGED <<phase, dev_running, args, ended, reference>>
      BY <2>1, <2>7, <3>1 DEF InFlight
    <3> QED
      BY <2>5, <2>6, <2>9, <3>1, WaitStep, Zenon DEF CleanInv
  <2> QED
    BY <1>4, <2>8, <2>9
<1> QED
  BY <1>1, <1>2, <1>3, <1>4, HostActions

(***************************************************************************)
(* The theorems.                                                           *)
(***************************************************************************)

LEMMA HostInitInv ==
  ASSUME HostInit
  PROVE  HostInv
<1>1. Init
  BY DEF HostInit
<1>2. HostTypeOK
  <2>1. difftest \in BOOLEAN
    BY RuntimeAssumption DEF HostInit
  <2>2. request \in [req : Requests \cup {NoRequest}, faulty : BOOLEAN]
    BY DEF HostInit, NoLaunch
  <2>3. TypeOK
    BY <1>1, InitType
  <2> QED
    <3>1. requests \in [Launches -> Requests \cup {NoRequest}]
      BY DEF HostInit
    <3>2. ended \in [Launches -> {"none", "success", "backend", "timeout"}]
      BY DEF HostInit
    <3>3. /\ opened \in BOOLEAN /\ dev_running \in BOOLEAN /\ reference \in BOOLEAN
          /\ reference_fault \in BOOLEAN /\ pmem_ref \in BOOLEAN /\ diff_failed \in BOOLEAN
      BY DEF HostInit
    <3>4. /\ kernels \subseteq [generation : Nat, image : Nat]
          /\ scratch \subseteq Nat /\ faulty \subseteq Nat /\ faulted \subseteq Nat
      BY DEF HostInit
    <3>5. /\ kernel_generation \in Nat /\ image \in Nat /\ loads \in Nat /\ calls \in Nat
          /\ launch_args \in Nat /\ phase \in Phases /\ dcr_step \in DcrSteps
      BY DEF HostInit, Phases, DcrSteps
    <3> QED
      BY <2>1, <2>2, <2>3, <3>1, <3>2, <3>3, <3>4, <3>5 DEF HostTypeOK
<1>3. CallInv
  BY <1>1, BoundsAssumption DEF HostInit, Init, CallInv, InFlight, Preparing, Launches
<1>4. KernelInv /\ ScratchInv
  BY DEF HostInit, KernelInv, ScratchInv, InFlight, Preparing
<1>5. ConfigInv
  BY DEF HostInit, ConfigInv, InFlight, Preparing
<1>6. ~InFlight /\ ~Succeeded
  BY <1>1 DEF HostInit, Init, InFlight, Succeeded
<1>7. LaunchInv
  BY <1>6 DEF LaunchInv
<1>8. CtaInv
  BY <1>1 DEF Init, CtaInv
<1>9. FaultInv
  BY <1>6 DEF HostInit, FaultInv
<1>10. CleanInv
  BY <1>1 DEF Init, CleanInv, Busy
<1> QED
  BY <1>2, <1>3, <1>4, <1>5, <1>7, <1>8, <1>9, <1>10 DEF HostInv

\* The invariant of the host and the device holds in every state, whatever the
\* number of cores and launches, the requests, and the launches that fail.
THEOREM HostInvariant == HostSpec => []HostInv
<1>1. HostInit => HostInv
  BY HostInitInv
<1>2. HostInv /\ [HostNext]_hvars => HostInv'
  <2> SUFFICES ASSUME HostInv, [HostNext]_hvars PROVE HostInv'
    OBVIOUS
  <2> USE DEF HostInv
  <2>1. CASE HostNext
    BY <2>1, HostTypeStep, CallStep, KernelStep, ScratchStep, ConfigStep, LaunchKept,
       CtaKept, FaultStep, CleanStep
  <2>2. CASE UNCHANGED hvars
    <3>1. /\ UNCHANGED <<vars, device, kernelvars, diff, args, diff_failed, phase, dcr_step,
                         request, calls, requests, faulty, faulted, ended>>
          /\ UNCHANGED <<regs, cores, history>>
      BY <2>2 DEF hvars, vars
    <3> USE <3>1 DEF device, kernelvars, diff, args, regs, cores, history
    <3>2. HostTypeOK'
      BY DeviceIdle DEF HostTypeOK
    <3>3. CallInv' /\ KernelInv' /\ ScratchInv'
      BY DEF CallInv, KernelInv, ScratchInv, InFlight, Preparing, Launching
    <3>4. ConfigInv'
      BY DEF ConfigInv, InFlight, Preparing, Launching, ValidGeometry
    <3>5. InFlight' = InFlight /\ Succeeded' = Succeeded /\ Clean' = Clean /\ Busy' = Busy
      BY DEF InFlight, Succeeded, Clean, Busy
    <3>6. LaunchInv' /\ CtaInv'
      BY <3>5, DeviceIdle DEF LaunchInv
    <3>7. FaultInv' /\ CleanInv'
      BY <3>5 DEF FaultInv, CleanInv
    <3> QED
      BY <3>2, <3>3, <3>4, <3>6, <3>7
  <2> QED
    BY <2>1, <2>2
<1> QED
  BY <1>1, <1>2, PTL DEF HostSpec

\* A walk that serves its blocks in order serves each of them once.
LEMMA ServedOnce ==
  ASSUME TypeOK, DispatchOrder
  PROVE  Len(served) = Cardinality(ServedBlocks)
<1>1. /\ served \in Seq(Index) /\ Len(served) \in Nat /\ DOMAIN served = 1..Len(served)
      /\ \A i \in DOMAIN served : i \in Nat /\ served[i] \in Index
  BY DEF TypeOK
<1>2. \A b \in Index : ~Before(b, b)
  BY DEF Before, Index
<1>3. \A i, j \in DOMAIN served : served[i] = served[j] => i = j
  <2> SUFFICES ASSUME NEW i \in DOMAIN served, NEW j \in DOMAIN served, served[i] = served[j]
               PROVE  i = j
    OBVIOUS
  <2>1. ~(i < j) /\ ~(j < i)
    BY <1>1, <1>2 DEF DispatchOrder
  <2> QED
    BY <1>1, <2>1
<1>4. served \in Bijection(1..Len(served), ServedBlocks)
  <2>1. served \in [1..Len(served) -> ServedBlocks]
    BY <1>1 DEF ServedBlocks
  <2>2. \A b \in ServedBlocks : \E i \in 1..Len(served) : served[i] = b
    BY <1>1 DEF ServedBlocks
  <2>3. IsInjective(served)
    BY <1>3, Zenon DEF IsInjective
  <2> QED
    BY <2>1, <2>2, <2>3, Zenon DEF Bijection, Injection, Surjection
<1>5. ExistsBijection(1..Len(served), ServedBlocks)
  BY <1>4, Zenon DEF ExistsBijection
<1>6. IsFiniteSet(1..Len(served)) /\ Cardinality(1..Len(served)) = Len(served)
  BY <1>1, FS_Interval
<1> QED
  BY <1>5, <1>6, FS_Bijection

\* gpu_wait returns success only when every block of the grid that was asked
\* for has run exactly once and to its end and every core is free again, also
\* after launches that timed out, faulted or were given up on a busy device.
THEOREM SuccessIsComplete == HostSpec => []SuccessMeansComplete
<1>1. HostInv => SuccessMeansComplete
  <2> SUFFICES ASSUME HostInv, Succeeded
               PROVE  /\ ServedBlocks = Blocks(requests[launches].grid)
                      /\ Len(served) = Cardinality(ServedBlocks) /\ retired = DOMAIN served
                      /\ Ready = Cores
    BY DEF SuccessMeansComplete, Succeeded
  <2>1. /\ launched /\ launch_grid = requests[launches].grid
        /\ DispatchOrder /\ DispatchExact /\ ~Busy
    BY DEF HostInv, LaunchInv
  <2>2. ~running /\ \A c \in Cores : ~core_active[c]
    BY <2>1 DEF Busy
  <2>3. ServedBlocks = Blocks(requests[launches].grid)
    BY <2>1, <2>2 DEF DispatchExact
  <2>4. Len(served) = Cardinality(ServedBlocks)
    BY <2>1, ServedOnce DEF HostInv, HostTypeOK
  <2>5. retired = DOMAIN served
    BY <2>2 DEF HostInv, CtaInv
  <2>6. Ready = Cores
    BY <2>2 DEF Ready
  <2> QED
    BY <2>3, <2>4, <2>5, <2>6
<1> QED
  BY <1>1, HostInvariant, PTL

\* A launch with a CTA that faulted never returns success, although a core
\* clears its fault flag when it takes its next CTA.
THEOREM FaultsReported == HostSpec => []NoSilentFault
<1>1. HostInv => NoSilentFault
  BY DEF HostInv, FaultInv, NoSilentFault
<1> QED
  BY <1>1, HostInvariant, PTL

\* A stale handle is refused, and while no launch has failed what runs is the
\* request of the launch in flight, on registers and scratch that are its own.
THEOREM LaunchesRunAsAsked == HostSpec => []RunsAsAsked
<1>1. HostInv => RunsAsAsked
  <2> SUFFICES ASSUME HostInv PROVE RunsAsAsked
    OBVIOUS
  <2> USE DEF HostInv
  <2>1. \A k \in kernels : Launchable(k) => k.image = image
    BY DEF KernelInv, Launchable
  <2>2. ASSUME Clean, cta_fire
        PROVE  /\ payload = launches
               /\ grid_dim = requests[launches].grid
               /\ block_size = requests[launches].block /\ block_size <= BlockLimit
    <3>1. InFlight
      BY <2>2 DEF CleanInv, Busy, cta_fire
    <3> QED
      BY <3>1 DEF ConfigInv, ValidGeometry
  <2>3. ASSUME Clean, NEW c \in Cores, core_active[c], requests[core_cta[c].launch].args
        PROVE  core_cta[c].launch \in scratch
    <3>1. InFlight /\ core_cta[c].launch = launches
      BY <2>3, Zenon DEF CleanInv, Busy
    <3>2. launch_args = launches /\ launches # 0
      BY <2>3, <3>1 DEF ScratchInv, CallInv, HostTypeOK, TypeOK
    <3> QED
      BY <3>1, <3>2 DEF ScratchInv
  <2> QED
    BY <2>1, <2>2, <2>3 DEF RunsAsAsked
<1> QED
  BY <1>1, HostInvariant, PTL

\* Every way out of gpu_launch and gpu_wait releases the argument scratch and
\* the reference image.
THEOREM ResourcesReleased == HostSpec => []NothingLeaks
<1>1. HostInv => NothingLeaks
  BY DEF HostInv, ScratchInv, InFlight, NothingLeaks
<1> QED
  BY <1>1, HostInvariant, PTL
=============================================================================
