------------------------------ MODULE Runtime ------------------------------
(***************************************************************************)
(* The host runtime driving the device: gpu_device_open/close, kernel      *)
(* loading, gpu_launch and gpu_wait of sw/runtime/gpu/gpu.c, the RTL       *)
(* backend sw/sim/hm/rtl.cpp that turns them into clock edges, and, below  *)
(* them, the KMU and the cores of module KMU.                              *)
(*                                                                         *)
(* The host is one thread and the device has no clock of its own: an edge  *)
(* happens only inside gpu_launch (one per DCR write, one for the launch   *)
(* pulse and one after it) and inside gpu_wait.  A CTA may take any number *)
(* of edges; the 10^8 edges after which gpu_wait gives up are any number   *)
(* of edges, too.  In a build with DiffTest, gpu_launch first runs the     *)
(* kernel on the reference model and restores the PMEM.                    *)
(***************************************************************************)
EXTENDS KMU, FiniteSets

CONSTANTS Builds,        \* values of CONFIG_DIFFTEST
          Requests,      \* launch requests of the host
          BlockLimit,    \* CONFIG_GPU_NUM_WARPS * CONFIG_GPU_NUM_THREADS
          WordMax,       \* UINT32_MAX
          MayFault,      \* kernels may fault
          MayTimeout,    \* kernels may outlast GPU_WAIT_LIMIT
          MayMismatch,   \* the RTL and the reference models may disagree
          MaxLoads       \* bound: kernels loaded in a session

ASSUME RuntimeAssumption ==
    /\ {MayFault, MayTimeout, MayMismatch} \subseteq BOOLEAN /\ Builds \subseteq BOOLEAN
    /\ Requests \subseteq [grid : Index, block : Nat, args : BOOLEAN]
    /\ BlockLimit \in Nat /\ WordMax \in Nat /\ MaxLoads \in Nat

VARIABLES
    difftest,        \* CONFIG_DIFFTEST, fixed when the program is built
    opened, dev_running, kernel_generation, kernels,  \* struct gpu_device
    launch_args,     \* the launch whose scratch launch_args points to, 0 if unused
    reference, reference_fault,
    image,           \* the kernel image in the PMEM, by its load
    pmem_ref,        \* the PMEM holds what the reference model stored
    diff_failed,     \* of rtl.cpp
    phase, dcr_step, request,  \* where the host is in gpu_launch or gpu_wait, and for what
    \* History:
    scratch,         \* launches whose argument scratch is allocated
    loads, calls,    \* kernels loaded, calls of gpu_launch so far
    requests,        \* per launch pulse, what was asked for
    faulty, faulted, \* launches of a faulting kernel; with a CTA that faulted
    ended            \* per launch, what gpu_wait returned

device == <<difftest, opened, dev_running, kernel_generation, kernels>>
kernelvars == <<image, loads>>
diff == <<reference, reference_fault, pmem_ref>>
args == <<launch_args, scratch>>
hvars == <<vars, device, kernelvars, diff, args, diff_failed, phase, dcr_step, request,
           calls, requests, faulty, faulted, ended>>

Launches == 1 .. MaxLaunches
Launching == launches + 1       \* the launch gpu_launch prepares
DcrSteps == 1 .. 10
Phases == {"idle", "configure", "reference", "pulse", "settle", "wait"}
NoRequest == [grid |-> Origin, block |-> 0, args |-> FALSE]
NoLaunch == [req |-> NoRequest, faulty |-> FALSE]

HostInit ==
    /\ Init
    /\ difftest \in Builds
    /\ opened = FALSE /\ dev_running = FALSE /\ kernel_generation = 0 /\ kernels = {}
    /\ launch_args = 0 /\ reference = FALSE /\ reference_fault = FALSE
    /\ image = 0 /\ pmem_ref = FALSE /\ diff_failed = FALSE
    /\ phase = "idle" /\ dcr_step = 1 /\ request = NoLaunch
    /\ scratch = {} /\ loads = 0 /\ calls = 0 /\ requests = [n \in Launches |-> NoRequest]
    /\ faulty = {} /\ faulted = {} /\ ended = [n \in Launches |-> "none"]

(***************************************************************************)
(* Device and kernel handles.                                              *)
(***************************************************************************)

gpu_device_open ==
    /\ phase = "idle" /\ ~opened
    /\ opened' = TRUE /\ dev_running' = FALSE /\ kernel_generation' = 0 /\ kernels' = {}
    /\ launch_args' = 0 /\ scratch' = {}
    /\ UNCHANGED <<vars, difftest, kernelvars, diff, diff_failed, phase, request,
                   dcr_step, calls, requests, faulty, faulted, ended>>

gpu_device_close ==
    /\ phase = "idle" /\ opened /\ ~dev_running
    /\ opened' = FALSE /\ kernels' = {} /\ reference' = FALSE /\ scratch' = {}
    /\ UNCHANGED <<vars, difftest, dev_running, kernel_generation, kernelvars, reference_fault,
                   pmem_ref, launch_args, diff_failed, phase, request,
                   dcr_step, calls, requests, faulty, faulted, ended>>

gpu_kernel_load_memory ==
    /\ phase = "idle" /\ opened /\ loads < MaxLoads
    /\ image' = loads + 1 /\ loads' = loads + 1
    /\ kernel_generation' = kernel_generation + 1
    /\ kernels' = kernels \cup {[generation |-> kernel_generation', image |-> image']}
    /\ UNCHANGED <<vars, difftest, opened, dev_running, diff, args, diff_failed,
                   phase, request, dcr_step, calls, requests, faulty, faulted, ended>>

(***************************************************************************)
(* gpu_launch.                                                             *)
(***************************************************************************)

\* The handle and geometry checks.  A product that does not fit a word fails.
Launchable(k) == opened /\ k.generation = kernel_generation /\ ~dev_running

\* Mutant of ValidGeometry: the block size is not checked.
ValidGeometryAnyBlock(r) ==
    /\ r.grid.x # 0 /\ r.grid.y # 0 /\ r.grid.z # 0
    /\ r.grid.x * r.grid.y * r.grid.z * r.block <= WordMax

ValidGeometry(r) ==
    /\ r.grid.x # 0 /\ r.grid.y # 0 /\ r.grid.z # 0 /\ r.block # 0
    /\ r.block <= BlockLimit
    /\ r.grid.x * r.grid.y <= WordMax /\ r.grid.x * r.grid.y * r.grid.z <= WordMax
    /\ r.grid.x * r.grid.y * r.grid.z * r.block <= WordMax

\* Up to the allocation of the argument scratch; the kernel may be a faulty one.
gpu_launch(k, r, f) ==
    /\ phase = "idle" /\ Launchable(k) /\ ValidGeometry(r)
    /\ calls < MaxLaunches /\ calls' = calls + 1
    /\ phase' = "configure" /\ dcr_step' = 1 
    /\ request' = [req |-> r, faulty |-> f]
    /\ launch_args' = IF r.args THEN Launching ELSE 0
    /\ scratch' = IF r.args THEN scratch \cup {Launching} ELSE scratch
    /\ UNCHANGED <<vars, device, kernelvars, diff, diff_failed, requests, faulty, faulted,
                   ended>>

\* An edge of the device, with at most one register write.
Tick(dcr, launch) ==
    /\ \E fin \in SUBSET {c \in Cores : core_active[c]} :
         \E flt \in SUBSET {c \in fin : core_cta[c].launch \in faulty} :
           /\ Edge(dcr, launch, fin, flt)
           /\ faulted' = faulted \cup {core_cta[c].launch : c \in flt}
    /\ \/ UNCHANGED diff_failed
       \/ difftest /\ MayMismatch /\ diff_failed' = TRUE

\* The n-th register write of configure_model.
\* Mutant: the grid dimensions are written to each other's registers.
DcrWriteSwapped(n) ==
    CASE n <= 6 -> [reg |-> "payload", data |-> Launching]
      [] n = 7 -> [reg |-> "grid_x", data |-> request.req.grid.y]
      [] n = 8 -> [reg |-> "grid_y", data |-> request.req.grid.x]
      [] n = 9 -> [reg |-> "grid_z", data |-> request.req.grid.z]
      [] n = 10 -> [reg |-> "block_size", data |-> request.req.block]

DcrWrite(n) ==
    CASE n <= 6 -> [reg |-> "payload", data |-> Launching]
      [] n = 7 -> [reg |-> "grid_x", data |-> request.req.grid.x]
      [] n = 8 -> [reg |-> "grid_y", data |-> request.req.grid.y]
      [] n = 9 -> [reg |-> "grid_z", data |-> request.req.grid.z]
      [] n = 10 -> [reg |-> "block_size", data |-> request.req.block]

configure_model ==
    /\ phase = "configure"
    /\ Tick({DcrWrite(dcr_step)}, FALSE)
    /\ \/ dcr_step < 10 /\ dcr_step' = dcr_step + 1 /\ UNCHANGED phase
       \/ dcr_step = 10 /\ dcr_step' = 1
          /\ phase' = IF difftest THEN "reference" ELSE "pulse"
    /\ UNCHANGED <<device, kernelvars, diff, args, request, calls, requests, faulty, ended>>

\* Mutant of release_launch_args: the flag is cleared and the scratch kept.
release_launch_args_leak == launch_args' = 0 /\ UNCHANGED scratch

release_launch_args == launch_args' = 0 /\ scratch' = scratch \ {launch_args}

\* The reference model runs the kernel, and the PMEM is saved and restored.
ReferenceRun ==
    /\ phase = "reference"
    /\ reference' = TRUE /\ reference_fault' = request.faulty
    /\ phase' = "pulse"
    /\ UNCHANGED <<vars, device, kernelvars, pmem_ref, args, diff_failed, request,
                   dcr_step, calls, requests, faulty, faulted, ended>>

\* The buffers cannot be allocated, or the reference run is given up: then the
\* PMEM is left as the reference model left it.
ReferenceFail ==
    /\ phase = "reference"
    /\ \/ UNCHANGED <<pmem_ref, reference_fault>>
       \/ MayTimeout /\ pmem_ref' = TRUE /\ reference_fault' = FALSE
    /\ reference' = FALSE
    /\ release_launch_args
    /\ phase' = "idle" /\ request' = NoLaunch
    /\ UNCHANGED <<vars, device, kernelvars, diff_failed, dcr_step, calls, requests, faulty, faulted, ended>>

LaunchPulse ==
    /\ phase = "pulse" /\ Tick({}, TRUE) /\ phase' = "settle"
    /\ requests' = [requests EXCEPT ![Launching] = request.req]
    /\ faulty' = IF request.faulty THEN faulty \cup {Launching} ELSE faulty
    /\ UNCHANGED <<device, kernelvars, diff, args, request, dcr_step, calls, ended>>

LaunchSettle ==
    /\ phase = "settle" /\ Tick({}, FALSE)
    /\ phase' = "idle" /\ dev_running' = TRUE /\ request' = NoLaunch
    /\ UNCHANGED <<difftest, opened, kernel_generation, kernels, kernelvars, diff, args,
                   dcr_step, calls, requests, faulty, ended>>

(***************************************************************************)
(* gpu_wait.                                                               *)
(***************************************************************************)

gpu_wait ==
    /\ phase = "idle" /\ opened /\ dev_running /\ phase' = "wait"
    /\ UNCHANGED <<vars, device, kernelvars, diff, args, diff_failed, request,
                   dcr_step, calls, requests, faulty, faulted, ended>>

\* gpu_model_fault(execution_model), after the edge.
\* Mutant: only the mismatches count.
RtlFaultDiffOnly == diff_failed'
RtlFault == GpuFault' \/ diff_failed'

WaitReturn(r) ==
    /\ phase' = "idle" /\ dev_running' = FALSE
    /\ release_launch_args
    /\ ended' = [ended EXCEPT ![launches] = r]

Completed == ~RtlFault /\ ~Busy'

\* One turn of the loop of gpu_rtl_wait, and what gpu_wait makes of its end.
WaitTick ==
    /\ phase = "wait"
    /\ Tick({}, FALSE)
    /\ \/ /\ RtlFault /\ WaitReturn("backend") /\ reference' = FALSE
       \/ /\ Completed
          /\ \/ ~(difftest /\ reference_fault) /\ WaitReturn("success")
             \/ difftest /\ (reference_fault \/ MayMismatch) /\ WaitReturn("backend")
          /\ reference' = FALSE
       \/ /\ ~RtlFault /\ Busy'
          /\ UNCHANGED <<phase, dev_running, args, ended, reference>>
    /\ UNCHANGED <<difftest, opened, kernel_generation, kernels, kernelvars, reference_fault,
                   pmem_ref, request, dcr_step, calls, requests, faulty>>

\* The last turn that GPU_WAIT_LIMIT allows, with the device still busy.
WaitTimeout ==
    /\ phase = "wait" /\ MayTimeout
    /\ Tick({}, FALSE)
    /\ ~RtlFault /\ Busy' /\ WaitReturn("timeout") /\ reference' = FALSE
    /\ UNCHANGED <<difftest, opened, kernel_generation, kernels, kernelvars, reference_fault,
                   pmem_ref, request, dcr_step, calls, requests, faulty>>

LaunchStep == configure_model \/ ReferenceRun \/ ReferenceFail \/ LaunchPulse \/ LaunchSettle

HostNext ==
    \/ gpu_device_open \/ gpu_device_close \/ gpu_kernel_load_memory
    \/ \E k \in kernels, r \in Requests, f \in {FALSE, MayFault} : gpu_launch(k, r, f)
    \/ LaunchStep
    \/ gpu_wait \/ WaitTick \/ WaitTimeout

HostSpec == HostInit /\ [][HostNext]_hvars

\* A call of the host runs on, and a resident CTA ends; nothing relies on the
\* limit of gpu_wait.
WaitEnds(c) == core_active[c] /\ WaitTick /\ ~core_active'[c]
HostFairSpec == HostSpec /\ WF_hvars(LaunchStep) /\ WF_hvars(WaitTick)
                         /\ \A c \in Cores : WF_hvars(WaitEnds(c))

(***************************************************************************)
(* Properties.                                                             *)
(***************************************************************************)

\* gpu_wait returns success only if every block of the grid that was asked for
\* in this launch has run to its end, whatever became of the launches before
\* it, and no core holds a CTA any more.
SuccessMeansComplete ==
    launches > 0 /\ ended[launches] = "success" =>
        /\ ServedBlocks = Blocks(requests[launches].grid)
        /\ Len(served) = Cardinality(ServedBlocks) /\ retired = DOMAIN served
        /\ Ready = Cores

\* A fault is never lost: a launch with a CTA that faulted does not return
\* success, although a core clears its fault flag when it takes its next CTA.
NoSilentFault == \A n \in Launches : ended[n] = "success" => n \notin faulted

\* No launch has failed: after one the device may still run it.
Clean == \A n \in Launches : ended[n] \in {"none", "success"}

\* What runs is what the host asked for last.  A handle from before the last
\* load is refused; and while no launch has failed, the CTA offered to a core is
\* one of the launch the host waits for, with its arguments and geometry and a
\* block that fits, and the argument scratch of a resident CTA is allocated
\* (gpu_wait releases it after the last CTA has ended).
RunsAsAsked ==
    /\ \A k \in kernels : Launchable(k) => k.image = image
    /\ Clean /\ cta_fire => /\ payload = launches
                            /\ grid_dim = requests[launches].grid
                            /\ block_size = requests[launches].block /\ block_size <= BlockLimit
    /\ Clean => \A c \in Cores : core_active[c] /\ requests[core_cta[c].launch].args
                                    => core_cta[c].launch \in scratch

\* Nothing is kept when the device is not running: every way out of gpu_launch
\* and gpu_wait releases the argument scratch and the reference image.
NothingLeaks == phase = "idle" /\ ~dev_running => scratch = {} /\ ~reference

\* Every call of gpu_launch and gpu_wait returns, also without its limit.
CallsReturn == phase # "idle" ~> phase = "idle"

(***************************************************************************)
(* The inductive invariant behind the safety properties (RuntimeProofs).   *)
(***************************************************************************)

HostTypeOK ==
    /\ TypeOK
    /\ difftest \in BOOLEAN /\ opened \in BOOLEAN /\ dev_running \in BOOLEAN
    /\ reference \in BOOLEAN /\ reference_fault \in BOOLEAN /\ pmem_ref \in BOOLEAN
    /\ diff_failed \in BOOLEAN
    /\ kernels \subseteq [generation : Nat, image : Nat]
    /\ kernel_generation \in Nat /\ image \in Nat /\ loads \in Nat /\ calls \in Nat
    /\ launch_args \in Nat /\ scratch \subseteq Nat
    /\ phase \in Phases /\ dcr_step \in DcrSteps
    /\ request \in [req : Requests \cup {NoRequest}, faulty : BOOLEAN]
    /\ requests \in [Launches -> Requests \cup {NoRequest}]
    /\ faulty \subseteq Nat /\ faulted \subseteq Nat
    /\ ended \in [Launches -> {"none", "success", "backend", "timeout"}]

\* The host is in gpu_launch, before the launch pulse.
Preparing == phase \in {"configure", "reference", "pulse"}
\* The last launch has been pulsed and gpu_wait has not returned for it.
InFlight == phase \in {"settle", "wait"} \/ dev_running
\* gpu_wait has returned success for the last launch.
Succeeded == launches > 0 /\ ended[launches] = "success"

\* Where a call can be, and which launches have a result.
CallInv ==
    /\ dev_running => opened /\ phase \in {"idle", "wait"}
    /\ phase = "wait" => dev_running
    /\ phase # "idle" => opened
    /\ launches <= calls /\ calls <= MaxLaunches
    /\ Preparing => launches < calls
    /\ InFlight => launches > 0
    /\ \A n \in Launches : n > launches \/ (n = launches /\ InFlight) => ended[n] = "none"

\* The latest handle names the image.
KernelInv == \A k \in kernels : /\ k.generation <= kernel_generation
                                /\ k.generation = kernel_generation => k.image = image

\* The scratch belongs to the launch that is prepared or in flight.
ScratchInv ==
    /\ scratch = IF launch_args = 0 THEN {} ELSE {launch_args}
    /\ phase = "idle" /\ ~dev_running => launch_args = 0
    /\ Preparing /\ request.req.args => launch_args = Launching
    /\ InFlight /\ requests[launches].args => launch_args = launches
    /\ reference => phase = "pulse" \/ InFlight

\* What the registers hold while they are written, and from then on.
ConfigInv ==
    /\ Preparing => request.req \in Requests /\ ValidGeometry(request.req)
    /\ Preparing /\ (phase # "configure" \/ dcr_step > 1) => payload = Launching
    /\ Preparing /\ (phase # "configure" \/ dcr_step > 7) => grid_dim.x = request.req.grid.x
    /\ Preparing /\ (phase # "configure" \/ dcr_step > 8) => grid_dim.y = request.req.grid.y
    /\ Preparing /\ (phase # "configure" \/ dcr_step > 9) => grid_dim.z = request.req.grid.z
    /\ Preparing /\ phase # "configure" => block_size = request.req.block
    /\ InFlight => /\ payload = launches /\ grid_dim = requests[launches].grid
                   /\ block_size = requests[launches].block
                   /\ ValidGeometry(requests[launches])

\* The walk of a launch in flight is intact, and so is what a launch that
\* succeeded has left; after a failure the next launch may disturb it.
LaunchInv ==
    /\ InFlight \/ Succeeded => /\ launched /\ launch_grid = requests[launches].grid
                                /\ WalkInv /\ DispatchOrder /\ DispatchExact
    /\ Succeeded => ~Busy

\* A resident CTA may be one of an earlier launch, which failed.
CtaInv ==
    /\ retired \subseteq DOMAIN served
    /\ \A c \in Cores : core_active[c] =>
          /\ core_cta[c].launch <= launches
          /\ core_cta[c].launch = launches => core_cta[c].pos \in DOMAIN served
    /\ \A i \in DOMAIN served \ retired :
          \E c \in Cores : core_active[c] /\ core_cta[c] = [launch |-> launches, pos |-> i]

\* The first CTA of a launch cannot be resident before gpu_wait; there one that
\* faults ends the wait at that edge; and no CTA of a launch that succeeded is
\* left to fault.
FaultInv ==
    /\ \A n \in faulted : n <= launches
    /\ phase = "settle" =>
          \A c \in Cores : core_active[c] => core_cta[c].launch < launches
    /\ InFlight => launches \notin faulted
    /\ \A n \in Launches : ended[n] = "success" =>
          /\ n \notin faulted
          /\ \A c \in Cores : core_active[c] => core_cta[c].launch # n

\* While no launch has failed, only the launch in flight is on the device.
CleanInv ==
    Clean => /\ Busy => InFlight
             /\ \A c \in Cores : core_active[c] => core_cta[c].launch = launches

HostInv == /\ HostTypeOK /\ CallInv /\ KernelInv /\ ScratchInv /\ ConfigInv
           /\ LaunchInv /\ CtaInv /\ FaultInv /\ CleanInv
=============================================================================
