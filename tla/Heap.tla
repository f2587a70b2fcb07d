-------------------------------- MODULE Heap --------------------------------
(***************************************************************************)
(* The device heap of the runtime (sw/runtime/gpu/gpu.c): gpu_mem_alloc,   *)
(* gpu_mem_free and the range checks of gpu_mem_write and gpu_mem_read.    *)
(* The table of allocations has MaxAllocs entries; an allocation scans the *)
(* heap upwards from its base and takes the first aligned gap.  All        *)
(* arithmetic is unsigned and wraps at Modulus (2^32).  The scan is one    *)
(* step per move of the candidate, so that its termination can be stated.  *)
(* A byte of the PMEM is only told apart from zero.                        *)
(***************************************************************************)
EXTENDS Integers

CONSTANTS Modulus,     \* UINT32_MAX + 1
          Align,       \* GPU_ALIGN
          HeapBase,    \* GPU_HEAP_BASE
          HeapEnd,     \* CONFIG_MBASE + CONFIG_MSIZE
          MaxAllocs,   \* GPU_MAX_ALLOCS
          Sizes        \* sizes the host asks for

ASSUME ParameterAssumption ==
    /\ Modulus \in Nat /\ Align \in Nat \ {0} /\ MaxAllocs \in Nat
    /\ HeapBase \in Nat /\ HeapEnd \in Nat
    /\ HeapBase <= HeapEnd /\ HeapEnd + Align <= Modulus
ASSUME SizeAssumption == Sizes \subseteq Nat
ASSUME BaseAssumption == HeapBase % Align = 0

Slots == 0 .. (MaxAllocs - 1)
Addresses == 0 .. (Modulus - 1)
Block == [address : Addresses, size : Addresses, used : BOOLEAN]
Results == {"none", "success", "invalid_argument", "out_of_memory"}

VARIABLES allocations,                       \* device->allocations
          scanning, slot, aligned_size, candidate,   \* locals of gpu_mem_alloc
          pmem,      \* the bytes of the heap that are not zero
          result,    \* of the last call
          written    \* history: per slot, bytes written since its allocation

locals == <<slot, aligned_size, candidate>>
vars == <<allocations, scanning, locals, pmem, result, written>>

Add(a, b) == (a + b) % Modulus

align_up(v) == Add(v, Align - 1) - (Add(v, Align - 1) % Align)

Used == {s \in Slots : allocations[s].used}
Range(a, n) == a .. (a + n - 1)
BlockRange(s) == Range(allocations[s].address, allocations[s].size)

\* range_inside and the loop of allocation_contains.
\* Mutant: the size is not subtracted from the room of the block.
allocation_contains_no_size(a, n) ==
    /\ n # 0 /\ a >= HeapBase /\ a < HeapEnd /\ n < Modulus /\ n <= HeapEnd - a
    /\ \E s \in Used : /\ a >= allocations[s].address
                       /\ n <= allocations[s].size
                       /\ a - allocations[s].address <= allocations[s].size

allocation_contains(a, n) ==
    /\ n # 0 /\ a >= HeapBase /\ a < HeapEnd /\ n < Modulus /\ n <= HeapEnd - a
    /\ \E s \in Used : /\ a >= allocations[s].address
                       /\ n <= allocations[s].size
                       /\ a - allocations[s].address <= allocations[s].size - n

Init ==
    /\ allocations = [s \in Slots |-> [address |-> 0, size |-> 0, used |-> FALSE]]
    /\ scanning = FALSE /\ slot = 0 /\ aligned_size = 0 /\ candidate = 0
    /\ pmem = {} /\ result = "none" /\ written = [s \in Slots |-> {}]

(***************************************************************************)
(* gpu_mem_alloc.                                                          *)
(***************************************************************************)

AllocRefuse(size) ==
    /\ ~scanning
    /\ \/ (size = 0 \/ size >= Modulus) /\ result' = "invalid_argument"
       \/ /\ size \in 1 .. (Modulus - 1)
          /\ align_up(size) < size \/ Used = Slots
          /\ result' = "out_of_memory"
    /\ UNCHANGED <<allocations, scanning, locals, pmem, written>>

AllocStart(size) ==
    /\ ~scanning /\ size \in 1 .. (Modulus - 1) /\ align_up(size) >= size
    /\ \E s \in Slots \ Used : /\ \A r \in Slots \ Used : s <= r
                               /\ slot' = s
    /\ scanning' = TRUE
    /\ aligned_size' = align_up(size) /\ candidate' = HeapBase
    /\ UNCHANGED <<allocations, pmem, result, written>>

EndOf(s) == Add(allocations[s].address, allocations[s].size)

\* Mutant of Overlaps: only the start of the candidate is looked at.
OverlapsStart(s) ==
    s \in Used /\ candidate < EndOf(s) /\ candidate >= allocations[s].address

Overlaps(s) ==
    s \in Used /\ candidate < EndOf(s)
               /\ Add(candidate, aligned_size) > allocations[s].address

\* Mutant of ScanMove: the candidate moves to the start of the block.
ScanMoveStart ==
    /\ scanning /\ candidate < HeapEnd
    /\ \E s \in Slots : /\ Overlaps(s) /\ \A r \in Slots : r < s => ~Overlaps(r)
                        /\ candidate' = align_up(allocations[s].address)
    /\ UNCHANGED <<allocations, scanning, slot, aligned_size, pmem, result, written>>

\* Mutant of ScanMove: off by one, the unit behind the block is skipped.
ScanMoveTooFar ==
    /\ scanning /\ candidate < HeapEnd
    /\ \E s \in Slots : /\ Overlaps(s) /\ \A r \in Slots : r < s => ~Overlaps(r)
                        /\ candidate' = align_up(Add(EndOf(s), 1))
    /\ UNCHANGED <<allocations, scanning, slot, aligned_size, pmem, result, written>>

\* The candidate moves behind the first block of the table it overlaps.
ScanMove ==
    /\ scanning /\ candidate < HeapEnd
    /\ \E s \in Slots : /\ Overlaps(s) /\ \A r \in Slots : r < s => ~Overlaps(r)
                        /\ candidate' = align_up(EndOf(s))
    /\ UNCHANGED <<allocations, scanning, slot, aligned_size, pmem, result, written>>

ScanDone == scanning /\ (candidate >= HeapEnd \/ \A s \in Slots : ~Overlaps(s))
Fits == candidate < HeapEnd /\ aligned_size <= HeapEnd - candidate

\* The locals go out of scope.
Return(r) == /\ result' = r /\ scanning' = FALSE
             /\ slot' = 0 /\ aligned_size' = 0 /\ candidate' = 0

\* Mutant of ScanPlace: the memory is not cleared.
ScanPlaceDirty ==
    /\ ScanDone /\ Fits
    /\ allocations' = [allocations EXCEPT ![slot] =
                         [address |-> candidate, size |-> aligned_size, used |-> TRUE]]
    /\ written' = [written EXCEPT ![slot] = {}]
    /\ Return("success")
    /\ UNCHANGED pmem

ScanPlace ==
    /\ ScanDone /\ Fits
    /\ allocations' = [allocations EXCEPT ![slot] =
                         [address |-> candidate, size |-> aligned_size, used |-> TRUE]]
    /\ pmem' = pmem \ Range(candidate, aligned_size)
    /\ written' = [written EXCEPT ![slot] = {}]
    /\ Return("success")

ScanFail ==
    /\ ScanDone /\ ~Fits
    /\ Return("out_of_memory")
    /\ UNCHANGED <<allocations, pmem, written>>

(***************************************************************************)
(* gpu_mem_free and gpu_mem_write.                                         *)
(***************************************************************************)

Free(a) ==
    /\ ~scanning
    /\ \/ \E s \in Used :
            /\ allocations[s].address = a
            /\ \A r \in Used : allocations[r].address = a => s <= r
            /\ allocations' = [allocations EXCEPT ![s].used = FALSE]
            /\ written' = [written EXCEPT ![s] = {}]
            /\ result' = "success"
       \/ /\ \A s \in Used : allocations[s].address # a
          /\ result' = "invalid_argument"
          /\ UNCHANGED <<allocations, written>>
    /\ UNCHANGED <<scanning, locals, pmem>>

\* n bytes, not zero, to the block that holds the first of them.
Write(a, n) ==
    /\ ~scanning
    /\ \/ /\ allocation_contains(a, n)
          /\ pmem' = pmem \cup Range(a, n)
          /\ written' = [s \in Slots |-> IF s \in Used /\ a \in BlockRange(s)
                                         THEN written[s] \cup Range(a, n) ELSE written[s]]
          /\ result' = "success"
       \/ /\ ~allocation_contains(a, n)
          /\ result' = "invalid_argument" /\ UNCHANGED <<pmem, written>>
    /\ UNCHANGED <<allocations, scanning, locals>>

Scan == ScanMove \/ ScanPlace \/ ScanFail

Next == \/ \E size \in Sizes : AllocRefuse(size) \/ AllocStart(size)
        \/ Scan
        \/ \E a \in Addresses : Free(a)
        \/ \E a \in Addresses, n \in Sizes : Write(a, n)

Spec == Init /\ [][Next]_vars

\* The loop of gpu_mem_alloc runs until it returns.
FairSpec == Spec /\ WF_vars(Scan)

(***************************************************************************)
(* Properties.                                                             *)
(***************************************************************************)

TypeOK ==
    /\ allocations \in [Slots -> Block]
    /\ scanning \in BOOLEAN /\ result \in Results
    /\ scanning => slot \in Slots
    /\ slot \in Nat /\ aligned_size \in Addresses /\ candidate \in Addresses
    /\ pmem \in SUBSET Addresses /\ written \in [Slots -> SUBSET Addresses]

\* The live blocks lie inside the heap and no byte belongs to two of them, in
\* spite of the 32-bit additions of the overlap test (gpu.c:290-300).
BlocksDisjoint ==
    /\ \A s \in Used : /\ allocations[s].address >= HeapBase /\ allocations[s].size > 0
                       /\ allocations[s].address + allocations[s].size <= HeapEnd
    /\ \A r, s \in Used : r # s =>
         \/ allocations[r].address + allocations[r].size <= allocations[s].address
         \/ allocations[s].address + allocations[s].size <= allocations[r].address

\* An access is let through exactly when all its bytes lie in one live block:
\* no wrap of address plus size opens or closes the check (gpu.c:60-63,85-95).
AccessExact ==
    \A a \in Addresses : \A n \in Sizes :
        allocation_contains(a, n)
            <=> n > 0 /\ \E s \in Used : Range(a, n) \subseteq BlockRange(s)

\* A block shows zeros and what its owner wrote: nothing of the block that
\* occupied the memory before, and nothing written to a neighbour (gpu.c:305).
NoForeignData ==
    \A s \in Used : pmem \cap BlockRange(s) \subseteq written[s]

\* What the scan keeps (HeapProofs).
ScanInv == scanning => aligned_size > 0 /\ candidate >= HeapBase

\* Whether n bytes at a lie in the heap and in no live block.
FreeAt(a, n) == /\ a >= HeapBase /\ a + n <= HeapEnd
                /\ \A s \in Used : Range(a, n) \cap BlockRange(s) = {}
Gaps(n) == {a \in Addresses : a % Align = 0 /\ FreeAt(a, n)}

\* An allocation takes the lowest aligned gap that is large enough, and fails
\* only if there is none: jumping over blocks in table order, whatever that
\* order is, skips no gap (gpu.c:284-299; tests/sizes expects a freed block to
\* be reused).
FirstFit ==
    [][scanning /\ ~scanning' =>
         \/ /\ result' = "out_of_memory" /\ Gaps(aligned_size) = {}
         \/ /\ result' = "success" /\ candidate \in Gaps(aligned_size)
            /\ \A a \in Gaps(aligned_size) : candidate <= a]_vars

\* What the moves of the candidate keep: no aligned gap that is large enough lies
\* below it (HeapProofs).
FirstInv == scanning => /\ candidate % Align = 0
                        /\ \A a \in Gaps(aligned_size) : candidate <= a

\* The loop of gpu_mem_alloc gets on: every turn starts below the end of the
\* heap and raises the candidate, which no 32-bit sum wraps back, so that there
\* are at most HeapEnd - HeapBase turns (gpu.c:284-299; HeapProofs).
ScanAdvances ==
    [][scanning /\ scanning' => candidate < HeapEnd /\ candidate' > candidate]_vars

\* gpu_mem_alloc returns.
AllocReturns == scanning ~> ~scanning
=============================================================================
