----------------------------- MODULE HeapProofs -----------------------------
(***************************************************************************)
(* Proofs about Heap, for every size of the address space, of the heap and *)
(* of the table of allocations, and every sequence of requests.            *)
(***************************************************************************)
EXTENDS Heap, TLAPS

(***************************************************************************)
(* Unsigned arithmetic.                                                    *)
(***************************************************************************)

LEMMA ModBounds ==
  ASSUME NEW x \in Nat, NEW m \in Nat \ {0}
  PROVE  x % m \in 0 .. (m - 1)
OBVIOUS

LEMMA ModBelow ==
  ASSUME NEW x \in Nat, NEW m \in Nat \ {0}
  PROVE  x % m <= x
<1>1. CASE x < m
  <2>1. x % m = x
    BY <1>1, SMT
  <2> QED
    BY <2>1
<1>2. CASE x >= m
  BY <1>2, ModBounds
<1> QED
  BY <1>1, <1>2

LEMMA ModSame ==
  ASSUME NEW m \in Nat \ {0}, NEW x \in 0 .. (m - 1)
  PROVE  x % m = x
OBVIOUS

LEMMA WordFacts ==
  /\ Modulus \in Nat \ {0}
  /\ \A a, b \in Nat : Add(a, b) \in Addresses
  /\ \A a, b \in Nat : a + b < Modulus => Add(a, b) = a + b
  /\ \A v \in Nat : align_up(v) \in Addresses
  /\ \A v \in Nat : v <= HeapEnd => align_up(v) >= v
<1>1. Modulus \in Nat \ {0} /\ Align - 1 \in Nat
  BY ParameterAssumption
<1>2. \A a, b \in Nat : Add(a, b) \in Addresses
  BY <1>1, ModBounds DEF Add, Addresses
<1>3. \A a, b \in Nat : a + b < Modulus => Add(a, b) = a + b
  BY <1>1, ModSame DEF Add
<1>4. ASSUME NEW v \in Nat
      PROVE  align_up(v) \in Addresses
  <2>1. PICK x \in Addresses : x = Add(v, Align - 1)
    BY <1>1, <1>2
  <2>2. x \in Nat /\ x < Modulus
    BY <1>1 DEF Addresses
  <2>3. x % Align \in 0 .. (Align - 1) /\ x % Align <= x
    BY <2>2, ModBounds, ModBelow, ParameterAssumption
  <2>4. x - (x % Align) \in 0 .. (Modulus - 1)
    BY <1>1, <2>2, <2>3
  <2> QED
    BY <2>1, <2>4 DEF align_up, Addresses
<1>5. ASSUME NEW v \in Nat, v <= HeapEnd
      PROVE  align_up(v) >= v
  <2>1. PICK x \in Nat : x = v + (Align - 1)
    BY <1>1
  <2>2. Add(v, Align - 1) = x
    BY <1>1, <1>3, <1>5, <2>1, ParameterAssumption
  <2>3. x % Align \in 0 .. (Align - 1)
    BY ModBounds, ParameterAssumption
  <2>4. x - (x % Align) >= v
    BY <2>1, <2>3, ParameterAssumption
  <2> QED
    BY <2>2, <2>4 DEF align_up
<1> QED
  BY <1>1, <1>2, <1>3, <1>4, <1>5
(***************************************************************************)
(* Types.                                                                  *)
(***************************************************************************)

LEMMA TypeStep ==
  ASSUME TypeOK, Next
  PROVE  TypeOK'
<1> USE DEF TypeOK, locals
<1>0. Slots \subseteq Nat /\ Addresses \subseteq Nat /\ Modulus \in Nat \ {0}
      /\ 0 \in Addresses /\ HeapBase \in Addresses /\ 0 \in Nat
  BY ParameterAssumption, WordFacts DEF Slots, Addresses
<1>1. ASSUME NEW size \in Sizes, AllocRefuse(size)
      PROVE  TypeOK'
  BY <1>1 DEF AllocRefuse, Results
<1>2. ASSUME NEW size \in Sizes, AllocStart(size)
      PROVE  TypeOK'
  <2>1. align_up(size) \in Addresses
    BY WordFacts, SizeAssumption
  <2> QED
    BY <1>0, <1>2, <2>1 DEF AllocStart
<1>3. CASE ScanMove
  <2>1. \A s \in Slots : align_up(EndOf(s)) \in Addresses
    <3> TAKE s \in Slots
    <3>1. allocations[s].address \in Nat /\ allocations[s].size \in Nat
      BY <1>0 DEF Block
    <3> QED
      BY <1>0, <3>1, WordFacts DEF EndOf
  <2> QED
    BY <1>3, <2>1 DEF ScanMove
<1>4. CASE ScanPlace
  <2>1. [address |-> candidate, size |-> aligned_size, used |-> TRUE] \in Block
    BY DEF Block
  <2>2. slot \in Slots
    BY <1>4 DEF ScanPlace, ScanDone
  <2> QED
    BY <1>0, <1>4, <2>1, <2>2 DEF ScanPlace, Return, Results
<1>5. CASE ScanFail
  BY <1>0, <1>5 DEF ScanFail, Return, Results
<1>6. ASSUME NEW a \in Addresses, Free(a)
      PROVE  TypeOK'
  <2>1. CASE UNCHANGED <<allocations, written>>
    BY <1>6, <2>1 DEF Free, Results
  <2>2. ASSUME NEW s \in Used, allocations' = [allocations EXCEPT ![s].used = FALSE],
               written' = [written EXCEPT ![s] = {}]
        PROVE  TypeOK'
    <3>1. s \in Slots
      BY DEF Used
    <3>2. [allocations[s] EXCEPT !.used = FALSE] \in Block
      BY <3>1 DEF Block
    <3>3. allocations' \in [Slots -> Block]
      BY <2>2, <3>1, <3>2
    <3>4. written' \in [Slots -> SUBSET Addresses]
      BY <2>2, <3>1
    <3> QED
      BY <1>6, <3>3, <3>4 DEF Free, Results
  <2> QED
    BY <1>6, <2>1, <2>2 DEF Free
<1>7. ASSUME NEW a \in Addresses, NEW n \in Sizes, Write(a, n)
      PROVE  TypeOK'
  <2>1. CASE allocation_contains(a, n)
    <3>1. Range(a, n) \in SUBSET Addresses
      <4>1. a \in Nat /\ n \in Nat /\ n <= HeapEnd - a
        BY <1>0, <2>1, SizeAssumption DEF allocation_contains
      <4> QED
        BY <4>1, ParameterAssumption DEF Range, Addresses
    <3>2. pmem' \in SUBSET Addresses
      BY <1>7, <2>1, <3>1 DEF Write
    <3>3. written' \in [Slots -> SUBSET Addresses]
      BY <1>7, <2>1, <3>1 DEF Write
    <3> QED
      BY <1>7, <3>2, <3>3 DEF Write, Results
  <2>2. CASE ~allocation_contains(a, n)
    BY <1>7, <2>2 DEF Write, Results
  <2> QED
    BY <2>1, <2>2
<1> QED
  BY <1>1, <1>2, <1>3, <1>4, <1>5, <1>6, <1>7 DEF Next, Scan

\* The table, the locals of the scan and the PMEM keep their types; no address
\* or size leaves the 32-bit words.
THEOREM TypeCorrect == Spec => []TypeOK
<1>1. Init => TypeOK
  <2> SUFFICES ASSUME Init PROVE TypeOK
    OBVIOUS
  <2>1. 0 \in Addresses
    BY WordFacts DEF Addresses
  <2>2. [address |-> 0, size |-> 0, used |-> FALSE] \in Block
    BY <2>1 DEF Block
  <2> QED
    BY <2>1, <2>2 DEF Init, TypeOK, Results
<1>2. TypeOK /\ [Next]_vars => TypeOK'
  <2> SUFFICES ASSUME TypeOK, [Next]_vars PROVE TypeOK'
    OBVIOUS
  <2>1. CASE Next
    BY <2>1, TypeStep
  <2>2. CASE UNCHANGED vars
    BY <2>2 DEF TypeOK, vars, locals
  <2> QED
    BY <2>1, <2>2
<1> QED
  BY <1>1, <1>2, PTL DEF Spec
(***************************************************************************)
(* The blocks.                                                             *)
(***************************************************************************)

Addr(s) == allocations[s].address
Size(s) == allocations[s].size
Apart(a, n, b, m) == a + n <= b \/ b + m <= a

\* BlocksDisjoint in terms of Apart.
LEMMA DisjointByApart ==
  BlocksDisjoint <=>
    /\ \A s \in Used : Addr(s) >= HeapBase /\ Size(s) > 0 /\ Addr(s) + Size(s) <= HeapEnd
    /\ \A r, s \in Used : r # s => Apart(Addr(r), Size(r), Addr(s), Size(s))
BY DEF BlocksDisjoint, Apart, Addr, Size

LEMMA BlockTypes ==
  ASSUME TypeOK, BlocksDisjoint, NEW s \in Used
  PROVE  /\ s \in Slots /\ Addr(s) \in Nat /\ Size(s) \in Nat
         /\ EndOf(s) = Addr(s) + Size(s)
<1>1. s \in Slots
  BY DEF Used
<1>2. allocations[s].address \in Nat /\ allocations[s].size \in Nat
  <2>1. allocations[s] \in Block
    BY <1>1 DEF TypeOK
  <2>2. allocations[s].address \in Addresses /\ allocations[s].size \in Addresses
    BY <2>1 DEF Block
  <2> QED
    BY <2>2 DEF Addresses
<1>3. allocations[s].address + allocations[s].size < Modulus
  <2>1. allocations[s].address + allocations[s].size <= HeapEnd
    BY DEF BlocksDisjoint
  <2> QED
    BY <1>2, <2>1, ParameterAssumption
<1> QED
  BY <1>1, <1>2, <1>3, WordFacts DEF EndOf, Addr, Size

\* Where the scan stops, if the request fits, no live block is in the way: the
\* wrapped additions of the overlap test are exact there.
LEMMA PlaceIsFree ==
  ASSUME TypeOK, BlocksDisjoint, ScanInv, ScanDone, Fits
  PROVE  /\ candidate \in Nat /\ aligned_size \in Nat /\ aligned_size > 0
         /\ candidate >= HeapBase /\ candidate + aligned_size <= HeapEnd
         /\ \A s \in Used : Apart(Addr(s), Size(s), candidate, aligned_size)
<1>1. candidate \in Nat /\ aligned_size \in Nat
  BY WordFacts DEF TypeOK, Addresses
<1>2. aligned_size > 0 /\ candidate >= HeapBase /\ candidate + aligned_size <= HeapEnd
  BY <1>1, ParameterAssumption DEF ScanInv, ScanDone, Fits
<1>3. Add(candidate, aligned_size) = candidate + aligned_size
  BY <1>1, <1>2, WordFacts, ParameterAssumption
<1>4. ASSUME NEW s \in Used
      PROVE  Apart(Addr(s), Size(s), candidate, aligned_size)
  <2>1. s \in Slots /\ Addr(s) \in Nat /\ Size(s) \in Nat /\ EndOf(s) = Addr(s) + Size(s)
    BY BlockTypes
  <2>2. ~Overlaps(s)
    <3>1. ~(candidate >= HeapEnd)
      BY <1>1, ParameterAssumption DEF Fits
    <3> QED
      BY <2>1, <3>1, Zenon DEF ScanDone
  <2>3. ~(candidate < Addr(s) + Size(s) /\ candidate + aligned_size > Addr(s))
    BY <1>3, <2>1, <2>2 DEF Overlaps, Addr
  <2> QED
    BY <1>1, <2>1, <2>3 DEF Apart
<1> QED
  BY <1>1, <1>2, <1>4

LEMMA PlaceDisjoint ==
  ASSUME TypeOK, BlocksDisjoint, ScanInv, ScanPlace
  PROVE  BlocksDisjoint'
<1>1. PICK c : c = candidate
  OBVIOUS
<1>2. PICK n : n = aligned_size
  OBVIOUS
<1>3. PICK k \in Slots : k = slot
  BY DEF TypeOK, ScanPlace, ScanDone
<1>4. /\ c \in Nat /\ n \in Nat /\ n > 0 /\ c >= HeapBase /\ c + n <= HeapEnd
      /\ \A s \in Used : Apart(Addr(s), Size(s), c, n)
  BY <1>1, <1>2, PlaceIsFree DEF ScanPlace
<1>5. allocations' = [allocations EXCEPT
                        ![k] = [address |-> c, size |-> n, used |-> TRUE]]
  BY <1>1, <1>2, <1>3 DEF ScanPlace
<1>6. Addr(k)' = c /\ Size(k)' = n
  BY <1>5 DEF TypeOK, Addr, Size
<1>7. \A s \in Used' : s # k => s \in Used /\ Addr(s)' = Addr(s) /\ Size(s)' = Size(s)
  BY <1>5 DEF TypeOK, Used, Addr, Size
<1>8. \A s \in Used : Addr(s) \in Nat /\ Size(s) \in Nat
  BY BlockTypes
<1>9. \A s \in Used' : /\ Addr(s)' >= HeapBase /\ Size(s)' > 0
                       /\ Addr(s)' + Size(s)' <= HeapEnd
  BY <1>4, <1>6, <1>7, DisjointByApart
<1>10. \A r, s \in Used' : r # s => Apart(Addr(r)', Size(r)', Addr(s)', Size(s)')
  <2> SUFFICES ASSUME NEW r \in Used', NEW s \in Used', r # s
               PROVE  Apart(Addr(r)', Size(r)', Addr(s)', Size(s)')
    OBVIOUS
  <2>1. CASE r # k /\ s # k
    BY <1>7, <2>1, DisjointByApart
  <2>2. CASE s = k
    BY <1>4, <1>6, <1>7, <2>2
  <2>3. CASE r = k
    BY <1>4, <1>6, <1>7, <2>3 DEF Apart
  <2> QED
    BY <2>1, <2>2, <2>3
<1> QED
  BY <1>9, <1>10 DEF BlocksDisjoint, Apart, Addr, Size

LEMMA FreeDisjoint ==
  ASSUME TypeOK, BlocksDisjoint, NEW a \in Addresses, Free(a)
  PROVE  BlocksDisjoint'
<1>1. \A s \in Used' : s \in Used /\ Addr(s)' = Addr(s) /\ Size(s)' = Size(s)
  <2>1. CASE allocations' = allocations
    BY <2>1 DEF Used, Addr, Size
  <2>2. ASSUME NEW r \in Used, allocations' = [allocations EXCEPT ![r].used = FALSE]
        PROVE  \A s \in Used' : s \in Used /\ Addr(s)' = Addr(s) /\ Size(s)' = Size(s)
    <3>1. r \in Slots /\ allocations[r] \in Block
      BY DEF Used, TypeOK
    <3>2. allocations'[r].used = FALSE
      BY <2>2, <3>1 DEF TypeOK, Block
    <3>3. \A s \in Slots : s # r => allocations'[s] = allocations[s]
      BY <2>2 DEF TypeOK
    <3> QED
      BY <3>2, <3>3 DEF Used, Addr, Size
  <2> QED
    BY <2>1, <2>2 DEF Free
<1> QED
  BY <1>1 DEF BlocksDisjoint, Addr, Size

LEMMA BlocksKept ==
  ASSUME BlocksDisjoint, allocations' = allocations
  PROVE  BlocksDisjoint'
BY DEF BlocksDisjoint, Used

LEMMA ScanStep ==
  ASSUME TypeOK, BlocksDisjoint, ScanInv, Next
  PROVE  ScanInv'
<1> USE DEF ScanInv
<1>1. ASSUME NEW size \in Sizes, AllocRefuse(size)
      PROVE  ScanInv'
  BY <1>1 DEF AllocRefuse
<1>2. ASSUME NEW size \in Sizes, AllocStart(size)
      PROVE  ScanInv'
  <2>1. size \in Nat /\ align_up(size) \in Nat
    BY SizeAssumption, WordFacts DEF Addresses
  <2> QED
    BY <1>2, <2>1, ParameterAssumption DEF AllocStart
<1>3. CASE ScanMove
  <2>1. PICK s \in Slots : Overlaps(s) /\ candidate' = align_up(EndOf(s))
    BY <1>3 DEF ScanMove
  <2>2. s \in Used
    BY <2>1 DEF Overlaps
  <2>3. PICK e \in Nat : e = EndOf(s) /\ e = Addr(s) + Size(s)
    BY <2>2, BlockTypes
  <2>4. e >= HeapBase /\ e <= HeapEnd
    BY <2>2, <2>3, BlockTypes, DisjointByApart, ParameterAssumption
  <2>5. align_up(e) >= e /\ align_up(e) \in Nat
    BY <2>4, WordFacts DEF Addresses
  <2> QED
    BY <1>3, <2>1, <2>3, <2>4, <2>5, ParameterAssumption DEF ScanMove
<1>4. CASE ScanPlace \/ ScanFail
  BY <1>4 DEF ScanPlace, ScanFail, Return
<1>5. ASSUME NEW a \in Addresses, Free(a)
      PROVE  ScanInv'
  BY <1>5 DEF Free
<1>6. ASSUME NEW a \in Addresses, NEW n \in Sizes, Write(a, n)
      PROVE  ScanInv'
  BY <1>6 DEF Write
<1> QED
  BY <1>1, <1>2, <1>3, <1>4, <1>5, <1>6 DEF Next, Scan

LEMMA BlocksStep ==
  ASSUME TypeOK, BlocksDisjoint, ScanInv, Next
  PROVE  BlocksDisjoint'
<1>1. ASSUME NEW size \in Sizes, AllocRefuse(size) \/ AllocStart(size)
      PROVE  BlocksDisjoint'
  BY <1>1, BlocksKept DEF AllocRefuse, AllocStart
<1>2. CASE ScanMove \/ ScanFail
  BY <1>2, BlocksKept DEF ScanMove, ScanFail
<1>3. CASE ScanPlace
  BY <1>3, PlaceDisjoint
<1>4. ASSUME NEW a \in Addresses, Free(a)
      PROVE  BlocksDisjoint'
  BY <1>4, FreeDisjoint
<1>5. ASSUME NEW a \in Addresses, NEW n \in Sizes, Write(a, n)
      PROVE  BlocksDisjoint'
  BY <1>5, BlocksKept DEF Write
<1> QED
  BY <1>1, <1>2, <1>3, <1>4, <1>5 DEF Next, Scan

LEMMA HeapInvariant == Spec => [](TypeOK /\ BlocksDisjoint /\ ScanInv)
<1>1. Init => BlocksDisjoint /\ ScanInv
  BY DEF Init, BlocksDisjoint, ScanInv, Used
<1>2. TypeOK /\ BlocksDisjoint /\ ScanInv /\ [Next]_vars => BlocksDisjoint' /\ ScanInv'
  <2> SUFFICES ASSUME TypeOK, BlocksDisjoint, ScanInv, [Next]_vars
               PROVE  BlocksDisjoint' /\ ScanInv'
    OBVIOUS
  <2>1. CASE Next
    BY <2>1, BlocksStep, ScanStep
  <2>2. CASE UNCHANGED vars
    BY <2>2, BlocksKept DEF ScanInv, vars, locals
  <2> QED
    BY <2>1, <2>2
<1> QED
  BY <1>1, <1>2, TypeCorrect, PTL DEF Spec

\* No byte of the heap is ever in two live blocks or outside the heap.
THEOREM AllocationSafe == Spec => []BlocksDisjoint
BY HeapInvariant, PTL

LEMMA AccessByBlocks == TypeOK /\ BlocksDisjoint => AccessExact
<1> SUFFICES ASSUME TypeOK, BlocksDisjoint, NEW a \in Addresses, NEW n \in Sizes
             PROVE  allocation_contains(a, n)
                      <=> n > 0 /\ \E s \in Used : Range(a, n) \subseteq BlockRange(s)
  BY DEF AccessExact
<1>1. a \in Nat /\ n \in Nat
  BY SizeAssumption DEF Addresses
<1>2. ASSUME NEW s \in Used
      PROVE  /\ Addr(s) \in Nat /\ Size(s) \in Nat /\ Addr(s) >= HeapBase
             /\ Addr(s) + Size(s) <= HeapEnd
  BY BlockTypes, DisjointByApart
<1>3. ASSUME allocation_contains(a, n)
      PROVE  n > 0 /\ \E s \in Used : Range(a, n) \subseteq BlockRange(s)
  <2>1. n > 0
    BY <1>1, <1>3 DEF allocation_contains
  <2>2. PICK s \in Used : /\ a >= Addr(s) /\ n <= Size(s)
                          /\ a - Addr(s) <= Size(s) - n
    BY <1>3 DEF allocation_contains, Addr, Size
  <2>3. Range(a, n) \subseteq Range(Addr(s), Size(s))
    BY <1>1, <1>2, <2>2 DEF Range
  <2> QED
    BY <2>1, <2>3 DEF BlockRange, Addr, Size
<1>4. ASSUME n > 0, NEW s \in Used, Range(a, n) \subseteq BlockRange(s)
      PROVE  allocation_contains(a, n)
  <2>1. a \in Range(Addr(s), Size(s)) /\ a + n - 1 \in Range(Addr(s), Size(s))
    BY <1>1, <1>4 DEF Range, BlockRange, Addr, Size
  <2>2. /\ a >= Addr(s) /\ n <= Size(s) /\ a - Addr(s) <= Size(s) - n
    BY <1>1, <1>2, <2>1 DEF Range
  <2>3. /\ n # 0 /\ a >= HeapBase /\ a < HeapEnd /\ n < Modulus /\ n <= HeapEnd - a
    BY <1>1, <1>2, <1>4, <2>2, ParameterAssumption
  <2> QED
    BY <2>2, <2>3 DEF allocation_contains, Addr, Size
<1> QED
  BY <1>3, <1>4

\* The range check lets an access through exactly when a live block holds all
\* its bytes.
THEOREM AccessSafe == Spec => []AccessExact
BY AccessByBlocks, HeapInvariant, PTL

(***************************************************************************)
(* The data in the blocks.                                                 *)
(***************************************************************************)

LEMMA PlaceClean ==
  ASSUME TypeOK, NoForeignData, ScanPlace
  PROVE  NoForeignData'
<1>1. PICK k \in Slots : k = slot
  BY DEF TypeOK, ScanPlace, ScanDone
<1>2. /\ allocations' = [allocations EXCEPT ![k] =
             [address |-> candidate, size |-> aligned_size, used |-> TRUE]]
      /\ pmem' = pmem \ Range(candidate, aligned_size)
      /\ written' = [written EXCEPT ![k] = {}]
  BY <1>1 DEF ScanPlace
<1>3. BlockRange(k)' = Range(candidate, aligned_size)
  BY <1>2 DEF TypeOK, BlockRange, Range
<1>4. ASSUME NEW s \in Used', s # k
      PROVE  pmem' \cap BlockRange(s)' \subseteq written'[s]
  <2>1. s \in Slots
    BY DEF Used
  <2>2. allocations'[s] = allocations[s] /\ written'[s] = written[s]
    BY <1>2, <1>4, <2>1 DEF TypeOK
  <2>3. s \in Used /\ BlockRange(s)' = BlockRange(s)
    BY <2>1, <2>2 DEF Used, BlockRange, Range
  <2>4. pmem \cap BlockRange(s) \subseteq written[s]
    BY <2>3 DEF NoForeignData
  <2> QED
    BY <1>2, <2>2, <2>3, <2>4
<1> QED
  BY <1>2, <1>3, <1>4 DEF NoForeignData

LEMMA FreeClean ==
  ASSUME TypeOK, NoForeignData, NEW a \in Addresses, Free(a)
  PROVE  NoForeignData'
<1>1. CASE UNCHANGED <<allocations, written>>
  BY <1>1 DEF Free, NoForeignData, Used, BlockRange, Range
<1>2. ASSUME NEW r \in Used, allocations' = [allocations EXCEPT ![r].used = FALSE],
             written' = [written EXCEPT ![r] = {}]
      PROVE  NoForeignData'
  <2>1. r \in Slots /\ allocations[r] \in Block
    BY DEF Used, TypeOK
  <2>2. allocations'[r].used = FALSE
    BY <1>2, <2>1 DEF TypeOK, Block
  <2>3. ASSUME NEW s \in Used'
        PROVE  s \in Used /\ allocations'[s] = allocations[s] /\ written'[s] = written[s]
    <3>1. s \in Slots /\ s # r
      BY <2>2 DEF Used
    <3> QED
      BY <1>2, <3>1 DEF TypeOK, Used
  <2>4. pmem' = pmem
    BY DEF Free
  <2> QED
    BY <2>3, <2>4 DEF NoForeignData, BlockRange, Range
<1> QED
  BY <1>1, <1>2 DEF Free

LEMMA WriteClean ==
  ASSUME TypeOK, BlocksDisjoint, NoForeignData,
         NEW a \in Addresses, NEW n \in Sizes, Write(a, n)
  PROVE  NoForeignData'
<1>1. CASE ~allocation_contains(a, n)
  BY <1>1 DEF Write, NoForeignData, Used, BlockRange, Range
<1>2. CASE allocation_contains(a, n)
  <2>1. PICK t \in Used : n > 0 /\ Range(a, n) \subseteq BlockRange(t)
    BY <1>2, AccessByBlocks DEF AccessExact
  <2>2. /\ allocations' = allocations /\ pmem' = pmem \cup Range(a, n)
        /\ written' = [s \in Slots |-> IF s \in Used /\ a \in BlockRange(s)
                                        THEN written[s] \cup Range(a, n) ELSE written[s]]
    BY <1>2 DEF Write
  <2>3. a \in Range(a, n)
    BY <2>1, SizeAssumption DEF Range, Addresses
  <2>4. ASSUME NEW s \in Used, s # t
        PROVE  BlockRange(s) \cap BlockRange(t) = {}
    <3>1. Apart(Addr(s), Size(s), Addr(t), Size(t))
      BY <2>4, DisjointByApart
    <3>2. /\ Addr(s) \in Nat /\ Size(s) \in Nat
          /\ Addr(t) \in Nat /\ Size(t) \in Nat
      BY BlockTypes
    <3>3. Range(Addr(s), Size(s)) \cap Range(Addr(t), Size(t)) = {}
      BY <3>1, <3>2 DEF Apart, Range
    <3> QED
      BY <3>3 DEF BlockRange, Addr, Size
  <2>5. ASSUME NEW s \in Used
        PROVE  pmem' \cap BlockRange(s) \subseteq written'[s]
    <3>1. s \in Slots /\ pmem \cap BlockRange(s) \subseteq written[s]
      BY DEF NoForeignData, Used
    <3>2. CASE s = t
      BY <2>1, <2>2, <2>3, <3>1, <3>2
    <3>3. CASE s # t
      <4>1. Range(a, n) \cap BlockRange(s) = {}
        BY <2>1, <2>4, <3>3
      <4> QED
        BY <2>2, <3>1, <4>1
    <3> QED
      BY <3>2, <3>3
  <2> QED
    BY <2>2, <2>5 DEF NoForeignData, Used, BlockRange, Range
<1> QED
  BY <1>1, <1>2

\* A live block never shows what was written outside it or before it was
\* allocated.
THEOREM DataIsolated == Spec => []NoForeignData
<1>1. Init => NoForeignData
  BY DEF Init, NoForeignData, Used
<1>2. TypeOK /\ BlocksDisjoint /\ NoForeignData /\ [Next]_vars => NoForeignData'
  <2> SUFFICES ASSUME TypeOK, BlocksDisjoint, NoForeignData, [Next]_vars
               PROVE  NoForeignData'
    OBVIOUS
  <2>1. CASE UNCHANGED <<allocations, pmem, written>>
    BY <2>1 DEF NoForeignData, Used, BlockRange, Range
  <2>2. ASSUME NEW size \in Sizes, AllocRefuse(size) \/ AllocStart(size)
        PROVE  NoForeignData'
    BY <2>1, <2>2 DEF AllocRefuse, AllocStart
  <2>3. CASE ScanMove \/ ScanFail
    BY <2>1, <2>3 DEF ScanMove, ScanFail
  <2>4. CASE ScanPlace
    BY <2>4, PlaceClean
  <2>5. ASSUME NEW a \in Addresses, Free(a)
        PROVE  NoForeignData'
    BY <2>5, FreeClean
  <2>6. ASSUME NEW a \in Addresses, NEW n \in Sizes, Write(a, n)
        PROVE  NoForeignData'
    BY <2>6, WriteClean
  <2>7. CASE UNCHANGED vars
    BY <2>1, <2>7 DEF vars
  <2> QED
    BY <2>2, <2>3, <2>4, <2>5, <2>6, <2>7 DEF Next, Scan
<1> QED
  BY <1>1, <1>2, HeapInvariant, PTL DEF Spec
LEMMA Division ==
  ASSUME NEW n \in Int, NEW d \in Int, d > 0
  PROVE  n = d * (n \div d) + (n % d)
OBVIOUS

LEMMA Euclid ==
  ASSUME NEW n \in Nat, NEW d \in Nat \ {0}
  PROVE  n \div d \in Nat /\ n % d \in 0..(d - 1) /\ n = (n \div d) * d + (n % d)
<1>1. PICK q \in Nat : q = n \div d
  BY SMT
<1>2. PICK r \in 0..(d - 1) : r = n % d
  BY SMT
<1>3. n \in Int /\ d \in Int /\ d > 0
  OBVIOUS
<1>4. n = d * (n \div d) + (n % d)
  BY <1>3, Division, Zenon
<1>5. n = d * q + r
  BY <1>1, <1>2, <1>4, Zenon
<1>6. n = q * d + r
  BY <1>5
<1>7. n \div d \in Nat
  BY <1>1
<1>8. n % d \in 0..(d - 1)
  BY <1>2
<1>9. n = (n \div d) * d + r
  BY <1>1, <1>6, Zenon
<1>10. n = (n \div d) * d + (n % d)
  BY <1>2, <1>9
<1> QED
  BY <1>7, <1>8, <1>10

\* A factor more is at least d more.
LEMMA Multiples ==
  ASSUME NEW a \in Nat, NEW b \in Nat, NEW d \in Nat, a < b
  PROVE  a * d + d <= b * d
<1>1. PICK k \in Nat : b = a + 1 + k
  <2>1. b - a - 1 \in Nat /\ b = a + 1 + (b - a - 1)
    OBVIOUS
  <2> QED
    BY <2>1
<1>2. b * d = a * d + d + k * d
  BY <1>1
<1>3. k * d \in Nat /\ a * d \in Nat /\ b * d \in Nat
  BY <1>1
<1> QED
  BY <1>2, <1>3

LEMMA EuclidUnique ==
  ASSUME NEW d \in Nat \ {0}, NEW q \in Nat, NEW r \in 0..(d - 1)
  PROVE  (q * d + r) \div d = q /\ (q * d + r) % d = r
<1>1. q * d \in Nat /\ q * d + r \in Nat
  BY SMT
<1>2. PICK n \in Nat : n = q * d + r
  BY <1>1
<1>3. PICK p \in Nat : p = n \div d
  BY Euclid
<1>4. PICK s \in 0..(d - 1) : s = n % d
  BY Euclid
<1>5. n = p * d + s
  BY <1>3, <1>4, Euclid
<1>6. ~(p < q)
  <2>1. p < q => p * d + d <= q * d
    BY Multiples
  <2> QED
    BY <1>1, <1>2, <1>5, <2>1
<1>7. ~(q < p)
  <2>1. q < p => q * d + d <= p * d
    BY Multiples
  <2> QED
    BY <1>1, <1>2, <1>5, <2>1
<1>8. p = q
  BY <1>6, <1>7
<1>9. s = r
  BY <1>1, <1>2, <1>5, <1>8
<1> QED
  BY <1>2, <1>3, <1>4, <1>8, <1>9

LEMMA AlignUpExact ==
  ASSUME NEW e \in Nat, e <= HeapEnd
  PROVE  /\ align_up(e) % Align = 0
         /\ \A a \in Nat : e <= a /\ a % Align = 0 => align_up(e) <= a
<1>0. PICK d \in Nat \ {0} : d = Align
  BY ParameterAssumption
<1>1. PICK x \in Nat : x = e + (d - 1)
  BY <1>0
<1>2. Add(e, Align - 1) = x
  <2>1. e + (Align - 1) < Modulus /\ Align - 1 \in Nat
    BY <1>0, <1>1, ParameterAssumption
  <2> QED
    BY <1>0, <1>1, <2>1, WordFacts
<1>3. PICK q \in Nat : q = x \div d
  BY Euclid
<1>4. PICK r \in 0..(d - 1) : r = x % d
  BY Euclid
<1>5. x = q * d + r /\ q * d \in Nat
  BY <1>3, <1>4, Euclid
<1>6. align_up(e) = q * d
  <2>1. align_up(e) = x - r
    BY <1>0, <1>2, <1>4 DEF align_up
  <2> QED
    BY <1>5, <2>1
<1>7. (q * d) % d = 0
  <2>1. (q * d + 0) % d = 0
    BY EuclidUnique
  <2> QED
    BY <1>5, <2>1
<1>8. ASSUME NEW a \in Nat, e <= a, a % d = 0
      PROVE  q * d <= a
  <2>1. PICK p \in Nat : p = a \div d
    BY Euclid
  <2>2. a = p * d /\ p * d \in Nat
    <3>1. a = p * d + (a % d)
      BY <2>1, Euclid
    <3>2. p * d \in Nat
      BY SMT
    <3> QED
      BY <3>1, <3>2, <1>8
  <2>3. ~(p < q)
    <3>1. p < q => p * d + d <= q * d
      BY Multiples
    <3> QED
      BY <3>1, <2>2, <1>1, <1>5, <1>8
  <2>4. p = q \/ q < p
    BY <2>3
  <2>5. q < p => q * d + d <= p * d
    BY Multiples
  <2> QED
    BY <2>2, <2>4, <2>5, <1>5
<1> QED
  BY <1>0, <1>6, <1>7, <1>8

(***************************************************************************)
(* First fit.                                                              *)
(***************************************************************************)

LEMMA ApartByRanges ==
  ASSUME NEW a \in Nat, NEW n \in Nat \ {0}, NEW b \in Nat, NEW m \in Nat \ {0}
  PROVE  Range(a, n) \cap Range(b, m) = {} <=> Apart(a, n, b, m)
<1>1. ASSUME Apart(a, n, b, m)
      PROVE  Range(a, n) \cap Range(b, m) = {}
  BY <1>1 DEF Apart, Range
<1>2. ASSUME ~Apart(a, n, b, m)
      PROVE  Range(a, n) \cap Range(b, m) # {}
  <2>1. a <= b => b \in Range(a, n) \cap Range(b, m)
    BY <1>2 DEF Apart, Range
  <2>2. b <= a => a \in Range(a, n) \cap Range(b, m)
    BY <1>2 DEF Apart, Range
  <2> QED
    BY <2>1, <2>2
<1> QED
  BY <1>1, <1>2

\* What a gap is, in terms of Apart.
LEMMA GapByApart ==
  ASSUME TypeOK, BlocksDisjoint, NEW n \in Nat \ {0}, NEW a
  PROVE  a \in Gaps(n) <=>
           /\ a \in Addresses /\ a % Align = 0 /\ a >= HeapBase /\ a + n <= HeapEnd
           /\ \A s \in Used : Apart(a, n, Addr(s), Size(s))
<1>1. ASSUME a \in Addresses
      PROVE  \A s \in Used : Range(a, n) \cap BlockRange(s) = {}
                               <=> Apart(a, n, Addr(s), Size(s))
  <2> TAKE s \in Used
  <2>1. a \in Nat
    BY <1>1 DEF Addresses
  <2>2. Addr(s) \in Nat /\ Size(s) \in Nat \ {0}
    BY BlockTypes, DisjointByApart
  <2> QED
    BY <2>1, <2>2, ApartByRanges DEF BlockRange, Addr, Size
<1> QED
  BY <1>1 DEF Gaps, FreeAt

\* Moving behind a block that is in the way skips no gap: a gap at or above the
\* candidate cannot begin before that block ends.
LEMMA MoveSkipsNoGap ==
  ASSUME TypeOK, BlocksDisjoint, ScanInv, FirstInv, ScanMove
  PROVE  FirstInv'
<1>1. PICK c \in Nat : c = candidate
  BY DEF TypeOK, Addresses
<1>2. PICK n \in Nat \ {0} : n = aligned_size
  BY DEF TypeOK, Addresses, ScanInv, ScanMove
<1>3. PICK s \in Slots : Overlaps(s) /\ candidate' = align_up(EndOf(s))
  BY DEF ScanMove
<1>4. s \in Used
  BY <1>3 DEF Overlaps
<1>5. Addr(s) \in Nat /\ Size(s) \in Nat \ {0} /\ Addr(s) + Size(s) <= HeapEnd
  BY <1>4, BlockTypes, DisjointByApart
<1>6. PICK e \in Nat : e = EndOf(s) /\ e = Addr(s) + Size(s) /\ e <= HeapEnd
  BY <1>4, <1>5, BlockTypes
<1>7. /\ candidate' % Align = 0
      /\ \A a \in Nat : e <= a /\ a % Align = 0 => candidate' <= a
  BY <1>3, <1>6, AlignUpExact
<1>8. aligned_size' = aligned_size /\ allocations' = allocations /\ scanning
  BY DEF ScanMove
<1>9. ASSUME NEW a \in Gaps(n)
      PROVE  candidate' <= a
  <2>1. /\ a \in Nat /\ a % Align = 0 /\ a + n <= HeapEnd
        /\ Apart(a, n, Addr(s), Size(s))
    BY <1>4, <1>9, GapByApart DEF Addresses
  <2>2. c <= a
    BY <1>1, <1>2, <1>8, <1>9 DEF FirstInv
  <2>3. Add(c, n) = c + n
    <3>1. c + n < Modulus
      BY <2>1, <2>2, ParameterAssumption
    <3> QED
      BY <3>1, WordFacts
  <2>4. c < e /\ c + n > Addr(s)
    BY <1>1, <1>2, <1>3, <1>6, <2>3 DEF Overlaps, Addr
  <2>5. e <= a
    BY <1>5, <1>6, <2>1, <2>2, <2>4 DEF Apart
  <2> QED
    BY <1>7, <2>1, <2>5
<1>10. Gaps(n)' = Gaps(n)
  BY <1>8 DEF Gaps, FreeAt, Used, BlockRange
<1> QED
  BY <1>2, <1>7, <1>8, <1>9, <1>10 DEF FirstInv

LEMMA FirstStep ==
  ASSUME TypeOK, BlocksDisjoint, ScanInv, FirstInv, [Next]_vars
  PROVE  FirstInv'
<1>1. ASSUME NEW size \in Sizes, AllocStart(size)
      PROVE  FirstInv'
  <2>1. candidate' = HeapBase /\ scanning'
    BY <1>1 DEF AllocStart
  <2>2. \A a \in Gaps(aligned_size)' : HeapBase <= a
    BY ParameterAssumption DEF Gaps, FreeAt, Addresses
  <2> QED
    BY <2>1, <2>2, BaseAssumption DEF FirstInv
<1>2. CASE ScanMove
  BY <1>2, MoveSkipsNoGap
<1>3. CASE ScanPlace \/ ScanFail
  BY <1>3 DEF ScanPlace, ScanFail, Return, FirstInv
<1>4. ASSUME ~scanning, UNCHANGED scanning
      PROVE  FirstInv'
  BY <1>4 DEF FirstInv
<1>5. CASE UNCHANGED vars
  BY <1>5 DEF vars, locals, FirstInv, Gaps, FreeAt, Used, BlockRange
<1>6. ASSUME NEW size \in Sizes, AllocRefuse(size)
      PROVE  FirstInv'
  BY <1>4, <1>6 DEF AllocRefuse
<1>7. ASSUME NEW a \in Addresses, Free(a)
      PROVE  FirstInv'
  BY <1>4, <1>7 DEF Free
<1>8. ASSUME NEW a \in Addresses, NEW n \in Sizes, Write(a, n)
      PROVE  FirstInv'
  BY <1>4, <1>8 DEF Write
<1> QED
  BY <1>1, <1>2, <1>3, <1>5, <1>6, <1>7, <1>8 DEF Next, Scan

LEMMA FirstFitStep ==
  ASSUME TypeOK, BlocksDisjoint, ScanInv, FirstInv, Next, scanning, ~scanning'
  PROVE  \/ /\ result' = "out_of_memory" /\ Gaps(aligned_size) = {}
         \/ /\ result' = "success" /\ candidate \in Gaps(aligned_size)
            /\ \A a \in Gaps(aligned_size) : candidate <= a
<1>1. ScanPlace \/ ScanFail
  BY DEF Next, AllocRefuse, AllocStart, Scan, ScanMove, Free, Write
<1>2. candidate \in Nat /\ candidate \in Addresses /\ aligned_size \in Nat \ {0}
  BY DEF TypeOK, Addresses, ScanInv
<1>3. candidate % Align = 0 /\ \A a \in Gaps(aligned_size) : candidate <= a
  BY DEF FirstInv
<1>4. CASE ScanPlace
  <2>1. /\ candidate >= HeapBase /\ candidate + aligned_size <= HeapEnd
        /\ \A s \in Used : Apart(Addr(s), Size(s), candidate, aligned_size)
    BY <1>4, PlaceIsFree DEF ScanPlace
  <2>2. candidate \in Gaps(aligned_size)
    BY <1>2, <1>3, <2>1, GapByApart DEF Apart
  <2> QED
    BY <1>3, <1>4, <2>2 DEF ScanPlace, Return
<1>5. CASE ScanFail
  <2>1. ASSUME NEW a \in Gaps(aligned_size)
        PROVE  FALSE
    <3>1. a \in Nat /\ a + aligned_size <= HeapEnd /\ candidate <= a
      BY <1>2, <1>3, GapByApart DEF Addresses
    <3> QED
      BY <1>2, <1>5, <3>1, ParameterAssumption DEF ScanFail, Fits
  <2> QED
    BY <1>5, <2>1 DEF ScanFail, Return
<1> QED
  BY <1>1, <1>4, <1>5

\* An allocation takes the lowest aligned gap that is large enough and fails
\* only if there is none, for every order of the blocks in the table.
THEOREM LowestGapTaken == Spec => FirstFit
<1>1. Init => FirstInv
  BY DEF Init, FirstInv
<1>2. TypeOK /\ BlocksDisjoint /\ ScanInv /\ FirstInv /\ [Next]_vars => FirstInv'
  BY FirstStep
<1>3. TypeOK /\ BlocksDisjoint /\ ScanInv /\ FirstInv /\ [Next]_vars =>
        [scanning /\ ~scanning' =>
         \/ /\ result' = "out_of_memory" /\ Gaps(aligned_size) = {}
         \/ /\ result' = "success" /\ candidate \in Gaps(aligned_size)
            /\ \A a \in Gaps(aligned_size) : candidate <= a]_vars
  BY FirstFitStep
<1> QED
  BY <1>1, <1>2, <1>3, HeapInvariant, PTL DEF Spec, FirstFit

\* The end of the block in the way lies above the candidate, and aligning it
\* up does not wrap.
LEMMA AdvanceStep ==
  ASSUME TypeOK, BlocksDisjoint, Next, scanning, scanning'
  PROVE  candidate < HeapEnd /\ candidate' > candidate
<1>1. ScanMove
  BY DEF Next, Scan, AllocRefuse, AllocStart, ScanPlace, ScanFail, Return, Free, Write
<1>2. PICK s \in Slots : Overlaps(s) /\ candidate' = align_up(EndOf(s))
  BY <1>1 DEF ScanMove
<1>3. s \in Used
  BY <1>2 DEF Overlaps
<1>4. PICK e \in Nat : e = EndOf(s) /\ e = Addr(s) + Size(s)
  BY <1>3, BlockTypes
<1>5. e <= HeapEnd
  BY <1>3, <1>4, BlockTypes, DisjointByApart, ParameterAssumption
<1>6. align_up(e) >= e /\ align_up(e) \in Nat
  BY <1>5, WordFacts DEF Addresses
<1>7. PICK c \in Nat : c = candidate
  BY DEF TypeOK, Addresses
<1>8. c < e
  BY <1>2, <1>4, <1>7 DEF Overlaps
<1> QED
  BY <1>1, <1>2, <1>4, <1>6, <1>7, <1>8 DEF ScanMove

\* The safety half of the termination of gpu_mem_alloc: no sequence of requests
\* can make its loop turn in circles, for every heap, alignment and table.
THEOREM ScanTerminates == Spec => ScanAdvances
<1>1. TypeOK /\ BlocksDisjoint /\ ScanInv /\ [Next]_vars =>
        [scanning /\ scanning' => candidate < HeapEnd /\ candidate' > candidate]_vars
  BY AdvanceStep
<1> QED
  BY <1>1, HeapInvariant, PTL DEF Spec, ScanAdvances
=============================================================================
