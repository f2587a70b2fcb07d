----------------------------- MODULE IssProofs -----------------------------
(***************************************************************************)
(* The interpreter's coordinates and its refinement of ScalarThreads, for  *)
(* every topology and geometry.                                            *)
(***************************************************************************)
EXTENDS Iss, TLAPS

(***************************************************************************)
(* Division.                                                               *)
(***************************************************************************)

LEMMA Division ==
  ASSUME NEW n \in Int, NEW d \in Int, d > 0
  PROVE  n = d * (n \div d) + (n % d)
OBVIOUS

LEMMA Euclid ==
  ASSUME NEW n \in Nat, NEW d \in Nat \ {0}
  PROVE  n \div d \in Nat /\ n % d \in 0..(d - 1) /\ n = (n \div d) * d + (n % d)
<1>1. PICK q \in Nat : q = n \div d
  BY SMT
<1>2. PICK r \in 0..(d - 1) : r = n % d
  BY SMT
<1>3. n \in Int /\ d \in Int /\ d > 0
  OBVIOUS
<1>4. n = d * (n \div d) + (n % d)
  BY <1>3, Division, Zenon
<1>5. n = d * q + r
  BY <1>1, <1>2, <1>4, Zenon
<1>6. n = q * d + r
  BY <1>5
<1>7. n \div d \in Nat
  BY <1>1
<1>8. n % d \in 0..(d - 1)
  BY <1>2
<1>9. n = (n \div d) * d + r
  BY <1>1, <1>6, Zenon
<1>10. n = (n \div d) * d + (n % d)
  BY <1>2, <1>9
<1> QED
  BY <1>7, <1>8, <1>10

\* A factor more is at least d more.
LEMMA Multiples ==
  ASSUME NEW a \in Nat, NEW b \in Nat, NEW d \in Nat, a < b
  PROVE  a * d + d <= b * d
<1>1. PICK k \in Nat : b = a + 1 + k
  <2>1. b - a - 1 \in Nat /\ b = a + 1 + (b - a - 1)
    OBVIOUS
  <2> QED
    BY <2>1
<1>2. b * d = a * d + d + k * d
  BY <1>1
<1>3. k * d \in Nat /\ a * d \in Nat /\ b * d \in Nat
  BY <1>1
<1> QED
  BY <1>2, <1>3

LEMMA EuclidUnique ==
  ASSUME NEW d \in Nat \ {0}, NEW q \in Nat, NEW r \in 0..(d - 1)
  PROVE  (q * d + r) \div d = q /\ (q * d + r) % d = r
<1>1. q * d \in Nat /\ q * d + r \in Nat
  BY SMT
<1>2. PICK n \in Nat : n = q * d + r
  BY <1>1
<1>3. PICK p \in Nat : p = n \div d
  BY Euclid
<1>4. PICK s \in 0..(d - 1) : s = n % d
  BY Euclid
<1>5. n = p * d + s
  BY <1>3, <1>4, Euclid
<1>6. ~(p < q)
  <2>1. p < q => p * d + d <= q * d
    BY Multiples
  <2> QED
    BY <1>1, <1>2, <1>5, <2>1
<1>7. ~(q < p)
  <2>1. q < p => q * d + d <= p * d
    BY Multiples
  <2> QED
    BY <1>1, <1>2, <1>5, <2>1
<1>8. p = q
  BY <1>6, <1>7
<1>9. s = r
  BY <1>1, <1>2, <1>5, <1>8
<1> QED
  BY <1>2, <1>3, <1>4, <1>8, <1>9

\* A quotient is below the other factor.
LEMMA QuotientBound ==
  ASSUME NEW d \in Nat \ {0}, NEW e \in Nat, NEW n \in 0..(e * d - 1)
  PROVE  n \div d \in 0..(e - 1)
<1>1. PICK q \in Nat : q = n \div d
  BY Euclid
<1>2. PICK r \in 0..(d - 1) : n = q * d + r
  <2>1. n \in Nat
    BY SMT
  <2>2. n % d \in 0..(d - 1) /\ n = (n \div d) * d + (n % d)
    BY <2>1, Euclid
  <2>3. n = q * d + (n % d)
    BY <1>1, <2>2, Zenon
  <2> QED
    BY <2>2, <2>3, Zenon
<1>3. q * d \in Nat /\ e * d \in Nat
  BY SMT
<1>4. ~(e <= q)
  <2>1. e < q => e * d + d <= q * d
    BY Multiples
  <2>2. e <= q => e * d <= q * d
    BY <1>3, <2>1
  <2>3. n \in Nat /\ n < e * d
    BY <1>3
  <2>4. q * d <= n
    BY <1>2, <1>3, <2>3
  <2> QED
    BY <1>3, <2>2, <2>3, <2>4
<1> QED
  BY <1>1, <1>4

(***************************************************************************)
(* Positions in a box x by y by z, first along x.                          *)
(***************************************************************************)

\* i is the number of the point (a, b, c).
Numbers(x, y, z, a, b, c, i) ==
  /\ i \in 0..(x * y * z - 1)
  /\ i \div x = c * y + b /\ i % x = a
  /\ (i \div x) % y = b /\ i \div (x * y) = c

LEMMA Join ==
  ASSUME NEW x \in Nat \ {0}, NEW y \in Nat \ {0}, NEW z \in Nat \ {0},
         NEW a \in 0..(x - 1), NEW b \in 0..(y - 1), NEW c \in 0..(z - 1),
         NEW i, i = (c * y + b) * x + a
  PROVE  Numbers(x, y, z, a, b, c, i)
<1>1. PICK q \in Nat : q = c * y + b
  <2>1. c \in Nat /\ b \in Nat /\ c * y \in Nat
    BY SMT
  <2> QED
    BY <2>1
<1>2. i = q * x + a
  BY <1>1
<1>3. i \div x = q /\ i % x = a
  BY <1>2, EuclidUnique
<1>4. q \div y = c /\ q % y = b
  BY <1>1, EuclidUnique
<1>5. PICK r \in Nat : r = b * x + a
  <2>1. b \in Nat /\ a \in Nat /\ b * x \in Nat
    BY SMT
  <2> QED
    BY <2>1
<1>6. PICK s \in Nat \ {0} : s = x * y
  <2>1. x * y \in Nat /\ x * y # 0
    BY SMT
  <2> QED
    BY <2>1
<1>7. r \in 0..(s - 1)
  <2>1. b * x + x <= y * x
    BY Multiples
  <2>2. y * x = s /\ b * x \in Nat
    BY <1>6
  <2> QED
    BY <1>5, <2>1, <2>2
<1>8. i = c * s + r
  <2>1. q * x = (c * y) * x + b * x
    BY <1>1
  <2>2. (c * y) * x = c * s
    BY <1>6
  <2>3. c * s \in Nat /\ b * x \in Nat
    BY SMT
  <2> QED
    BY <1>2, <1>5, <2>1, <2>2, <2>3
<1>9. i \div s = c
  BY <1>7, <1>8, EuclidUnique
<1>10. i \in 0..(z * s - 1)
  <2>1. c * s + s <= z * s
    BY Multiples
  <2>2. c * s \in Nat /\ z * s \in Nat
    BY SMT
  <2> QED
    BY <1>7, <1>8, <2>1, <2>2
<1>11. z * s = x * y * z
  BY <1>6
<1>12. i \in 0..(x * y * z - 1)
  BY <1>10, <1>11, Zenon
<1>13. i \div (x * y) = c
  BY <1>6, <1>9, Zenon
<1>14. i \div x = c * y + b /\ (i \div x) % y = b
  BY <1>1, <1>3, <1>4, Zenon
<1> QED
  BY <1>3, <1>12, <1>13, <1>14, Zenon DEF Numbers

LEMMA Split ==
  ASSUME NEW x \in Nat \ {0}, NEW y \in Nat \ {0}, NEW z \in Nat \ {0},
         NEW i \in 0..(x * y * z - 1)
  PROVE  /\ i % x \in 0..(x - 1) /\ (i \div x) % y \in 0..(y - 1)
         /\ i \div (x * y) \in 0..(z - 1)
         /\ ((i \div (x * y)) * y + ((i \div x) % y)) * x + (i % x) = i
<1>1. i \in Nat
  BY SMT
<1>2. PICK q \in Nat : q = i \div x
  BY <1>1, Euclid
<1>3. PICK a \in 0..(x - 1) : a = i % x
  BY <1>1, Euclid
<1>4. i = q * x + a
  <2>1. i = (i \div x) * x + (i % x)
    BY <1>1, Euclid
  <2> QED
    BY <1>2, <1>3, <2>1
<1>5. PICK c \in Nat : c = q \div y
  BY Euclid
<1>6. PICK b \in 0..(y - 1) : b = q % y
  BY Euclid
<1>7. q = c * y + b
  <2>1. q = (q \div y) * y + (q % y)
    BY Euclid
  <2> QED
    BY <1>5, <1>6, <2>1
<1>8. c \in 0..(z - 1)
  <2>1. i \in 0..((z * y) * x - 1) /\ z * y \in Nat
    <3>1. x * y * z = (z * y) * x
      OBVIOUS
    <3>2. i \in 0..((z * y) * x - 1)
      BY <3>1, Zenon
    <3> QED
      BY <3>2
  <2>2. PICK e \in Nat : e = z * y
    BY <2>1
  <2>3. i \in 0..(e * x - 1)
    BY <2>1, <2>2, Zenon
  <2>4. q \in 0..(e - 1)
    BY <1>2, <2>3, QuotientBound
  <2>5. q \in 0..(z * y - 1)
    BY <2>2, <2>4, Zenon
  <2> QED
    BY <1>5, <2>5, QuotientBound
<1>9. i = (c * y + b) * x + a
  BY <1>4, <1>7, Zenon
<1>10. Numbers(x, y, z, a, b, c, i)
  BY <1>8, <1>9, Join
<1>11. (i \div x) % y = b
  BY <1>2, <1>6, Zenon
<1>12. ((i \div (x * y)) * y + ((i \div x) % y)) * x + (i % x) = i
  BY <1>3, <1>9, <1>10, <1>11, Zenon DEF Numbers
<1> QED
  BY <1>3, <1>8, <1>10, <1>11, <1>12, Zenon DEF Numbers
Box(d) == [x : 0..(d.x - 1), y : 0..(d.y - 1), z : 0..(d.z - 1)]
Place(i, d) == [x |-> i % d.x, y |-> (i \div d.x) % d.y, z |-> i \div (d.x * d.y)]
Index(c, d) == (c.z * d.y + c.y) * d.x + c.x

\* Numbering the points of a box and finding the point of a number are inverse
\* to each other.
LEMMA Boxes ==
  ASSUME NEW d \in Dim, Size(d) # 0
  PROVE  /\ Size(d) \in Nat \ {0}
         /\ \A i \in 0..(Size(d) - 1) : Place(i, d) \in Box(d) /\ Index(Place(i, d), d) = i
         /\ \A c \in Box(d) : Index(c, d) \in 0..(Size(d) - 1) /\ Place(Index(c, d), d) = c
<1>1. PICK x \in Nat, y \in Nat, z \in Nat : d = [x |-> x, y |-> y, z |-> z]
  BY DEF Dim
<1>2. d.x = x /\ d.y = y /\ d.z = z
  BY <1>1
<1>3. Size(d) = x * y * z
  BY <1>2 DEF Size
<1>4. x \in Nat \ {0} /\ y \in Nat \ {0} /\ z \in Nat \ {0}
  <2>1. x = 0 \/ y = 0 \/ z = 0 => x * y * z = 0
    OBVIOUS
  <2>2. x # 0 /\ y # 0 /\ z # 0
    BY <1>3, <2>1, Zenon
  <2> QED
    BY <2>2
<1>5. Size(d) \in Nat \ {0}
  <2>1. x * y * z \in Nat
    OBVIOUS
  <2> QED
    BY <1>3, <2>1
<1>6. ASSUME NEW i \in 0..(Size(d) - 1)
      PROVE  Place(i, d) \in Box(d) /\ Index(Place(i, d), d) = i
  <2>1. i \in 0..(x * y * z - 1)
    BY <1>3, Zenon
  <2>2. PICK a \in 0..(x - 1), b \in 0..(y - 1), c \in 0..(z - 1) :
          a = i % x /\ b = (i \div x) % y /\ c = i \div (x * y) /\ (c * y + b) * x + a = i
    <3>1. /\ i % x \in 0..(x - 1) /\ (i \div x) % y \in 0..(y - 1)
          /\ i \div (x * y) \in 0..(z - 1)
          /\ ((i \div (x * y)) * y + ((i \div x) % y)) * x + (i % x) = i
      BY <1>4, <2>1, Split, Zenon
    <3> QED
      BY <3>1, Zenon
  <2>3. Place(i, d) = [x |-> a, y |-> b, z |-> c]
    <3>1. Place(i, d) = [x |-> i % x, y |-> (i \div x) % y, z |-> i \div (x * y)]
      BY <1>2 DEF Place
    <3> QED
      BY <2>2, <3>1
  <2> QED
    BY <1>2, <2>2, <2>3 DEF Box, Index
<1>7. ASSUME NEW p \in Box(d)
      PROVE  Index(p, d) \in 0..(Size(d) - 1) /\ Place(Index(p, d), d) = p
  <2>1. PICK a \in 0..(x - 1), b \in 0..(y - 1), c \in 0..(z - 1) :
          p = [x |-> a, y |-> b, z |-> c]
    BY <1>2 DEF Box
  <2>2. PICK i : i = (c * y + b) * x + a
    OBVIOUS
  <2>3. Index(p, d) = i
    BY <1>2, <2>1, <2>2 DEF Index
  <2>4. Numbers(x, y, z, a, b, c, i)
    BY <1>4, <2>2, Join, Zenon
  <2>5. Place(i, d) = p
    <3>1. Place(i, d) = [x |-> i % x, y |-> (i \div x) % y, z |-> i \div (x * y)]
      BY <1>2 DEF Place
    <3> QED
      BY <2>1, <2>4, <3>1 DEF Numbers
  <2> QED
    BY <1>3, <2>3, <2>4, <2>5, Zenon DEF Numbers
<1> QED
  BY <1>5, <1>6, <1>7
(***************************************************************************)
(* The harts of a grid are the threads of its blocks.                      *)
(***************************************************************************)

\* The number of blocks, of threads in a block, and the room of a core.
Sizes(G, B) ==
  /\ G \in Nat \ {0} /\ B \in Nat \ {0}
  /\ G = Size(geometry.grid) /\ B = Size(geometry.block)
  /\ geometry.grid \in Dim /\ geometry.block \in Dim
  /\ G <= MaxBlocks /\ B <= NumWarps * NumThreads

LEMMA SizesKnown == geometry \in Geometries => \E G, B : Sizes(G, B)
<1> SUFFICES ASSUME geometry \in Geometries
             PROVE  Sizes(Size(geometry.grid), Size(geometry.block))
  BY Zenon
<1>1. geometry.grid \in Dim /\ geometry.block \in Dim
  BY IssGeometries
<1>2. Size(geometry.grid) \in 1..MaxBlocks /\ Size(geometry.block) \in 1..(NumWarps * NumThreads)
  BY IssGeometries
<1>3. MaxBlocks \in Nat /\ NumWarps * NumThreads \in Nat
  BY IssBounds, IssTopology
<1> QED
  BY <1>1, <1>2, <1>3 DEF Sizes

\* Every hart is a thread of a block of the grid.
LEMMA HartSplit ==
  ASSUME NEW G, NEW B, Sizes(G, B), NEW h \in 0..(G * B - 1)
  PROVE  BlockOf(h) \in 0..(G - 1) /\ Local(h) \in 0..(B - 1) /\ h = BlockOf(h) * B + Local(h)
<1>1. G \in Nat \ {0} /\ B \in Nat \ {0} /\ BlockOf(h) = h \div B /\ Local(h) = h % B
  BY DEF Sizes, BlockOf, Local
<1>2. h \in Nat
  <2>1. G * B \in Nat
    BY <1>1
  <2> QED
    BY <2>1
<1>3. h \div B \in 0..(G - 1)
  BY <1>1, QuotientBound
<1>4. h % B \in 0..(B - 1) /\ h = (h \div B) * B + (h % B)
  BY <1>1, <1>2, Euclid
<1> QED
  BY <1>1, <1>3, <1>4, Zenon

\* Every thread of every block is a hart.
LEMMA HartJoin ==
  ASSUME NEW G, NEW B, Sizes(G, B), NEW b \in 0..(G - 1), NEW i \in 0..(B - 1)
  PROVE  b * B + i \in 0..(G * B - 1) /\ BlockOf(b * B + i) = b /\ Local(b * B + i) = i
<1>1. G \in Nat \ {0} /\ B \in Nat \ {0} /\ b \in Nat /\ i \in Nat
  BY DEF Sizes
<1>2. (b * B + i) \div B = b /\ (b * B + i) % B = i
  BY <1>1, EuclidUnique
<1>3. BlockOf(b * B + i) = b /\ Local(b * B + i) = i
  BY <1>2 DEF Sizes, BlockOf, Local
<1>4. b * B + B <= G * B
  BY <1>1, Multiples
<1>5. b * B \in Nat /\ G * B \in Nat
  BY <1>1
<1> QED
  BY <1>1, <1>3, <1>4, <1>5

\* The coordinates are the point of the block's number in the grid, and of the
\* thread's number in the block.
LEMMA CoordinatesArePlaces ==
  ASSUME NEW G, NEW B, Sizes(G, B), NEW h \in 0..(G * B - 1)
  PROVE  /\ block_idx(h) = Place(BlockOf(h), geometry.grid)
         /\ thread_idx(h) = Place(Local(h), geometry.block)
         /\ core_thread_idx(Local(h)) = thread_idx(h)
         /\ block_idx(h) \in Box(geometry.grid) /\ thread_idx(h) \in Box(geometry.block)
         /\ Index(block_idx(h), geometry.grid) = BlockOf(h)
         /\ core_global_id(block_idx(h), Local(h)) = h
<1>1. /\ BlockOf(h) \in 0..(G - 1) /\ Local(h) \in 0..(B - 1)
      /\ h = BlockOf(h) * B + Local(h)
  BY HartSplit
<1>2. /\ block_idx(h) = Place(BlockOf(h), geometry.grid)
      /\ thread_idx(h) = Place(Local(h), geometry.block)
      /\ core_thread_idx(Local(h)) = thread_idx(h)
  BY Zenon DEF block_idx, thread_idx, core_thread_idx, Place
<1>3. /\ block_idx(h) \in Box(geometry.grid) /\ thread_idx(h) \in Box(geometry.block)
      /\ Index(block_idx(h), geometry.grid) = BlockOf(h)
  BY <1>1, <1>2, Boxes DEF Sizes
<1>4. core_global_id(block_idx(h), Local(h)) = Index(block_idx(h), geometry.grid) * B + Local(h)
  BY Zenon DEF core_global_id, Index, Sizes
<1> QED
  BY <1>1, <1>2, <1>3, <1>4, Zenon
LEMMA CoordinatesMatch == IssInv => CoordinatesMatchCore
<1> SUFFICES ASSUME IssInv, Harts # {}
             PROVE  CoordinatesMatchCore
  BY DEF CoordinatesMatchCore
<1>1. geometry \in Geometries /\ Harts = 0..(ncores - 1)
  BY DEF IssInv
<1>2. PICK G, B : Sizes(G, B)
  BY <1>1, SizesKnown
<1>3. Harts = 0..(G * B - 1)
  BY <1>1, <1>2, Zenon DEF Sizes, ncores
<1>4. \A h \in Harts : /\ core_global_id(block_idx(h), Local(h)) = h
                       /\ core_thread_idx(Local(h)) = thread_idx(h)
  BY <1>2, <1>3, CoordinatesArePlaces
<1>5. \A h \in Harts : block_idx(h) \in Box(geometry.grid) /\ thread_idx(h) \in Box(geometry.block)
  BY <1>2, <1>3, CoordinatesArePlaces
<1>6. ASSUME NEW g \in Box(geometry.grid), NEW t \in Box(geometry.block)
      PROVE  \E h \in Harts : block_idx(h) = g /\ thread_idx(h) = t
  <2>1. PICK b \in 0..(G - 1) : b = Index(g, geometry.grid) /\ Place(b, geometry.grid) = g
    BY <1>2, Boxes DEF Sizes
  <2>2. PICK i \in 0..(B - 1) : i = Index(t, geometry.block) /\ Place(i, geometry.block) = t
    BY <1>2, Boxes DEF Sizes
  <2>3. PICK h : h = b * B + i
    OBVIOUS
  <2>4. h \in Harts /\ BlockOf(h) = b /\ Local(h) = i
    <3>1. b * B + i \in 0..(G * B - 1) /\ BlockOf(b * B + i) = b /\ Local(b * B + i) = i
      BY <1>2, HartJoin
    <3> QED
      BY <1>3, <2>3, <3>1, Zenon
  <2>5. block_idx(h) = g /\ thread_idx(h) = t
    BY <1>2, <1>3, <2>1, <2>2, <2>4, CoordinatesArePlaces, Zenon
  <2> QED
    BY <2>4, <2>5
<1>7. {<<block_idx(h), thread_idx(h)>> : h \in Harts} = Box(geometry.grid) \X Box(geometry.block)
  <2>1. \A p : p \in {<<block_idx(h), thread_idx(h)>> : h \in Harts} =>
               p \in Box(geometry.grid) \X Box(geometry.block)
    BY <1>5
  <2>2. ASSUME NEW g \in Box(geometry.grid), NEW t \in Box(geometry.block)
        PROVE  <<g, t>> \in {<<block_idx(h), thread_idx(h)>> : h \in Harts}
    BY <1>6
  <2> QED
    BY <2>1, <2>2
<1> QED
  BY <1>4, <1>7, Zenon DEF CoordinatesMatchCore, Box

(***************************************************************************)
(* The invariant.                                                          *)
(***************************************************************************)

\* The contexts before a step of hart h with outcome c, and after it.
OneMoves(h, c) ==
  /\ h \in Harts /\ IsContext(c)
  /\ cores' = [cores EXCEPT ![h] = c]

LEMMA OneMovesFacts ==
  ASSUME IssInv, NEW h, NEW c, OneMoves(h, c), UNCHANGED <<geometry, waiting>>,
         faulted' \in BOOLEAN
  PROVE  IssInv' /\ Harts' = Harts /\ cores'[h] = c /\ \A k \in Harts : k # h => cores'[k] = cores[k]
<1>1. /\ Harts' = Harts /\ cores'[h] = c
      /\ \A k \in Harts : k # h => cores'[k] = cores[k]
  BY DEF OneMoves, Harts
<1>2. ncores' = ncores
  BY DEF ncores
<1>3. \A k \in Harts' : IsContext(cores[k]')
  BY <1>1, Zenon DEF IssInv, OneMoves
<1> QED
  BY <1>1, <1>2, <1>3, Zenon DEF IssInv

\* What a step makes of a context.
LEMMA Contexts ==
  ASSUME NEW c, IsContext(c), NEW v
  PROVE  /\ [c EXCEPT !.pc = v] = [pc |-> v, reg |-> c.reg, halted |-> c.halted]
         /\ [c EXCEPT !.halted = TRUE] = [pc |-> c.pc, reg |-> c.reg, halted |-> TRUE]
<1>1. PICK d : d = [c EXCEPT !.pc = v]
  OBVIOUS
<1>2. d = [pc |-> v, reg |-> c.reg, halted |-> c.halted]
  BY <1>1 DEF IsContext
<1>3. PICK e : e = [c EXCEPT !.halted = TRUE]
  OBVIOUS
<1>4. e = [pc |-> c.pc, reg |-> c.reg, halted |-> TRUE]
  BY <1>3 DEF IsContext
<1> QED
  BY <1>1, <1>2, <1>3, <1>4, Zenon

LoadedContext(c, v, w) == [c EXCEPT !.pc = v, !.reg = w]

LEMMA ContextLoaded ==
  ASSUME NEW c, IsContext(c), NEW v, NEW w
  PROVE  LoadedContext(c, v, w) = [pc |-> v, reg |-> w, halted |-> c.halted]
<1>1. PICK f : f = [c EXCEPT !.pc = v, !.reg = w]
  OBVIOUS
<1>2. f = [pc |-> v, reg |-> w, halted |-> c.halted]
  BY <1>1 DEF IsContext
<1> QED
  BY <1>1, <1>2 DEF LoadedContext

\* The context a step leaves, by the kind of instruction.
After(h) ==
  LET c == cores[h] i == Inst(h)
  IN  CASE i.op = "alu"    -> [pc |-> c.pc + 1, reg |-> Value(h), halted |-> FALSE]
        [] i.op = "jal"    -> [pc |-> i.target, reg |-> Value(h), halted |-> FALSE]
        [] i.op = "jalr"   -> [pc |-> Target(h), reg |-> Value(h), halted |-> FALSE]
        [] i.op = "branch" -> [pc |-> IF Takes(i, c.reg) THEN i.target ELSE c.pc + 1,
                               reg |-> c.reg, halted |-> FALSE]
        [] i.op = "load"   -> [pc |-> c.pc + 1, reg |-> mem[Address(i, c.reg)], halted |-> FALSE]
        [] i.op = "store"  -> [pc |-> c.pc + 1, reg |-> c.reg, halted |-> FALSE]
        [] i.op = "ebreak" -> [pc |-> c.pc, reg |-> c.reg, halted |-> TRUE]

Runs(h) == waiting /\ ~faulted /\ h \in Harts /\ ~cores[h].halted
Kernel == {"alu", "jal", "jalr", "branch", "ebreak", "load", "store"}

\* The step of a hart that does not fault.
Moves(h) == /\ Runs(h) /\ Inst(h).op \in Kernel
            /\ OneMoves(h, After(h))
            /\ UNCHANGED <<faulted, geometry, prog, waiting>>
            /\ IF Inst(h).op = "store"
               THEN mem' = [mem EXCEPT ![Address(Inst(h), cores[h].reg)] = cores[h].reg]
               ELSE UNCHANGED mem

LEMMA StepMoves ==
  ASSUME IssInv, NEW h \in Harts,
         \/ StepAlu(h) \/ StepBranch(h) \/ StepJalr(h) \/ StepEbreak(h)
         \/ StepLoad(h) \/ StepStore(h)
  PROVE  Moves(h)
<1>1. Runs(h)
  BY DEF StepAlu, StepBranch, StepJalr, StepEbreak, StepLoad, StepStore, ToNext, Scheduled,
         gpu_iss_done, Runs
<1>2. IsContext(cores[h])
  BY DEF IssInv
<1>3. PICK c : c = cores[h]
  OBVIOUS
<1>4. IsContext(c) /\ c.halted = FALSE
  BY <1>1, <1>2, <1>3 DEF Runs, IsContext
<1>5. CASE StepAlu(h)
  <2>1. PICK d : d = [pc |-> IF Inst(h).op = "jal" THEN Inst(h).target ELSE c.pc + 1,
                      reg |-> Value(h), halted |-> FALSE]
    OBVIOUS
  <2>2. cores' = [cores EXCEPT ![h] = d] /\ Inst(h).op \in {"alu", "jal"}
    BY <1>3, <1>5, <2>1, Zenon DEF StepAlu, ToNext
  <2>3. After(h) = d /\ IsContext(d)
    BY <1>3, <2>1, <2>2 DEF After, IsContext
  <2> QED
    BY <1>1, <1>5, <2>2, <2>3 DEF Moves, OneMoves, Kernel, StepAlu
<1>6. CASE StepBranch(h)
  <2>1. PICK v : v = IF Takes(Inst(h), c.reg) THEN Inst(h).target ELSE c.pc + 1
    OBVIOUS
  <2>2. PICK d : d = [pc |-> v, reg |-> c.reg, halted |-> FALSE]
    OBVIOUS
  <2>3. cores' = [cores EXCEPT ![h] = [c EXCEPT !.pc = v]] /\ Inst(h).op = "branch"
    BY <1>3, <1>6, <2>1, Zenon DEF StepBranch, ToNext
  <2>4. cores' = [cores EXCEPT ![h] = d]
    <3>1. [c EXCEPT !.pc = v] = [pc |-> v, reg |-> c.reg, halted |-> c.halted]
      BY <1>4, Contexts, Zenon
    <3>2. [c EXCEPT !.pc = v] = d
      BY <1>4, <2>2, <3>1, Zenon
    <3> QED
      BY <2>3, <3>2, Zenon
  <2>5. After(h) = d /\ IsContext(d)
    BY <1>3, <2>1, <2>2, <2>3 DEF After, IsContext
  <2> QED
    BY <1>1, <1>6, <2>3, <2>4, <2>5 DEF Moves, OneMoves, Kernel, StepBranch
<1>7. CASE StepJalr(h)
  <2>1. PICK d : d = [pc |-> Target(h), reg |-> Value(h), halted |-> FALSE]
    OBVIOUS
  <2>2. cores' = [cores EXCEPT ![h] = d] /\ Inst(h).op = "jalr"
    BY <1>7, <2>1, Zenon DEF StepJalr, ToNext
  <2>3. After(h) = d /\ IsContext(d)
    BY <1>3, <2>1, <2>2 DEF After, IsContext
  <2> QED
    BY <1>1, <1>7, <2>2, <2>3 DEF Moves, OneMoves, Kernel, StepJalr
<1>8. CASE StepEbreak(h)
  <2>1. PICK d : d = [pc |-> c.pc, reg |-> c.reg, halted |-> TRUE]
    OBVIOUS
  <2>2. cores' = [cores EXCEPT ![h] = [c EXCEPT !.halted = TRUE]] /\ Inst(h).op = "ebreak"
    BY <1>3, <1>8, Zenon DEF StepEbreak, ToNext
  <2>3. cores' = [cores EXCEPT ![h] = d]
    BY <1>4, <2>1, <2>2, Contexts, Zenon
  <2>4. After(h) = d /\ IsContext(d)
    BY <1>3, <2>1, <2>2 DEF After, IsContext
  <2> QED
    BY <1>1, <1>8, <2>2, <2>3, <2>4 DEF Moves, OneMoves, Kernel, StepEbreak
<1>9. CASE StepLoad(h)
  <2>1. PICK v, w : v = c.pc + 1 /\ w = mem[Address(Inst(h), c.reg)]
    OBVIOUS
  <2>2. PICK d : d = [pc |-> v, reg |-> w, halted |-> FALSE]
    OBVIOUS
  <2>3. cores' = [cores EXCEPT ![h] = LoadedContext(c, v, w)] /\ Inst(h).op = "load"
    <3>1. cores' = [cores EXCEPT ![h] = [c EXCEPT !.pc = c.pc + 1,
                                                  !.reg = mem[Address(Inst(h), c.reg)]]]
      BY <1>3, <1>9 DEF StepLoad, ToNext
    <3> QED
      BY <1>9, <2>1, <3>1 DEF StepLoad, LoadedContext
  <2>4. cores' = [cores EXCEPT ![h] = d]
    <3>1. LoadedContext(c, v, w) = d
      BY <1>4, <2>2, ContextLoaded, Zenon
    <3> QED
      BY <2>3, <3>1, Zenon
  <2>5. After(h) = d /\ IsContext(d)
    BY <1>3, <2>1, <2>2, <2>3 DEF After, IsContext
  <2> QED
    BY <1>1, <1>9, <2>3, <2>4, <2>5 DEF Moves, OneMoves, Kernel, StepLoad
<1>10. CASE StepStore(h)
  <2>1. PICK v : v = c.pc + 1
    OBVIOUS
  <2>2. PICK d : d = [pc |-> v, reg |-> c.reg, halted |-> FALSE]
    OBVIOUS
  <2>3. cores' = [cores EXCEPT ![h] = [c EXCEPT !.pc = v]] /\ Inst(h).op = "store"
    BY <1>3, <1>10, <2>1, Zenon DEF StepStore, ToNext
  <2>4. cores' = [cores EXCEPT ![h] = d]
    <3>1. [c EXCEPT !.pc = v] = [pc |-> v, reg |-> c.reg, halted |-> c.halted]
      BY <1>4, Contexts, Zenon
    <3>2. [c EXCEPT !.pc = v] = d
      BY <1>4, <2>2, <3>1, Zenon
    <3> QED
      BY <2>3, <3>2, Zenon
  <2>5. After(h) = d /\ IsContext(d)
    BY <1>3, <2>1, <2>2, <2>3 DEF After, IsContext
  <2> QED
    BY <1>1, <1>10, <2>3, <2>4, <2>5 DEF Moves, OneMoves, Kernel, StepStore
<1> QED
  BY <1>5, <1>6, <1>7, <1>8, <1>9, <1>10
\* The step of a hart that faults: the launch is over.
LEMMA StepStops ==
  ASSUME IssInv, NEW h \in Harts, StepFault(h)
  PROVE  /\ Runs(h) /\ IssInv' /\ faulted' = TRUE
         /\ UNCHANGED <<geometry, prog, mem, waiting>>
<1>1. Runs(h) /\ faulted' = TRUE /\ UNCHANGED <<geometry, prog, mem, waiting>>
  BY DEF StepFault, ToNext, Scheduled, gpu_iss_done, Runs
<1>2. PICK c : c = cores[h]
  OBVIOUS
<1>3. IsContext(c)
  BY <1>2 DEF IssInv
<1>4. PICK d : d = [c EXCEPT !.halted = TRUE]
  OBVIOUS
<1>5. d = [pc |-> c.pc, reg |-> c.reg, halted |-> TRUE]
  BY <1>3, <1>4, Contexts, Zenon
<1>6. IsContext(d)
  BY <1>5 DEF IsContext
<1>7. cores' = [cores EXCEPT ![h] = d]
  BY <1>2, <1>4, Zenon DEF StepFault, ToNext
<1>8. OneMoves(h, d)
  BY <1>6, <1>7 DEF OneMoves
<1> QED
  BY <1>1, <1>8, OneMovesFacts

LEMMA IssInvInit == Init => IssInv
<1>1. DOMAIN << >> = {}
  OBVIOUS
<1> QED
  BY <1>1 DEF Init, IssInv, Harts

LEMMA IssInvLaunch ==
  ASSUME NEW p \in Programs, NEW g \in Geometries, gpu_iss_launch(p, g)
  PROVE  /\ IssInv' /\ Harts' = 0..(Size(g.grid) * Size(g.block) - 1)
         /\ \A h \in Harts' : cores'[h] = [pc |-> 0, reg |-> Zero, halted |-> FALSE]
<1>1. PICK n : n = Size(g.grid) * Size(g.block)
  OBVIOUS
<1>2. n \in Nat \ {0}
  <2>1. Size(g.grid) \in 1..MaxBlocks /\ Size(g.block) \in 1..(NumWarps * NumThreads)
    BY IssGeometries
  <2>2. PICK G \in Nat \ {0}, B \in Nat \ {0} : G = Size(g.grid) /\ B = Size(g.block)
    <3>1. MaxBlocks \in Nat /\ NumWarps * NumThreads \in Nat
      BY IssBounds, IssTopology
    <3> QED
      BY <2>1, <3>1
  <2>3. G * B \in Nat \ {0}
    OBVIOUS
  <2> QED
    BY <1>1, <2>2, <2>3, Zenon
<1>3. cores' = [h \in 0..(n - 1) |-> [pc |-> 0, reg |-> Zero, halted |-> FALSE]]
  BY <1>1, Zenon DEF gpu_iss_launch
<1>4. Harts' = 0..(n - 1) /\ \A h \in Harts' : cores'[h] = [pc |-> 0, reg |-> Zero, halted |-> FALSE]
  BY <1>3 DEF Harts
<1>5. geometry' = g /\ waiting' = TRUE /\ faulted' = FALSE
  BY DEF gpu_iss_launch
<1>6. ncores' = n
  BY <1>1, <1>5, Zenon DEF ncores
<1>7. Harts' # {}
  BY <1>2, <1>4
<1>8. \A h \in Harts' : IsContext(cores[h]')
  <2>1. IsContext([pc |-> 0, reg |-> Zero, halted |-> FALSE])
    BY DEF IsContext
  <2> QED
    BY <1>4, <2>1, Zenon
<1>9. IssInv'
  BY <1>4, <1>5, <1>6, <1>7, <1>8, Zenon DEF IssInv
<1> QED
  BY <1>1, <1>4, <1>9, Zenon

LEMMA IssInvStep ==
  ASSUME IssInv, [Next]_vars
  PROVE  IssInv'
<1>1. CASE Launch
  BY <1>1, IssInvLaunch DEF Launch
<1>2. ASSUME NEW h \in Harts,
             \/ StepAlu(h) \/ StepBranch(h) \/ StepJalr(h) \/ StepEbreak(h)
             \/ StepLoad(h) \/ StepStore(h)
      PROVE  IssInv'
  <2>1. Moves(h)
    BY <1>2, StepMoves
  <2>2. faulted' \in BOOLEAN
    BY <2>1 DEF Moves, IssInv
  <2>3. OneMoves(h, After(h)) /\ UNCHANGED <<geometry, waiting>>
    BY <2>1 DEF Moves
  <2> QED
    BY <2>2, <2>3, OneMovesFacts, Zenon
<1>3. ASSUME NEW h \in Harts, StepFault(h) PROVE IssInv'
  BY <1>3, StepStops
<1>4. CASE WaitDone \/ WaitTimeout
  BY <1>4 DEF WaitDone, WaitTimeout, IssInv, Harts, ncores
<1>5. CASE Rest \/ UNCHANGED vars
  BY <1>5 DEF Rest, vars, IssInv, Harts, ncores
<1> QED
  BY <1>1, <1>2, <1>3, <1>4, <1>5 DEF Next, gpu_iss_step

\* The contexts are always those of the launched grid (gpu_iss_launch replaces
\* all of them, a step changes one and gpu_model_wait none).
THEOREM HartsInvariant == Spec => []IssInv
<1>1. IssInv /\ [Next]_vars => IssInv'
  BY IssInvStep
<1> QED
  BY <1>1, IssInvInit, PTL DEF Spec

\* Whatever the topology and the geometry, the interpreter hands out exactly the
\* coordinates the cores derive, each of them once (iss.cpp:359-376).
THEOREM CoordinatesCorrect == Spec => []CoordinatesMatchCore
BY HartsInvariant, CoordinatesMatch, PTL
(***************************************************************************)
(* The thread of a hart.                                                   *)
(***************************************************************************)

Off == [run |-> FALSE, pc |-> 0, reg |-> Zero]
Tid(h) == <<Warp(h), lane_id(h)>>

LEMMA TidFacts ==
  ASSUME NEW G, NEW B, Sizes(G, B), NEW h \in 0..(G * B - 1)
  PROVE  /\ Tid(h) \in AllTids
         /\ BlockOf(h) = Warp(h) \div NumWarps
         /\ Local(h) = (Warp(h) % NumWarps) * NumThreads + lane_id(h)
<1>1. BlockOf(h) \in 0..(G - 1) /\ Local(h) \in 0..(B - 1)
  BY HartSplit
<1>2. PICK b \in Nat, l \in Nat : b = BlockOf(h) /\ l = Local(h) /\ b < G /\ l < B
  BY <1>1 DEF Sizes
<1>3. NumWarps \in Nat \ {0} /\ NumThreads \in Nat \ {0} /\ MaxBlocks \in Nat
  BY IssTopology, IssBounds
<1>4. l \in 0..(NumWarps * NumThreads - 1)
  <2>1. NumWarps * NumThreads \in Nat
    BY <1>3
  <2> QED
    BY <1>2, <2>1 DEF Sizes
<1>5. PICK w \in 0..(NumWarps - 1) : w = l \div NumThreads
  BY <1>3, <1>4, QuotientBound
<1>6. PICK t \in 0..(NumThreads - 1) : t = l % NumThreads /\ l = w * NumThreads + t
  <2>1. l % NumThreads \in 0..(NumThreads - 1)
    BY <1>2, <1>3, Euclid
  <2>2. l = (l \div NumThreads) * NumThreads + (l % NumThreads)
    BY <1>2, <1>3, Euclid
  <2>3. l = w * NumThreads + (l % NumThreads)
    BY <1>5, <2>2, Zenon
  <2> QED
    BY <2>1, <2>3, Zenon
<1>7. lane_id(h) = t /\ Warp(h) = b * NumWarps + w
  BY <1>2, <1>5, <1>6, Zenon DEF lane_id, Warp, warp_id
<1>8. (b * NumWarps + w) \div NumWarps = b /\ (b * NumWarps + w) % NumWarps = w
  BY <1>3, EuclidUnique
<1>9. BlockOf(h) = Warp(h) \div NumWarps /\ Warp(h) % NumWarps = w
  BY <1>2, <1>7, <1>8, Zenon
<1>10. Warp(h) \in 0..(MaxBlocks * NumWarps - 1)
  <2>1. b < MaxBlocks
    BY <1>2, <1>3 DEF Sizes
  <2>2. b * NumWarps + NumWarps <= MaxBlocks * NumWarps
    BY <1>3, <2>1, Multiples
  <2>3. b * NumWarps \in Nat /\ MaxBlocks * NumWarps \in Nat
    BY <1>3
  <2> QED
    BY <1>3, <1>7, <2>2, <2>3
<1>11. Tid(h) \in AllTids
  BY <1>7, <1>10 DEF Tid, AllTids
<1> QED
  BY <1>2, <1>6, <1>7, <1>9, <1>11, Zenon

\* No two harts are one thread.
LEMMA TidUnique ==
  ASSUME NEW G, NEW B, Sizes(G, B), NEW h \in 0..(G * B - 1), NEW k \in 0..(G * B - 1),
         Warp(h) = Warp(k), lane_id(h) = lane_id(k)
  PROVE  h = k
<1>1. BlockOf(h) = BlockOf(k) /\ Local(h) = Local(k)
  <2>1. /\ BlockOf(h) = Warp(h) \div NumWarps
        /\ Local(h) = (Warp(h) % NumWarps) * NumThreads + lane_id(h)
    BY TidFacts, Zenon
  <2>2. /\ BlockOf(k) = Warp(k) \div NumWarps
        /\ Local(k) = (Warp(k) % NumWarps) * NumThreads + lane_id(k)
    BY TidFacts, Zenon
  <2> QED
    BY <2>1, <2>2, Zenon
<1>2. h = BlockOf(h) * B + Local(h) /\ k = BlockOf(k) * B + Local(k)
  BY HartSplit, Zenon
<1> QED
  BY <1>1, <1>2, Zenon

\* The state of the thread of each hart, and of the threads that are no hart.
ThreadIs ==
  /\ \A h \in Harts : Tid(h) \in AllTids
  /\ \A h, k \in Harts : Tid(h) = Tid(k) => h = k
  /\ ~(waiting /\ ~faulted) => \A t \in AllTids : ThreadOf(t) = Off
  /\ waiting /\ ~faulted =>
       /\ \A h \in Harts : ThreadOf(Tid(h)) =
            IF cores[h].halted THEN Off
            ELSE [run |-> TRUE, pc |-> cores[h].pc, reg |-> cores[h].reg]
       /\ \A t \in AllTids : (\A h \in Harts : Tid(h) # t) => ThreadOf(t) = Off

LEMMA ThreadFacts == IssInv => ThreadIs
<1> SUFFICES ASSUME IssInv PROVE ThreadIs
  OBVIOUS
<1>1. CASE ~(waiting /\ ~faulted) /\ Harts = {}
  BY <1>1 DEF ThreadIs, ThreadOf, Off
<1>2. CASE Harts # {}
  <2>1. geometry \in Geometries /\ Harts = 0..(ncores - 1)
    BY <1>2 DEF IssInv
  <2>2. PICK G, B : Sizes(G, B)
    BY <2>1, SizesKnown
  <2>3. Harts = 0..(G * B - 1)
    BY <2>1, <2>2, Zenon DEF Sizes, ncores
  <2>4. \A h \in Harts : Tid(h) \in AllTids
    BY <2>2, <2>3, TidFacts, Zenon
  <2>5. \A h, k \in Harts : Warp(h) = Warp(k) /\ lane_id(h) = lane_id(k) => h = k
    BY <2>2, <2>3, TidUnique, Zenon
  <2>6. \A h, k \in Harts : Tid(h) = Tid(k) => h = k
    BY <2>5 DEF Tid
  <2>7. ~(waiting /\ ~faulted) => \A t \in AllTids : ThreadOf(t) = Off
    BY Zenon DEF ThreadOf, Off
  <2>8. ASSUME waiting, ~faulted, NEW h \in Harts
        PROVE  ThreadOf(Tid(h)) =
                 IF cores[h].halted THEN Off
                 ELSE [run |-> TRUE, pc |-> cores[h].pc, reg |-> cores[h].reg]
    <3>1. PICK t : t = Tid(h) /\ t[1] = Warp(h) /\ t[2] = lane_id(h)
      <4>1. Tid(h)[1] = Warp(h) /\ Tid(h)[2] = lane_id(h)
        BY DEF Tid
      <4> QED
        BY <4>1, Zenon
    <3>2. \A k \in Harts : Warp(k) = t[1] /\ lane_id(k) = t[2] => k = h
      BY <2>5, <3>1, Zenon
    <3>3. CASE cores[h].halted
      <4>1. ~\E k \in Harts : Warp(k) = t[1] /\ lane_id(k) = t[2] /\ ~cores[k].halted
        BY <3>2, <3>3
      <4> QED
        BY <3>1, <3>3, <4>1, Zenon DEF ThreadOf, Off
    <3>4. CASE ~cores[h].halted
      <4> DEFINE g == CHOOSE k \in Harts : Warp(k) = t[1] /\ lane_id(k) = t[2]
      <4>1. g \in Harts /\ Warp(g) = t[1] /\ lane_id(g) = t[2]
        BY <3>1, Zenon
      <4>2. g = h
        <5> HIDE DEF g
        <5> QED
          BY <3>2, <4>1, Zenon
      <4>3. ThreadOf(t) = [run |-> TRUE, pc |-> cores[g].pc, reg |-> cores[g].reg]
        BY <2>8, <3>1, <3>4, Zenon DEF ThreadOf
      <4> QED
        BY <3>1, <3>4, <4>2, <4>3, Zenon
    <3> QED
      BY <3>3, <3>4
  <2>9. ASSUME NEW t \in AllTids, \A h \in Harts : Tid(h) # t
        PROVE  ThreadOf(t) = Off
    <3>1. t = <<t[1], t[2]>>
      BY DEF AllTids
    <3>2. ~\E h \in Harts : Warp(h) = t[1] /\ lane_id(h) = t[2]
      BY <2>9, <3>1, Zenon DEF Tid
    <3> QED
      BY <3>2, Zenon DEF ThreadOf, Off
  <2> QED
    BY <2>4, <2>6, <2>7, <2>8, <2>9 DEF ThreadIs
<1> QED
  BY <1>1, <1>2 DEF IssInv

LEMMA ThreadFactsNext == IssInv' => ThreadIs'
<1>1. (IssInv => ThreadIs)'
  BY ThreadFacts, PTL
<1> QED
  BY <1>1
(***************************************************************************)
(* The refinement.                                                         *)
(***************************************************************************)

Threads == [t \in AllTids |-> ThreadOf(t)]
Before(h) == [run |-> TRUE, pc |-> cores[h].pc, reg |-> cores[h].reg]

\* The abstract state, in the terms of the interpreter.
LEMMA AbstractState ==
  /\ Scalar!Tids = AllTids
  /\ \A t \in AllTids : /\ Threads[t] = ThreadOf(t)
                        /\ t \in Scalar!Running <=> ThreadOf(t).run
                        /\ Scalar!At(t) = InstAt(ThreadOf(t).pc)
<1>1. Scalar!Tids = AllTids
  BY DEF Scalar!Tids, Scalar!Warps, Scalar!Lanes, AllTids
<1> QED
  BY <1>1 DEF Scalar!Running, Scalar!At, Scalar!InstAt, Scalar!Illegal, InstAt, Illegal, Threads

\* A hart that runs is a running thread that stands at the hart's instruction.
LEMMA RunningHart ==
  ASSUME ThreadIs, NEW h, Runs(h), NEW t, t = Tid(h)
  PROVE  /\ t \in AllTids /\ t \in Scalar!Running /\ Scalar!At(t) = Inst(h)
         /\ Threads[t] = Before(h) /\ ThreadOf(t) = Before(h)
         /\ t[1] = Warp(h) /\ t[2] = lane_id(h)
<1>1. t \in AllTids /\ ThreadOf(t) = Before(h)
  BY Zenon DEF ThreadIs, Runs, Before
<1>2. t[1] = Warp(h) /\ t[2] = lane_id(h)
  BY DEF Tid
<1>3. Before(h).run = TRUE /\ Before(h).pc = cores[h].pc
  BY DEF Before
<1> QED
  BY <1>1, <1>2, <1>3, AbstractState, Zenon DEF Inst

LEMMA InitMaps == Init => Scalar!SInit
<1>1. Scalar!Tids = AllTids
  BY AbstractState
<1>2. Init => \A t \in AllTids : ThreadOf(t) = Off
  BY Zenon DEF Init, ThreadOf, Off
<1>3. Scalar!Off = Off
  BY DEF Scalar!Off, Off
<1> QED
  BY <1>1, <1>2, <1>3 DEF Init, Scalar!SInit

\* Which threads stop running, and that the others stay as they are.
LEMMA OthersStay ==
  ASSUME IssInv, ThreadIs, ThreadIs', NEW h, Moves(h), NEW t \in AllTids, t # Tid(h)
  PROVE  ThreadOf(t)' = ThreadOf(t)
<1>1. /\ Harts' = Harts /\ cores'[h] = After(h)
      /\ \A k \in Harts : k # h => cores'[k] = cores[k]
  <2>1. OneMoves(h, After(h)) /\ UNCHANGED <<geometry, waiting>> /\ faulted' \in BOOLEAN
    BY DEF Moves, IssInv
  <2> QED
    BY <2>1, OneMovesFacts
<1>2. \A k \in Harts : Tid(k)' = Tid(k)
  BY DEF Moves, Tid, Warp, lane_id, BlockOf, Local, warp_id
<1>3. waiting /\ ~faulted /\ waiting' /\ ~faulted'
  BY DEF Moves, Runs
<1>4. ASSUME NEW k \in Harts, t = Tid(k) PROVE ThreadOf(t)' = ThreadOf(t)
  <2>1. k # h /\ cores'[k] = cores[k]
    BY <1>1, <1>4
  <2>2. ThreadOf(t) = IF cores[k].halted THEN Off
                      ELSE [run |-> TRUE, pc |-> cores[k].pc, reg |-> cores[k].reg]
    BY <1>3, <1>4, Zenon DEF ThreadIs
  <2>3. ThreadOf(t)' = IF cores'[k].halted THEN Off
                       ELSE [run |-> TRUE, pc |-> cores'[k].pc, reg |-> cores'[k].reg]
    <3>1. \A j \in Harts' : ThreadOf(Tid(j))' =
            IF cores'[j].halted THEN Off'
            ELSE [run |-> TRUE, pc |-> cores'[j].pc, reg |-> cores'[j].reg]
      BY <1>3, Zenon DEF ThreadIs
    <3> QED
      BY <1>1, <1>2, <1>4, <3>1 DEF Off
  <2> QED
    BY <2>1, <2>2, <2>3, Zenon
<1>5. ASSUME \A k \in Harts : Tid(k) # t PROVE ThreadOf(t)' = ThreadOf(t)
  <2>1. \A k \in Harts' : Tid(k)' # t
    BY <1>1, <1>2, <1>5, Zenon
  <2> QED
    BY <1>3, <1>5, <2>1, Zenon DEF ThreadIs, Off
<1> QED
  BY <1>4, <1>5
\* The thread a context stands for.
ContextThread(c) == IF c.halted THEN Off ELSE [run |-> TRUE, pc |-> c.pc, reg |-> c.reg]

LEMMA ContextThreads ==
  ASSUME NEW p, NEW r, NEW c, c = [pc |-> p, reg |-> r, halted |-> FALSE]
  PROVE  ContextThread(c) = [run |-> TRUE, pc |-> p, reg |-> r]
<1>1. c.halted = FALSE /\ c.pc = p /\ c.reg = r
  OBVIOUS
<1> QED
  BY <1>1, Zenon DEF ContextThread

LEMMA MovedThread ==
  ASSUME IssInv, ThreadIs, ThreadIs', NEW h, Moves(h), NEW t, t = Tid(h), NEW c, c = After(h)
  PROVE  ThreadOf(t)' = ContextThread(c)
<1>1. Harts' = Harts /\ cores'[h] = c
  <2>1. OneMoves(h, After(h)) /\ UNCHANGED <<geometry, waiting>> /\ faulted' \in BOOLEAN
    BY DEF Moves, IssInv
  <2> QED
    BY <2>1, OneMovesFacts
<1>2. Tid(h)' = t
  BY DEF Moves, Tid, Warp, lane_id, BlockOf, Local, warp_id
<1>3. waiting' /\ ~faulted' /\ h \in Harts
  BY DEF Moves, Runs
<1>4. \A j \in Harts' : ThreadOf(Tid(j))' =
        IF cores'[j].halted THEN Off'
        ELSE [run |-> TRUE, pc |-> cores'[j].pc, reg |-> cores'[j].reg]
  BY <1>3, Zenon DEF ThreadIs
<1> QED
  BY <1>1, <1>2, <1>3, <1>4 DEF Off, ContextThread

Quiet == {"alu", "jal", "jalr", "branch", "ebreak"}

\* What one instruction that does not touch the memory makes of a thread.
LEMMA AfterMaps ==
  ASSUME IssInv, ThreadIs, NEW h, Runs(h), Inst(h).op \in Quiet, NEW t, t = Tid(h),
         NEW c, c = After(h)
  PROVE  Scalar!After(t) = ContextThread(c)
<1>1. PICK b : b = Before(h)
  OBVIOUS
<1>2. PICK i, v, r : i = Inst(h) /\ v = cores[h].reg /\ r = Value(h)
  OBVIOUS
<1>3. /\ Threads[t] = b /\ Scalar!At(t) = i /\ t[1] = Warp(h) /\ t[2] = lane_id(h)
  BY <1>1, <1>2, RunningHart, Zenon
<1>4. b = [run |-> TRUE, pc |-> cores[h].pc, reg |-> v]
  BY <1>1, <1>2 DEF Before
<1>5. b.reg = v /\ b.pc = cores[h].pc
  BY <1>4
<1>6. Result(Scalar!At(t), t[1], t[2], Threads[t].reg) = r
  BY <1>2, <1>3, <1>5, Zenon DEF Value
<1> DEFINE th == Threads[t]
<1>7. CASE i.op = "alu"
  <2>1. Scalar!After(t) = [b EXCEPT !.pc = b.pc + 1, !.reg = r]
    BY <1>3, <1>6, <1>7 DEF Scalar!After, Threads
  <2>2. c = [pc |-> cores[h].pc + 1, reg |-> r, halted |-> FALSE]
    BY <1>2, <1>7 DEF After
  <2>3. PICK f : f = [b EXCEPT !.pc = b.pc + 1, !.reg = r]
    OBVIOUS
  <2>4. f = [run |-> TRUE, pc |-> cores[h].pc + 1, reg |-> r]
    BY <1>4, <1>5, <2>3
  <2> QED
    BY <2>1, <2>2, <2>3, <2>4, ContextThreads, Zenon
<1>8. CASE i.op = "jal"
  <2>1. Scalar!After(t) = [b EXCEPT !.pc = i.target, !.reg = r]
    BY <1>3, <1>6, <1>8 DEF Scalar!After, Threads
  <2>2. c = [pc |-> i.target, reg |-> r, halted |-> FALSE]
    BY <1>2, <1>8 DEF After
  <2>3. PICK f : f = [b EXCEPT !.pc = i.target, !.reg = r]
    OBVIOUS
  <2>4. f = [run |-> TRUE, pc |-> i.target, reg |-> r]
    BY <1>4, <1>5, <2>3
  <2> QED
    BY <2>1, <2>2, <2>3, <2>4, ContextThreads, Zenon
<1>9. CASE i.op = "jalr"
  <2>1. Scalar!After(t) = [b EXCEPT !.pc = JalrTarget(i, v), !.reg = r]
    BY <1>3, <1>5, <1>6, <1>9 DEF Scalar!After, Threads
  <2>2. c = [pc |-> JalrTarget(i, v), reg |-> r, halted |-> FALSE]
    BY <1>2, <1>9 DEF After, Target
  <2>3. PICK f : f = [b EXCEPT !.pc = JalrTarget(i, v), !.reg = r]
    OBVIOUS
  <2>4. f = [run |-> TRUE, pc |-> JalrTarget(i, v), reg |-> r]
    BY <1>4, <1>5, <2>3
  <2> QED
    BY <2>1, <2>2, <2>3, <2>4, ContextThreads, Zenon
<1>10. CASE i.op = "branch"
  <2>1. PICK p : p = IF Takes(i, v) THEN i.target ELSE cores[h].pc + 1
    OBVIOUS
  <2>2. Scalar!After(t) = [th EXCEPT !.pc = IF Takes(Scalar!At(t), th.reg)
                                            THEN Scalar!At(t).target ELSE th.pc + 1]
    BY <1>3, <1>10 DEF Scalar!After, Threads
  <2>3. Scalar!After(t) = [b EXCEPT !.pc = p]
    BY <1>3, <1>5, <2>1, <2>2, Zenon
  <2>4. c = [pc |-> p, reg |-> v, halted |-> FALSE]
    BY <1>2, <1>10, <2>1 DEF After
  <2>5. PICK f : f = [b EXCEPT !.pc = p]
    OBVIOUS
  <2>6. f = [run |-> TRUE, pc |-> p, reg |-> v]
    BY <1>4, <1>5, <2>5
  <2> QED
    BY <2>3, <2>4, <2>5, <2>6, ContextThreads, Zenon
<1>11. CASE i.op = "ebreak"
  <2>1. Scalar!After(t) = Scalar!Off
    BY <1>3, <1>11 DEF Scalar!After
  <2>2. c.halted = TRUE
    BY <1>2, <1>11 DEF After
  <2> QED
    BY <2>1, <2>2 DEF Scalar!Off, Off, ContextThread
<1> QED
  BY <1>2, <1>7, <1>8, <1>9, <1>10, <1>11 DEF Quiet

\* A step outside the memory is a step of one thread.
LEMMA AdvanceMaps ==
  ASSUME IssInv, ThreadIs, ThreadIs', NEW h, Moves(h), Inst(h).op \in Quiet
  PROVE  Scalar!Advance
<1>1. PICK t : t = Tid(h)
  OBVIOUS
<1>2. PICK c : c = After(h)
  OBVIOUS
<1>3. Runs(h) /\ UNCHANGED <<waiting, faulted, prog, mem>>
  BY DEF Moves, Quiet
<1>4. t \in AllTids /\ t \in Scalar!Running /\ Scalar!At(t) = Inst(h)
  BY <1>1, <1>3, RunningHart, Zenon
<1>5. ThreadOf(t)' = Scalar!After(t)
  <2>1. ThreadOf(t)' = ContextThread(c)
    BY <1>1, <1>2, MovedThread
  <2>2. Scalar!After(t) = ContextThread(c)
    BY <1>1, <1>2, <1>3, AfterMaps
  <2> QED
    BY <2>1, <2>2, Zenon
<1>6. \A k \in AllTids : ThreadOf(k)' = IF k \in {t} THEN Scalar!After(k) ELSE Threads[k]
  BY <1>1, <1>5, OthersStay DEF Threads
<1>7. Threads' = [k \in Scalar!Tids |-> IF k \in {t} THEN Scalar!After(k) ELSE Threads[k]]
  BY <1>6, AbstractState, Zenon DEF Threads
<1>8. {t} \in (SUBSET Scalar!Running) \ {{}}
  BY <1>4
<1>9. \A k \in {t} : Scalar!At(k).op \in {"alu", "jal", "jalr", "branch", "ebreak"}
  BY <1>4 DEF Quiet
<1>10. UNCHANGED <<waiting /\ ~faulted, faulted, prog, mem>>
  BY <1>3
<1> QED
  BY <1>7, <1>8, <1>9, <1>10, Zenon DEF Scalar!Advance, Threads
\* One thread goes on to the next instruction, with a register or without.
ThreadLoads(x, u) == Threads' = [Threads EXCEPT ![x].pc = @ + 1, ![x].reg = u]
ThreadSteps(x) == Threads' = [Threads EXCEPT ![x].pc = @ + 1]

OneThreadMoves(x, p, v, u) ==
  /\ ThreadOf(x) = [run |-> TRUE, pc |-> p, reg |-> v]
  /\ ThreadOf(x)' = [run |-> TRUE, pc |-> p + 1, reg |-> u]
  /\ \A t \in AllTids : t # x => ThreadOf(t)' = ThreadOf(t)

LEMMA OneThread ==
  ASSUME NEW x \in AllTids, NEW p, NEW v, NEW u, OneThreadMoves(x, p, v, u)
  PROVE  ThreadLoads(x, u) /\ (u = v => ThreadSteps(x))
<1> USE DEF OneThreadMoves
<1> DEFINE b == [run |-> TRUE, pc |-> p, reg |-> v]
<1>1. PICK c : c = [b EXCEPT !.pc = p + 1]
  OBVIOUS
<1>2. PICK a : a = [c EXCEPT !.reg = u]
  OBVIOUS
<1>3. c = [run |-> TRUE, pc |-> p + 1, reg |-> v] /\ b.pc = p
  BY <1>1
<1>4. a = [run |-> TRUE, pc |-> p + 1, reg |-> u]
  BY <1>2, <1>3
<1>5. u = v => a = c
  BY <1>3, <1>4
<1>6. \A t \in AllTids : ThreadOf(t)' = IF t = x THEN a ELSE ThreadOf(t)
  BY <1>4
<1>7. Threads' = [Threads EXCEPT ![x] = a]
  BY <1>6 DEF Threads
<1>8. x \in DOMAIN Threads /\ Threads[x] = b
  BY DEF Threads
<1> DEFINE m == [Threads EXCEPT ![x] = c]
<1> HIDE DEF b
<1>9. [Threads EXCEPT ![x].pc = @ + 1] = m
  BY <1>1, <1>3, <1>8, Zenon
<1>10. m[x] = c /\ [m EXCEPT ![x] = a] = [Threads EXCEPT ![x] = a]
  BY <1>8
<1> HIDE DEF m
<1>11. [m EXCEPT ![x].reg = u] = [m EXCEPT ![x] = a]
  BY <1>2, <1>10, Zenon
<1>12. [Threads EXCEPT ![x].pc = @ + 1, ![x].reg = u] = [m EXCEPT ![x].reg = u]
  BY <1>9, Zenon
<1> QED
  BY <1>5, <1>7, <1>9, <1>10, <1>11, <1>12, Zenon DEF m, ThreadLoads, ThreadSteps

\* A load or store is one of one thread.
LEMMA MemoryMaps ==
  ASSUME IssInv, ThreadIs, ThreadIs', NEW h, Moves(h), Inst(h).op \in {"load", "store"}
  PROVE  Scalar!LoadStep \/ Scalar!StoreStep
<1>1. PICK t : t = Tid(h)
  OBVIOUS
<1>2. PICK c : c = After(h)
  OBVIOUS
<1>3. PICK i, p, v, u : /\ i = Inst(h) /\ p = cores[h].pc /\ v = cores[h].reg
                        /\ u = IF Inst(h).op = "load" THEN mem[Address(i, v)] ELSE v
  OBVIOUS
<1>4. Runs(h) /\ UNCHANGED <<waiting /\ ~faulted, faulted, prog>>
  BY DEF Moves
<1>5. /\ t \in AllTids /\ t \in Scalar!Running /\ Scalar!At(t) = i
      /\ Threads[t] = Before(h) /\ ThreadOf(t) = Before(h)
  BY <1>1, <1>3, <1>4, RunningHart, Zenon
<1>6. Before(h) = [run |-> TRUE, pc |-> p, reg |-> v] /\ Threads[t].reg = v
  <2>1. Before(h) = [run |-> TRUE, pc |-> p, reg |-> v]
    BY <1>3, Zenon DEF Before
  <2> QED
    BY <1>5, <2>1
<1>7. c = [pc |-> p + 1, reg |-> u, halted |-> FALSE]
  BY <1>2, <1>3 DEF After
<1>8. ThreadOf(t)' = [run |-> TRUE, pc |-> p + 1, reg |-> u]
  <2>1. ThreadOf(t)' = ContextThread(c)
    BY <1>1, <1>2, MovedThread
  <2> QED
    BY <1>7, <2>1, ContextThreads, Zenon
<1>9. \A k \in AllTids : k # t => ThreadOf(k)' = ThreadOf(k)
  BY <1>1, OthersStay
<1>10. OneThreadMoves(t, p, v, u)
  BY <1>5, <1>6, <1>8, <1>9, Zenon DEF OneThreadMoves
<1>11. ThreadLoads(t, u) /\ (u = v => ThreadSteps(t))
  BY <1>5, <1>10, OneThread
<1>12. CASE Inst(h).op = "load"
  <2>1. u = mem[Address(Scalar!At(t), Threads[t].reg)]
    BY <1>3, <1>5, <1>6, <1>12, Zenon
  <2>2. UNCHANGED mem /\ Scalar!At(t).op = "load"
    BY <1>3, <1>5, <1>12 DEF Moves
  <2>3. Threads' = [Threads EXCEPT ![t].pc = @ + 1, ![t].reg = mem[Address(Scalar!At(t), Threads[t].reg)]]
    BY <1>11, <2>1, Zenon DEF ThreadLoads
  <2>4. Scalar!LoadStep
    BY <1>4, <1>5, <2>2, <2>3, Zenon DEF Scalar!LoadStep, Threads
  <2> QED
    BY <2>4
<1>13. CASE Inst(h).op = "store"
  <2>1. mem' = [mem EXCEPT ![Address(Scalar!At(t), Threads[t].reg)] = Threads[t].reg]
    BY <1>3, <1>5, <1>6, <1>13 DEF Moves
  <2>2. Scalar!At(t).op = "store"
    BY <1>3, <1>5, <1>13
  <2>3. u = v
    BY <1>3, <1>13
  <2>4. ThreadSteps(t)
    BY <1>11, <2>3
  <2>5. Scalar!StoreStep
    BY <1>4, <1>5, <2>1, <2>2, <2>4, Zenon DEF Scalar!StoreStep, Threads, ThreadSteps
  <2> QED
    BY <2>5
<1> QED
  BY <1>12, <1>13
\* Harts with the same block coordinates and warp are in one warp of the grid.
LEMMA SameWarp ==
  ASSUME IssInv, NEW h \in Harts, NEW k \in Harts, same_warp(h, k)
  PROVE  Warp(h) = Warp(k)
<1>1. geometry \in Geometries /\ Harts = 0..(ncores - 1)
  BY DEF IssInv
<1>2. PICK G, B : Sizes(G, B)
  BY <1>1, SizesKnown
<1>3. Harts = 0..(G * B - 1)
  BY <1>1, <1>2, Zenon DEF Sizes, ncores
<1>4. /\ Index(block_idx(h), geometry.grid) = BlockOf(h)
      /\ Index(block_idx(k), geometry.grid) = BlockOf(k)
  BY <1>2, <1>3, CoordinatesArePlaces
<1> QED
  BY <1>4, Zenon DEF same_warp, Warp

\* A fault has one of the documented reasons.
LEMMA FaultMaps ==
  ASSUME IssInv, ThreadIs, ThreadIs', NEW h \in Harts, StepFault(h)
  PROVE  Scalar!Abort
<1>1. Runs(h) /\ faulted' = TRUE /\ UNCHANGED <<prog, mem>>
  BY StepStops
<1>2. PICK t : t = Tid(h)
  OBVIOUS
<1>3. /\ t \in Scalar!Running /\ Scalar!At(t) = Inst(h) /\ Threads[t] = Before(h)
      /\ t[1] = Warp(h)
  BY <1>1, <1>2, RunningHart, Zenon
<1>4. ASSUME Inst(h).op \in {"illegal", "badbranch", "badreg"} PROVE Scalar!MustFault
  <2>1. Scalar!At(t).op \in {"illegal", "badreg", "badbranch"}
    BY <1>3, <1>4
  <2> QED
    BY <1>3, <2>1, Zenon DEF Scalar!MustFault
<1>5. ASSUME Inst(h).op = "jalr", Diverges(h) PROVE Scalar!MustFault
  <2>1. PICK k \in Harts : /\ ~cores[k].halted /\ cores[k].pc = cores[h].pc /\ same_warp(h, k)
                           /\ JalrTarget(Inst(h), cores[k].reg) # Target(h)
    BY <1>5 DEF Diverges
  <2>2. PICK s : s = Tid(k)
    OBVIOUS
  <2>3. Runs(k)
    BY <1>1, <2>1 DEF Runs
  <2>4. /\ s \in Scalar!Running /\ Scalar!At(s) = Inst(k) /\ Threads[s] = Before(k)
        /\ s[1] = Warp(k)
    BY <2>2, <2>3, RunningHart, Zenon
  <2>5. Inst(k) = Inst(h)
    BY <2>1, Zenon DEF Inst
  <2>6. t[1] = s[1]
    BY <1>3, <2>1, <2>4, SameWarp, Zenon
  <2>7. /\ Threads[t].pc = cores[h].pc /\ Threads[t].reg = cores[h].reg
        /\ Threads[s].pc = cores[k].pc /\ Threads[s].reg = cores[k].reg
    BY <1>3, <2>4 DEF Before
  <2>8. /\ Threads[t].pc = Threads[s].pc /\ Scalar!At(t).op = "jalr"
        /\ JalrTarget(Scalar!At(t), Threads[t].reg) # JalrTarget(Scalar!At(s), Threads[s].reg)
    BY <1>3, <1>5, <2>1, <2>4, <2>5, <2>7, Zenon DEF Target
  <2> QED
    BY <1>3, <2>4, <2>6, <2>8, Zenon DEF Scalar!MustFault, Threads
<1>6. Scalar!MustFault
  BY <1>4, <1>5 DEF StepFault
<1>7. \A k \in AllTids : ThreadOf(k)' = Off
  BY <1>1, Zenon DEF ThreadIs, Off
<1>8. Threads' = [k \in Scalar!Tids |-> Scalar!Off]
  BY <1>7, AbstractState DEF Threads, Off, Scalar!Off
<1>9. (waiting /\ ~faulted) /\ (waiting' /\ ~faulted') = FALSE
  BY <1>1 DEF Runs
<1> QED
  BY <1>1, <1>6, <1>8, <1>9, Zenon DEF Scalar!Abort, Threads

\* gpu_model_wait returns: the threads have all stopped, the fault is known, or
\* they are given up.
LEMMA WaitMaps ==
  ASSUME IssInv, ThreadIs, ThreadIs', WaitDone \/ WaitTimeout
  PROVE  Scalar!Complete \/ Scalar!Abandon \/ UNCHANGED Scalar!svars
<1>1. /\ waiting /\ waiting' = FALSE
      /\ UNCHANGED <<cores, faulted, geometry, prog, mem>>
  BY DEF WaitDone, WaitTimeout
<1>2. \A k \in AllTids : ThreadOf(k)' = Off
  BY <1>1, Zenon DEF ThreadIs, Off
<1>3. Threads' = [k \in Scalar!Tids |-> Scalar!Off]
  BY <1>2, AbstractState DEF Threads, Off, Scalar!Off
<1>4. (waiting' /\ ~faulted') = FALSE
  BY <1>1
<1>5. CASE faulted
  <2>1. \A k \in AllTids : ThreadOf(k) = Off
    BY <1>5 DEF ThreadIs
  <2>2. Threads' = Threads
    BY <1>2, <2>1 DEF Threads
  <2>3. (waiting /\ ~faulted) = FALSE
    BY <1>5
  <2> QED
    BY <1>1, <1>4, <2>2, <2>3 DEF Scalar!svars, Threads
<1>6. CASE ~faulted /\ WaitDone
  <2>1. \A h \in Harts : cores[h].halted
    BY <1>6 DEF WaitDone, gpu_iss_done
  <2>2. ASSUME NEW k \in AllTids PROVE ThreadOf(k) = Off
    <3>1. ASSUME NEW h \in Harts, k = Tid(h) PROVE ThreadOf(k) = Off
      BY <1>1, <1>6, <2>1, <3>1, Zenon DEF ThreadIs
    <3>2. ASSUME \A h \in Harts : Tid(h) # k PROVE ThreadOf(k) = Off
      BY <1>1, <1>6, <3>2, Zenon DEF ThreadIs
    <3> QED
      BY <3>1, <3>2
  <2>3. Threads' = Threads
    BY <1>2, <2>2 DEF Threads
  <2>4. Scalar!Running = {}
    <3>1. ~Off.run
      BY DEF Off
    <3>2. \A k \in AllTids : k \notin Scalar!Running
      BY <2>2, <3>1, AbstractState, Zenon
    <3> QED
      BY <3>2, AbstractState DEF Scalar!Running
  <2>5. waiting /\ ~faulted
    BY <1>1, <1>6
  <2> QED
    BY <1>1, <1>4, <2>3, <2>4, <2>5, Zenon DEF Scalar!Complete, Threads
<1>7. CASE ~faulted /\ WaitTimeout
  <2>1. MayTimeout /\ waiting /\ ~faulted
    BY <1>7 DEF WaitTimeout
  <2> QED
    BY <1>1, <1>3, <1>4, <2>1, Zenon DEF Scalar!Abandon, Threads
<1> QED
  BY <1>5, <1>6, <1>7
\* The threads of the harts of a grid are those the geometry names.
LEMMA TidsNamed ==
  ASSUME NEW G, NEW B, Sizes(G, B), NEW t
  PROVE  t \in TidsOf(geometry) <=> \E h \in 0..(G * B - 1) : Tid(h) = t
<1>1. ASSUME t \in TidsOf(geometry) PROVE \E h \in 0..(G * B - 1) : Tid(h) = t
  <2>1. PICK b \in 0..(G - 1), i \in 0..(B - 1) :
           t = <<b * NumWarps + (i \div NumThreads), i % NumThreads>>
    BY <1>1 DEF TidsOf, Sizes
  <2>2. PICK h : h = b * B + i
    OBVIOUS
  <2>3. h \in 0..(G * B - 1) /\ BlockOf(h) = b /\ Local(h) = i
    <3>1. b * B + i \in 0..(G * B - 1) /\ BlockOf(b * B + i) = b /\ Local(b * B + i) = i
      BY HartJoin
    <3> QED
      BY <2>2, <3>1, Zenon
  <2>4. Tid(h) = t
    BY <2>1, <2>3, Zenon DEF Tid, Warp, lane_id, warp_id
  <2> QED
    BY <2>3, <2>4
<1>2. ASSUME NEW h \in 0..(G * B - 1), Tid(h) = t PROVE t \in TidsOf(geometry)
  <2>1. PICK b \in 0..(G - 1), i \in 0..(B - 1) : b = BlockOf(h) /\ i = Local(h)
    BY HartSplit
  <2>2. t = <<b * NumWarps + (i \div NumThreads), i % NumThreads>>
    BY <1>2, <2>1, Zenon DEF Tid, Warp, lane_id, warp_id
  <2>3. b \in 0..(Size(geometry.grid) - 1) /\ i \in 0..(Size(geometry.block) - 1)
    BY <2>1, Zenon DEF Sizes
  <2> QED
    BY <2>2, <2>3 DEF TidsOf
<1> QED
  BY <1>1, <1>2

TidsOfHarts == \A t : t \in TidsOf(geometry) <=> \E h \in Harts : Tid(h) = t

LEMMA HartsNamed == IssInv /\ Harts # {} => TidsOfHarts
<1> SUFFICES ASSUME IssInv, Harts # {}, NEW t
             PROVE  t \in TidsOf(geometry) <=> \E h \in Harts : Tid(h) = t
  BY DEF TidsOfHarts
<1>1. geometry \in Geometries /\ Harts = 0..(ncores - 1)
  BY DEF IssInv
<1>2. PICK G, B : Sizes(G, B)
  BY <1>1, SizesKnown
<1>3. Harts = 0..(G * B - 1)
  BY <1>1, <1>2, Zenon DEF Sizes, ncores
<1>4. t \in TidsOf(geometry) <=> \E h \in 0..(G * B - 1) : Tid(h) = t
  BY <1>2, TidsNamed
<1> QED
  BY <1>3, <1>4, Zenon

LEMMA HartsNamedNext == IssInv' /\ Harts' # {} => TidsOfHarts'
<1>1. (IssInv /\ Harts # {} => TidsOfHarts)'
  BY HartsNamed, PTL
<1> QED
  BY <1>1

\* A launch starts the threads of the grid, and no other.
LEMMA LaunchMaps ==
  ASSUME ThreadIs', NEW p \in Programs, NEW g \in Geometries, gpu_iss_launch(p, g)
  PROVE  Scalar!Start
<1> DEFINE new == [run |-> TRUE, pc |-> 0, reg |-> Zero]
<1>1. /\ IssInv'
      /\ \A h \in Harts' : cores'[h] = [pc |-> 0, reg |-> Zero, halted |-> FALSE]
  BY IssInvLaunch
<1>2. /\ waiting' = TRUE /\ faulted' = FALSE /\ geometry' = g /\ prog' = p /\ mem' = mem
      /\ ~waiting
  BY DEF gpu_iss_launch
<1>3. Harts' # {}
  BY <1>1, <1>2 DEF IssInv
<1>4. \A t : t \in TidsOf(g) <=> \E h \in Harts' : Tid(h)' = t
  <2>1. \A t : t \in TidsOf(geometry') <=> \E h \in Harts' : Tid(h)' = t
    BY <1>1, <1>3, HartsNamedNext, Zenon DEF TidsOfHarts
  <2> QED
    BY <1>2, <2>1, Zenon
<1>5. ASSUME NEW t \in AllTids
      PROVE  ThreadOf(t)' = IF t \in TidsOf(g) THEN new ELSE Off
  <2>1. ASSUME NEW h \in Harts', Tid(h)' = t PROVE ThreadOf(t)' = new
    <3>1. \A j \in Harts' : ThreadOf(Tid(j))' =
            IF cores'[j].halted THEN Off'
            ELSE [run |-> TRUE, pc |-> cores'[j].pc, reg |-> cores'[j].reg]
      BY <1>2, Zenon DEF ThreadIs
    <3> QED
      BY <1>1, <2>1, <3>1
  <2>2. ASSUME \A h \in Harts' : Tid(h)' # t PROVE ThreadOf(t)' = Off
    BY <1>2, <2>2, Zenon DEF ThreadIs, Off
  <2>3. CASE t \in TidsOf(g)
    BY <1>4, <2>1, <2>3
  <2>4. CASE t \notin TidsOf(g)
    BY <1>4, <2>2, <2>4
  <2> QED
    BY <2>3, <2>4
<1>6. Threads' = [t \in Scalar!Tids |-> IF t \in TidsOf(g) THEN new ELSE Scalar!Off]
  BY <1>5, AbstractState DEF Threads, Off, Scalar!Off
<1>7. TidsOf(g) \in {TidsOf(d) : d \in Geometries}
  OBVIOUS
<1>8. ~(waiting /\ ~faulted) /\ (waiting' /\ ~faulted') = TRUE
  BY <1>2
<1> QED
  BY <1>2, <1>6, <1>7, <1>8, Zenon DEF Scalar!Start, Threads

LEMMA StepSimulation ==
  ASSUME IssInv, IssInv', [Next]_vars
  PROVE  [Scalar!SNext]_(Scalar!svars)
<1>1. ThreadIs /\ ThreadIs'
  BY ThreadFacts, ThreadFactsNext
<1>2. CASE Launch
  <2>1. Scalar!Start
    BY <1>1, <1>2, LaunchMaps DEF Launch
  <2> QED
    BY <2>1 DEF Scalar!SNext
<1>3. ASSUME NEW h \in Harts,
             \/ StepAlu(h) \/ StepBranch(h) \/ StepJalr(h) \/ StepEbreak(h)
             \/ StepLoad(h) \/ StepStore(h)
      PROVE  Scalar!SNext
  <2>1. Moves(h)
    BY <1>3, StepMoves
  <2>2. Inst(h).op \in Quiet \/ Inst(h).op \in {"load", "store"}
    BY <2>1 DEF Moves, Kernel, Quiet
  <2>3. Scalar!Advance \/ Scalar!LoadStep \/ Scalar!StoreStep
    BY <1>1, <2>1, <2>2, AdvanceMaps, MemoryMaps
  <2> QED
    BY <2>3 DEF Scalar!SNext
<1>4. ASSUME NEW h \in Harts, StepFault(h) PROVE Scalar!SNext
  <2>1. Scalar!Abort
    BY <1>1, <1>4, FaultMaps
  <2> QED
    BY <2>1 DEF Scalar!SNext
<1>5. CASE WaitDone \/ WaitTimeout
  <2>1. Scalar!Complete \/ Scalar!Abandon \/ UNCHANGED Scalar!svars
    BY <1>1, <1>5, WaitMaps
  <2> QED
    BY <2>1 DEF Scalar!SNext
<1>6. CASE UNCHANGED vars
  <2>1. \A t \in AllTids : ThreadOf(t)' = ThreadOf(t)
    BY <1>6 DEF vars, ThreadOf, Harts, Warp, lane_id, BlockOf, Local, warp_id
  <2> QED
    BY <1>6, <2>1 DEF Scalar!svars, vars
<1>7. CASE Rest
  BY <1>6, <1>7 DEF Rest
<1> QED
  BY <1>2, <1>3, <1>4, <1>5, <1>6, <1>7, Zenon DEF Next, gpu_iss_step

\* Every hart behaves like a scalar thread, for every topology, geometry and
\* kernel: gpu_model_wait reports completion only when all have stopped, and a
\* fault is raised only for a documented reason and ends the launch.
THEOREM InterpreterImplementsThreads == Spec => ImplementsScalarThreads
<1>1. IssInv /\ IssInv' /\ [Next]_vars => [Scalar!SNext]_(Scalar!svars)
  BY StepSimulation
<1> QED
  BY <1>1, InitMaps, HartsInvariant, PTL DEF Spec, ImplementsScalarThreads, Scalar!SSpec

(***************************************************************************)
(* The round robin over the harts.                                         *)
(***************************************************************************)

\* The harts of a launch are numbered from zero.
LEMMA HartNumbers ==
  ASSUME IssInv, Harts # {}
  PROVE  ncores \in Nat \ {0} /\ Harts = 0..(ncores - 1)
<1>1. PICK G, B : Sizes(G, B)
  BY SizesKnown DEF IssInv
<1>2. G \in Nat \ {0} /\ B \in Nat \ {0} /\ ncores = G * B
  BY <1>1 DEF Sizes, ncores
<1>3. G * B \in Nat /\ G * B # 0
  BY <1>2
<1> QED
  BY <1>2, <1>3 DEF IssInv

\* A step of the interpreter is one of a scheduled hart, and moves rr behind it.
LEMMA StepTurns ==
  ASSUME gpu_iss_step
  PROVE  \E h \in Harts : /\ Scheduled(h) /\ Advance(h)
                          /\ Harts' = Harts /\ UNCHANGED <<geometry, waiting>>
<1>1. PICK h \in Harts : \/ StepAlu(h) \/ StepBranch(h) \/ StepJalr(h) \/ StepEbreak(h)
                         \/ StepLoad(h) \/ StepStore(h) \/ StepFault(h)
  BY DEF gpu_iss_step
<1>2. /\ \E c : ToNext(h, c)
      /\ UNCHANGED <<geometry, waiting>>
  BY <1>1, Zenon DEF StepAlu, StepBranch, StepJalr, StepEbreak, StepLoad, StepStore, StepFault
<1>3. PICK c : ToNext(h, c)
  BY <1>2
<1>4. Harts' = Harts
  BY <1>3 DEF ToNext, Harts
<1> QED
  BY <1>2, <1>3, <1>4 DEF ToNext

LEMMA RrStep ==
  ASSUME IssInv, RrInv, [Next]_vars
  PROVE  RrInv'
<1>1. CASE Launch
  <2>1. PICK p \in Programs, g \in Geometries : gpu_iss_launch(p, g)
    BY <1>1 DEF Launch
  <2>2. Size(g.grid) \in Nat \ {0} /\ Size(g.block) \in Nat \ {0}
    <3>1. Size(g.grid) \in 1..MaxBlocks /\ Size(g.block) \in 1..(NumWarps * NumThreads)
      BY IssGeometries
    <3>2. MaxBlocks \in Nat /\ NumWarps * NumThreads \in Nat
      BY IssBounds, IssTopology
    <3> QED
      BY <3>1, <3>2
  <2>3. PICK n : n = Size(g.grid) * Size(g.block)
    OBVIOUS
  <2>4. n \in Nat \ {0}
    BY <2>2, <2>3
  <2>5. Harts' = 0..(n - 1) /\ rr' = 0
    BY <2>1, <2>3 DEF gpu_iss_launch, Harts
  <2> QED
    BY <2>4, <2>5 DEF RrInv
<1>2. CASE gpu_iss_step
  <2>1. PICK h \in Harts : Advance(h) /\ Harts' = Harts
    BY <1>2, StepTurns
  <2>2. ncores \in Nat \ {0} /\ Harts = 0..(ncores - 1)
    BY <2>1, HartNumbers
  <2> QED
    BY <2>1, <2>2 DEF Advance, RrInv
<1>3. CASE WaitDone \/ WaitTimeout \/ Rest \/ UNCHANGED vars
  BY <1>3 DEF WaitDone, WaitTimeout, Rest, vars, RrInv, Harts
<1> QED
  BY <1>1, <1>2, <1>3 DEF Next

\* No running hart is closer to the round robin than the scheduled one.
LEMMA ScheduledIsClosest ==
  ASSUME IssInv, RrInv, NEW h \in Harts, NEW k \in Harts, Scheduled(h), ~cores[k].halted
  PROVE  Ahead(h) <= Ahead(k)
<1>1. ncores \in Nat \ {0} /\ Harts = 0..(ncores - 1) /\ rr \in Harts
  BY HartNumbers DEF RrInv
<1>2. PICK i \in Harts : h = From(i) /\ \A j \in Harts : j < i => cores[From(j)].halted
  BY DEF Scheduled
<1>3. i = Ahead(h)
  BY <1>1, <1>2 DEF From, Ahead
<1>4. Ahead(k) \in Harts /\ k = From(Ahead(k))
  BY <1>1 DEF From, Ahead
<1>5. ~(Ahead(k) < i)
  BY <1>2, <1>4
<1> QED
  BY <1>1, <1>3, <1>4, <1>5

LEMMA TurnTaken ==
  ASSUME IssInv, RrInv, Next, waiting, waiting', NEW k \in Harts, ~cores[k].halted
  PROVE  Scheduled(k) \/ Ahead(k)' < Ahead(k)
<1>1. gpu_iss_step
  BY DEF Next, Launch, gpu_iss_launch, WaitDone, WaitTimeout, Rest
<1>2. PICK h \in Harts : Scheduled(h) /\ Advance(h) /\ UNCHANGED geometry
  BY <1>1, StepTurns
<1>3. ncores \in Nat \ {0} /\ Harts = 0..(ncores - 1) /\ rr \in Harts
  BY HartNumbers DEF RrInv
<1>4. Ahead(h) <= Ahead(k)
  BY <1>2, ScheduledIsClosest
<1>5. ncores' = ncores
  BY <1>2 DEF ncores
<1>6. k # h => Ahead(k)' < Ahead(k)
  BY <1>2, <1>3, <1>4, <1>5 DEF Advance, Ahead
<1> QED
  BY <1>2, <1>6

\* The safety half of WaitReturns: no running hart is passed over, for every
\* topology, geometry and kernel (iss.cpp:381-393).
THEOREM RoundRobinHarts == Spec => HartsTakeTurns
<1>1. Init => RrInv
  BY DEF Init, RrInv, Harts
<1>2. IssInv /\ RrInv /\ [Next]_vars => RrInv'
  BY RrStep
<1>3. IssInv /\ RrInv /\ [Next]_vars =>
        [waiting /\ waiting' =>
           \A h \in Harts : cores[h].halted \/ Scheduled(h) \/ Ahead(h)' < Ahead(h)]_vars
  BY TurnTaken
<1> QED
  BY <1>1, <1>2, <1>3, HartsInvariant, PTL DEF Spec, HartsTakeTurns
=============================================================================
