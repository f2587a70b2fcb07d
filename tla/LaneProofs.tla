----------------------------- MODULE LaneProofs -----------------------------
(***************************************************************************)
(* Proofs about Lane with the bytes of the code, of eight bits: for every  *)
(* set of instructions and operands and every sequence of them the two     *)
(* sides refuse the same encodings, their memories hold the same bytes and *)
(* their results are equal, with the exceptions that the theorems name.    *)
(***************************************************************************)
EXTENDS Lane, TLAPS

-----------------------------------------------------------------------------
(* Division.                                                               *)

LEMMA Division ==
  ASSUME NEW n \in Nat, NEW d \in Nat \ {0}
  PROVE  n = d * (n \div d) + (n % d)
OBVIOUS

(* The library's own facts about \div and %, with the factors swapped.     *)
LEMMA Euclid ==
  ASSUME NEW n \in Nat, NEW d \in Nat \ {0}
  PROVE  n \div d \in Nat /\ n % d \in 0..(d - 1) /\ n = (n \div d) * d + (n % d)
<1>1. PICK q \in Nat : q = n \div d
  BY SMT
<1>2. PICK r \in 0..(d - 1) : r = n % d
  BY SMT
<1>3. n \in Nat /\ d \in Nat \ {0}
  OBVIOUS
<1>4. n = d * (n \div d) + (n % d)
  BY <1>3, Division, Zenon
<1>5. n = d * q + r
  BY <1>1, <1>2, <1>4, Zenon
<1>6. n = q * d + r
  BY <1>5
<1>7. n \div d \in Nat
  BY <1>1
<1>8. n % d \in 0..(d - 1)
  BY <1>2
<1>9. n = (n \div d) * d + r
  BY <1>1, <1>6, Zenon
<1>10. n = (n \div d) * d + (n % d)
  BY <1>2, <1>9
<1> QED
  BY <1>7, <1>8, <1>10
\* A factor more is at least d more.
LEMMA Multiples ==
  ASSUME NEW a \in Nat, NEW b \in Nat, NEW d \in Nat, a < b
  PROVE  a * d + d <= b * d
<1>1. PICK k \in Nat : b = a + 1 + k
  <2>1. b - a - 1 \in Nat /\ b = a + 1 + (b - a - 1)
    OBVIOUS
  <2> QED
    BY <2>1
<1>2. b * d = a * d + d + k * d
  BY <1>1
<1>3. k * d \in Nat /\ a * d \in Nat /\ b * d \in Nat
  BY <1>1
<1> QED
  BY <1>2, <1>3

LEMMA EuclidUnique ==
  ASSUME NEW d \in Nat \ {0}, NEW q \in Nat, NEW r \in 0..(d - 1)
  PROVE  (q * d + r) \div d = q /\ (q * d + r) % d = r
<1>1. q * d \in Nat /\ q * d + r \in Nat
  BY SMT
<1>2. PICK n \in Nat : n = q * d + r
  BY <1>1
<1>3. PICK p \in Nat : p = n \div d
  BY Euclid
<1>4. PICK s \in 0..(d - 1) : s = n % d
  BY Euclid
<1>5. n = p * d + s
  BY <1>3, <1>4, Euclid
<1>6. ~(p < q)
  <2>1. p < q => p * d + d <= q * d
    BY Multiples
  <2> QED
    BY <1>1, <1>2, <1>5, <2>1
<1>7. ~(q < p)
  <2>1. q < p => q * d + d <= p * d
    BY Multiples
  <2> QED
    BY <1>1, <1>2, <1>5, <2>1
<1>8. p = q
  BY <1>6, <1>7
<1>9. s = r
  BY <1>1, <1>2, <1>5, <1>8
<1> QED
  BY <1>2, <1>3, <1>4, <1>8, <1>9


-----------------------------------------------------------------------------
(* Words of four bytes.                                                    *)

Octets == 0..255
WordOf(a, b, c, d) == a * Byte ^ 0 + b * Byte ^ 1 + c * Byte ^ 2 + d * Byte ^ 3

LEMMA Powers ==
  ASSUME ByteBits = 8
  PROVE  /\ Byte = 256 /\ Base = 4294967296 /\ XLen = 32
         /\ Byte ^ 0 = 1 /\ Byte ^ 1 = 256 /\ Byte ^ 2 = 65536 /\ Byte ^ 3 = 16777216
<1>1. XLen = 32
  BY SMT DEF XLen
<1>2. Byte = 2 ^ 8 /\ Base = 2 ^ 32
  BY <1>1, SMT DEF Byte, Base
<1>3. 2 ^ 8 = 256 /\ 2 ^ 32 = 4294967296
  BY SMT
<1>4. Byte = 256
  BY <1>2, <1>3, SMT
<1>5. Byte ^ 0 = 256 ^ 0 /\ Byte ^ 1 = 256 ^ 1 /\ Byte ^ 2 = 256 ^ 2 /\ Byte ^ 3 = 256 ^ 3
  BY <1>4, SMT
<1>6. 256 ^ 0 = 1 /\ 256 ^ 1 = 256 /\ 256 ^ 2 = 65536 /\ 256 ^ 3 = 16777216
  BY SMT
<1> QED
  BY <1>1, <1>2, <1>3, <1>4, <1>5, <1>6, SMT

LEMMA QuotientRemainder ==
  ASSUME NEW n \in Nat, NEW d \in Nat \ {0}, NEW q \in Nat, NEW r \in 0..(d - 1), n = q * d + r
  PROVE  n \div d = q /\ n % d = r
BY EuclidUnique, Zenon

LEMMA Split ==
  ASSUME NEW n \in Nat, NEW d \in Nat \ {0}
  PROVE  \E q \in Nat, r \in 0..(d - 1) : n = q * d + r
<1>1. n \div d \in Nat /\ n % d \in 0..(d - 1) /\ n = (n \div d) * d + (n % d)
  BY Euclid
<1> QED
  BY <1>1, Zenon

LEMMA SplitByte ==
  ASSUME NEW n \in Nat
  PROVE  \E q \in Nat, r \in Octets : n = q * 256 + r
<1>1. PICK e \in Nat \ {0} : e = 256
  BY SMT
<1>2. PICK q \in Nat, r \in 0..(e - 1) : n = q * e + r
  BY Split
<1> QED
  BY <1>1, <1>2, SMT DEF Octets

(* Every word is made of four bytes.                                       *)
LEMMA Digits ==
  ASSUME ByteBits = 8, NEW v \in Words
  PROVE  \E a, b, c, d \in Octets : v = WordOf(a, b, c, d)
<1>0. v \in Nat /\ v < 4294967296
  BY Powers, SMT DEF Words
<1>1. PICK v1 \in Nat, a \in Octets : v = v1 * 256 + a
  BY <1>0, SplitByte, SMT
<1>2. PICK v2 \in Nat, b \in Octets : v1 = v2 * 256 + b
  BY SplitByte, SMT
<1>3. PICK d \in Nat, c \in Octets : v2 = d * 256 + c
  BY SplitByte, SMT
<1>4. v1 = (d * 256 + c) * 256 + b
  BY <1>2, <1>3, SMT
<1>5. v = ((d * 256 + c) * 256 + b) * 256 + a
  BY <1>1, <1>4, SMT
<1>6. v = a + b * 256 + c * 65536 + d * 16777216
  BY <1>1, <1>2, <1>3, <1>5, SMT DEF Octets
<1>7. d <= 255
  BY <1>0, <1>1, <1>2, <1>3, <1>6, SMT DEF Octets
<1>8. v = WordOf(a, b, c, d) /\ d \in Octets
  BY <1>3, <1>6, <1>7, Powers, SMT DEF WordOf, Octets
<1> QED
  BY <1>8, Zenon

(* Any four bytes are a word.                                              *)
LEMMA WordRange ==
  ASSUME ByteBits = 8,
         NEW a \in Octets, NEW b \in Octets, NEW c \in Octets, NEW d \in Octets
  PROVE  WordOf(a, b, c, d) \in Words /\ WordOf(a, b, c, d) \in Nat
BY Powers, SMT DEF WordOf, Octets, Words

(* The bytes of a word move down when it is divided by a power of 256.     *)
LEMMA ShiftDown ==
  ASSUME ByteBits = 8,
         NEW a \in Octets, NEW b \in Octets, NEW c \in Octets, NEW d \in Octets
  PROVE  /\ WordOf(a, b, c, d) \div Byte ^ 0 = WordOf(a, b, c, d)
         /\ WordOf(a, b, c, d) \div Byte ^ 1 = WordOf(b, c, d, 0)
         /\ WordOf(a, b, c, d) \div Byte ^ 2 = WordOf(c, d, 0, 0)
         /\ WordOf(a, b, c, d) \div Byte ^ 3 = WordOf(d, 0, 0, 0)
<1>1. WordOf(a, b, c, d) \div Byte ^ 0 = WordOf(a, b, c, d)
  <2>1. WordOf(a, b, c, d) \in Nat
    BY Powers, SMT DEF WordOf, Octets
  <2>2. Byte ^ 0 \in Nat \ {0}
    BY Powers, SMT
  <2>3. WordOf(a, b, c, d) \in Nat
    BY Powers, SMT DEF WordOf, Octets
  <2>4. 0 \in 0..(Byte ^ 0 - 1)
    BY Powers, SMT DEF WordOf, Octets
  <2>5. WordOf(a, b, c, d) = WordOf(a, b, c, d) * Byte ^ 0 + 0
    BY Powers, SMT DEF WordOf, Octets
  <2> QED
    BY <2>1, <2>2, <2>3, <2>4, <2>5, QuotientRemainder, Zenon
<1>2. WordOf(a, b, c, d) \div Byte ^ 1 = WordOf(b, c, d, 0)
  <2>1. WordOf(a, b, c, d) \in Nat
    BY Powers, SMT DEF WordOf, Octets
  <2>2. Byte ^ 1 \in Nat \ {0}
    BY Powers, SMT
  <2>3. WordOf(b, c, d, 0) \in Nat
    BY Powers, SMT DEF WordOf, Octets
  <2>4. a \in 0..(Byte ^ 1 - 1)
    BY Powers, SMT DEF WordOf, Octets
  <2>5. WordOf(a, b, c, d) = WordOf(b, c, d, 0) * Byte ^ 1 + a
    BY Powers, SMT DEF WordOf, Octets
  <2> QED
    BY <2>1, <2>2, <2>3, <2>4, <2>5, QuotientRemainder, Zenon
<1>3. WordOf(a, b, c, d) \div Byte ^ 2 = WordOf(c, d, 0, 0)
  <2>1. WordOf(a, b, c, d) \in Nat
    BY Powers, SMT DEF WordOf, Octets
  <2>2. Byte ^ 2 \in Nat \ {0}
    BY Powers, SMT
  <2>3. WordOf(c, d, 0, 0) \in Nat
    BY Powers, SMT DEF WordOf, Octets
  <2>4. WordOf(a, b, 0, 0) \in 0..(Byte ^ 2 - 1)
    BY Powers, SMT DEF WordOf, Octets
  <2>5. WordOf(a, b, c, d) = WordOf(c, d, 0, 0) * Byte ^ 2 + WordOf(a, b, 0, 0)
    BY Powers, SMT DEF WordOf, Octets
  <2> QED
    BY <2>1, <2>2, <2>3, <2>4, <2>5, QuotientRemainder, Zenon
<1>4. WordOf(a, b, c, d) \div Byte ^ 3 = WordOf(d, 0, 0, 0)
  <2>1. WordOf(a, b, c, d) \in Nat
    BY Powers, SMT DEF WordOf, Octets
  <2>2. Byte ^ 3 \in Nat \ {0}
    BY Powers, SMT
  <2>3. WordOf(d, 0, 0, 0) \in Nat
    BY Powers, SMT DEF WordOf, Octets
  <2>4. WordOf(a, b, c, 0) \in 0..(Byte ^ 3 - 1)
    BY Powers, SMT DEF WordOf, Octets
  <2>5. WordOf(a, b, c, d) = WordOf(d, 0, 0, 0) * Byte ^ 3 + WordOf(a, b, c, 0)
    BY Powers, SMT DEF WordOf, Octets
  <2> QED
    BY <2>1, <2>2, <2>3, <2>4, <2>5, QuotientRemainder, Zenon
<1> QED
  BY <1>1, <1>2, <1>3, <1>4, Zenon

(* What is below the power is the rest.                                    *)
LEMMA LowPart ==
  ASSUME ByteBits = 8,
         NEW a \in Octets, NEW b \in Octets, NEW c \in Octets, NEW d \in Octets
  PROVE  /\ WordOf(a, b, c, d) % Byte = a
         /\ WordOf(a, b, c, d) % Byte ^ 2 = WordOf(a, b, 0, 0)
<1>1. WordOf(a, b, c, d) % Byte = a
  <2>1. WordOf(a, b, c, d) \in Nat
    BY Powers, SMT DEF WordOf, Octets
  <2>2. Byte \in Nat \ {0}
    BY Powers, SMT
  <2>3. WordOf(b, c, d, 0) \in Nat
    BY Powers, SMT DEF WordOf, Octets
  <2>4. a \in 0..(Byte - 1)
    BY Powers, SMT DEF WordOf, Octets
  <2>5. WordOf(a, b, c, d) = WordOf(b, c, d, 0) * Byte + a
    BY Powers, SMT DEF WordOf, Octets
  <2> QED
    BY <2>1, <2>2, <2>3, <2>4, <2>5, QuotientRemainder, Zenon
<1>2. WordOf(a, b, c, d) % Byte ^ 2 = WordOf(a, b, 0, 0)
  <2>1. WordOf(a, b, c, d) \in Nat
    BY Powers, SMT DEF WordOf, Octets
  <2>2. Byte ^ 2 \in Nat \ {0}
    BY Powers, SMT
  <2>3. WordOf(c, d, 0, 0) \in Nat
    BY Powers, SMT DEF WordOf, Octets
  <2>4. WordOf(a, b, 0, 0) \in 0..(Byte ^ 2 - 1)
    BY Powers, SMT DEF WordOf, Octets
  <2>5. WordOf(a, b, c, d) = WordOf(c, d, 0, 0) * Byte ^ 2 + WordOf(a, b, 0, 0)
    BY Powers, SMT DEF WordOf, Octets
  <2> QED
    BY <2>1, <2>2, <2>3, <2>4, <2>5, QuotientRemainder, Zenon
<1> QED
  BY <1>1, <1>2, Zenon

(* Multiplied, the bytes move up, the highest ones out of the word.        *)
LEMMA ShiftUp ==
  ASSUME ByteBits = 8,
         NEW a \in Octets, NEW b \in Octets, NEW c \in Octets, NEW d \in Octets
  PROVE  /\ (WordOf(a, b, c, d) * Byte ^ 0) % Base = WordOf(a, b, c, d)
         /\ (WordOf(a, b, c, d) * Byte ^ 1) % Base = WordOf(0, a, b, c)
         /\ (WordOf(a, b, c, d) * Byte ^ 2) % Base = WordOf(0, 0, a, b)
         /\ (WordOf(a, b, c, d) * Byte ^ 3) % Base = WordOf(0, 0, 0, a)
<1>1. (WordOf(a, b, c, d) * Byte ^ 0) % Base = WordOf(a, b, c, d)
  <2>1. WordOf(a, b, c, d) * Byte ^ 0 \in Nat
    BY Powers, SMT DEF WordOf, Octets
  <2>2. Base \in Nat \ {0}
    BY Powers, SMT
  <2>3. 0 \in Nat
    BY Powers, SMT DEF WordOf, Octets
  <2>4. WordOf(a, b, c, d) \in 0..(Base - 1)
    BY Powers, SMT DEF WordOf, Octets
  <2>5. WordOf(a, b, c, d) * Byte ^ 0 = 0 * Base + WordOf(a, b, c, d)
    BY Powers, SMT DEF WordOf, Octets
  <2> QED
    BY <2>1, <2>2, <2>3, <2>4, <2>5, QuotientRemainder, Zenon
<1>2. (WordOf(a, b, c, d) * Byte ^ 1) % Base = WordOf(0, a, b, c)
  <2>1. WordOf(a, b, c, d) * Byte ^ 1 \in Nat
    BY Powers, SMT DEF WordOf, Octets
  <2>2. Base \in Nat \ {0}
    BY Powers, SMT
  <2>3. d \in Nat
    BY Powers, SMT DEF WordOf, Octets
  <2>4. WordOf(0, a, b, c) \in 0..(Base - 1)
    BY Powers, SMT DEF WordOf, Octets
  <2>5. WordOf(a, b, c, d) * Byte ^ 1 = d * Base + WordOf(0, a, b, c)
    BY Powers, SMT DEF WordOf, Octets
  <2> QED
    BY <2>1, <2>2, <2>3, <2>4, <2>5, QuotientRemainder, Zenon
<1>3. (WordOf(a, b, c, d) * Byte ^ 2) % Base = WordOf(0, 0, a, b)
  <2>1. WordOf(a, b, c, d) * Byte ^ 2 \in Nat
    BY Powers, SMT DEF WordOf, Octets
  <2>2. Base \in Nat \ {0}
    BY Powers, SMT
  <2>3. WordOf(c, d, 0, 0) \in Nat
    BY Powers, SMT DEF WordOf, Octets
  <2>4. WordOf(0, 0, a, b) \in 0..(Base - 1)
    BY Powers, SMT DEF WordOf, Octets
  <2>5. WordOf(a, b, c, d) * Byte ^ 2 = WordOf(c, d, 0, 0) * Base + WordOf(0, 0, a, b)
    BY Powers, SMT DEF WordOf, Octets
  <2> QED
    BY <2>1, <2>2, <2>3, <2>4, <2>5, QuotientRemainder, Zenon
<1>4. (WordOf(a, b, c, d) * Byte ^ 3) % Base = WordOf(0, 0, 0, a)
  <2>1. WordOf(a, b, c, d) * Byte ^ 3 \in Nat
    BY Powers, SMT DEF WordOf, Octets
  <2>2. Base \in Nat \ {0}
    BY Powers, SMT
  <2>3. WordOf(b, c, d, 0) \in Nat
    BY Powers, SMT DEF WordOf, Octets
  <2>4. WordOf(0, 0, 0, a) \in 0..(Base - 1)
    BY Powers, SMT DEF WordOf, Octets
  <2>5. WordOf(a, b, c, d) * Byte ^ 3 = WordOf(b, c, d, 0) * Base + WordOf(0, 0, 0, a)
    BY Powers, SMT DEF WordOf, Octets
  <2> QED
    BY <2>1, <2>2, <2>3, <2>4, <2>5, QuotientRemainder, Zenon
<1> QED
  BY <1>1, <1>2, <1>3, <1>4, Zenon

(* Byte k of a word.                                                       *)
LEMMA BytesOf ==
  ASSUME ByteBits = 8,
         NEW a \in Octets, NEW b \in Octets, NEW c \in Octets, NEW d \in Octets
  PROVE  /\ ByteOf(WordOf(a, b, c, d), 0) = a /\ ByteOf(WordOf(a, b, c, d), 1) = b
         /\ ByteOf(WordOf(a, b, c, d), 2) = c /\ ByteOf(WordOf(a, b, c, d), 3) = d
<1>1. 0 \in Octets
  BY SMT DEF Octets
<1>2. /\ WordOf(a, b, c, d) % Byte = a /\ WordOf(b, c, d, 0) % Byte = b
      /\ WordOf(c, d, 0, 0) % Byte = c /\ WordOf(d, 0, 0, 0) % Byte = d
  BY <1>1, LowPart
<1>3. /\ WordOf(a, b, c, d) \div Byte ^ 0 = WordOf(a, b, c, d)
      /\ WordOf(a, b, c, d) \div Byte ^ 1 = WordOf(b, c, d, 0)
      /\ WordOf(a, b, c, d) \div Byte ^ 2 = WordOf(c, d, 0, 0)
      /\ WordOf(a, b, c, d) \div Byte ^ 3 = WordOf(d, 0, 0, 0)
  BY ShiftDown
<1> QED
  BY <1>2, <1>3 DEF ByteOf

-----------------------------------------------------------------------------
(* Loads and stores.                                                       *)

Memories == [Offsets -> Octets]

LEMMA BytesAre ==
  ASSUME ByteBits = 8, NEW m \in Memories
  PROVE  /\ Bytes(m, 0, 4) = WordOf(m[0], m[1], m[2], m[3])
         /\ \A off \in Offsets : Bytes(m, off, 1) = m[off]
         /\ Bytes(m, 0, 2) = WordOf(m[0], m[1], 0, 0)
         /\ Bytes(m, 2, 2) = WordOf(m[2], m[3], 0, 0)
<1>1. \A k \in 0..3 : m[k] \in Nat
  BY SMT DEF Memories, Offsets, Octets
<1>2. Bytes(m, 0, 4) = WordOf(m[0], m[1], m[2], m[3])
  BY <1>1, Powers, SMT DEF Bytes, WordOf
<1>3. Bytes(m, 0, 2) = WordOf(m[0], m[1], 0, 0)
  BY <1>1, Powers, SMT DEF Bytes, WordOf
<1>4. Bytes(m, 2, 2) = WordOf(m[2], m[3], 0, 0)
  BY <1>1, Powers, SMT DEF Bytes, WordOf
<1>5. ASSUME NEW off \in Offsets PROVE Bytes(m, off, 1) = m[off]
  <2>1. off \in 0..3 /\ (off + 0) % 4 = off
    BY SMT DEF Offsets
  <2>2. m[off] \in Nat
    BY <1>1, <2>1
  <2> QED
    BY <2>1, <2>2, Powers, SMT DEF Bytes
<1> QED
  BY <1>2, <1>3, <1>4, <1>5

(* Shifting the word and taking its low part selects the bytes addressed.  *)
LEMMA ShiftedBytes ==
  ASSUME ByteBits = 8, rtl_mem \in Memories
  PROVE  /\ \A off \in Offsets : shifted(off) % Byte = Bytes(rtl_mem, off, 1)
         /\ \A off \in {0, 2} : shifted(off) % Byte ^ 2 = Bytes(rtl_mem, off, 2)
<1>1. PICK m \in Memories : m = rtl_mem
  OBVIOUS
<1>2. m[0] \in Octets /\ m[1] \in Octets /\ m[2] \in Octets /\ m[3] \in Octets /\ 0 \in Octets
  BY SMT DEF Memories, Offsets, Octets
<1>3. Bytes(m, 0, 4) = WordOf(m[0], m[1], m[2], m[3])
  BY BytesAre
<1>4. /\ shifted(0) = WordOf(m[0], m[1], m[2], m[3]) /\ shifted(1) = WordOf(m[1], m[2], m[3], 0)
      /\ shifted(2) = WordOf(m[2], m[3], 0, 0) /\ shifted(3) = WordOf(m[3], 0, 0, 0)
  BY <1>1, <1>2, <1>3, ShiftDown DEF shifted
<1>5. /\ shifted(0) % Byte = m[0] /\ shifted(1) % Byte = m[1]
      /\ shifted(2) % Byte = m[2] /\ shifted(3) % Byte = m[3]
  BY <1>2, <1>4, LowPart
<1>6. /\ shifted(0) % Byte ^ 2 = WordOf(m[0], m[1], 0, 0)
      /\ shifted(2) % Byte ^ 2 = WordOf(m[2], m[3], 0, 0)
  BY <1>2, <1>4, LowPart
<1>7. ASSUME NEW off \in Offsets PROVE shifted(off) % Byte = Bytes(rtl_mem, off, 1)
  <2>1. off = 0 \/ off = 1 \/ off = 2 \/ off = 3
    BY SMT DEF Offsets
  <2>2. Bytes(m, off, 1) = m[off]
    BY BytesAre
  <2> QED
    BY <1>1, <1>5, <2>1, <2>2
<1>8. ASSUME NEW off \in {0, 2} PROVE shifted(off) % Byte ^ 2 = Bytes(rtl_mem, off, 2)
  BY <1>1, <1>6, BytesAre
<1> QED
  BY <1>7, <1>8

LEMMA AlignedOffsets ==
  ASSUME NEW f3 \in 0..7, NEW off \in Offsets, Aligned(f3, off)
  PROVE  /\ f3 \in {1, 5} => off \in {0, 2}
         /\ f3 = 2 => off = 0
<1>1. off = 0 \/ off = 1 \/ off = 2 \/ off = 3
  BY SMT DEF Offsets
<1>2. f3 \in {1, 5} => off % 2 = 0
  BY SMT DEF Aligned, Width
<1>3. f3 = 2 => off % 4 = 0
  BY SMT DEF Aligned, Width
<1> QED
  BY <1>1, <1>2, <1>3, SMT

(* The core's load from the word is the interpreter's from the bytes.      *)
LEMMA LoadsAgree ==
  ASSUME ByteBits = 8, rtl_mem \in Memories, rtl_mem = iss_mem,
         NEW f3 \in {0, 1, 2, 4, 5}, NEW off \in Offsets, Aligned(f3, off)
  PROVE  core_load(f3, off) = load_mem(f3, off)
<1>1. /\ shifted(off) % Byte = Bytes(iss_mem, off, 1)
      /\ off \in {0, 2} => shifted(off) % Byte ^ 2 = Bytes(iss_mem, off, 2)
  BY ShiftedBytes
<1>2. f3 \in 0..7
  OBVIOUS
<1>3. CASE f3 = 0
  <2>1. core_load(0, off) = sext(shifted(off) % Byte, ByteBits)
    BY DEF core_load
  <2>2. load_mem(0, off) = sext(Bytes(iss_mem, off, 1), ByteBits)
    BY DEF load_mem
  <2> QED
    BY <1>1, <1>3, <2>1, <2>2, Zenon
<1>4. CASE f3 = 1
  <2>1. core_load(1, off) = sext(shifted(off) % Byte ^ 2, 2 * ByteBits)
    BY DEF core_load
  <2>2. load_mem(1, off) = sext(Bytes(iss_mem, off, 2), 2 * ByteBits)
    BY DEF load_mem
  <2>3. off \in {0, 2}
    BY <1>2, <1>4, AlignedOffsets
  <2> QED
    BY <1>1, <1>4, <2>1, <2>2, <2>3, Zenon
<1>5. CASE f3 = 2
  BY <1>2, <1>5, AlignedOffsets DEF core_load, load_mem
<1>6. CASE f3 = 4
  <2>1. core_load(4, off) = shifted(off) % Byte
    BY DEF core_load
  <2>2. load_mem(4, off) = Bytes(iss_mem, off, 1)
    BY DEF load_mem
  <2> QED
    BY <1>1, <1>6, <2>1, <2>2, Zenon
<1>7. CASE f3 = 5
  <2>1. core_load(5, off) = shifted(off) % Byte ^ 2
    BY DEF core_load
  <2>2. load_mem(5, off) = Bytes(iss_mem, off, 2)
    BY DEF load_mem
  <2>3. off \in {0, 2}
    BY <1>2, <1>7, AlignedOffsets
  <2> QED
    BY <1>1, <1>7, <2>1, <2>2, <2>3, Zenon
<1> QED
  BY <1>3, <1>4, <1>5, <1>6, <1>7

(* A byte of the shifted word is the byte of the value that belongs there. *)
LEMMA StoredByte ==
  ASSUME ByteBits = 8, NEW v \in Words, NEW off \in Offsets, NEW k \in Offsets, off <= k
  PROVE  ByteOf((v * Byte ^ off) % Base, k) = ByteOf(v, k - off)
<1>1. PICK a \in Octets, b \in Octets, c \in Octets, d \in Octets : v = WordOf(a, b, c, d)
  BY Digits
<1>2. 0 \in Octets
  BY SMT DEF Octets
<1>3. /\ ByteOf(v, 0) = a /\ ByteOf(v, 1) = b /\ ByteOf(v, 2) = c /\ ByteOf(v, 3) = d
  BY <1>1, BytesOf
<1>4. CASE off = 0
  BY <1>1, <1>4, ShiftUp, SMT DEF Offsets
<1>5. CASE off = 1
  <2>1. (v * Byte ^ off) % Base = WordOf(0, a, b, c)
    BY <1>1, <1>5, ShiftUp
  <2>2. /\ ByteOf(WordOf(0, a, b, c), 1) = a /\ ByteOf(WordOf(0, a, b, c), 2) = b
        /\ ByteOf(WordOf(0, a, b, c), 3) = c
    BY <1>2, BytesOf
  <2>3. (k = 1 /\ k - off = 0) \/ (k = 2 /\ k - off = 1) \/ (k = 3 /\ k - off = 2)
    BY <1>5, SMT DEF Offsets
  <2> QED
    BY <1>3, <2>1, <2>2, <2>3
<1>6. CASE off = 2
  <2>1. (v * Byte ^ off) % Base = WordOf(0, 0, a, b)
    BY <1>1, <1>6, ShiftUp
  <2>2. ByteOf(WordOf(0, 0, a, b), 2) = a /\ ByteOf(WordOf(0, 0, a, b), 3) = b
    BY <1>2, BytesOf
  <2>3. (k = 2 /\ k - off = 0) \/ (k = 3 /\ k - off = 1)
    BY <1>6, SMT DEF Offsets
  <2> QED
    BY <1>3, <2>1, <2>2, <2>3
<1>7. CASE off = 3
  <2>1. (v * Byte ^ off) % Base = WordOf(0, 0, 0, a)
    BY <1>1, <1>7, ShiftUp
  <2>2. ByteOf(WordOf(0, 0, 0, a), 3) = a
    BY <1>2, BytesOf
  <2>3. k = 3 /\ k - off = 0
    BY <1>7, SMT DEF Offsets
  <2> QED
    BY <1>3, <2>1, <2>2, <2>3
<1> QED
  BY <1>4, <1>5, <1>6, <1>7, SMT DEF Offsets

LEMMA WordShifted ==
  ASSUME ByteBits = 8, NEW v \in Words, NEW off \in Offsets
  PROVE  (v * Byte ^ off) % Base \in Words
<1>1. PICK a \in Octets, b \in Octets, c \in Octets, d \in Octets : v = WordOf(a, b, c, d)
  BY Digits
<1>2. 0 \in Octets
  BY SMT DEF Octets
<1>3. /\ WordOf(a, b, c, d) \in Words /\ WordOf(0, a, b, c) \in Words
      /\ WordOf(0, 0, a, b) \in Words /\ WordOf(0, 0, 0, a) \in Words
  BY <1>2, WordRange
<1>4. /\ (v * Byte ^ 0) % Base \in Words /\ (v * Byte ^ 1) % Base \in Words
      /\ (v * Byte ^ 2) % Base \in Words /\ (v * Byte ^ 3) % Base \in Words
  BY <1>1, <1>3, ShiftUp
<1>5. off = 0 \/ off = 1 \/ off = 2 \/ off = 3
  BY SMT DEF Offsets
<1> QED
  BY <1>4, <1>5

LEMMA ByteRange ==
  ASSUME ByteBits = 8, NEW v \in Words, NEW k \in Offsets
  PROVE  ByteOf(v, k) \in Octets
<1>1. PICK a \in Octets, b \in Octets, c \in Octets, d \in Octets : v = WordOf(a, b, c, d)
  BY Digits
<1>2. /\ ByteOf(v, 0) = a /\ ByteOf(v, 1) = b /\ ByteOf(v, 2) = c /\ ByteOf(v, 3) = d
  BY <1>1, BytesOf
<1>3. k = 0 \/ k = 1 \/ k = 2 \/ k = 3
  BY SMT DEF Offsets
<1> QED
  BY <1>2, <1>3

(* The bytes the interpreter writes are those under the core's mask.       *)
LEMMA MaskIsWidth ==
  ASSUME NEW f3 \in {0, 1, 2}, NEW off \in Offsets, Aligned(f3, off), NEW k \in Offsets
  PROVE  /\ k \in dmem_mask(f3, off) <=> k \in off .. (off + Width(f3) - 1)
         /\ f3 \in {0, 1, 2}
<1>0. f3 \in 0..7
  OBVIOUS
<1>1. CASE f3 = 0
  BY <1>1, SMT DEF dmem_mask, Strobe, Width, Offsets
<1>2. CASE f3 = 1
  BY <1>2, SMT DEF dmem_mask, Strobe, Width, Offsets
<1>3. CASE f3 = 2
  <2>1. off = 0
    BY <1>0, <1>3, AlignedOffsets
  <2>2. dmem_mask(f3, off) = Offsets /\ Width(f3) = 4
    BY <1>3 DEF dmem_mask, Width
  <2> QED
    BY <2>1, <2>2, SMT DEF Offsets
<1> QED
  BY <1>1, <1>2, <1>3

(* An aligned store of any width changes the same bytes to the same values *)
(* through the masked port and byte by byte.                               *)
LEMMA StoresAgree ==
  ASSUME ByteBits = 8, iss_mem \in Memories, rtl_mem = iss_mem,
         NEW f3 \in {0, 1, 2}, NEW off \in Offsets, Aligned(f3, off), NEW v \in Words
  PROVE  /\ core_store(f3, off, v) = store_mem(f3, off, v)
         /\ store_mem(f3, off, v) \in Memories
<1>1. ASSUME NEW k \in Offsets
      PROVE  /\ core_store(f3, off, v)[k] = store_mem(f3, off, v)[k]
             /\ store_mem(f3, off, v)[k] \in Octets
  <2>1. core_store(f3, off, v)[k] =
          IF k \in dmem_mask(f3, off) THEN ByteOf((v * Byte ^ off) % Base, k) ELSE rtl_mem[k]
    BY Zenon DEF core_store
  <2>2. store_mem(f3, off, v)[k] =
          IF k \in off .. (off + Width(f3) - 1) THEN ByteOf(v, k - off) ELSE iss_mem[k]
    BY Zenon DEF store_mem
  <2>3. k \in dmem_mask(f3, off) <=> k \in off .. (off + Width(f3) - 1)
    BY MaskIsWidth
  <2>4. iss_mem[k] \in Octets
    BY DEF Memories
  <2>5. CASE k \in off .. (off + Width(f3) - 1)
    <3>1. off <= k /\ k - off \in Offsets
      BY <2>5, SMT DEF Offsets, Width
    <3>2. ByteOf((v * Byte ^ off) % Base, k) = ByteOf(v, k - off)
      BY <3>1, StoredByte
    <3>3. ByteOf(v, k - off) \in Octets
      BY <3>1, ByteRange
    <3> QED
      BY <2>1, <2>2, <2>3, <2>5, <3>2, <3>3, Zenon
  <2>6. CASE k \notin off .. (off + Width(f3) - 1)
    BY <2>1, <2>2, <2>3, <2>4, <2>6, Zenon
  <2> QED
    BY <2>5, <2>6
<1>2. core_store(f3, off, v) = [k \in Offsets |-> core_store(f3, off, v)[k]]
  BY DEF core_store
<1>3. store_mem(f3, off, v) = [k \in Offsets |-> store_mem(f3, off, v)[k]]
  BY DEF store_mem
<1> QED
  BY <1>1, <1>2, <1>3, Zenon DEF Memories

-----------------------------------------------------------------------------
(* Which encodings are refused.                                            *)

LEMMA InstFields ==
  ASSUME NEW i \in Insts
  PROVE  /\ i.op \in {"op", "opimm", "load", "store", "branch", "csr", "unknown"}
         /\ i.f3 \in 0..7
<1>1. PICK k \in Kinds : i \in [op : {k}, f3 : 0..7, f7 : Funct7(k)]
  BY DEF Insts
<1> QED
  BY <1>1, LaneAssumption

LEMMA LegalAccepted ==
  ASSUME NEW i \in Insts, Legal(i)
  PROVE  ~core_fault(i) /\ ~iss_fault(i)
<1>1. i.op \in {"op", "opimm", "load", "store", "branch", "csr", "unknown"}
  BY InstFields
<1>2. CASE i.op \in {"op", "opimm"}
  BY <1>2 DEF core_fault, iss_fault
<1>3. CASE i.op = "load"
  BY <1>3 DEF Legal, core_fault, iss_fault
<1>4. CASE i.op = "store"
  BY <1>4 DEF Legal, core_fault, iss_fault
<1>5. CASE i.op = "branch"
  BY <1>5 DEF Legal, core_fault, iss_fault
<1>6. CASE i.op = "csr"
  BY <1>6 DEF Legal, core_fault, iss_fault
<1>7. CASE i.op = "unknown"
  BY <1>7 DEF Legal
<1> QED
  BY <1>1, <1>2, <1>3, <1>4, <1>5, <1>6, <1>7

(* What a step says of its instruction.                                    *)
LEMMA StepOutcome ==
  ASSUME Next
  PROVE  \E i \in Insts :
           /\ Shift(i) \/ Load(i) \/ Store(i) \/ Other(i)
           /\ last'.inst = i
           /\ last'.core_fault = core_fault(i) /\ last'.iss_fault = iss_fault(i)
<1>1. PICK i \in Insts : Shift(i) \/ Load(i) \/ Store(i) \/ Other(i)
  BY DEF Next
<1>2. \E rtl, iss, mask, ref_mask : Outcome(i, rtl, iss, mask, ref_mask)
  BY <1>1, Zenon DEF Shift, Load, Store, Other
<1>3. /\ last'.inst = i
      /\ last'.core_fault = core_fault(i) /\ last'.iss_fault = iss_fault(i)
  BY <1>2 DEF Outcome
<1> QED
  BY <1>1, <1>3

LEMMA RefusalStep ==
  ASSUME FaultsMatch, [Next]_vars
  PROVE  FaultsMatch'
<1>1. CASE Next
  <2>1. PICK i \in Insts : /\ last'.inst = i
                           /\ last'.core_fault = core_fault(i) /\ last'.iss_fault = iss_fault(i)
    BY <1>1, StepOutcome
  <2>2. Legal(i) => ~core_fault(i) /\ ~iss_fault(i)
    BY LegalAccepted
  <2>3. i.op \notin {"load", "store"} => (core_fault(i) <=> iss_fault(i))
    BY DEF core_fault, iss_fault
  <2>4. core_fault(i) \in BOOLEAN /\ iss_fault(i) \in BOOLEAN
    BY DEF core_fault, iss_fault
  <2> QED
    BY <2>1, <2>2, <2>3, <2>4 DEF FaultsMatch, Executed, Started
<1>2. CASE UNCHANGED vars
  BY <1>2 DEF vars, FaultsMatch, Executed, Started
<1> QED
  BY <1>1, <1>2

LEMMA RefusalInit == Init => FaultsMatch
BY DEF Init, Nothing, FaultsMatch, Executed, Started

(* Neither the RTL nor the interpreter refuses a legal instruction, and of *)
(* the encodings that are not loads or stores both refuse the same: for    *)
(* every backend and width of a byte.                                      *)
THEOREM RefusalsAgree == Spec => []FaultsMatch
<1> QED
  BY RefusalInit, RefusalStep, PTL DEF Spec

-----------------------------------------------------------------------------
(* Results, masks and memories.                                            *)

LEMMA MemoriesAre == ByteBits = 8 => [Offsets -> 0 .. (Byte - 1)] = Memories
<1> SUFFICES ASSUME ByteBits = 8 PROVE 0 .. (Byte - 1) = Octets
  BY DEF Memories
<1> QED
  BY Powers, SMT DEF Octets

(* What is left to show for a step that executes i, given what it reports. *)
LEMMA StepInv ==
  ASSUME LaneInv, [Next]_vars, NEW i, last'.inst = i,
         rtl_mem' \in [Offsets -> 0 .. (Byte - 1)], iss_mem' \in [Offsets -> 0 .. (Byte - 1)],
         Goes' => rtl_mem' = iss_mem',
         Legal(i) /\ ~UnsignedSra(i) => last'.rtl = last'.iss,
         Legal(i) /\ ~UnmaskedLoad(i) => last'.mask = last'.ref_mask
  PROVE  LaneInv'
<1>1. FaultsMatch'
  BY RefusalStep DEF LaneInv
<1> QED
  BY <1>1 DEF LaneInv, Executed, Started

LEMMA ShiftStep ==
  ASSUME ByteBits = 8, LaneInv, Next, Goes, NEW i \in Insts, Shift(i)
  PROVE  LaneInv'
<1>1. PICK a \in Values, n \in 0..(XLen - 1) :
        Outcome(i, IF Backend = "verilog" THEN verilog_shift(i, a, n) ELSE scala_shift(i, a, n),
                iss_shift(i, a, n), {}, {})
  BY DEF Shift
<1>2. /\ i.op \in {"op", "opimm"} /\ i.f3 = 5
      /\ rtl_mem' = rtl_mem /\ iss_mem' = iss_mem
  BY DEF Shift
<1>3. /\ last'.inst = i /\ last'.mask = {} /\ last'.ref_mask = {}
      /\ last'.rtl = (IF Backend = "verilog" THEN verilog_shift(i, a, n) ELSE scala_shift(i, a, n))
      /\ last'.iss = iss_shift(i, a, n)
  BY <1>1 DEF Outcome
<1>4. Legal(i) => i.f7 \in {"zero", "alt"}
  BY <1>2 DEF Legal
<1>5. Legal(i) /\ ~UnsignedSra(i) => last'.rtl = last'.iss
  BY <1>2, <1>3, <1>4 DEF UnsignedSra, verilog_shift, scala_shift, iss_shift
<1>6. rtl_mem' = iss_mem'
  BY <1>2 DEF LaneInv
<1> QED
  BY <1>2, <1>3, <1>5, <1>6, StepInv DEF LaneInv

LEMMA LoadStep ==
  ASSUME ByteBits = 8, LaneInv, Next, Goes, NEW i \in Insts, Load(i)
  PROVE  LaneInv'
<1>1. PICK off \in Offsets :
        /\ Aligned(i.f3, off)
        /\ Outcome(i, core_load(i.f3, off), load_mem(i.f3, off),
                   dmem_mask(i.f3, off), ref_dmem_mask(i.f3, off))
  BY DEF Load
<1>2. i.op = "load" /\ rtl_mem' = rtl_mem /\ iss_mem' = iss_mem
  BY DEF Load
<1>3. /\ last'.inst = i
      /\ last'.rtl = core_load(i.f3, off) /\ last'.iss = load_mem(i.f3, off)
      /\ last'.mask = dmem_mask(i.f3, off) /\ last'.ref_mask = ref_dmem_mask(i.f3, off)
  BY <1>1 DEF Outcome
<1>4. rtl_mem = iss_mem /\ rtl_mem \in Memories
  BY MemoriesAre DEF LaneInv
<1>5. Legal(i) => i.f3 \in {0, 1, 2, 4, 5}
  BY <1>2 DEF Legal
<1>6. Legal(i) => core_load(i.f3, off) = load_mem(i.f3, off)
  BY <1>1, <1>4, <1>5, LoadsAgree
<1>7. Legal(i) /\ ~UnmaskedLoad(i) => dmem_mask(i.f3, off) = ref_dmem_mask(i.f3, off)
  BY <1>2, <1>5 DEF UnmaskedLoad, dmem_mask, ref_dmem_mask
<1> QED
  BY <1>2, <1>3, <1>4, <1>6, <1>7, StepInv DEF LaneInv

LEMMA StoreStep ==
  ASSUME ByteBits = 8, LaneInv, Next, Goes, NEW i \in Insts, Store(i)
  PROVE  LaneInv'
<1>1. PICK off \in Offsets, v \in Values :
        /\ Aligned(i.f3, off)
        /\ Outcome(i, 0, 0, dmem_mask(i.f3, off), ref_dmem_mask(i.f3, off))
        /\ rtl_mem' = core_store(i.f3, off, v)
        /\ iss_mem' = store_mem(i.f3, off, v)
  BY DEF Store
<1>2. i.op = "store" /\ i.f3 \in 0..7 /\ v \in Words
  BY InstFields, ValueAssumption DEF Store
<1>3. /\ last'.inst = i /\ last'.rtl = 0 /\ last'.iss = 0 /\ last'.iss_fault = iss_fault(i)
      /\ last'.mask = dmem_mask(i.f3, off) /\ last'.ref_mask = ref_dmem_mask(i.f3, off)
  BY <1>1 DEF Outcome
<1>4. rtl_mem = iss_mem /\ rtl_mem \in Memories
  BY MemoriesAre DEF LaneInv
<1>5. i.f3 \in {0, 1, 2} => rtl_mem' = iss_mem' /\ iss_mem' \in Memories
  BY <1>1, <1>2, <1>4, StoresAgree
<1>6. i.f3 \notin {0, 1, 2} => iss_mem' = iss_mem /\ ~Goes'
  <2>1. i.f3 \notin {0, 1, 2} => store_mem(i.f3, off, v) = [k \in Offsets |-> iss_mem[k]]
    BY DEF store_mem
  <2>2. iss_mem = [k \in Offsets |-> iss_mem[k]]
    BY <1>4 DEF Memories
  <2>3. i.f3 \notin {0, 1, 2} => iss_fault(i)
    BY <1>2 DEF iss_fault
  <2> QED
    BY <1>1, <1>3, <2>1, <2>2, <2>3 DEF Goes
<1>7. rtl_mem' \in Memories
  <2>1. (v * Byte ^ off) % Base \in Words
    BY <1>2, WordShifted
  <2>2. \A k \in Offsets : core_store(i.f3, off, v)[k] \in Octets
    BY <1>4, <2>1, ByteRange, Zenon DEF core_store, Memories
  <2>3. core_store(i.f3, off, v) = [k \in Offsets |-> core_store(i.f3, off, v)[k]]
    BY DEF core_store
  <2> QED
    BY <1>1, <2>2, <2>3 DEF Memories
<1>8. Legal(i) => i.f3 \in {0, 1, 2}
  BY <1>2 DEF Legal
<1>9. Legal(i) => dmem_mask(i.f3, off) = ref_dmem_mask(i.f3, off)
  BY <1>8 DEF dmem_mask, ref_dmem_mask
<1>10. iss_mem' \in Memories
  BY <1>4, <1>5, <1>6
<1>11. Goes' => rtl_mem' = iss_mem'
  BY <1>5, <1>6
<1> QED
  BY <1>3, <1>7, <1>9, <1>10, <1>11, MemoriesAre, StepInv

LEMMA OtherStep ==
  ASSUME LaneInv, Next, NEW i \in Insts, Other(i)
  PROVE  LaneInv'
<1>1. Outcome(i, 0, 0, {}, {}) /\ rtl_mem' = rtl_mem /\ iss_mem' = iss_mem
  BY DEF Other
<1>2. last'.inst = i /\ last'.rtl = last'.iss /\ last'.mask = last'.ref_mask
  BY <1>1 DEF Outcome
<1>3. Goes
  BY DEF Next
<1> QED
  BY <1>1, <1>2, <1>3, StepInv DEF LaneInv

LEMMA LaneInit == ByteBits = 8 => (Init => LaneInv)
<1> SUFFICES ASSUME ByteBits = 8, Init PROVE LaneInv
  OBVIOUS
<1>1. 0 \in 0 .. (Byte - 1)
  BY Powers, SMT
<1>2. rtl_mem \in [Offsets -> 0 .. (Byte - 1)] /\ iss_mem = rtl_mem
  BY <1>1 DEF Init
<1>3. ~Started
  BY DEF Init, Nothing, Started
<1> QED
  BY <1>2, <1>3, RefusalInit DEF LaneInv, Executed

LEMMA LaneNext == ByteBits = 8 => (LaneInv /\ [Next]_vars => LaneInv')
<1> SUFFICES ASSUME ByteBits = 8, LaneInv, [Next]_vars PROVE LaneInv'
  OBVIOUS
<1>1. CASE Next
  <2>1. PICK i \in Insts : Shift(i) \/ Load(i) \/ Store(i) \/ Other(i)
    BY <1>1 DEF Next
  <2>2. Goes
    BY <1>1 DEF Next
  <2> QED
    BY <1>1, <2>1, <2>2, ShiftStep, LoadStep, StoreStep, OtherStep
<1>2. CASE UNCHANGED vars
  <2>1. FaultsMatch'
    BY RefusalStep DEF LaneInv
  <2> QED
    BY <1>2, <2>1 DEF LaneInv, vars, Goes, Executed, Started
<1> QED
  BY <1>1, <1>2

(* With bytes of eight bits, for all operands and every sequence of        *)
(* instructions: the memories hold the same bytes while the program runs,  *)
(* and results and masks are equal except for the arithmetic right shift   *)
(* of Core.sv and the mask the Chisel core reports with LBU and LHU.       *)
THEOREM LaneInvariant == ByteBits = 8 => (Spec => []LaneInv)
<1> SUFFICES ASSUME ByteBits = 8 PROVE Spec => []LaneInv
  OBVIOUS
<1>1. Init => LaneInv
  BY LaneInit
<1>2. LaneInv /\ [Next]_vars => LaneInv'
  BY LaneNext
<1> QED
  BY <1>1, <1>2, PTL DEF Spec

(* The word-wide, masked memory port and the byte-wise interpreter leave   *)
(* the same bytes, in transactions the cycle model expects.                *)
THEOREM MemoriesAgree == ByteBits = 8 /\ Backend # "chisel" => (Spec => []MemoryMatches)
<1> SUFFICES ASSUME ByteBits = 8, Backend # "chisel" PROVE Spec => []MemoryMatches
  OBVIOUS
<1>1. LaneInv => MemoryMatches
  BY DEF LaneInv, UnmaskedLoad, MemoryMatches
<1>2. Spec => []LaneInv
  BY LaneInvariant
<1> QED
  BY <1>1, <1>2, PTL

(* A legal instruction gives the register of a lane the value the          *)
(* interpreter computes.                                                   *)
THEOREM ResultsAgree == ByteBits = 8 /\ Backend # "verilog" => (Spec => []ResultMatches)
<1> SUFFICES ASSUME ByteBits = 8, Backend # "verilog" PROVE Spec => []ResultMatches
  OBVIOUS
<1>1. LaneInv => ResultMatches
  BY DEF LaneInv, UnsignedSra, ResultMatches
<1>2. Spec => []LaneInv
  BY LaneInvariant
<1> QED
  BY <1>1, <1>2, PTL
=============================================================================
