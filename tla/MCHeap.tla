------------------------------- MODULE MCHeap -------------------------------
(***************************************************************************)
(* Instances of Heap for TLC: bytes are counted in small units, so that a  *)
(* request can wrap the address space, fill the heap or miss by one.       *)
(***************************************************************************)
EXTENDS Heap

\* Zero, everything up to two units past the heap, the largest 32-bit size and
\* the smallest that is none.
MCSizes == (0 .. (HeapEnd - HeapBase + 1)) \cup {Modulus - 2, Modulus - 1, Modulus}
=============================================================================
