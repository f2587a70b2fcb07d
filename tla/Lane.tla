-------------------------------- MODULE Lane --------------------------------
(***************************************************************************)
(* The data path of one lane where its implementations are not one and the *)
(* same expression: right shifts, the formats of loads and stores, and     *)
(* which encodings are refused.  The RTL core (of the SystemVerilog, the   *)
(* Chisel or the SpinalHDL backend) and the interpreter execute the same   *)
(* instruction on the same operands and each on its own memory; mask is    *)
(* the byte mask the RTL reports to DiffTest, ref_mask the one DiffTest's  *)
(* cycle model expects.                                                    *)
(*                                                                         *)
(* A byte has ByteBits bits (8 in the code) and a word four bytes.  The    *)
(* memory is one word, and accesses are aligned to their width.  Registers *)
(* are operands chosen anew for every instruction.                         *)
(***************************************************************************)
EXTENDS Integers

CONSTANTS ByteBits,
          Backend,     \* "verilog", "chisel" or "spinal"
          Kinds,       \* the opcodes that are executed
          Values       \* the words in source registers

ASSUME LaneAssumption ==
    /\ ByteBits \in Nat \ {0} /\ Backend \in {"verilog", "chisel", "spinal"}
    /\ Kinds \subseteq {"op", "opimm", "load", "store", "branch", "csr", "unknown"}

Byte == 2 ^ ByteBits
XLen == 4 * ByteBits
Base == 2 ^ XLen
Words == 0 .. (Base - 1)
Offsets == 0 .. 3
Masks == SUBSET Offsets
ASSUME ValueAssumption == Values \subseteq Words

\* funct7 is 0, 0x20, 1 or 0x21: bit 30 is set in the second and the last; it
\* is no field of the other instructions.  For a csr, "zero" stands for a
\* supported read-only number with rs1 = x0.
Funct7(op) == CASE op \in {"op", "opimm"} -> {"zero", "alt", "m", "alt_m"}
                [] op = "csr" -> {"zero", "m"}
                [] OTHER -> {"zero"}
Insts == UNION {[op : {k}, f3 : 0..7, f7 : Funct7(k)] : k \in Kinds}

VARIABLES rtl_mem, iss_mem,          \* per byte of the word
          last                       \* the last instruction and its outcome

vars == <<rtl_mem, iss_mem, last>>

Signed(v, bits) == IF v >= 2 ^ (bits - 1) THEN v - 2 ^ bits ELSE v

sext(v, bits) == Signed(v, bits) % Base

(***************************************************************************)
(* Right shifts: funct3 5 of OP and OP-IMM.                                *)
(***************************************************************************)

Srl(a, n) == a \div 2 ^ n
Sra(a, n) == (Signed(a, XLen) \div 2 ^ n) % Base

iss_shift(i, a, n) == IF i.f7 = "alt" THEN Sra(a, n) ELSE Srl(a, n)

\* In Core.sv the arithmetic shift is one arm of a conditional expression whose
\* other arm is unsigned: the whole expression, and the shift in it, is unsigned.
verilog_shift(i, a, n) == Srl(a, n)

\* Mutant of scala_shift: the value is not taken as signed.
scala_shift_unsigned(i, a, n) == Srl(a, n)
scala_shift(i, a, n) ==
    IF i.f7 = "alt" \/ (i.op = "opimm" /\ i.f7 = "alt_m") THEN Sra(a, n) ELSE Srl(a, n)

(***************************************************************************)
(* Loads and stores.                                                       *)
(***************************************************************************)

Width(f3) == IF f3 \in {0, 4} THEN 1 ELSE IF f3 \in {1, 5} THEN 2 ELSE 4
Aligned(f3, off) == off % Width(f3) = 0

\* n bytes at offset off, little endian.
Bytes(m, off, n) == LET B(k) == IF k < n THEN m[(off + k) % 4] * Byte ^ k ELSE 0
                    IN  B(0) + B(1) + B(2) + B(3)
ByteOf(v, k) == (v \div Byte ^ k) % Byte

load_mem(f3, off) ==
    CASE f3 = 0 -> sext(Bytes(iss_mem, off, 1), ByteBits)
      [] f3 = 1 -> sext(Bytes(iss_mem, off, 2), 2 * ByteBits)
      [] f3 = 2 -> Bytes(iss_mem, off, 4)
      [] f3 = 4 -> Bytes(iss_mem, off, 1)
      [] f3 = 5 -> Bytes(iss_mem, off, 2)
      [] OTHER  -> 0

store_mem(f3, off, v) ==
    [k \in Offsets |-> IF f3 \in {0, 1, 2} /\ k \in off .. (off + Width(f3) - 1)
                       THEN ByteOf(v, k - off) ELSE iss_mem[k]]

\* The word of the memory, shifted to the byte the address names.
shifted(off) == Bytes(rtl_mem, 0, 4) \div Byte ^ off

core_load(f3, off) ==
    CASE f3 = 0 -> sext(shifted(off) % Byte, ByteBits)
      [] f3 = 1 -> sext(shifted(off) % Byte ^ 2, 2 * ByteBits)
      [] f3 = 4 -> shifted(off) % Byte
      [] f3 = 5 -> shifted(off) % Byte ^ 2
      [] f3 = 2 \/ (f3 \in {3, 6, 7} /\ Backend = "spinal") -> Bytes(rtl_mem, 0, 4)
      [] OTHER -> 0

\* Bits k of (1 or 3) << off that fit the port.
Strobe(n, off) == {k \in Offsets : k \in off .. (off + n - 1)}

\* Mutant of dmem_mask: the offset of a byte is ignored.
dmem_mask_no_offset(f3, off) ==
    CASE f3 = 0 -> Strobe(1, 0)
      [] f3 = 1 -> Strobe(2, off)
      [] OTHER  -> Offsets

dmem_mask(f3, off) ==
    CASE f3 = 0 -> Strobe(1, off)
      [] f3 = 1 -> Strobe(2, off)
      [] f3 = 2 \/ (f3 > 2 /\ Backend # "chisel") -> Offsets
      [] OTHER  -> {}

\* The mask of the cycle model.
ref_dmem_mask(f3, off) ==
    CASE f3 = 0 -> Strobe(1, off)
      [] f3 = 1 -> Strobe(2, off)
      [] OTHER  -> Offsets

core_store(f3, off, v) ==
    LET wdata == (v * Byte ^ off) % Base
    IN  [k \in Offsets |-> IF k \in dmem_mask(f3, off) THEN ByteOf(wdata, k) ELSE rtl_mem[k]]

(***************************************************************************)
(* Which encodings are refused.                                            *)
(***************************************************************************)

\* Mutant of core_fault: a branch is never refused.
core_fault_no_branch(i) == i.op = "unknown" \/ (i.op = "csr" /\ (i.f3 # 2 \/ i.f7 # "zero"))

core_fault(i) ==
    \/ i.op = "branch" /\ i.f3 \in {2, 3}
    \/ i.op = "csr" /\ (i.f3 # 2 \/ i.f7 # "zero")
    \/ i.op = "unknown"

iss_fault(i) ==
    \/ i.op = "branch" /\ i.f3 \in {2, 3}
    \/ i.op = "csr" /\ (i.f3 # 2 \/ i.f7 # "zero")
    \/ i.op = "unknown"
    \/ i.op = "load" /\ i.f3 \notin {0, 1, 2, 4, 5}
    \/ i.op = "store" /\ i.f3 \notin {0, 1, 2}

\* The encodings of RV32E, and of the CSRs the README lists.
Legal(i) ==
    CASE i.op = "op"     -> i.f7 = "zero" \/ (i.f7 = "alt" /\ i.f3 \in {0, 5})
      [] i.op = "opimm"  -> i.f3 \in {1, 5} => i.f7 = "zero" \/ (i.f7 = "alt" /\ i.f3 = 5)
      [] i.op = "load"   -> i.f3 \in {0, 1, 2, 4, 5}
      [] i.op = "store"  -> i.f3 \in {0, 1, 2}
      [] i.op = "branch" -> i.f3 \notin {2, 3}
      [] i.op = "csr"    -> i.f3 = 2 /\ i.f7 = "zero"
      [] i.op = "unknown" -> FALSE

(***************************************************************************)
(* One instruction.                                                        *)
(***************************************************************************)

NoInst == [op |-> "none", f3 |-> 0, f7 |-> "zero"]
Nothing == [inst |-> NoInst, rtl |-> 0, iss |-> 0, mask |-> {}, ref_mask |-> {},
            core_fault |-> FALSE, iss_fault |-> FALSE]
Init == /\ rtl_mem = [k \in Offsets |-> 0] /\ iss_mem = rtl_mem /\ last = Nothing

Outcome(i, rtl, iss, mask, ref_mask) ==
    last' = [inst |-> i, rtl |-> rtl, iss |-> iss, mask |-> mask, ref_mask |-> ref_mask,
             core_fault |-> core_fault(i), iss_fault |-> iss_fault(i)]

\* A fault ends the program, on either side.
Goes == ~last.core_fault /\ ~last.iss_fault

Shift(i) == \E a \in Values, n \in 0..(XLen - 1) :
    /\ i.op \in {"op", "opimm"} /\ i.f3 = 5
    /\ Outcome(i, IF Backend = "verilog" THEN verilog_shift(i, a, n) ELSE scala_shift(i, a, n),
               iss_shift(i, a, n), {}, {})
    /\ UNCHANGED <<rtl_mem, iss_mem>>

Load(i) == \E off \in Offsets :
    /\ i.op = "load" /\ Aligned(i.f3, off)
    /\ Outcome(i, core_load(i.f3, off), load_mem(i.f3, off),
               dmem_mask(i.f3, off), ref_dmem_mask(i.f3, off))
    /\ UNCHANGED <<rtl_mem, iss_mem>>

Store(i) == \E off \in Offsets, v \in Values :
    /\ i.op = "store" /\ Aligned(i.f3, off)
    /\ Outcome(i, 0, 0, dmem_mask(i.f3, off), ref_dmem_mask(i.f3, off))
    /\ rtl_mem' = core_store(i.f3, off, v)
    /\ iss_mem' = store_mem(i.f3, off, v)

\* The encodings whose data this module leaves out.
Other(i) == /\ i.op \in {"branch", "csr", "unknown"} \/ (i.op \in {"op", "opimm"} /\ i.f3 # 5)
            /\ Outcome(i, 0, 0, {}, {})
            /\ UNCHANGED <<rtl_mem, iss_mem>>

Next == Goes /\ \E i \in Insts : Shift(i) \/ Load(i) \/ Store(i) \/ Other(i)

Spec == Init /\ [][Next]_vars

(***************************************************************************)
(* Properties.                                                             *)
(***************************************************************************)

Started == last.inst # NoInst

Executed == Started /\ Legal(last.inst)

\* Every legal instruction gives the lane's register the value the interpreter
\* computes (README: the complete final PMEM "is compared with both reference
\* models", so a difference is a DiffTest failure).
ResultMatches == Executed => last.rtl = last.iss

\* Through any sequence of aligned stores of all widths, the word-wide, masked
\* memory port leaves the bytes that the byte-wise interpreter leaves, and the
\* transaction of a legal access is the one the cycle model expects
\* (difftest-state-abi.md: words 19-27 hold the "normalized instruction/data-
\* memory interface").
MemoryMatches == /\ Goes => rtl_mem = iss_mem
                 /\ Executed => last.mask = last.ref_mask

\* Neither side refuses a legal instruction, and apart from loads and stores,
\* whose formats only the interpreter checks, both refuse the same encodings.
FaultsMatch == /\ Executed => ~last.core_fault /\ ~last.iss_fault
               /\ Started /\ last.inst.op \notin {"load", "store"}
                    => last.core_fault = last.iss_fault

(***************************************************************************)
(* The inductive invariant behind them (LaneProofs), for all backends: it  *)
(* names the two places where one of them differs.                         *)
(***************************************************************************)

UnsignedSra(i) == Backend = "verilog" /\ i.op \in {"op", "opimm"} /\ i.f3 = 5 /\ i.f7 = "alt"
UnmaskedLoad(i) == Backend = "chisel" /\ i.op = "load" /\ i.f3 \in {4, 5}

LaneInv ==
    /\ rtl_mem \in [Offsets -> 0 .. (Byte - 1)] /\ iss_mem \in [Offsets -> 0 .. (Byte - 1)]
    /\ Goes => rtl_mem = iss_mem
    /\ FaultsMatch
    /\ Executed /\ ~UnsignedSra(last.inst) => last.rtl = last.iss
    /\ Executed /\ ~UnmaskedLoad(last.inst) => last.mask = last.ref_mask
=============================================================================
