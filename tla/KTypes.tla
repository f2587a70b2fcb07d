------------------------------- MODULE KTypes -------------------------------
(***************************************************************************)
(* What the Kconfig tools compute with (src/tools/kconfig/expr.h): the     *)
(* types of the symbols, the values n, m and y as 0, 1 and 2, and the      *)
(* expressions over symbols.  KExpr evaluates and rewrites expressions,    *)
(* KSymbol computes the symbols.                                           *)
(*                                                                         *)
(* An expression is a tuple whose first component is its type: <<"SYM",s>>,*)
(* <<"NOT",e>>, <<"AND",e,f>>, <<"OR",e,f>>, <<"EQ",s,t>> and the five      *)
(* other comparisons; NoExpr is the NULL pointer, which means yes.         *)
(***************************************************************************)
EXTENDS Integers, Sequences, SequencesExt

CONSTANTS
  SymType,     \* type of every symbol: "bool", "tristate", "int", "hex", "unknown"
  ParsesAs,    \* type -> the strings it reads as a number -> that number
  Modules,     \* modules_sym
  Const        \* the symbols that are constants: y, m, n and literals

NoExpr == <<"NONE">>
NoProp == <<"NOPROP">>       \* the symbol or entry has no such property
Sym(s) == <<"SYM", s>>
Not(e) == <<"NOT", e>>
Yes == Sym("y")
No == Sym("n")

Tri(str) == CASE str = "y" -> 2 [] str = "m" -> 1 [] OTHER -> 0
AND(v, w) == IF v < w THEN v ELSE w
OR(v, w) == IF v > w THEN v ELSE w
NOT(v) == 2 - v

IsTri(type) == type \in {"bool", "tristate"}
=============================================================================
