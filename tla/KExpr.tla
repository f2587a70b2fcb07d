------------------------------- MODULE KExpr -------------------------------
(***************************************************************************)
(* Dependency expressions of the Kconfig tools (src/tools/kconfig/expr.c): *)
(* how they are evaluated, and the rewritings menu_finalize puts them      *)
(* through before any value is computed.                                   *)
(* The in-place updates of the C code become functions from tree to tree:  *)
(* a node is only ever replaced at a leaf of the walk, so the walk is a    *)
(* fold over the sequence of leaves.                                       *)
(***************************************************************************)
EXTENDS KTypes

CONSTANT StrOrder    \* every string a symbol can have, in strcmp order

Compares == {"EQ", "NE", "LT", "LE", "GT", "GE"}

expr_is_yes(e) == e \in {NoExpr, Yes}

expr_alloc_and(e1, e2) ==
  IF e1 = NoExpr THEN e2 ELSE IF e2 = NoExpr THEN e1 ELSE <<"AND", e1, e2>>

expr_alloc_or(e1, e2) ==
  IF e1 = NoExpr THEN e2 ELSE IF e2 = NoExpr THEN e1 ELSE <<"OR", e1, e2>>

-----------------------------------------------------------------------------
(* Evaluation under an assignment of strings to the symbols.               *)

(* asg gives every symbol its string, a constant its name: y, m and n have *)
(* no type, so that m is "m" also while modules are off.                   *)
sym_get_string_value(asg, s) == asg[s]

sym_get_tristate_value(asg, s) ==
  IF s \in {"y", "m", "n"} \/ IsTri(SymType[s]) THEN Tri(asg[s]) ELSE 0

expr_parse_string(str, type) ==
  IF IsTri(type) THEN [kind |-> "signed", v |-> Tri(str)]
  ELSE IF str \in DOMAIN ParsesAs[type]
       THEN [kind |-> IF type = "hex" THEN "unsigned" ELSE "signed", v |-> ParsesAs[type][str]]
       ELSE [kind |-> "string", v |-> 0]

Sign(a, b) == IF a < b THEN -1 ELSE IF a > b THEN 1 ELSE 0
strcmp(a, b) ==
  Sign(CHOOSE i \in DOMAIN StrOrder : StrOrder[i] = a, CHOOSE i \in DOMAIN StrOrder : StrOrder[i] = b)

(* The sign of the comparison of two symbols: as numbers when both parse,  *)
(* as strings otherwise.                                                   *)
CompareParsed(str1, str2, k1, k2) ==
  IF "string" \in {k1.kind, k2.kind} THEN strcmp(str1, str2) ELSE Sign(k1.v, k2.v)

Compare(asg, s, t) ==
  CompareParsed(sym_get_string_value(asg, s), sym_get_string_value(asg, t),
                expr_parse_string(asg[s], SymType[s]), expr_parse_string(asg[t], SymType[t]))

Holds(op, res) ==
  CASE op = "EQ" -> res = 0 [] op = "NE" -> res # 0
    [] op = "LT" -> res < 0 [] op = "LE" -> res <= 0
    [] op = "GT" -> res > 0 [] op = "GE" -> res >= 0

RECURSIVE expr_calc_value(_, _)
expr_calc_value(asg, e) ==
  CASE e = NoExpr -> 2
    [] e[1] = "SYM" -> sym_get_tristate_value(asg, e[2])
    [] e[1] = "AND" -> AND(expr_calc_value(asg, e[2]), expr_calc_value(asg, e[3]))
    [] e[1] = "OR" -> OR(expr_calc_value(asg, e[2]), expr_calc_value(asg, e[3]))
    [] e[1] = "NOT" -> NOT(expr_calc_value(asg, e[2]))
    [] OTHER -> IF Holds(e[1], Compare(asg, e[2], e[3])) THEN 2 ELSE 0

-----------------------------------------------------------------------------
(* Removal of the constants y and n.                                       *)

Zero(type) == IF type = "AND" THEN No ELSE Yes     \* absorbs the other operand
Unit(type) == IF type = "AND" THEN Yes ELSE No     \* leaves it alone

Simplified(type, l, r) ==
  CASE l = Zero(type) -> l
    [] l = Unit(type) -> r
    [] r = Zero(type) -> r
    [] r = Unit(type) -> l
    [] OTHER -> <<type, l, r>>

RECURSIVE expr_eliminate_yn(_)
expr_eliminate_yn(e) ==
  IF e[1] \notin {"AND", "OR"} THEN e
  ELSE Simplified(e[1], expr_eliminate_yn(e[2]), expr_eliminate_yn(e[3]))

-----------------------------------------------------------------------------
(* The walks over all the operands of one level of && or ||.               *)

RECURSIVE Leaves(_, _)
Leaves(type, e) ==
  IF e[1] = type THEN Leaves(type, e[2]) \o Leaves(type, e[3]) ELSE <<e>>

RECURSIVE Rebuild(_, _, _)
Rebuild(type, e, s) ==
  IF e[1] # type THEN s[1]
  ELSE LET n == Len(Leaves(type, e[2]))
       IN <<type, Rebuild(type, e[2], SubSeq(s, 1, n)), Rebuild(type, e[3], SubSeq(s, n + 1, Len(s)))>>

(* The pairs of operands in the order the nested recursion visits them.    *)
Pairs(n, m) == [k \in 1..(n * m) |-> <<((k - 1) \div m) + 1, ((k - 1) % m) + 1>>]

RECURSIVE expr_eq(_, _)

(* __expr_eliminate_eq: both members of every equal pair of operands become *)
(* the unit of the level.                                                  *)
Cancels(x, y) == ~(x = y /\ x \in {Yes, No}) /\ expr_eq(x, y)

CancelPairs(type, l1, l2) ==
  LET Step(s, p) == IF ~Cancels(s[1][p[1]], s[2][p[2]]) THEN s
                    ELSE <<[s[1] EXCEPT ![p[1]] = Unit(type)], [s[2] EXCEPT ![p[2]] = Unit(type)]>>
  IN FoldLeft(Step, <<l1, l2>>, Pairs(Len(l1), Len(l2)))

EliminateLevel(type, e1, e2) ==
  LET Rebuilt(s) == <<Rebuild(type, e1, s[1]), Rebuild(type, e2, s[2])>>
  IN Rebuilt(CancelPairs(type, Leaves(type, e1), Leaves(type, e2)))

(* Once at the level of the first expression, once at that of the second.  *)
expr_eliminate_eq(e1, e2) ==
  LET First(a, b) == IF a[1] \in {"AND", "OR"} THEN EliminateLevel(a[1], a, b) ELSE <<a, b>>
      Second(p) == IF p[1][1] # p[2][1] /\ p[2][1] \in {"AND", "OR"}
                   THEN EliminateLevel(p[2][1], p[1], p[2]) ELSE p
      Clean(p) == <<expr_eliminate_yn(p[1]), expr_eliminate_yn(p[2])>>
  IN IF NoExpr \in {e1, e2} THEN <<e1, e2>> ELSE Clean(Second(First(e1, e2)))

expr_eq(e1, e2) ==
  LET SameSym(d) == d[1][1] = "SYM" /\ d[1] = d[2]
  IN IF NoExpr \in {e1, e2} THEN expr_is_yes(e1) /\ expr_is_yes(e2)
     ELSE /\ e1[1] = e2[1]
          /\ CASE e1[1] = "NOT" -> expr_eq(e1[2], e2[2])
               [] e1[1] \in {"AND", "OR"} -> SameSym(expr_eliminate_eq(e1, e2))
               [] OTHER -> e1 = e2

-----------------------------------------------------------------------------
(* Joining two operands of a level into one.                               *)

(* The symbol two operands must share before they are joined; "" when the  *)
(* operand has none the rules accept.                                      *)
JoinSym(e, inNot) ==
  CASE e[1] \in {"SYM", "EQ", "NE"} -> e[2]
    [] e[1] = "NOT" /\ e[2][1] \in inNot -> e[2][2]
    [] OTHER -> ""

Joinable(s, e2) == s # "" /\ s = JoinSym(e2, {"SYM"}) /\ IsTri(SymType[s])

(* e1 and e2, in either order, are of these types with these right hand    *)
(* sides (a symbol alone has none).                                        *)
Are(e1, e2, a, b) ==
  LET Is(e, p) == e[1] = p[1] /\ (p[1] # "SYM" => e[3] = p[2])
  IN (Is(e1, a) /\ Is(e2, b)) \/ (Is(e1, b) /\ Is(e2, a))

(* The rules for two operands about the symbol s, a tristate or a boolean. *)
OrRules(e1, e2, s, tri) ==
  CASE tri /\ Are(e1, e2, <<"EQ", "y">>, <<"EQ", "m">>) -> <<"NE", s, "n">>
    [] tri /\ Are(e1, e2, <<"EQ", "y">>, <<"EQ", "n">>) -> <<"NE", s, "m">>
    [] tri /\ Are(e1, e2, <<"EQ", "m">>, <<"EQ", "n">>) -> <<"NE", s, "y">>
    [] ~tri /\ {e1, e2} = {Sym(s), Not(Sym(s))} -> Yes
    [] OTHER -> NoExpr

(* (a='b') && (a!='c'), b and c constants.                                 *)
EqAndNe(s, eq, ne) == IF eq[3] # ne[3] THEN <<"EQ", s, eq[3]>> ELSE No

AndRules(e1, e2, s, tri) ==
  CASE Are(e1, e2, <<"SYM">>, <<"EQ", "y">>) -> <<"EQ", s, "y">>
    [] Are(e1, e2, <<"SYM">>, <<"NE", "n">>) -> Sym(s)
    [] Are(e1, e2, <<"SYM">>, <<"NE", "m">>) -> <<"EQ", s, "y">>
    [] tri /\ {e1[1], e2[1]} = {"EQ", "NE"} /\ e1[3] \in Const /\ e2[3] \in Const ->
         IF e1[1] = "EQ" THEN EqAndNe(s, e1, e2) ELSE EqAndNe(s, e2, e1)
    [] tri /\ Are(e1, e2, <<"NE", "y">>, <<"NE", "n">>) -> <<"EQ", s, "m">>
    [] tri /\ Are(e1, e2, <<"NE", "y">>, <<"NE", "m">>) -> <<"EQ", s, "n">>
    [] tri /\ Are(e1, e2, <<"NE", "m">>, <<"NE", "n">>) -> <<"EQ", s, "y">>
    [] OTHER -> NoExpr

expr_join_or(e1, e2, s) ==
  IF Joinable(s, e2) THEN OrRules(e1, e2, s, SymType[s] = "tristate") ELSE NoExpr

expr_join_and(e1, e2, s) ==
  IF Joinable(s, e2) THEN AndRules(e1, e2, s, SymType[s] = "tristate") ELSE NoExpr

Join(type, e1, e2) ==
  LET s == JoinSym(e1, {"SYM", "EQ", "NE"})
  IN IF expr_eq(e1, e2) THEN e1
     ELSE IF type = "OR" THEN expr_join_or(e1, e2, s) ELSE expr_join_and(e1, e2, s)

(* One pass over a level: the tree after it and whether anything was       *)
(* joined (trans_count).  An operand that is a level of its own is passed  *)
(* over first, each time it is compared; of a pair that is joined the      *)
(* first becomes the unit.                                                 *)
RECURSIVE expr_eliminate_dups1(_, _)

Below(x) == IF x[1] \in {"AND", "OR"} THEN expr_eliminate_dups1(x[1], x) ELSE [e |-> x, joined |-> FALSE]

PassPair(type, s, p) ==
  LET Put(d, t) == IF t = NoExpr
                   THEN [l |-> [s.l EXCEPT ![p[1]] = d.e], joined |-> s.joined \/ d.joined]
                   ELSE [l |-> [s.l EXCEPT ![p[1]] = Unit(type), ![p[2]] = t], joined |-> TRUE]
      Joined(d) == Put(d, Join(type, d.e, s.l[p[2]]))
  IN IF p[1] = p[2] THEN s ELSE Joined(Below(s.l[p[1]]))

expr_eliminate_dups1(type, e) ==
  LET Step(s, p) == PassPair(type, s, p)
      Rebuilt(s) == [e |-> Rebuild(type, e, s.l), joined |-> s.joined]
      Pass(l) == FoldLeft(Step, [l |-> l, joined |-> FALSE], Pairs(Len(l), Len(l)))
  IN Rebuilt(Pass(Leaves(type, e)))

RECURSIVE expr_eliminate_dups(_)
expr_eliminate_dups(e) ==
  LET Again(d) == IF d.joined THEN expr_eliminate_dups(expr_eliminate_yn(d.e)) ELSE d.e
  IN IF e[1] \notin {"AND", "OR"} THEN e ELSE Again(expr_eliminate_dups1(e[1], e))

-----------------------------------------------------------------------------
(* Rewriting of negations and of comparisons.                              *)

(* A comparison of a boolean symbol with a tristate constant.              *)
BoolTest(e) ==
  LET s == e[2]
      c == e[3]
      eq == e[1] = "EQ"
  IN IF SymType[s] # "bool" THEN e
     ELSE CASE c = "n" -> IF eq THEN Not(Sym(s)) ELSE Sym(s)
            [] c = "m" -> IF eq THEN No ELSE Yes          \* "tests forced to"
            [] c = "y" -> IF eq THEN Sym(s) ELSE Not(Sym(s))
            [] OTHER -> e

Opposite == [EQ |-> "NE", NE |-> "EQ", LE |-> "GT", GE |-> "LT", LT |-> "GE", GT |-> "LE"]

RECURSIVE expr_transform(_)

(* The negation of an expression that was transformed itself.              *)
Negated(x) ==
  CASE x[1] = "NOT" -> expr_transform(x[2])
    [] x[1] \in Compares -> <<Opposite[x[1]], x[2], x[3]>>
    [] x[1] = "OR" -> expr_transform(<<"AND", Not(x[2]), Not(x[3])>>)
    [] x[1] = "AND" -> expr_transform(<<"OR", Not(x[2]), Not(x[3])>>)
    [] x = Yes -> No
    [] x = No -> Yes
    [] x = Sym("m") -> Sym("m")
    [] OTHER -> Not(x)

expr_transform(e) ==
  CASE e[1] \in {"EQ", "NE"} -> BoolTest(e)
    [] e[1] \in {"AND", "OR"} -> <<e[1], expr_transform(e[2]), expr_transform(e[3])>>
    [] e[1] = "NOT" -> Negated(expr_transform(e[2]))
    [] OTHER -> e

(* FOO!=n -> FOO, applied where only "not n" matters.                      *)
RECURSIVE expr_trans_bool(_)
expr_trans_bool(e) ==
  CASE e[1] \in {"AND", "OR"} -> <<e[1], expr_trans_bool(e[2]), expr_trans_bool(e[3])>>
    [] e[1] = "NOT" -> Not(expr_trans_bool(e[2]))
    [] e[1] = "NE" /\ SymType[e[2]] = "tristate" /\ e[3] = "n" -> Sym(e[2])
    [] OTHER -> e

(* Explicit comparisons with sym, y or n.                                  *)
RECURSIVE expr_trans_compare(_, _, _)
expr_trans_compare(e, type, sym) ==
  LET Neg(x) == IF type = "NE" THEN Not(x) ELSE x
  IN CASE e = NoExpr -> Neg(Sym(sym))
       [] e[1] \in {"AND", "OR"} ->
            Neg(<<IF sym = "y" THEN e[1] ELSE IF e[1] = "AND" THEN "OR" ELSE "AND",
                  expr_trans_compare(e[2], "EQ", sym), expr_trans_compare(e[3], "EQ", sym)>>)
       [] e[1] = "NOT" -> expr_trans_compare(e[2], IF type = "EQ" THEN "NE" ELSE "EQ", sym)
       [] e[1] \in Compares -> IF (type = "EQ") = (sym = "y") THEN e ELSE Not(e)
       [] OTHER -> <<type, e[2], sym>>

RECURSIVE expr_contains_symbol(_, _)
expr_contains_symbol(dep, s) ==
  CASE dep = NoExpr -> FALSE
    [] dep[1] \in {"AND", "OR"} -> expr_contains_symbol(dep[2], s) \/ expr_contains_symbol(dep[3], s)
    [] dep[1] = "NOT" -> expr_contains_symbol(dep[2], s)
    [] dep[1] = "SYM" -> dep[2] = s
    [] OTHER -> s \in {dep[2], dep[3]}

(* s is a conjunct of dep: dep is n whenever s is.                         *)
RECURSIVE expr_depends_symbol(_, _)
expr_depends_symbol(dep, s) ==
  CASE dep[1] = "AND" -> expr_depends_symbol(dep[2], s) \/ expr_depends_symbol(dep[3], s)
    [] dep[1] = "SYM" -> dep[2] = s
    [] dep[1] = "EQ" -> dep[2] = s /\ dep[3] \in {"y", "m"}
    [] dep[1] = "NE" -> dep[2] = s /\ dep[3] = "n"
    [] OTHER -> FALSE

(* 'm' becomes 'm' && MODULES.                                             *)
RECURSIVE rewrite_m(_)
rewrite_m(e) ==
  CASE e[1] = "NOT" -> Not(rewrite_m(e[2]))
    [] e[1] \in {"AND", "OR"} -> <<e[1], rewrite_m(e[2]), rewrite_m(e[3])>>
    [] e = Sym("m") -> expr_alloc_and(e, Sym(Modules))
    [] OTHER -> e
=============================================================================
