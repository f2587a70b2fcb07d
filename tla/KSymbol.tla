------------------------------ MODULE KSymbol ------------------------------
(***************************************************************************)
(* Symbols of the Kconfig tools (src/tools/kconfig/symbol.c): how their    *)
(* values follow from what the user set, and how they are set.             *)
(*                                                                         *)
(* A configuration in memory is a record                                   *)
(*   has      symbols with SYMBOL_DEF_USER: the user gave them a value     *)
(*   def      def[S_DEF_USER]: that value ("n" or "" without one)          *)
(*   sel      of a choice, def[S_DEF_USER].val: the value picked, or ""    *)
(*   cur      the symbols with SYMBOL_VALID -> what was computed for them  *)
(*   changed  sym_change_count is not 0                                    *)
(* Values are strings.  The code computes a symbol when it is first looked *)
(* at; here all that are not valid are computed at once (Settle), in an    *)
(* order in which each comes after the ones it depends on.                 *)
(***************************************************************************)
EXTENDS KTypes

CONSTANTS
  ExprValue(_, _),  \* expr_calc_value: an expression under an assignment (KExpr)
  Order,      \* that order: modules_sym first, a choice before its values
  Prompt,     \* visibility of the prompt, NoProp without one
  DirDep,     \* dir_dep, NoProp without one
  RevDep,     \* rev_dep: who selects the symbol
  Implied,    \* implied: who implies it
  Defaults,   \* the defaults, in order: [val, cond]
  Bounds,      \* the bounds of an int, <<lo, hi>>, or <<>>
  Values,     \* choice -> its values
  Optional    \* the choices that may be n

Nothing == [s \in {} |-> ""]    \* the function on no symbol
Syms == ToSet(Order)
ChoiceSyms == DOMAIN Values
ValuesOf(c) == ToSet(Values[c])
IsValue(s) == \E c \in ChoiceSyms : s \in ValuesOf(c)
ChoiceOf(s) == CHOOSE c \in ChoiceSyms : s \in ValuesOf(c)
Str(tri) == CASE tri = 0 -> "n" [] tri = 1 -> "m" [] tri = 2 -> "y"
ModulesOn(cur) == Modules \in DOMAIN cur /\ cur[Modules].val = "y"

(* The strings of all symbols, for expr_calc_value.                        *)
Asg(cur) ==
  [s \in DOMAIN SymType |->
     IF s \in DOMAIN cur THEN cur[s].val ELSE IF s \in Const THEN s ELSE "n"]
Calc(cur, e) == ExprValue(Asg(cur), e)

sym_get_type(cur, s, visible) ==
  IF SymType[s] = "tristate" /\ ((IsValue(s) /\ visible = 2) \/ ~ModulesOn(cur))
  THEN "bool" ELSE SymType[s]

-----------------------------------------------------------------------------
(* Evaluation.                                                             *)

(* m counts as y for a symbol that is only n or y.                         *)
Rounded(cur, s, vis, t) == IF t = 1 /\ sym_get_type(cur, s, vis) = "bool" THEN 2 ELSE t

(* The visibility of s, whose prompt has the visibility p: nothing of a    *)
(* choice that is y can be m, and nothing is m without modules.            *)
PromptVisibility(cur, s, p) ==
  CASE p # 1 -> p
    [] p = 1 /\ IsValue(s) /\ SymType[s] = "tristate" /\ cur[ChoiceOf(s)].val = "y" -> 0
    [] OTHER -> IF SymType[s] = "tristate" /\ ModulesOn(cur) THEN 1 ELSE 2

Visibility(cur, s) ==
  IF Prompt[s] = NoProp THEN 0 ELSE PromptVisibility(cur, s, Calc(cur, Prompt[s]))

sym_calc_visibility(cur, s) ==
  LET Dep(vis, e, absent) ==
        IF IsValue(s) THEN 0 ELSE Rounded(cur, s, vis, IF e = NoProp THEN absent ELSE Calc(cur, e))
      Deps(vis) == [vis |-> vis, dir |-> Dep(vis, DirDep[s], 2),
                    rev |-> Dep(vis, RevDep[s], 0), imp |-> Dep(vis, Implied[s], 0)]
  IN Deps(Visibility(cur, s))

(* sym_get_default_prop: the defaults whose condition holds, first one first *)
Applicable(cur, s) == SelectSeq(Defaults[s], LAMBDA d : Calc(cur, d.cond) # 0)

(* The value of the first default of a tristate, limited by its condition. *)
TriDefault(cur, s) ==
  LET First(d) == IF d = <<>> THEN 0 ELSE AND(Calc(cur, d[1].val), Calc(cur, d[1].cond))
  IN First(Applicable(cur, s))

StrDefault(cur, s) ==
  LET First(d) == IF d = <<>> THEN "" ELSE Asg(cur)[d[1].val] IN First(Applicable(cur, s))

(* The first default that is visible, or else the first visible value.     *)
sym_choice_default(cur, c, visible) ==
  LET First(seq) == IF seq = <<>> THEN "" ELSE seq[1]
      dflts == Applicable(cur, c)
  IN First(SelectSeq([k \in DOMAIN dflts |-> dflts[k].val] \o Values[c], LAMBDA v : v \in visible))

Number(str) == IF str = "" THEN 0 ELSE ParsesAs["int"][str]

sym_get_range_val(cur, s) == Number(Asg(cur)[s])

InRange(cur, s, n) ==
  Bounds[s] = <<>> \/ (n >= sym_get_range_val(cur, Bounds[s][1]) /\ n <= sym_get_range_val(cur, Bounds[s][2]))

sym_validate_range(cur, s, str) ==
  IF SymType[s] # "int" \/ InRange(cur, s, Number(str)) THEN str
  ELSE Asg(cur)[IF Number(str) < sym_get_range_val(cur, Bounds[s][1]) THEN Bounds[s][1] ELSE Bounds[s][2]]

(* sym_calc_value of a bool or tristate symbol other than a visible choice *)
(* value: the value, and whether it is written.                            *)
CalcTri(st, s, d) ==
  LET user == d.vis # 0 /\ s \in st.has
      Implying(dflt) == IF d.imp # 0 /\ s \notin ChoiceSyms THEN AND(OR(dflt, d.imp), d.dir) ELSE dflt
      Result(dflt) ==
        [val |-> Str(Rounded(st.cur, s, d.vis,
                   OR(IF user THEN AND(Tri(st.def[s]), d.vis) ELSE Implying(dflt), d.rev))),
         write |-> \/ d.vis # 0
                   \/ ~user /\ (d.rev # 0 \/ (s \notin ChoiceSyms /\ (dflt # 0 \/ d.imp # 0)))]
  IN Result(IF s \in ChoiceSyms THEN 0 ELSE TriDefault(st.cur, s))

CalcStr(st, s, d) ==
  LET user == d.vis # 0 /\ s \in st.has
  IN [val |-> sym_validate_range(st.cur, s, IF user THEN st.def[s] ELSE StrDefault(st.cur, s)),
      write |-> d.vis # 0 \/ (~user /\ Applicable(st.cur, s) # <<>>)]

(* Mutant: a value of a choice has what the user gave it.                  *)
CalcValueOwn(st, s, d) == IF IsTri(SymType[s]) THEN CalcTri(st, s, d) ELSE CalcStr(st, s, d)

CalcValue(st, s, d) ==
  CASE IsValue(s) /\ d.vis = 2 ->
         [val |-> IF st.cur[ChoiceOf(s)].sel = s THEN "y" ELSE "n", write |-> TRUE]
    [] IsTri(SymType[s]) /\ ~(IsValue(s) /\ d.vis = 2) -> CalcTri(st, s, d)
    [] OTHER -> CalcStr(st, s, d)

(* A choice that is y picks a value, none if none is visible, and counts   *)
(* as set by the user only if all its visible values are.                  *)
sym_calc_choice(st, c, entry) ==
  LET visible == {v \in ValuesOf(c) : Visibility((c :> entry) @@ st.cur, v) # 0}
      Pick(v) == (c :> [entry EXCEPT !.sel = v, !.val = IF v = "" THEN "n" ELSE @]) @@ st.cur
  IN [st EXCEPT !.has = IF visible \subseteq @ THEN @ ELSE @ \ {c},
                !.cur = Pick(IF st.sel[c] \in visible THEN st.sel[c]
                             ELSE sym_choice_default(st.cur, c, visible))]

sym_calc_value(st, s) ==
  LET Store(entry) == IF s \in ChoiceSyms /\ entry.val = "y" THEN sym_calc_choice(st, s, entry)
                      ELSE [st EXCEPT !.cur = (s :> entry) @@ @]
      Entry(d, v) == [val |-> v.val, write |-> v.write, vis |-> d.vis, dir |-> d.dir,
                      rev |-> d.rev, imp |-> d.imp, sel |-> ""]
      Compute(d) == Store(Entry(d, CalcValue(st, s, d)))
  IN IF s \in DOMAIN st.cur THEN st ELSE Compute(sym_calc_visibility(st.cur, s))

Settle(st) == FoldLeft(sym_calc_value, st, Order)
Forget(st) == [st EXCEPT !.cur = Nothing]

(* Mutant: the change is not counted.                                      *)
sym_clear_all_valid_silent(st) == Settle(Forget(st))

sym_clear_all_valid(st) == Settle([Forget(st) EXCEPT !.changed = TRUE])

-----------------------------------------------------------------------------
(* Setting values.  A setter returns whether it did and the new state.     *)

sym_is_changeable(st, s) == st.cur[s].vis > st.cur[s].rev

sym_tristate_within_range(st, s, val) ==
  LET d == st.cur[s]
      type == sym_get_type(st.cur, s, d.vis)
  IN /\ d.vis # 0 /\ IsTri(type)
     /\ ~(type = "bool" /\ val = 1)
     /\ d.vis > d.rev
     /\ IF IsValue(s) /\ d.vis = 2 THEN val = 2 ELSE val >= d.rev /\ val <= d.vis

(* Mutants: what was computed stays valid; the value a symbol already has  *)
(* is not set.                                                             *)
sym_set_tristate_value_valid(st, s, val) ==
  IF Tri(st.cur[s].val) # val /\ ~sym_tristate_within_range(st, s, val) THEN [ok |-> FALSE, st |-> st]
  ELSE [ok |-> TRUE, st |-> [st EXCEPT !.has = @ \cup {s}, !.def = [@ EXCEPT ![s] = Str(val)]]]
sym_set_tristate_value_same(st, s, val) ==
  IF Tri(st.cur[s].val) = val THEN [ok |-> TRUE, st |-> st]
  ELSE IF ~sym_tristate_within_range(st, s, val) THEN [ok |-> FALSE, st |-> st]
  ELSE [ok |-> TRUE, st |-> sym_clear_all_valid([st EXCEPT !.has = @ \cup {s}, !.def = [@ EXCEPT ![s] = Str(val)]])]

(* Setting a choice value also makes the choice and the other visible      *)
(* values count as set.                                                    *)
sym_set_tristate_value(st, s, val) ==
  LET old == Tri(st.cur[s].val)
      picks == IsValue(s) /\ val = 2
      c == ChoiceOf(s)
      also == IF picks THEN {c} \cup {v \in ValuesOf(c) : st.cur[v].vis # 0} ELSE {}
      new == [st EXCEPT !.has = @ \cup {s} \cup also,
                        !.sel = IF picks THEN [@ EXCEPT ![c] = s] ELSE @,
                        !.def = [@ EXCEPT ![s] = Str(val)]]
  IN IF old # val /\ ~sym_tristate_within_range(st, s, val) THEN [ok |-> FALSE, st |-> st]
     ELSE [ok |-> TRUE, st |-> IF old # val THEN sym_clear_all_valid(new) ELSE new]

(* n -> m -> y -> n, up to the first value that is accepted.               *)
sym_toggle_tristate_value(st, s) ==
  LET Accepted(tries) == tries[CHOOSE k \in 1..3 : tries[k].ok /\ \A l \in 1..(k - 1) : ~tries[l].ok].st
  IN Accepted([k \in 1..3 |-> sym_set_tristate_value(st, s, (Tri(st.cur[s].val) + k) % 3)])

sym_string_valid(s, str) == SymType[s] = "string" \/ str \in DOMAIN ParsesAs["int"]

sym_string_within_range(st, s, str) ==
  sym_string_valid(s, str) /\ (SymType[s] = "int" => InRange(st.cur, s, Number(str)))

sym_set_string_value(st, s, str) ==
  IF ~sym_string_within_range(st, s, str) THEN [ok |-> FALSE, st |-> st]
  ELSE LET new == [st EXCEPT !.has = @ \cup {s}, !.def = [@ EXCEPT ![s] = str]]
       IN [ok |-> TRUE, st |-> IF st.def[s] = str THEN new ELSE sym_clear_all_valid(new)]

(* The string a symbol would have without its user value.                  *)
sym_get_string_default(st, s) ==
  LET d == st.cur[s]
      Up(v) == IF v = 1 /\ (SymType[s] = "bool" \/ (~IsValue(s) /\ ~ModulesOn(st.cur))) THEN 2 ELSE v
  IN IF IsTri(SymType[s]) THEN Str(OR(Up(OR(TriDefault(st.cur, s), d.rev)), d.imp)) ELSE StrDefault(st.cur, s)
=============================================================================
