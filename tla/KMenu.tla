------------------------------- MODULE KMenu -------------------------------
(***************************************************************************)
(* menu_finalize of the Kconfig tools (src/tools/kconfig/menu.c) on one    *)
(* menu block: a parent ('menu', 'if' or a choice) and its entries in file *)
(* order.  Dependencies are pushed down and rewritten, selects become      *)
(* reverse dependencies, entries that depend on the one before them become *)
(* its submenu, in a choice too, and the entries that then remain directly *)
(* below a choice become its values and are tied to it.                    *)
(*                                                                         *)
(* What was parsed stays in src; menus holds the expressions as they are   *)
(* rewritten.  Values are compared under every assignment in Assignments.  *)
(***************************************************************************)
EXTENDS KExpr

CONSTANTS
  Parents,       \* what the parent may be: [sym, dep]; sym = "" unless a choice
  Entries,       \* the sequences of entries: [sym, dep, cond, sel], cond and sel
                 \* the conditions of the prompt and of a select of Target
  Target,        \* the symbol the entries select
  Assignments    \* the values the symbols can have together: a tristate symbol
                 \* is never m while modules are off

VARIABLES
  parent,        \* the parent's menu node
  src,           \* the entries as parsed
  menus,         \* the entries as rewritten so far
  rev_dep,       \* Target's reverse dependency
  dir_dep,       \* direct dependencies of the entries' symbols
  above,         \* the entry each entry was moved below, 0: still the parent
  open,          \* the entries whose menu_finalize is under way, innermost first
  choice_rev,    \* the choice's own reverse dependency
  verdict,       \* sym_check_deps: "none" before it ran, "ok" or "loop"
  pc,            \* "props", "submenu", "choice", "done", "checked"
  i              \* the entry the loop is at

vars == <<parent, src, menus, rev_dep, dir_dep, above, open, choice_rev, verdict, pc, i>>

IsChoice == parent.sym # ""

Init ==
  /\ parent \in Parents
  /\ src \in Entries
  /\ menus = src
  /\ rev_dep = NoExpr
  /\ dir_dep = [k \in DOMAIN src |-> NoExpr]
  /\ above = [k \in DOMAIN src |-> 0]
  /\ open = << >>
  /\ choice_rev = NoExpr
  /\ verdict = "none"
  /\ pc = "props"
  /\ i = 1

(* Mutant: the dependency from above is not added.                         *)
PropagateAlone(up, e) == expr_eliminate_dups(expr_transform(rewrite_m(e)))

(* Conjunction with the dependency from above, rewritten and simplified.   *)
Propagate(up, e) ==
  expr_eliminate_dups(expr_alloc_and(up, expr_transform(rewrite_m(e))))

PropDep(sym, base, e) ==
  LET dep == Propagate(base, e)
  IN IF SymType[sym] # "tristate" THEN expr_trans_bool(dep) ELSE dep

(* One child of the first loop: its own dependency, then each property,    *)
(* then the select's contribution to its target.                           *)
PropagateChild ==
  /\ pc = "props" /\ i <= Len(menus)
  /\ LET m == menus[i]
         base == Propagate(IF IsChoice THEN Sym(parent.sym) ELSE parent.dep, m.dep)
         sel == IF m.sel = NoProp THEN NoProp ELSE PropDep(m.sym, base, m.sel)
     IN /\ menus' = [menus EXCEPT ![i] =
                       [m EXCEPT !.dep = base, !.cond = PropDep(m.sym, base, m.cond), !.sel = sel]]
        /\ rev_dep' = IF sel = NoProp THEN rev_dep
                      ELSE expr_alloc_or(rev_dep, expr_alloc_and(Sym(m.sym), sel))
  /\ i' = i + 1
  /\ UNCHANGED <<parent, src, dir_dep, above, open, choice_rev, verdict, pc>>

PropagateEnd ==
  /\ pc = "props" /\ i > Len(menus)
  /\ pc' = "submenu" /\ i' = 1
  /\ UNCHANGED <<parent, src, menus, rev_dep, dir_dep, above, open, choice_rev, verdict>>

(* The condition under which an expression is not n.                       *)
Nonzero(e) == expr_eliminate_dups(expr_transform(expr_trans_compare(e, "NE", "n")))

(* Mutant: an entry that mentions sym belongs below it.                    *)
BelongsBelowMention(sym, base, dep) == expr_contains_symbol(dep, sym)

(* The entry belongs below sym: it depends on sym outright, or its         *)
(* dependencies mention sym and leave nothing of sym's own.                *)
BelongsBelow(sym, base, dep) ==
  /\ expr_contains_symbol(dep, sym)
  /\ \/ expr_depends_symbol(dep, sym)
     \/ expr_is_yes(expr_eliminate_eq(Nonzero(dep), Nonzero(base))[2])

(* Entry i is looked at by the innermost call.                             *)
ToSubmenu == /\ open # << >> /\ i <= Len(menus)
             /\ BelongsBelow(menus[Head(open)].sym, menus[Head(open)].cond, menus[i].cond)

(* menu_finalize of the next entry that is still the parent's.             *)
FinalizeEntry ==
  /\ pc = "submenu" /\ open = << >> /\ i <= Len(menus)
  /\ open' = <<i>> /\ i' = i + 1
  /\ UNCHANGED <<parent, src, menus, rev_dep, dir_dep, above, choice_rev, verdict, pc>>

(* An entry that goes into the submenu is finalized first, and may take    *)
(* those behind it.                                                        *)
CreateSubmenu ==
  /\ pc = "submenu" /\ ToSubmenu
  /\ above' = [above EXCEPT ![i] = Head(open)]
  /\ open' = <<i>> \o open /\ i' = i + 1
  /\ UNCHANGED <<parent, src, menus, rev_dep, dir_dep, choice_rev, verdict, pc>>

(* menu_finalize of an entry returns; whoever called it looks at entry i   *)
(* next.                                                                   *)
FinalizeReturns ==
  /\ pc = "submenu" /\ open # << >> /\ ~ToSubmenu
  /\ dir_dep' = [dir_dep EXCEPT ![Head(open)] = expr_alloc_or(@, menus[Head(open)].dep)]
  /\ open' = Tail(open)
  /\ UNCHANGED <<parent, src, menus, rev_dep, above, choice_rev, verdict, pc, i>>

SubmenusEnd ==
  /\ pc = "submenu" /\ open = << >> /\ i > Len(menus)
  /\ pc' = IF IsChoice THEN "choice" ELSE "done"
  /\ UNCHANGED <<parent, src, menus, rev_dep, dir_dep, above, open, choice_rev, verdict, i>>

(* The entries left in the list of the choice are its values, in order.    *)
ValueEntries == SelectSeq([k \in DOMAIN menus |-> k], LAMBDA k : IsChoice /\ above[k] = 0)

BoolOfTristate(k) == SymType[parent.sym] = "tristate" /\ SymType[menus[k].sym] # "tristate"

(* Mutant: a boolean value may be set while the choice is m.               *)
TieToChoiceNot(k) == menus[k]

(* Non-tristate values of a tristate choice depend on the choice being y.  *)
TieToChoice(k) ==
  LET base == <<"EQ", parent.sym, "y">>
  IN IF BoolOfTristate(k)
     THEN [menus[k] EXCEPT !.dep = expr_alloc_and(base, @), !.cond = expr_alloc_and(base, @),
                           !.sel = IF @ = NoProp THEN @ ELSE expr_alloc_and(base, @)]
     ELSE menus[k]

(* A choice that is not optional selects itself to m while it is visible.  *)
ChoiceRevDep == expr_alloc_or(choice_rev, expr_alloc_and(parent.dep, Sym("m")))

TieChoiceValues ==
  /\ pc = "choice"
  /\ menus' = [k \in DOMAIN menus |-> IF k \in ToSet(ValueEntries) THEN TieToChoice(k) ELSE menus[k]]
  /\ choice_rev' = ChoiceRevDep
  /\ pc' = "done"
  /\ UNCHANGED <<parent, src, rev_dep, dir_dep, above, open, verdict, i>>

-----------------------------------------------------------------------------
(* The search for dependency loops that conf_parse runs on every symbol    *)
(* once the menus are final (symbol.c).  st.check is the set of symbols on *)
(* the current path, st.checked those already visited.                     *)

RECURSIVE SymsOf(_)
SymsOf(e) ==
  CASE e[1] \in {"NONE", "NOPROP"} -> <<>>
    [] e[1] \in {"AND", "OR"} -> SymsOf(e[2]) \o SymsOf(e[3])
    [] e[1] = "NOT" -> SymsOf(e[2])
    [] e[1] = "SYM" -> <<e[2]>>
    [] OTHER -> <<e[2], e[3]>>

ChoiceValues == {menus[k].sym : k \in ToSet(ValueEntries)}

(* The expressions sym_check_sym_deps looks at: direct, reverse, prompts.  *)
SymDeps(s) ==
  LET own == SelectSeq([k \in DOMAIN menus |-> k], LAMBDA k : menus[k].sym = s)
      Of(k) == SymsOf(dir_dep[k]) \o SymsOf(menus[k].cond)
  IN (IF own = <<>> THEN <<>> ELSE Of(own[1]))
     \o (IF s = Target THEN SymsOf(rev_dep) ELSE <<>>)
     \o (IF IsChoice /\ s = parent.sym THEN SymsOf(choice_rev) \o SymsOf(parent.dep) ELSE <<>>)

RECURSIVE sym_check_deps(_, _), sym_check_list(_, _)
sym_check_list(st, seq) ==
  IF seq = <<>> \/ st.loop THEN st
  ELSE sym_check_list(sym_check_deps(st, Head(seq)), Tail(seq))

sym_check_sym_deps(st, s) == sym_check_list(st, SymDeps(s))

(* Mutant: what the values depend on is not looked at.                     *)
sym_check_choice_deps_alone(st, c) ==
  LET group == ChoiceValues \cup {c}
      a == sym_check_sym_deps([st EXCEPT !.check = @ \cup group, !.checked = @ \cup group], c)
  IN [a EXCEPT !.check = @ \ group]

(* The values of the choice are on the path from the start; the choice     *)
(* itself leaves it before its values are looked at, for they all depend   *)
(* on it.                                                                  *)
sym_check_choice_deps(st, c) ==
  LET group == ChoiceValues \cup {c}
      a == sym_check_sym_deps([st EXCEPT !.check = @ \cup group, !.checked = @ \cup group], c)
      vals == FlattenSeq([k \in DOMAIN ValueEntries |-> SymDeps(menus[ValueEntries[k]].sym)])
      b == sym_check_list([a EXCEPT !.check = @ \ {c}], vals)
  IN [b EXCEPT !.check = @ \ group]

sym_check_deps(st, s) ==
  CASE s \in st.check -> [st EXCEPT !.loop = TRUE]
    [] s \notin st.check /\ s \in st.checked -> st
    [] s \notin st.checked /\ s \in ChoiceValues -> sym_check_deps(st, parent.sym)
    [] s \notin st.checked /\ IsChoice /\ s = parent.sym -> sym_check_choice_deps(st, s)
    [] OTHER ->
         LET a == sym_check_sym_deps([st EXCEPT !.check = @ \cup {s}, !.checked = @ \cup {s}], s)
         IN [a EXCEPT !.check = @ \ {s}]

(* for_all_symbols goes through the hash table: any order.  Every symbol   *)
(* is looked at even after a loop was found.                               *)
CheckDeps ==
  /\ pc = "done"
  /\ \E order \in SetToSeqs({menus[k].sym : k \in DOMAIN menus} \cup {Target} \cup ({parent.sym} \ {""})) :
       LET Step(st, s) == LET r == sym_check_deps([st EXCEPT !.loop = FALSE], s)
                          IN [r EXCEPT !.loop = @ \/ st.loop]
           end == FoldLeft(Step, [check |-> {}, checked |-> {}, loop |-> FALSE], order)
       IN verdict' = IF end.loop THEN "loop" ELSE "ok"
  /\ pc' = "checked"
  /\ UNCHANGED <<parent, src, menus, rev_dep, dir_dep, above, open, choice_rev, i>>

Next ==
  \/ PropagateChild
  \/ PropagateEnd
  \/ FinalizeEntry
  \/ CreateSubmenu
  \/ FinalizeReturns
  \/ SubmenusEnd
  \/ TieChoiceValues
  \/ CheckDeps

Spec == Init /\ [][Next]_vars

-----------------------------------------------------------------------------
(* What a condition of entry k means as written: everything above it holds *)
Meaning(asg, k, e) ==
  LET up == IF IsChoice THEN Sym(parent.sym) ELSE parent.dep
      Val(x) == expr_calc_value(asg, rewrite_m(x))
  IN AND(Val(up), AND(Val(src[k].dep), Val(e)))

Propagated == pc = "submenu" /\ i = 1

Truth(v) == IF v = 0 THEN 0 ELSE 2

(* The rewritings of menu_finalize do not change what was written.  The    *)
(* visibility of a prompt and the dependency of an entry have, under every *)
(* assignment, the value of the conjunction with everything above (for a   *)
(* symbol that is not tristate, up to m and y being the same), and Target  *)
(* is selected exactly when an entry that selects it is set and the        *)
(* condition of that select holds.                                         *)
RewritesPreserve ==
  Propagated =>
    /\ \A k \in DOMAIN menus : \A asg \in Assignments :
         LET m == menus[k]
             See(v) == IF SymType[m.sym] = "tristate" THEN v ELSE Truth(v)
         IN /\ See(expr_calc_value(asg, m.cond)) = See(Meaning(asg, k, src[k].cond))
            /\ expr_calc_value(asg, m.dep) = Meaning(asg, k, Yes)
    /\ \A asg \in Assignments :
         (rev_dep # NoExpr /\ expr_calc_value(asg, rev_dep) # 0) <=>
           \E k \in DOMAIN src :
             /\ src[k].sel # NoProp
             /\ expr_calc_value(asg, Sym(src[k].sym)) # 0
             /\ Meaning(asg, k, src[k].sel) # 0

(* An entry moved below another is never reachable only through it: when   *)
(* its prompt is visible, the other one is visible too or has a value      *)
(* other than n, which is what menu_is_visible shows a submenu for.  It    *)
(* holds when the submenus are made (menu.c:464-495).  The one exception   *)
(* comes later: tying a boolean value to a tristate choice hides the value *)
(* while the choice is m, but not what was moved below it (menu.c:529).    *)
SubmenuSound ==
  \A k \in DOMAIN menus : above[k] # 0 => \A asg \in Assignments :
    LET up == menus[above[k]]
        TiedAway == /\ pc \in {"done", "checked"}
                    /\ above[k] \in ToSet(ValueEntries) /\ BoolOfTristate(above[k])
                    /\ expr_calc_value(asg, Sym(parent.sym)) = 1
    IN expr_calc_value(asg, menus[k].cond) # 0 =>
         \/ expr_calc_value(asg, Sym(up.sym)) # 0
         \/ expr_calc_value(asg, up.cond) # 0
         \/ TiedAway

(* An entry of a choice is visible only while the choice is set, and a     *)
(* boolean value of a tristate choice only while the choice is y; nothing  *)
(* else changes for it.  An entry that was moved below another one is no   *)
(* value of the choice and stays visible while the choice is m             *)
(* (menu.c:498-538).                                                       *)
ChoiceValuesTied ==
  (pc = "done" /\ IsChoice) => \A k \in DOMAIN menus : \A asg \in Assignments :
    LET c == expr_calc_value(asg, Sym(parent.sym))
        written == Meaning(asg, k, src[k].cond) # 0
    IN expr_calc_value(asg, menus[k].cond) # 0 <=>
         written /\ c # 0 /\ (above[k] = 0 /\ BoolOfTristate(k) => c = 2)

(* Who uses whom, a choice and its values taken as one.  through is whether *)
(* a use of the choice symbol itself from outside counts.                  *)
Uses(through) ==
  LET syms == {menus[k].sym : k \in DOMAIN menus} \cup {Target} \cup ({parent.sym} \ {""})
      Rep(s) == IF s \in ChoiceValues THEN parent.sym ELSE s
  IN {<<Rep(p[1]), Rep(p[2])>> : p \in
        {q \in syms \X DOMAIN SymType :
           /\ q[2] \in ToSet(SymDeps(q[1]))
           /\ ~(q[1] \in ChoiceValues /\ q[2] = parent.sym)
           /\ through \/ q[2] # parent.sym \/ q[1] = parent.sym}}

RECURSIVE Reaches(_, _, _)
Reaches(R, s, n) ==
  LET next == {p[2] : p \in {q \in R : q[1] \in s}}
  IN IF n = 0 THEN s ELSE s \cup Reaches(R, next, n - 1)

Loop(R) == \E p \in R : p[1] \in Reaches(R, {p[2]}, 4)

(* Evaluation can only go round in circles if conf_parse was told so: a    *)
(* loop is reported whatever symbol the search starts from, unless it goes *)
(* through a use of the choice symbol (found or not depending on the       *)
(* order), and nothing is reported without a loop.                         *)
LoopsFound ==
  pc = "checked" => /\ Loop(Uses(FALSE)) => verdict = "loop"
                    /\ verdict = "loop" => Loop(Uses(TRUE))
=============================================================================
