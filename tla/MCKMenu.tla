------------------------------ MODULE MCKMenu ------------------------------
EXTENDS KMenu

MCStrOrder == <<"0x10", "10", "9", "m", "n", "y">>
MCSymType ==
  [y |-> "unknown", m |-> "unknown", n |-> "unknown", MODULES |-> "bool",
   A |-> "bool", T |-> "tristate", B |-> "bool", C |-> "tristate", N |-> "int"]
  @@ ("9" :> "unknown")
MCParsesAs ==
  [int |-> [x \in {"9", "10"} |-> IF x = "9" THEN 9 ELSE 10],
   hex |-> [x \in {"9", "10", "0x10"} |-> IF x = "9" THEN 9 ELSE 16],
   unknown |-> [x \in {"9", "10", "0x10"} |-> IF x = "9" THEN 9 ELSE IF x = "10" THEN 10 ELSE 16]]

MCConst == {"y", "m", "n", "9"}

Leaf == {Sym("A"), Sym("T"), Sym("m"), <<"EQ", "T", "y">>, <<"EQ", "T", "m">>,
         <<"NE", "T", "n">>, <<"NE", "T", "m">>, <<"NE", "A", "m">>, <<"LT", "N", "9">>}
Core == {Sym("A"), Sym("T"), <<"NE", "T", "m">>, <<"EQ", "A", "n">>}
Neg(S) == {Not(e) : e \in S}
Both(S, R) == {<<op, a, b>> : op \in {"AND", "OR"}, a \in S, b \in R}

(* One entry with a rich condition, or a rich dependency and a select.     *)
Rich == Both(Leaf, Leaf \cup {No, <<"EQ", "T", "n">>, <<"NE", "T", "y">>})
        \cup Neg(Both(Core, Leaf)) \cup Both(Both(Core, Core), Neg(Core))
One == {<<[sym |-> s, dep |-> NoExpr, cond |-> c, sel |-> NoProp]>> : s \in {"A", "T"}, c \in Rich}
       \cup {<<[sym |-> "B", dep |-> d, cond |-> NoExpr, sel |-> e]>> :
               d \in Both(Core, Core), e \in Leaf}
(* Two entries, the second of which may end below the first.               *)
Two == {<<[sym |-> "A", dep |-> d, cond |-> NoExpr, sel |-> NoProp],
          [sym |-> "B", dep |-> e, cond |-> c, sel |-> NoExpr]>> :
          d \in {NoExpr, Sym("C"), <<"NE", "T", "n">>, <<"OR", Sym("T"), Sym("C")>>},
          e \in Both(Core, Core) \cup Core, c \in {NoExpr, Not(Sym("C"))}}
(* Three entries: the third may end below the second, the first or none.   *)
Plain(s, d) == [sym |-> s, dep |-> d, cond |-> NoExpr, sel |-> NoProp]
Three == {<<Plain("A", d), Plain(q[1], e), Plain(q[2], f)>> :
            q \in {<<"B", "T">>, <<"T", "B">>}, d \in {NoExpr, Not(Sym("C"))},
            e \in {NoExpr, Sym("A"), <<"OR", Sym("A"), Sym("T")>>, <<"OR", Sym("A"), Sym("B")>>},
            f \in {NoExpr, Sym("A"), Sym("B"), Sym("T"), <<"OR", Sym("A"), Sym("C")>>}
                  \cup Both({Sym("A"), Sym("C")}, {Sym("B"), Sym("T")})}
MCEntries == One \cup Two \cup Three
MCParents == {[sym |-> "", dep |-> <<"OR", Sym("T"), Sym("A")>>], [sym |-> "C", dep |-> NoExpr]}

Asg(mo, a, t, b, c, k) ==
  [y |-> "y", n |-> "n", m |-> "m", MODULES |-> mo,
   A |-> a, T |-> t, B |-> b, C |-> c, N |-> k] @@ ("9" :> "9")
Bools == {"n", "y"}
Tristates == {"n", "m", "y"}
MCAssignments ==
  {Asg("n", a, t, b, c, k) : a \in Bools, t \in Bools, b \in Bools, c \in Bools, k \in {"9", "10"}}
  \cup {Asg("y", a, t, b, c, k) : a \in Bools, t \in Tristates, b \in Bools, c \in Tristates, k \in {"9", "10"}}
=============================================================================
