------------------------------ MODULE MCKConf ------------------------------
(***************************************************************************)
(* An instance of KConf: the shape of the repository's own Kconfig (two    *)
(* choices, the second below a value of the first, a bool and an int with  *)
(* a range and defaults), and what that file does not use but the tools    *)
(* support: modules, tristates, select, imply, a derived symbol.           *)
(***************************************************************************)
EXTENDS KConf, KExpr

MCOrder == <<"MODULES", "MODEL", "SM", "HM", "IMPL", "CHISEL", "VERILOG", "DIFFTEST", "T", "Z", "CORES", "BIG">>
MCSymType ==
  [y |-> "unknown", m |-> "unknown", n |-> "unknown",
   MODULES |-> "bool", MODEL |-> "bool", SM |-> "bool", HM |-> "bool",
   IMPL |-> "bool", CHISEL |-> "bool", VERILOG |-> "bool", DIFFTEST |-> "bool",
   T |-> "tristate", Z |-> "tristate", CORES |-> "int", BIG |-> "bool"]
  @@ [d \in {"1", "2", "3"} |-> "unknown"]
MCConst == {"y", "m", "n", "1", "2", "3"}
MCStrOrder == <<"1", "2", "3", "9", "m", "n", "y">>
Digits == ("1" :> 1) @@ ("2" :> 2) @@ ("3" :> 3) @@ ("9" :> 9)
MCParsesAs == [int |-> Digits, hex |-> Digits, unknown |-> Digits]

MCExprValue(asg, e) == expr_calc_value(asg, e)

Given(f) == [s \in ToSet(MCOrder) |-> IF s \in DOMAIN f THEN f[s] ELSE NoProp]
And(a, b) == <<"AND", a, b>>
MCPrompt ==
  Given([MODULES |-> NoExpr, MODEL |-> NoExpr, SM |-> Sym("MODEL"), HM |-> Sym("MODEL"),
         IMPL |-> Sym("HM"), CHISEL |-> Sym("IMPL"), VERILOG |-> Sym("IMPL"), DIFFTEST |-> Sym("HM"),
         T |-> NoExpr, Z |-> Sym("DIFFTEST"), CORES |-> NoExpr])
MCDirDep == Given([IMPL |-> Sym("HM"), DIFFTEST |-> Sym("HM"), Z |-> Sym("DIFFTEST")])
MCRevDep == Given([MODEL |-> Sym("m"), IMPL |-> And(Sym("HM"), Sym("m")), Z |-> Sym("T")])
MCImplied == Given([Z |-> Sym("VERILOG")])
D(val, cond) == <<[val |-> val, cond |-> cond]>>
MCDefaults ==
  [s \in ToSet(MCOrder) |->
     CASE s = "MODEL" -> D("HM", NoExpr)
       [] s = "IMPL" -> D("CHISEL", Sym("HM"))
       [] s = "DIFFTEST" -> D(Yes, Sym("HM"))
       [] s = "CORES" -> D("2", NoExpr)
       [] s = "BIG" -> D(Yes, <<"EQ", "CORES", "3">>)
       [] OTHER -> <<>>]
MCBounds == [s \in ToSet(MCOrder) |-> IF s = "CORES" THEN <<"1", "3">> ELSE <<>>]
MCValues == [MODEL |-> <<"SM", "HM">>, IMPL |-> <<"CHISEL", "VERILOG">>]

(* The repository's gpu_hw_chisel_defconfig, with a new symbol; a number   *)
(* out of range; modules, and a symbol that no longer exists.              *)
MCHandwritten ==
  {[MODULES |-> "n", HM |-> "y", CHISEL |-> "y", DIFFTEST |-> "y", T |-> "n", CORES |-> "2"],
   [MODULES |-> "n", SM |-> "y", T |-> "n", CORES |-> "9"],
   [MODULES |-> "y", HM |-> "y", VERILOG |-> "y", DIFFTEST |-> "n", T |-> "m", CORES |-> "3", GONE |-> "y"]}

(* Every mode of conf, menus saved in between, the minimal configuration   *)
(* and back, and syncs around edits.                                       *)
MCScripts ==
  {<<"oldaskconfig">>, <<"edit", "oldaskconfig">>, <<"oldconfig">>,
   <<"defconfig", "randconfig", "savedefconfig">>, <<"edit", "mconf", "savedefconfig", "defconfig">>,
   <<"allnoconfig", "mconf">>, <<"allyesconfig", "yes2modconfig", "savedefconfig">>,
   <<"allmodconfig", "mod2yesconfig", "savedefconfig">>, <<"alldefconfig", "olddefconfig">>,
   <<"edit", "syncconfig", "edit", "syncconfig">>}

MCWords == ("main.cpp" :> {"DIFFTEST", "CORES"}) @@ ("topology.h" :> {"DIFFTEST", "T_MODULE"})
           @@ ("autoconf.h" :> ToSet(MCOrder) \cup {"T_MODULE"})
MCWordOf == [w \in ToSet(MCOrder) \cup {"T_MODULE"} |-> IF w = "T_MODULE" THEN "T" ELSE w]
=============================================================================
