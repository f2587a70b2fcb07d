------------------------------- MODULE KConf -------------------------------
(***************************************************************************)
(* The configuration tools conf and mconf at work on the files of a        *)
(* project (src/tools/kconfig/confdata.c, conf.c, mconf.c).  What they do  *)
(* to the files, the crashes, hand edits and make are in KFiles; here is   *)
(* what is in the programs' memory, and so in what they write.             *)
(*                                                                         *)
(* A file holds a function from the symbols it mentions to their strings   *)
(* ("# CONFIG_X is not set" is "n"), in the order of the menus.  One       *)
(* program runs at a time: prog, with its memory st and its place pc.      *)
(***************************************************************************)
EXTENDS KSymbol, KFiles, FiniteSets

CONSTANTS
  Scripts,        \* what is run: sequences of modes of conf, "mconf" and "edit"
  Handwritten,    \* what .config may be edited to
  IntAnswers,     \* what may be typed for an int
  MaxKeys         \* key presses in one run of mconf

VARIABLES
  st,         \* the configuration in the program's memory
  ask,        \* conf's walks: check_conf at i, conf at j, conf_cnt, is_new
  lost,       \* a load failed since the last change or save (see ChangeTracked)
  reset,      \* conf_read reset a value that was out of range
  script,     \* what is still to be run
  keys        \* key presses in this run of mconf

(* None is no configuration: a .config has other contents than no file.    *)
ASSUME NoneIsNoFile == "nofile" \notin Syms /\ None \notin Handwritten

memory == <<st, ask, lost, reset, script, keys>>
vars == <<filevars, memory>>

Blank == [has |-> {}, def |-> [s \in Syms |-> IF IsTri(SymType[s]) THEN "n" ELSE ""],
          sel |-> [c \in ChoiceSyms |-> ""], cur |-> Nothing, changed |-> FALSE]
NoAsk == [i |-> 0, j |-> 0, cnt |-> FALSE, new |-> FALSE]

-----------------------------------------------------------------------------
(* confdata.c: reading.                                                    *)

(* The value a line gives its symbol is one of the symbol's type.          *)
ValidLine(s, str) ==
  CASE SymType[s] = "tristate" -> str \in {"y", "m", "n"}
    [] SymType[s] = "bool" -> str \in {"y", "n"}
    [] OTHER -> sym_string_valid(s, str)

(* Mutant: the value is not made the choice's pick.                        *)
conf_set_sym_val_unpicked(r, s, str) ==
  IF ~ValidLine(s, str) THEN [r EXCEPT !.warn = TRUE]
  ELSE [r EXCEPT !.st.has = @ \cup {s}, !.st.def[s] = str,
                 !.st.def[IF IsValue(s) THEN ChoiceOf(s) ELSE s] = str]

(* One line; r.warn counts as conf_warnings.                               *)
conf_set_sym_val(r, s, str) ==
  LET c == ChoiceOf(s)
      was == Tri(r.st.def[c])
      set == [r EXCEPT !.st.has = @ \cup {s}, !.st.def[s] = str]
  IN CASE ~ValidLine(s, str) -> [r EXCEPT !.warn = TRUE]
       [] ValidLine(s, str) /\ ~IsValue(s) -> set
       [] OTHER ->
            LET clash == (str = "m" /\ was = 2) \/ (str = "y" /\ was # 0)
            IN [set EXCEPT !.warn = @ \/ clash,
                           !.st.has = IF str = "m" /\ was = 2 THEN @ \ {c} ELSE @,
                           !.st.sel[c] = IF str = "y" THEN s ELSE @,
                           !.st.def[c] = Str(OR(was, Tri(str)))]

(* A symbol the Kconfig files no longer know makes a change of its own.    *)
conf_read_simple(old, file) ==
  LET r == [st |-> [Blank EXCEPT !.has = ChoiceSyms, !.changed = old.changed \/ DOMAIN file \ Syms # {}],
            warn |-> FALSE]
      Line(acc, s) == IF s \in DOMAIN file THEN conf_set_sym_val(acc, s, file[s]) ELSE acc
  IN FoldLeft(Line, r, Order)

Written(s0) == {s \in Syms \ ChoiceSyms : s0.cur[s].write}

(* The symbols whose value is not what the file said.                      *)
Unsaved(s0) ==
  {s \in Syms \ ChoiceSyms :
     \/ s \in s0.has /\ ~(s \in Written(s0) /\ s0.def[s] = s0.cur[s].val)
     \/ s \notin s0.has /\ s \in Written(s0)}

OutOfRange(s0) ==
  {s \in s0.has : ~IsTri(SymType[s]) /\ ~sym_string_within_range(s0, s, s0.def[s])}

(* conf_read of a file that exists: the symbols, and whether a value was   *)
(* reset.  Resetting a value invalidates the symbol itself and nothing     *)
(* computed from it.                                                       *)
ReadFile(file) ==
  LET Kept(s0, bad, unsaved) ==
        [s0 EXCEPT !.has = @ \ (bad \cup IF unsaved THEN {} ELSE {s \in @ : ~IsValue(s) /\ s0.cur[s].vis = 0}),
                   !.cur = [s \in DOMAIN @ \ bad |-> @[s]],
                   !.changed = @ \/ unsaved]
      Checked(s0, bad) == [st |-> Settle(Kept(s0, bad, Unsaved(s0) # {})), reset |-> bad # {}]
      Computed(s0) == Checked(s0, OutOfRange(s0))
      Parsed(r) == Computed(Settle([r.st EXCEPT !.changed = @ \/ r.warn]))
  IN Parsed(conf_read_simple(Blank, file))

(* A missing file leaves what is in memory, and the change count at 0; a   *)
(* missing .config, when none is named, counts as a change.                *)
conf_read(s0, name, named) ==
  IF File(name) = None THEN [st |-> Settle([s0 EXCEPT !.changed = ~named]), reset |-> FALSE]
  ELSE ReadFile(File(name))

-----------------------------------------------------------------------------
(* confdata.c: what is written.                                            *)

Content(s0) == [s \in Written(s0) |-> s0.cur[s].val]
AutoContent(s0) == [s \in {t \in Written(s0) : s0.cur[t].val # "n"} |-> s0.cur[s].val]

(* What a save writes: everything is computed again unless there are       *)
(* changes.                                                                *)
ForWrite(s0) == IF s0.changed THEN s0 ELSE sym_clear_all_valid(s0)

(* Mutant: no value of a choice is written.                                *)
MinimalLineUnchosen(s0, s) ==
  /\ s0.cur[s].write /\ sym_is_changeable(s0, s) /\ ~IsValue(s)
  /\ s0.cur[s].val # sym_get_string_default(s0, s)

MinimalLine(s0, s) ==
  LET visible == {v \in Syms : s0.cur[v].vis # 0}
  IN /\ s0.cur[s].write
     /\ sym_is_changeable(s0, s)
     /\ s0.cur[s].val # sym_get_string_default(s0, s)
     /\ ~(IsValue(s) /\ ChoiceOf(s) \notin Optional /\ s = sym_choice_default(s0.cur, ChoiceOf(s), visible)
          /\ SymType[s] = "bool" /\ s0.cur[s].val = "y")

conf_write_defconfig(s0) ==
  LET Minimal(s1) == [s \in {t \in Syms \ ChoiceSyms : MinimalLine(s1, t)} |-> s1.cur[s].val]
  IN Minimal(sym_clear_all_valid(s0))

(* Mutant: a symbol that is no longer there does not count.                *)
ChangedPresent(s0, auto, s) ==
  /\ s \in Written(s0)
  /\ IF s \in DOMAIN auto THEN s0.cur[s].val # auto[s] ELSE ~(IsTri(SymType[s]) /\ s0.cur[s].val = "n")

(* Mutant: a symbol that was not there before does not count.              *)
ChangedBoth(s0, auto, s) ==
  /\ s \notin ChoiceSyms /\ s \in DOMAIN auto
  /\ s \in Written(s0) => s0.cur[s].val # auto[s]

(* The symbol's value in s0 is not what auto.conf says.  (auto.conf knows  *)
(* no symbol the Kconfig files do not: they stay the same here.)           *)
Changed(s0, auto, s) ==
  /\ s \notin ChoiceSyms
  /\ IF s \in Written(s0)
     THEN IF s \in DOMAIN auto THEN s0.cur[s].val # auto[s]
          ELSE ~(IsTri(SymType[s]) /\ s0.cur[s].val = "n")
     ELSE s \in DOMAIN auto

-----------------------------------------------------------------------------
(* confdata.c: setting many symbols at once.                               *)

(* The symbols conf_set_all_new_symbols gives a value: nothing read means  *)
(* nothing valid.                                                          *)
NewTri(s0) == {s \in Syms \ (s0.has \cup DOMAIN s0.cur) : IsTri(SymType[s])}

set_all_choice_values(s0) ==
  LET unset(s) == IsValue(s) /\ {s, ChoiceOf(s)} \cap s0.has = {}
  IN Settle(Forget([s0 EXCEPT !.has = @ \cup ChoiceSyms,
                              !.def = [s \in Syms |-> IF unset(s) THEN "n" ELSE @[s]]]))

conf_set_all_new_symbols(s0, mode) ==
  LET new == IF mode = "default" THEN {} ELSE NewTri(s0)
      s1 == [s0 EXCEPT !.has = @ \cup new, !.def = [s \in Syms |-> IF s \in new THEN mode ELSE @[s]]]
  IN set_all_choice_values(sym_clear_all_valid(s1))

(* Random values val and, for each choice that is y, a random pick; the    *)
(* loop of main ends once every choice that is y has been given one.       *)
randomize_choice_values(s0, c, v) ==
  IF c \in s0.has \/ s0.cur[c].val # "y" THEN s0
  ELSE Settle(Forget([s0 EXCEPT !.has = @ \cup ValuesOf(c) \cup {c}, !.sel[c] = v,
                 !.def = [s \in Syms |-> IF s = v THEN "y" ELSE IF s \in ValuesOf(c) THEN "n" ELSE @[s]]]))

SetRandom(s0, val, pick) ==
  LET new == NewTri(s0)
      s1 == sym_clear_all_valid([s0 EXCEPT !.has = @ \cup (new \ ChoiceSyms),
              !.def = [s \in Syms |-> IF s \in new THEN val[s] ELSE @[s]]])
      Step(acc, s) == IF s \in ChoiceSyms THEN randomize_choice_values(acc, s, pick[s]) ELSE acc
  IN FoldLeft(Step, s1, Order)

(* A value given to a choice, to its values or to a symbol without a       *)
(* prompt has no effect, or is replaced: only the others' are random.      *)
RandomValues ==
  LET free == {s \in Syms : IsTri(SymType[s]) /\ s \notin ChoiceSyms /\ ~IsValue(s) /\ Prompt[s] # NoProp}
  IN {[s \in Syms |-> IF s \in free THEN f[s] ELSE "n"] :
        f \in {g \in [free -> {"n", "m", "y"}] : \A s \in free : g[s] = "m" => SymType[s] = "tristate"}}
RandomPicks == {f \in [ChoiceSyms -> Syms] : \A c \in ChoiceSyms : f[c] \in ValuesOf(c)}

conf_rewrite_mod_or_yes(s0, map) ==
  sym_clear_all_valid([s0 EXCEPT !.def =
    [s \in Syms |-> IF sym_get_type(s0.cur, s, s0.cur[s].vis) = "tristate" /\ @[s] = map[1] THEN map[2] ELSE @[s]]])

-----------------------------------------------------------------------------
Init ==
  /\ FilesInit
  /\ st = Blank /\ ask = NoAsk /\ lost = FALSE /\ reset = FALSE
  /\ script \in Scripts /\ keys = 0

Goto(p) == pc' = p /\ UNCHANGED <<prog, todo, ask>>
InMemory == UNCHANGED <<fs, touched, built, torn, saved, script>>

(* conf: main up to where the modes part.                                  *)
NewAs == [allnoconfig |-> "n", allyesconfig |-> "y", allmodconfig |-> "m",
          alldefconfig |-> "default", defconfig |-> "default"]
Unread == {"allnoconfig", "allyesconfig", "allmodconfig", "alldefconfig", "randconfig"}
Asking == {"oldaskconfig", "oldconfig", "syncconfig"}
Modes == DOMAIN NewAs \cup Unread \cup Asking
         \cup {"savedefconfig", "olddefconfig", "yes2modconfig", "mod2yesconfig"}

Loaded(mode) ==
  IF mode \in Unread THEN [st |-> Blank, reset |-> FALSE]
  ELSE IF mode = "defconfig" THEN conf_read(Blank, "defconfig", TRUE)
  ELSE conf_read(Blank, ".config", FALSE)

(* What the mode then does to the symbols; the asking modes do it later.   *)
Adjusted(mode, s0) ==
  CASE mode \in {"yes2modconfig", "mod2yesconfig"} ->
         {conf_rewrite_mod_or_yes(s0, IF mode = "yes2modconfig" THEN <<"y", "m">> ELSE <<"m", "y">>)}
    [] mode \in DOMAIN NewAs -> {conf_set_all_new_symbols(s0, NewAs[mode])}
    [] mode = "randconfig" -> {SetRandom(s0, val, pick) : val \in RandomValues, pick \in RandomPicks}
    [] OTHER -> {s0}

Place(mode) ==
  CASE mode = "oldaskconfig" -> "ask"
    [] mode \in Asking \ {"oldaskconfig"} -> "check"
    [] mode = "savedefconfig" -> "defconfig"
    [] OTHER -> "write"

Run(program) == prog = "none" /\ script # <<>> /\ Head(script) = program /\ script' = Tail(script)

StartConf ==
  \E mode \in Modes :
    /\ Run(mode)
    /\ mode = "defconfig" => File("defconfig") # None
    /\ \E r \in {Loaded(mode)} : st' \in Adjusted(mode, r.st) /\ reset' = r.reset
    /\ prog' = mode /\ pc' = Place(mode)
    /\ ask' = [NoAsk EXCEPT !.i = IF mode = "oldaskconfig" THEN 0 ELSE 1, !.j = 1]
    /\ filename' = ".config" /\ keys' = 0
    /\ UNCHANGED <<fs, out, todo, lost, touched, built, torn, saved>>

(* "Can't find default configuration"                                      *)
NoDefconfig ==
  /\ Run("defconfig") /\ File("defconfig") = None
  /\ UNCHANGED <<filevars, st, ask, lost, reset, keys>>

-----------------------------------------------------------------------------
(* conf: the questions of oldconfig and syncconfig.                        *)

At(k) == Order[k]

(* A menu entry shows while its prompt is visible.  (An invisible symbol   *)
(* that is not n shows for the sake of a visible entry below it, which  *)
(* does not occur below: no symbol here selects the parent of a submenu.)  *)
menu_is_visible(s) == Prompt[s] # NoProp /\ st.cur[s].vis # 0

(* check_conf: a new symbol starts the walk of conf over the whole menu.   *)
IsNew(s) ==
  /\ menu_is_visible(s) /\ s \notin st.has
  /\ sym_is_changeable(st, s) \/ (s \in ChoiceSyms /\ st.cur[s].val = "y")

check_conf ==
  /\ pc = "check" /\ ask.i <= Len(Order)
  /\ IF IsNew(At(ask.i)) THEN pc' = "ask" /\ ask' = [ask EXCEPT !.j = 1, !.cnt = TRUE]
                         ELSE pc' = pc /\ ask' = [ask EXCEPT !.i = @ + 1]
  /\ InMemory /\ UNCHANGED <<prog, st, filename, out, todo, lost, reset, keys>>

(* "Update until a loop caused no more changes"                            *)
CheckAgain ==
  /\ pc = "check" /\ ask.i > Len(Order)
  /\ ask' = [ask EXCEPT !.i = 1, !.cnt = FALSE]
  /\ pc' = IF ask.cnt THEN "check" ELSE "write"
  /\ InMemory /\ UNCHANGED <<prog, st, filename, out, todo, lost, reset, keys>>

(* conf_askvalue: whether the user is asked.                               *)
conf_askvalue(s) == sym_is_changeable(st, s) /\ (s \notin st.has \/ (prog = "oldaskconfig" /\ ask.i = 0))

(* The walk goes on with the next symbol, or returns to check_conf.        *)
Walk(s0) ==
  /\ st' = s0
  /\ IF ask.j < Len(Order) THEN ask' = [ask EXCEPT !.j = @ + 1, !.new = FALSE] /\ pc' = "ask"
     ELSE ask' = [ask EXCEPT !.i = @ + 1, !.j = 0, !.new = FALSE] /\ pc' = "check"

(* The values of a choice are asked for one by one only while it is m.     *)
conf_skip ==
  LET s == At(ask.j)
  IN /\ pc = "ask" /\ s \notin ChoiceSyms
     /\ \/ ~menu_is_visible(s)
        \/ IsValue(s) /\ st.cur[ChoiceOf(s)].val # "m"
        \/ ~conf_askvalue(s)
     /\ Walk(st)
     /\ InMemory /\ UNCHANGED <<prog, filename, out, todo, lost, reset, keys>>

(* The user's answer: a value, or the empty line for the value shown.  A   *)
(* refused answer is asked for again.                                      *)
conf_sym ==
  LET s == At(ask.j)
  IN /\ pc = "ask" /\ s \notin ChoiceSyms /\ IsTri(SymType[s]) /\ menu_is_visible(s)
     /\ ~(IsValue(s) /\ st.cur[ChoiceOf(s)].val # "m") /\ conf_askvalue(s)
     /\ \E val \in 0..2 : \E r \in {sym_set_tristate_value(st, s, val)} : r.ok /\ Walk(r.st)
     /\ InMemory /\ UNCHANGED <<prog, filename, out, todo, lost, reset, keys>>

conf_string ==
  LET s == At(ask.j)
  IN /\ pc = "ask" /\ ~IsTri(SymType[s]) /\ menu_is_visible(s) /\ conf_askvalue(s)
     /\ \E str \in IntAnswers \cup {st.cur[s].val} :
          \E r \in {sym_set_string_value(st, s, str)} : r.ok /\ Walk(r.st)
     /\ InMemory /\ UNCHANGED <<prog, filename, out, todo, lost, reset, keys>>

(* conf_choice, first half: is the choice set at all?                      *)
ChoiceSet ==
  LET c == At(ask.j)
  IN /\ pc = "ask" /\ c \in ChoiceSyms
     /\ IF menu_is_visible(c) /\ conf_askvalue(c)
        THEN \E val \in 0..2 : \E r \in {sym_set_tristate_value(st, c, val)} :
               /\ r.ok
               /\ IF r.st.cur[c].val = "y"
                  THEN st' = r.st /\ pc' = "pick" /\ ask' = [ask EXCEPT !.new = TRUE]
                  ELSE Walk(r.st)
        ELSE IF menu_is_visible(c) /\ st.cur[c].val = "y"
             THEN pc' = "pick" /\ ask' = [ask EXCEPT !.new = c \notin st.has \/ (prog = "oldaskconfig" /\ ask.i = 0)]
                  /\ UNCHANGED st
             ELSE Walk(st)
     /\ InMemory /\ UNCHANGED <<prog, filename, out, todo, lost, reset, keys>>

(* Second half: which value?  Only one visible value, or a choice that is  *)
(* not new, is not asked about.                                            *)
ChoicePick ==
  LET c == At(ask.j)
      visible == {v \in ValuesOf(c) : menu_is_visible(v)}
  IN /\ pc = "pick"
     /\ \E v \in visible :
          /\ (Cardinality(visible) > 1 /\ ~ask.new) => v = st.cur[c].sel
          /\ Walk(sym_set_tristate_value(st, v, 2).st)
     /\ InMemory /\ UNCHANGED <<prog, filename, out, todo, lost, reset, keys>>

-----------------------------------------------------------------------------
(* mconf.                                                                  *)

StartMconf ==
  /\ Run("mconf")
  /\ prog' = "mconf" /\ pc' = "menu" /\ filename' = ".config"
  /\ \E r \in {conf_read(Blank, ".config", FALSE)} : st' = r.st /\ reset' = r.reset
  /\ keys' = 0
  /\ UNCHANGED <<fs, out, todo, ask, lost, touched, built, torn, saved>>

(* build_conf: what can be done with the symbol's line: t toggle, s type   *)
(* a string, : nothing, and no line for what is not visible.               *)
item_tag(s) ==
  CASE ~menu_is_visible(s) -> "none"
    [] menu_is_visible(s) /\ s \in ChoiceSyms ->
         IF sym_is_changeable(st, s) \/ st.cur[s].sel # "" THEN "t" ELSE ":"
    [] menu_is_visible(s) /\ IsValue(s) ->
         IF st.cur[ChoiceOf(s)].val = "y" THEN "none" ELSE IF st.cur[s].val = "y" THEN ":" ELSE "t"
    [] menu_is_visible(s) /\ s \notin ChoiceSyms /\ ~IsValue(s) ->
         IF IsTri(SymType[s]) THEN "t" ELSE "s"

Edit(s0) ==
  /\ st' = s0 /\ lost' = (lost /\ ~s0.changed)
  /\ InMemory /\ UNCHANGED <<prog, pc, filename, out, todo, ask, reset>>

Key == pc = "menu" /\ keys < MaxKeys /\ keys' = keys + 1

(* The keys y, n, m and the space bar on a line.                           *)
KeyYes(s) ==
  LET Else(r) == IF r.ok THEN r.st ELSE sym_set_tristate_value(st, s, 1).st
  IN Else(sym_set_tristate_value(st, s, 2))

MconfKey ==
  /\ Key
  /\ \E s \in Syms :
       /\ item_tag(s) = "t"
       /\ \/ Edit(KeyYes(s))
          \/ \E val \in {0, 1} : Edit(sym_set_tristate_value(st, s, val).st)
          \/ Edit(sym_toggle_tristate_value(st, s))

MconfChoice ==
  /\ Key
  /\ \E c \in ChoiceSyms : /\ item_tag(c) = "t" /\ st.cur[c].val = "y"
                        /\ \E v \in ValuesOf(c) : menu_is_visible(v) /\ Edit(sym_set_tristate_value(st, v, 2).st)

MconfString ==
  /\ Key
  /\ \E s \in Syms, str \in IntAnswers : item_tag(s) = "s" /\ Edit(sym_set_string_value(st, s, str).st)

MconfLoad ==
  /\ Key
  /\ \E name \in {"alt", ".config"} : \E r \in {conf_read(st, name, TRUE)} :
       IF File(name) = None
       THEN st' = r.st /\ lost' = TRUE /\ UNCHANGED <<filename, reset>>
       ELSE /\ st' = [r.st EXCEPT !.changed = TRUE] /\ reset' = r.reset
            /\ filename' = name /\ lost' = FALSE
  /\ InMemory /\ UNCHANGED <<prog, pc, out, todo, ask>>

(* conf_save opens conf_write on another file, which becomes the one that  *)
(* is edited.                                                              *)
MconfSave ==
  /\ Key
  /\ \E name \in {"alt", ".config"} : filename' = name
  /\ Goto("write")
  /\ InMemory /\ UNCHANGED <<st, out, lost, reset>>

(* handle_exit: with nothing changed it ends without a question.           *)
MconfExit ==
  /\ pc = "menu"
  /\ IF st.changed THEN pc' \in {"write", "end"} ELSE pc' = "end"
  /\ keys' = MaxKeys + 1
  /\ InMemory /\ UNCHANGED <<prog, st, filename, out, todo, ask, lost, reset>>
Exiting == keys = MaxKeys + 1

-----------------------------------------------------------------------------
(* conf_write: what it writes to the temporary file, and the change count  *)
(* it clears in the end.                                                   *)

WriteSymbols ==
  /\ pc = "write"
  /\ \E s0 \in {ForWrite(st)} :
       /\ out' = Content(s0)
       /\ WriteTmp
       /\ st' = IF pc' = "written" THEN [s0 EXCEPT !.changed = FALSE] ELSE s0
  /\ UNCHANGED <<ask, lost, reset, script, keys>>

Rewritten ==
  /\ RenameNew
  /\ st' = [st EXCEPT !.changed = FALSE]
  /\ UNCHANGED <<ask, lost, reset, script, keys>>

(* Back to the menu after a save there; otherwise conf_write_autoconf,     *)
(* which leaves an existing auto.conf alone unless it is called to sync.   *)
AfterWrite ==
  /\ pc = "written"
  /\ out' = None
  /\ IF prog = "mconf" /\ ~Exiting THEN Goto("menu") /\ lost' = FALSE
     ELSE Goto(IF prog # "syncconfig" /\ File("auto.conf") # None THEN "end" ELSE "deps") /\ UNCHANGED lost
  /\ InMemory /\ UNCHANGED <<st, filename, reset, keys>>

-----------------------------------------------------------------------------
(* conf_write_autoconf: which dependency files are to be touched.          *)

(* Reading auto.conf invalidates every symbol.                             *)
conf_touch_deps ==
  /\ pc = "deps"
  /\ \E s0 \in {IF File("auto.conf") = None THEN st ELSE Settle(Forget(st))} :
       /\ st' = s0
       /\ todo' = {s \in Syms : Changed(s0, IF File("auto.conf") = None THEN Nothing ELSE File("auto.conf"), s)}
       /\ out' = AutoContent(s0)
  /\ pc' = "touch"
  /\ InMemory /\ UNCHANGED <<prog, filename, ask, lost, reset, keys>>

(* for_all_symbols: in the order of the hash table, some fixed one.        *)
NextTouched == todo # {} /\ conf_touch_dep(CHOOSE s \in todo : TRUE)

WriteDefconfig ==
  /\ pc = "defconfig"
  /\ fs' = Renamed("defconfig", conf_write_defconfig(st))
  /\ Goto("end")
  /\ UNCHANGED <<st, filename, out, lost, reset, touched, built, torn, saved, script, keys>>

-----------------------------------------------------------------------------
(* A program that ends, or is killed, takes its memory with it.            *)
Forgotten ==
  /\ st' = Blank /\ ask' = NoAsk /\ lost' = FALSE /\ reset' = FALSE /\ keys' = 0
  /\ UNCHANGED script
Exit == (End /\ Forgotten) \/ (Crash /\ Forgotten)

EditConfig ==
  /\ Run("edit")
  /\ saved' \in Handwritten /\ HandEdit
  /\ UNCHANGED <<st, ask, lost, reset, keys>>

FileStep ==
  \/ RenameOld /\ UNCHANGED memory
  \/ NextTouched /\ UNCHANGED memory
  \/ RenameHeader /\ UNCHANGED memory
  \/ RenameAuto /\ UNCHANGED memory
  \/ Make /\ UNCHANGED memory

AskStep == check_conf \/ CheckAgain \/ conf_skip \/ conf_sym \/ conf_string \/ ChoiceSet \/ ChoicePick

(* No program runs and none is started any more.                           *)
Done == prog = "none" /\ script = <<>> /\ UNCHANGED vars

Next ==
  \/ StartConf \/ NoDefconfig \/ AskStep
  \/ StartMconf \/ MconfKey \/ MconfChoice \/ MconfString \/ MconfLoad \/ MconfSave \/ MconfExit
  \/ WriteSymbols \/ FileStep \/ Rewritten \/ AfterWrite
  \/ conf_touch_deps \/ WriteDefconfig
  \/ Exit \/ EditConfig \/ Done

Spec == Init /\ [][Next]_vars

(* The user answers in the end: a program that asks takes a step.  This is *)
(* WF_vars(AskStep), for AskStep is what can happen then and always can    *)
(* (there is no deadlock).                                                 *)
Questions == pc \in {"check", "ask", "pick"}
FairSpec == Spec /\ ([]<>~Questions \/ []<><<Questions>>_vars)

-----------------------------------------------------------------------------
Recomputed(s0) == Settle(Forget(s0))

(* A symbol marked SYMBOL_VALID has the value that follows from what the   *)
(* user set (expr.h: the bit "is set in 'flags' when this is up to date"), *)
(* whatever was set, loaded or saved in which order.  The exception is a   *)
(* value conf_read found out of range: what was computed from it is kept.  *)
ValidCurrent == (st.cur # Nothing /\ ~reset) => st.cur = Recomputed(st).cur

(* Saving and loading is stable: a .config that conf_write has written is  *)
(* read back without a change and would be written the same again, unless  *)
(* it was written from outdated values.                                    *)
SaveLoadStable ==
  (pc = "written" /\ st.cur = Recomputed(st).cur) =>
    \E r \in {ReadFile(out).st} : ~r.changed /\ Content(ForWrite(r)) = out

(* What the symbols are worth according to a written file.                 *)
FileAsg(f) ==
  LET yes(c) == \E v \in ValuesOf(c) \cap DOMAIN f : f[v] = "y"
  IN [s \in DOMAIN SymType |->
        CASE s \in ChoiceSyms -> IF yes(s) THEN "y" ELSE "n"
          [] s \in DOMAIN f -> f[s]
          [] s \in Const -> s
          [] OTHER -> "n"]

(* A written configuration is one the Kconfig files allow: a choice that   *)
(* is mentioned has exactly one value, a symbol is above n only as far as  *)
(* its dependencies or a select allow, an int is within its range.         *)
ConfigConsistent ==
  pc = "written" =>
    LET asg == FileAsg(out)
        Upto(e, absent) == IF e = NoProp THEN absent ELSE ExprValue(asg, e)
        Round(v) == IF v = 1 /\ asg[Modules] # "y" THEN 2 ELSE v
    IN /\ \A c \in ChoiceSyms : ValuesOf(c) \cap DOMAIN out # {} =>
            Cardinality({v \in ValuesOf(c) \cap DOMAIN out : out[v] = "y"}) = 1
       /\ \A s \in DOMAIN out :
            IF IsTri(SymType[s]) /\ ~IsValue(s)
            THEN Tri(out[s]) <= Round(OR(Upto(DirDep[s], 2), Upto(RevDep[s], 0)))
            ELSE SymType[s] = "int" => InRange(st.cur, s, Number(out[s]))

(* The programs treat the files as FilesSpec says, for which KConfProofs  *)
(* shows that no configuration is lost and no object stays outdated: they  *)
(* write only in their turn, never over a file they have not put aside,    *)
(* and touch every dependency file whose symbol the sources see change.    *)
KeepsFiles == FilesSpec

(* The inductive invariant behind it (KConfProofs): auto.conf, and what is *)
(* about to become auto.conf, mentions symbols of the Kconfig files and    *)
(* none that is n, so that comparing all symbols with it misses nothing.   *)
AutoKnown(f) == f # None => /\ DOMAIN f \subseteq Syms \ ChoiceSyms
                           /\ \A s \in DOMAIN f : f[s] # "n"
ConfInv == /\ FilesInv /\ AutoKnown(File("auto.conf"))
           /\ pc \in {"touch", "auto"} => AutoKnown(out)

(* The minimal file of savedefconfig loses nothing: make defconfig from it *)
(* gives the configuration it was saved from.                              *)
DefconfigRoundTrip ==
  (prog = "savedefconfig" /\ pc = "end") =>
    \E r \in {conf_set_all_new_symbols(ReadFile(File("defconfig")).st, "default")} :
      Content(ForWrite(r)) = Content(Recomputed(st))

(* mconf ends without a question only if the file it edits holds what its  *)
(* menus show, unless a load that failed has cleared the change count.     *)
ChangeTracked == (pc = "menu" /\ ~st.changed /\ ~lost) => Content(st) = File(filename)

(* conf's questions come to an end: "Update until a loop caused no more    *)
(* changes" does stop, although an answer can make other symbols new.      *)
AskTerminates == Questions ~> ~Questions
=============================================================================
