------------------------------- MODULE KFiles -------------------------------
(***************************************************************************)
(* The files of conf and mconf, whatever the configuration in them: how    *)
(* conf_write replaces .config and conf_write_autoconf the dependency      *)
(* files, autoconf.h and auto.conf (src/tools/kconfig/confdata.c), with a  *)
(* kill between any two file operations, hand edits of .config, and an     *)
(* object that make compiles again by the dependencies fixdep wrote for    *)
(* it.  KConf adds what is in the program's memory; FilesSpec is what it   *)
(* may do to the files.                                                    *)
(***************************************************************************)
CONSTANTS
  Words,          \* the files the object is compiled from -> their CONFIG_ words
  WordOf          \* word -> the symbol it is about: X for X and X_MODULE

VARIABLES
  fs,         \* the files that exist -> content
  prog,       \* "none", "mconf" or the mode of conf
  pc,         \* where the program is
  filename,   \* the file being written; in mconf, the one being edited
  out,        \* the temporary file of conf_write, or those of conf_write_autoconf
  todo,       \* symbols conf_touch_deps has still to touch
  touched,    \* dependency files newer than the object
  built,      \* the autoconf.h the object was compiled with
  torn,       \* then autoconf.h and auto.conf differed for its sources
  saved       \* the last .config that was completely written

filevars == <<fs, prog, pc, filename, out, todo, touched, built, torn, saved>>

None == [nofile |-> ""]      \* not a configuration: no symbol has that name
File(name) == IF name \in DOMAIN fs THEN fs[name] ELSE None
OldOf(name) == IF name = "alt" THEN "alt.old" ELSE ".config.old"
Renamed(name, content) ==
  [f \in DOMAIN fs \cup {name} |-> IF f = name THEN content ELSE fs[f]]

FilesInit ==
  /\ fs = [f \in {} |-> None]
  /\ prog = "none" /\ pc = "none" /\ filename = ".config" /\ out = None /\ todo = {}
  /\ touched = {} /\ built = None /\ torn = FALSE /\ saved = None

-----------------------------------------------------------------------------
(* conf_write: the temporary file out, then two renames.  Nothing is       *)
(* renamed if the file already says the same.                              *)

WriteTmp ==
  /\ pc = "write"
  /\ pc' = IF File(filename) = out' THEN "written" ELSE "old"
  /\ UNCHANGED <<fs, prog, filename, todo, touched, built, torn, saved>>

(* Mutant: the old file is removed.                                        *)
RenameOldRemove ==
  /\ pc = "old"
  /\ fs' = [f \in DOMAIN fs \ {filename} |-> fs[f]]
  /\ pc' = "new"
  /\ UNCHANGED <<prog, filename, out, todo, touched, built, torn, saved>>

RenameOld ==
  /\ pc = "old"
  /\ fs' = IF File(filename) = None THEN fs
           ELSE [f \in (DOMAIN fs \cup {OldOf(filename)}) \ {filename} |->
                   IF f = OldOf(filename) THEN fs[filename] ELSE fs[f]]
  /\ pc' = "new"
  /\ UNCHANGED <<prog, filename, out, todo, touched, built, torn, saved>>

RenameNew ==
  /\ pc = "new"
  /\ fs' = Renamed(filename, out)
  /\ saved' = IF filename = ".config" THEN out ELSE saved
  /\ pc' = "written"
  /\ UNCHANGED <<prog, filename, out, todo, touched, built, torn>>

-----------------------------------------------------------------------------
(* conf_write_autoconf: once it is known what out and todo are, the        *)
(* dependency files, then autoconf.h, then auto.conf.                      *)

conf_touch_dep(s) ==
  /\ pc = "touch" /\ s \in todo
  /\ touched' = touched \cup {s}
  /\ todo' = todo \ {s}
  /\ UNCHANGED <<fs, prog, pc, filename, out, built, torn, saved>>

RenameHeader ==
  /\ pc = "touch" /\ todo = {}
  /\ fs' = Renamed("autoconf.h", out)
  /\ pc' = "auto"
  /\ UNCHANGED <<prog, filename, out, todo, touched, built, torn, saved>>

(* "This must be the last step"                                            *)
RenameAuto ==
  /\ pc = "auto"
  /\ fs' = Renamed("auto.conf", out)
  /\ pc' = "end"
  /\ UNCHANGED <<prog, filename, out, todo, touched, built, torn, saved>>

-----------------------------------------------------------------------------
Stop == /\ prog' = "none" /\ pc' = "none" /\ filename' = ".config" /\ out' = None /\ todo' = {}
        /\ UNCHANGED <<fs, touched, built, torn, saved>>

End == pc = "end" /\ Stop
Crash == pc \in {"old", "new", "written", "deps", "touch", "auto"} /\ Stop

(* The user edits .config by hand.                                         *)
HandEdit ==
  /\ prog = "none"
  /\ fs' = Renamed(".config", saved')
  /\ UNCHANGED <<prog, pc, filename, out, todo, touched, built, torn>>

(* fixdep: the dependency files of the object, those of the words in all   *)
(* its sources but the header that holds every symbol.                     *)
is_ignored_file(f) == f = "autoconf.h"
parse_config_file(f) == {WordOf[w] : w \in Words[f]}
parse_dep_file == UNION {parse_config_file(f) : f \in {g \in DOMAIN Words : ~is_ignored_file(g)}}

(* What a source sees of a symbol.                                         *)
Word(f, s) == IF f # None /\ s \in DOMAIN f THEN f[s] ELSE "undefined"

(* make: compiles the object if there is none or one of its dependency     *)
(* files is newer.  No rule depends on auto.conf (src/scripts/config.mk),  *)
(* so it may do so before a sync that was killed is repeated.              *)
Make ==
  /\ prog = "none" /\ File("autoconf.h") # None
  /\ built = None \/ touched \cap parse_dep_file # {}
  /\ built' = File("autoconf.h") /\ touched' = {}
  /\ torn' = \E s \in parse_dep_file : Word(File("autoconf.h"), s) # Word(File("auto.conf"), s)
  /\ UNCHANGED <<fs, prog, pc, filename, out, todo, saved>>

-----------------------------------------------------------------------------
(* What the programs may do to the files, whatever they compute.           *)

Thinking == {"check", "ask", "pick", "menu"}

Started ==
  /\ pc = "none" /\ prog' # "none" /\ pc' \in Thinking \cup {"write", "defconfig"}
  /\ filename' = ".config"
  /\ UNCHANGED <<fs, out, todo, touched, built, torn, saved>>

Thought ==
  /\ pc \in Thinking /\ pc' \in Thinking \cup {"write", "end"}
  /\ filename' \in {".config", "alt"}
  /\ UNCHANGED <<fs, prog, out, todo, touched, built, torn, saved>>

SavedFile ==
  /\ pc = "written" /\ out' = None /\ pc' \in {"menu", "end", "deps"}
  /\ UNCHANGED <<fs, prog, filename, todo, touched, built, torn, saved>>

SavedDefconfig ==
  /\ pc = "defconfig" /\ fs' = Renamed("defconfig", fs'["defconfig"]) /\ pc' = "end"
  /\ UNCHANGED <<prog, filename, out, todo, touched, built, torn, saved>>

(* Whatever changes for the sources is to be touched.                      *)
Compared ==
  /\ pc = "deps" /\ out' # None /\ pc' = "touch"
  /\ \A s \in DOMAIN out' \cup DOMAIN File("auto.conf") :
       Word(out', s) # Word(File("auto.conf"), s) => s \in todo'
  /\ UNCHANGED <<fs, prog, filename, touched, built, torn, saved>>

FilesNext ==
  \/ Started \/ Thought
  \/ (out' # None /\ WriteTmp) \/ RenameOld \/ RenameNew \/ SavedFile
  \/ Compared \/ (\E s \in todo : conf_touch_dep(s)) \/ RenameHeader \/ RenameAuto
  \/ SavedDefconfig \/ End \/ Crash \/ (saved' # None /\ HandEdit) \/ Make

FilesSpec == FilesInit /\ [][FilesNext]_filevars

-----------------------------------------------------------------------------
(* Whenever a program is killed, the last configuration that was saved is  *)
(* still there, as .config or as .config.old.                              *)
ConfigNeverLost == saved # None => saved \in {File(".config"), File(".config.old")}

(* At any time, an object none of whose dependency files was touched was   *)
(* compiled with the values autoconf.h now has, for every symbol its       *)
(* sources mention, whatever was killed before.  The exception is an       *)
(* object compiled between a sync that was killed, auto.conf not yet       *)
(* renamed, and the next one, which will compare with that auto.conf.      *)
RebuildComplete ==
  (built # None /\ ~torn /\ touched \cap parse_dep_file = {}) =>
     \A s \in parse_dep_file : Word(built, s) = Word(File("autoconf.h"), s)

-----------------------------------------------------------------------------
(* The inductive invariant behind the two properties (KConfProofs).        *)

Files_Place ==
  /\ (pc = "none") <=> (prog = "none")
  /\ filename \in {".config", "alt"}
  /\ pc \in {"old", "new", "touch", "auto"} => out # None

(* .config is what was saved; between the two renames .config.old is.      *)
Files_Config ==
  /\ ".config" \in DOMAIN fs => saved # None /\ fs[".config"] = saved
  /\ (saved # None /\ ".config" \notin DOMAIN fs) =>
       ".config.old" \in DOMAIN fs /\ fs[".config.old"] = saved

(* The object need not care about s, or f and auto.conf agree on it.       *)
Settled(f, s) == s \in touched \/ Word(f, s) = Word(File("auto.conf"), s)

Files_Sync ==
  /\ pc = "touch" => \A s \in parse_dep_file : s \in todo \/ Settled(out, s)
  /\ pc = "auto" => /\ File("autoconf.h") = out
                    /\ \A s \in parse_dep_file : Settled(out, s)

Files_Object ==
  ~torn => \A s \in parse_dep_file :
             Settled(File("autoconf.h"), s) /\ (built # None => Settled(built, s))

FilesInv == Files_Place /\ Files_Config /\ Files_Sync /\ Files_Object
=============================================================================
