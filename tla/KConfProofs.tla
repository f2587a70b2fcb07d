---------------------------- MODULE KConfProofs ----------------------------
(***************************************************************************)
(* Proofs about KFiles: whatever configurations conf and mconf compute and *)
(* wherever they are killed, the last saved .config survives, and an       *)
(* object make does not compile again was compiled with the values its     *)
(* sources would see now.  Then KConf, with all that is computed, is shown *)
(* to be one of the programs KFiles speaks of.                             *)
(***************************************************************************)
EXTENDS KConf, TLAPS

(* A file that a step leaves alone reads the same afterwards.              *)
LEMMA FileKept ==
  ASSUME NEW name, (name \in DOMAIN fs') <=> (name \in DOMAIN fs),
         name \in DOMAIN fs => fs'[name] = fs[name]
  PROVE  File(name)' = File(name)
  BY DEF File

LEMMA ConfigKept ==
  ASSUME Files_Config, saved' = saved,
         (".config" \in DOMAIN fs') <=> (".config" \in DOMAIN fs),
         ".config" \in DOMAIN fs => fs'[".config"] = fs[".config"],
         (".config.old" \in DOMAIN fs') <=> (".config.old" \in DOMAIN fs),
         ".config.old" \in DOMAIN fs => fs'[".config.old"] = fs[".config.old"]
  PROVE  Files_Config'
  BY DEF Files_Config, None

(* A rename puts the content in one place and leaves the others alone.     *)
LEMMA RenamedFiles ==
  ASSUME NEW name, NEW content, fs' = Renamed(name, content)
  PROVE  /\ name \in DOMAIN fs' /\ fs'[name] = content /\ File(name)' = content
         /\ \A f : f # name => /\ (f \in DOMAIN fs') <=> (f \in DOMAIN fs)
                               /\ f \in DOMAIN fs => fs'[f] = fs[f]
                               /\ File(f)' = File(f)
  BY DEF Renamed, File

LEMMA InitInv == FilesInit => FilesInv
<1> SUFFICES ASSUME FilesInit PROVE FilesInv
  OBVIOUS
<1>1. Files_Place /\ Files_Config /\ Files_Sync
  BY DEF FilesInit, Files_Place, Files_Config, Files_Sync
<1>2. File("autoconf.h") = File("auto.conf") /\ built = None
  BY DEF FilesInit, File
<1>3. Files_Object
  BY <1>2 DEF Files_Object, Settled
<1> QED BY <1>1, <1>3 DEF FilesInv

(* A step that changes no file, no object and no time stamp.               *)
LEMMA QuietStep ==
  ASSUME FilesInv, UNCHANGED <<fs, touched, built, torn, saved>>
  PROVE  /\ Files_Config' /\ Files_Object'
         /\ \A name : File(name)' = File(name)
<1>1. Files_Config'
  BY DEF FilesInv, Files_Config
<1>2. \A name : File(name)' = File(name)
  BY DEF File
<1>3. Files_Object'
  BY <1>2 DEF FilesInv, Files_Object, Settled
<1> QED BY <1>1, <1>2, <1>3

LEMMA ThinkingStep ==
  ASSUME FilesInv, Started \/ Thought \/ SavedFile \/ End \/ Crash
  PROVE  FilesInv'
<1>1. UNCHANGED <<fs, touched, built, torn, saved>>
  BY DEF Started, Thought, SavedFile, End, Crash, Stop
<1>2. Files_Config' /\ Files_Object'
  BY <1>1, QuietStep
<1>3. Files_Place'
  BY DEF FilesInv, Files_Place, Started, Thought, SavedFile, End, Crash, Stop, Thinking
<1>4. Files_Sync'
  BY DEF Files_Sync, Started, Thought, SavedFile, End, Crash, Stop, Thinking
<1> QED BY <1>2, <1>3, <1>4 DEF FilesInv

LEMMA WriteTmpStep ==
  ASSUME FilesInv, out' # None, WriteTmp
  PROVE  FilesInv'
<1>1. Files_Config' /\ Files_Object'
  BY QuietStep DEF WriteTmp
<1>2. Files_Place'
  BY DEF FilesInv, Files_Place, WriteTmp
<1>3. Files_Sync'
  BY DEF Files_Sync, WriteTmp
<1> QED BY <1>1, <1>2, <1>3 DEF FilesInv

(* The old file has a new name before the new one gets its own.            *)
LEMMA RenameOldStep ==
  ASSUME FilesInv, RenameOld
  PROVE  FilesInv'
<1>1. Files_Place' /\ Files_Sync'
  BY DEF FilesInv, Files_Place, Files_Sync, RenameOld
<1>2. filename \in {".config", "alt"} /\ Files_Config
  BY DEF FilesInv, Files_Place
<1>3. CASE File(filename) = None
  <2>1. fs' = fs
    BY <1>3 DEF RenameOld
  <2> QED BY <2>1, <1>1, QuietStep DEF RenameOld, FilesInv
<1>4. CASE File(filename) # None
  <2>1. filename \in DOMAIN fs
    BY <1>4 DEF File
  <2>2. fs' = [f \in (DOMAIN fs \cup {OldOf(filename)}) \ {filename} |->
                 IF f = OldOf(filename) THEN fs[filename] ELSE fs[f]]
    BY <1>4 DEF RenameOld
  <2>3. \A f : f \notin {filename, OldOf(filename)} =>
               /\ (f \in DOMAIN fs') <=> (f \in DOMAIN fs)
               /\ f \in DOMAIN fs => fs'[f] = fs[f]
    BY <2>2
  <2>4. OldOf(filename) \in {".config.old", "alt.old"} /\ OldOf(filename) # filename
    BY <1>2 DEF OldOf
  <2>5. File("auto.conf")' = File("auto.conf") /\ File("autoconf.h")' = File("autoconf.h")
    BY <2>3, <2>4, <1>2, FileKept
  <2>6. Files_Object'
    BY <2>5 DEF FilesInv, Files_Object, Settled, RenameOld
  <2>7. saved' = saved
    BY DEF RenameOld
  <2>8. CASE filename = ".config"
    <3>1. ".config" \notin DOMAIN fs' /\ ".config.old" \in DOMAIN fs' /\ fs'[".config.old"] = fs[".config"]
      BY <2>2, <2>8 DEF OldOf
    <3>2. saved # None /\ fs[".config"] = saved
      BY <2>1, <2>8, <1>2 DEF Files_Config
    <3>3. Files_Config'
      BY <3>1, <3>2, <2>7 DEF Files_Config
    <3> QED BY <3>3, <2>6, <1>1 DEF FilesInv
  <2>9. CASE filename = "alt"
    <3>1. OldOf(filename) = "alt.old"
      BY <2>9 DEF OldOf
    <3>3. Files_Config'
      BY <2>3, <2>7, <2>9, <3>1, <1>2, ConfigKept
    <3> QED BY <3>3, <2>6, <1>1 DEF FilesInv
  <2> QED BY <2>8, <2>9, <1>2
<1> QED BY <1>3, <1>4

LEMMA RenameNewStep ==
  ASSUME FilesInv, RenameNew
  PROVE  FilesInv'
<1>1. Files_Place' /\ Files_Sync'
  BY DEF FilesInv, Files_Place, Files_Sync, RenameNew
<1>2. filename \in {".config", "alt"} /\ Files_Config /\ out # None
  BY DEF FilesInv, Files_Place, RenameNew
<1>3. fs' = Renamed(filename, out)
  BY DEF RenameNew
<1>4. File("auto.conf")' = File("auto.conf") /\ File("autoconf.h")' = File("autoconf.h")
  BY <1>2, <1>3, RenamedFiles
<1>5. Files_Object'
  BY <1>4 DEF FilesInv, Files_Object, Settled, RenameNew
<1>6. CASE filename = ".config"
  <2>1. ".config" \in DOMAIN fs' /\ fs'[".config"] = out /\ saved' = out
    BY <1>3, <1>6, RenamedFiles DEF RenameNew
  <2>2. Files_Config'
    BY <2>1, <1>2 DEF Files_Config, None
  <2> QED BY <2>2, <1>1, <1>5 DEF FilesInv
<1>7. CASE filename = "alt"
  <2>2. saved' = saved
    BY <1>7 DEF RenameNew
  <2>3. Files_Config'
    BY <1>2, <1>3, <1>7, <2>2, RenamedFiles, ConfigKept
  <2> QED BY <2>3, <1>1, <1>5 DEF FilesInv
<1> QED BY <1>2, <1>6, <1>7

-----------------------------------------------------------------------------
(* conf_write_autoconf.                                                    *)

(* Whatever the sources would see change is to be touched.                 *)
LEMMA ComparedStep ==
  ASSUME FilesInv, Compared
  PROVE  FilesInv'
<1>1. Files_Config' /\ Files_Object' /\ File("auto.conf")' = File("auto.conf")
  BY QuietStep DEF Compared
<1>2. Files_Place'
  BY DEF FilesInv, Files_Place, Compared
<1>3. ASSUME NEW s \in parse_dep_file
      PROVE  s \in todo' \/ Word(out', s) = Word(File("auto.conf"), s)
  <2>1. CASE s \in DOMAIN out' \cup DOMAIN File("auto.conf")
    BY <2>1 DEF Compared
  <2>2. CASE s \notin DOMAIN out' \cup DOMAIN File("auto.conf")
    BY <2>2 DEF Word
  <2> QED BY <2>1, <2>2
<1>4. Files_Sync'
  BY <1>1, <1>3 DEF Files_Sync, Compared, Settled
<1> QED BY <1>1, <1>2, <1>4 DEF FilesInv

LEMMA TouchStep ==
  ASSUME FilesInv, NEW t \in todo, conf_touch_dep(t)
  PROVE  FilesInv'
<1>1. Files_Place' /\ Files_Config'
  BY DEF FilesInv, Files_Place, Files_Config, conf_touch_dep
<1>2. File("auto.conf")' = File("auto.conf") /\ File("autoconf.h")' = File("autoconf.h")
  BY DEF conf_touch_dep, File
<1>3. Files_Object'
  BY <1>2 DEF FilesInv, Files_Object, Settled, conf_touch_dep
<1>4. Files_Sync'
  BY <1>2 DEF FilesInv, Files_Sync, Settled, conf_touch_dep
<1> QED BY <1>1, <1>3, <1>4 DEF FilesInv

LEMMA HeaderStep ==
  ASSUME FilesInv, RenameHeader
  PROVE  FilesInv'
<1>1. fs' = Renamed("autoconf.h", out)
  BY DEF RenameHeader
<1>2. File("autoconf.h")' = out /\ File("auto.conf")' = File("auto.conf")
  BY <1>1, RenamedFiles
<1>3. Files_Place'
  BY DEF FilesInv, Files_Place, RenameHeader
<1>4. Files_Config'
  BY <1>1, RenamedFiles, ConfigKept DEF FilesInv, RenameHeader
<1>5. \A s \in parse_dep_file : Settled(out, s)
  BY DEF FilesInv, Files_Sync, RenameHeader
<1>6. Files_Sync'
  BY <1>2, <1>5 DEF Files_Sync, Settled, RenameHeader
<1>7. Files_Object'
  BY <1>2, <1>5 DEF FilesInv, Files_Object, Settled, RenameHeader
<1> QED BY <1>3, <1>4, <1>6, <1>7 DEF FilesInv

(* Everything the sources see differently has been touched by now.         *)
LEMMA AutoStep ==
  ASSUME FilesInv, RenameAuto
  PROVE  FilesInv'
<1>1. fs' = Renamed("auto.conf", out)
  BY DEF RenameAuto
<1>2. File("auto.conf")' = out /\ File("autoconf.h")' = File("autoconf.h")
  BY <1>1, RenamedFiles
<1>3. Files_Place' /\ Files_Sync'
  BY DEF FilesInv, Files_Place, Files_Sync, RenameAuto
<1>4. Files_Config'
  BY <1>1, RenamedFiles, ConfigKept DEF FilesInv, RenameAuto
<1>5. File("autoconf.h") = out /\ \A s \in parse_dep_file : Settled(out, s)
  BY DEF FilesInv, Files_Sync, RenameAuto
<1>6. Files_Object'
  BY <1>2, <1>5 DEF FilesInv, Files_Object, Settled, RenameAuto
<1> QED BY <1>3, <1>4, <1>6 DEF FilesInv

-----------------------------------------------------------------------------
(* What other programs do to the files.                                    *)

LEMMA DefconfigStep ==
  ASSUME FilesInv, SavedDefconfig
  PROVE  FilesInv'
<1>1. fs' = Renamed("defconfig", fs'["defconfig"])
  BY DEF SavedDefconfig
<1>2. File("auto.conf")' = File("auto.conf") /\ File("autoconf.h")' = File("autoconf.h")
  BY <1>1, RenamedFiles
<1>3. Files_Place' /\ Files_Sync'
  BY DEF FilesInv, Files_Place, Files_Sync, SavedDefconfig
<1>4. Files_Config'
  BY <1>1, RenamedFiles, ConfigKept DEF FilesInv, SavedDefconfig
<1>5. Files_Object'
  BY <1>2 DEF FilesInv, Files_Object, Settled, SavedDefconfig
<1> QED BY <1>3, <1>4, <1>5 DEF FilesInv

LEMMA HandEditStep ==
  ASSUME FilesInv, saved' # None, HandEdit
  PROVE  FilesInv'
<1>1. fs' = Renamed(".config", saved')
  BY DEF HandEdit
<1>2. File("auto.conf")' = File("auto.conf") /\ File("autoconf.h")' = File("autoconf.h")
  BY <1>1, RenamedFiles
<1>3. Files_Place'
  BY DEF FilesInv, Files_Place, HandEdit
<1>4. Files_Sync'
  BY DEF FilesInv, Files_Place, Files_Sync, HandEdit
<1>5. ".config" \in DOMAIN fs' /\ fs'[".config"] = saved'
  BY <1>1, RenamedFiles
<1>6. Files_Config'
  BY <1>5 DEF Files_Config, None
<1>7. Files_Object'
  BY <1>2 DEF FilesInv, Files_Object, Settled, HandEdit
<1> QED BY <1>3, <1>4, <1>6, <1>7 DEF FilesInv

LEMMA MakeStep ==
  ASSUME FilesInv, Make
  PROVE  FilesInv'
<1>1. Files_Place' /\ Files_Config' /\ Files_Sync'
  BY DEF FilesInv, Files_Place, Files_Config, Files_Sync, Make
<1>2. File("auto.conf")' = File("auto.conf") /\ File("autoconf.h")' = File("autoconf.h")
  BY DEF Make, File
<1>3. Files_Object'
  BY <1>2 DEF Files_Object, Settled, Make
<1> QED BY <1>1, <1>3 DEF FilesInv

LEMMA NextInv == FilesInv /\ [FilesNext]_filevars => FilesInv'
<1> SUFFICES ASSUME FilesInv, [FilesNext]_filevars PROVE FilesInv'
  OBVIOUS
<1>1. CASE Started \/ Thought \/ SavedFile \/ End \/ Crash
  BY <1>1, ThinkingStep
<1>2. CASE out' # None /\ WriteTmp
  BY <1>2, WriteTmpStep
<1>3. CASE RenameOld
  BY <1>3, RenameOldStep
<1>4. CASE RenameNew
  BY <1>4, RenameNewStep
<1>5. CASE Compared
  BY <1>5, ComparedStep
<1>6. CASE \E t \in todo : conf_touch_dep(t)
  BY <1>6, TouchStep
<1>7. CASE RenameHeader
  BY <1>7, HeaderStep
<1>8. CASE RenameAuto
  BY <1>8, AutoStep
<1>9. CASE SavedDefconfig
  BY <1>9, DefconfigStep
<1>10. CASE saved' # None /\ HandEdit
  BY <1>10, HandEditStep
<1>11. CASE Make
  BY <1>11, MakeStep
<1>12. CASE UNCHANGED filevars
  <2>1. Files_Config' /\ Files_Object'
    BY <1>12, QuietStep DEF filevars
  <2>2. Files_Place' /\ Files_Sync'
    BY <1>12 DEF filevars, FilesInv, Files_Place, Files_Sync, Settled, File
  <2> QED BY <2>1, <2>2 DEF FilesInv
<1> QED
  BY <1>1, <1>2, <1>3, <1>4, <1>5, <1>6, <1>7, <1>8, <1>9, <1>10, <1>11, <1>12 DEF FilesNext

(* The invariant holds in every state the programs, kills at any file      *)
(* operation, hand edits and make can lead the files to.                   *)
THEOREM FilesInvariant == FilesSpec => []FilesInv
<1> QED BY InitInv, NextInv, PTL DEF FilesSpec

(* A kill anywhere in conf_write leaves the last saved configuration in    *)
(* .config or .config.old, whatever was to be written.                     *)
THEOREM ConfigSafe == FilesSpec => []ConfigNeverLost
<1>1. FilesInv => ConfigNeverLost
  BY DEF FilesInv, Files_Config, ConfigNeverLost, File
<1> QED BY <1>1, FilesInvariant, PTL

(* The order of conf_write_autoconf (dependency files, autoconf.h, and     *)
(* auto.conf last) leaves no object outdated, for any configurations,      *)
(* sources, kills and repeated syncs, as long as it was not compiled       *)
(* between a kill and the next sync.                                       *)
THEOREM RebuildSafe == FilesSpec => []RebuildComplete
<1>1. FilesInv => RebuildComplete
  BY DEF FilesInv, Files_Object, Settled, RebuildComplete
<1> QED BY <1>1, FilesInvariant, PTL
-----------------------------------------------------------------------------
(* KConf: every step of conf and mconf is one of FilesNext.                *)

(* What a program writes is never taken for a missing file.                *)
LEMMA ContentIsFile == \A s0 : Content(s0) # None /\ AutoContent(s0) # None
<1> SUFFICES ASSUME NEW s0 PROVE Content(s0) # None /\ AutoContent(s0) # None
  OBVIOUS
<1>1. "nofile" \notin Written(s0)
  BY NoneIsNoFile DEF Written
<1>2. "nofile" \notin DOMAIN Content(s0) /\ "nofile" \notin DOMAIN AutoContent(s0)
  BY <1>1 DEF Content, AutoContent
<1>3. "nofile" \in DOMAIN None
  BY DEF None
<1> QED BY <1>2, <1>3

LEMMA AutoContentKnown == \A s0 : AutoKnown(AutoContent(s0))
  BY DEF AutoKnown, AutoContent, Written

LEMMA StartStep ==
  ASSUME ConfInv, StartConf \/ StartMconf
  PROVE  Started
<1>1. prog = "none" => pc = "none"
  BY DEF ConfInv, FilesInv, Files_Place
<1>2. CASE StartConf
  <2>1. PICK mode \in Modes :
          /\ prog = "none" /\ prog' = mode /\ pc' = Place(mode) /\ filename' = ".config"
          /\ UNCHANGED <<fs, out, todo, touched, built, torn, saved>>
    BY <1>2 DEF StartConf, Run
  <2>2. mode # "none"
    BY DEF Modes, NewAs, Unread, Asking
  <2>3. Place(mode) \in Thinking \cup {"write", "defconfig"}
    BY DEF Place, Thinking
  <2> QED BY <1>1, <2>1, <2>2, <2>3 DEF Started
<1>3. CASE StartMconf
  BY <1>1, <1>3 DEF StartMconf, Run, Started, Thinking
<1> QED BY <1>2, <1>3

(* The walks of conf, whatever is answered.                                *)
LEMMA AskThinks ==
  ASSUME ConfInv, AskStep
  PROVE  Thought
<1>1. filename \in {".config", "alt"}
  BY DEF ConfInv, FilesInv, Files_Place
<1>2. UNCHANGED <<fs, prog, filename, out, todo, touched, built, torn, saved>>
  <2>1. InMemory /\ UNCHANGED <<prog, filename, out, todo>>
    BY DEF AskStep, check_conf, CheckAgain, conf_skip, conf_sym, conf_string, ChoiceSet, ChoicePick
  <2> QED BY <2>1 DEF InMemory
<1>3. \A s0 : Walk(s0) => pc' \in {"ask", "check"}
  BY DEF Walk
<1>4. pc \in Thinking /\ pc' \in Thinking \cup {"write", "end"}
  <2>1. CASE check_conf \/ CheckAgain
    BY <2>1 DEF check_conf, CheckAgain, Thinking
  <2>2. CASE conf_skip
    BY <2>2, <1>3 DEF conf_skip, Thinking
  <2>3. CASE conf_sym
    BY <2>3, <1>3 DEF conf_sym, Thinking
  <2>4. CASE conf_string
    BY <2>4, <1>3 DEF conf_string, Thinking
  <2>5. CASE ChoiceSet
    BY <2>5, <1>3 DEF ChoiceSet, Thinking
  <2>6. CASE ChoicePick
    BY <2>6, <1>3 DEF ChoicePick, Thinking
  <2> QED BY <2>1, <2>2, <2>3, <2>4, <2>5, <2>6 DEF AskStep
<1> QED BY <1>1, <1>2, <1>4 DEF Thought

(* The keys of mconf.                                                      *)
MconfStep == MconfKey \/ MconfChoice \/ MconfString \/ MconfLoad \/ MconfSave \/ MconfExit

LEMMA MconfThinks ==
  ASSUME ConfInv, MconfStep
  PROVE  Thought
<1>1. filename \in {".config", "alt"}
  BY DEF ConfInv, FilesInv, Files_Place
<1>2. \A s0 : Edit(s0) => /\ InMemory
                          /\ UNCHANGED <<prog, pc, filename, out, todo>>
  BY DEF Edit
<1>3. CASE MconfKey
  <2>1. PICK s0 : Edit(s0)
    BY <1>3 DEF MconfKey
  <2> QED BY <1>1, <1>2, <1>3, <2>1 DEF MconfKey, Key, InMemory, Thought, Thinking
<1>4. CASE MconfChoice
  <2>1. PICK s0 : Edit(s0)
    BY <1>4 DEF MconfChoice
  <2> QED BY <1>1, <1>2, <1>4, <2>1 DEF MconfChoice, Key, InMemory, Thought, Thinking
<1>5. CASE MconfString
  <2>1. PICK s0 : Edit(s0)
    BY <1>5 DEF MconfString
  <2> QED BY <1>1, <1>2, <1>5, <2>1 DEF MconfString, Key, InMemory, Thought, Thinking
<1>6. CASE MconfLoad
  <2>1. filename' \in {".config", "alt"}
    BY <1>1, <1>6 DEF MconfLoad
  <2> QED BY <1>6, <2>1 DEF MconfLoad, Key, InMemory, Thought, Thinking
<1>7. CASE MconfSave
  BY <1>7 DEF MconfSave, Key, Goto, InMemory, Thought, Thinking
<1>8. CASE MconfExit
  BY <1>1, <1>8 DEF MconfExit, InMemory, Thought, Thinking
<1> QED BY <1>3, <1>4, <1>5, <1>6, <1>7, <1>8 DEF MconfStep

(* conf_write with what is in memory.                                      *)
LEMMA WriteStep ==
  ASSUME WriteSymbols
  PROVE  out' # None /\ WriteTmp
<1>1. WriteTmp /\ \E s0 : out' = Content(s0)
  BY DEF WriteSymbols
<1> QED BY <1>1, ContentIsFile

LEMMA AfterWriteStep ==
  ASSUME AfterWrite
  PROVE  SavedFile
  BY DEF AfterWrite, SavedFile, Goto, InMemory

(* conf_touch_deps compares the right things: whatever the sources see     *)
(* change between auto.conf and what is about to be written is touched.    *)
LEMMA TouchDepsStep ==
  ASSUME ConfInv, conf_touch_deps
  PROVE  Compared /\ AutoKnown(out')
<1> DEFINE auto == File("auto.conf")
           known == IF auto = None THEN Nothing ELSE auto
<1>1. PICK s0 : todo' = {s \in Syms : Changed(s0, known, s)} /\ out' = AutoContent(s0)
  BY DEF conf_touch_deps
<1>2. out' # None /\ AutoKnown(out')
  BY <1>1, ContentIsFile, AutoContentKnown
<1>3. AutoKnown(auto)
  BY DEF ConfInv
<1>4. \A s \in DOMAIN out' : s \in Written(s0) /\ out'[s] = s0.cur[s].val /\ out'[s] # "n"
  BY <1>1 DEF AutoContent
<1>5. \A s \in Written(s0) : s \notin DOMAIN out' => s0.cur[s].val = "n"
  BY <1>1 DEF AutoContent
<1>6. Written(s0) \subseteq Syms \ ChoiceSyms
  BY DEF Written
<1>7. ASSUME NEW s \in DOMAIN out' \cup DOMAIN auto, Word(out', s) # Word(auto, s)
      PROVE  s \in todo'
  <2>1. CASE auto = None
    <3>1. Word(auto, s) = "undefined"
      BY <2>1 DEF Word
    <3>2. s \in DOMAIN out'
      BY <1>7, <3>1 DEF Word
    <3>3. s \notin DOMAIN known
      BY <2>1 DEF Nothing
    <3> QED BY <1>1, <1>4, <1>6, <3>2, <3>3 DEF Changed
  <2>2. CASE auto # None /\ s \in DOMAIN out'
    <3>1. known = auto /\ s \in Written(s0) /\ s \in Syms /\ s \notin ChoiceSyms
      BY <2>2, <1>4, <1>6
    <3>2. Word(out', s) = s0.cur[s].val /\ s0.cur[s].val # "n"
      BY <2>2, <1>2, <1>4 DEF Word
    <3>3. s \in DOMAIN auto => s0.cur[s].val # auto[s]
      BY <2>2, <3>2, <1>7 DEF Word
    <3>4. Changed(s0, auto, s)
      BY <3>1, <3>2, <3>3 DEF Changed
    <3> QED BY <1>1, <3>1, <3>4
  <2>3. CASE auto # None /\ s \notin DOMAIN out'
    <3>1. known = auto /\ s \in DOMAIN auto /\ s \in Syms /\ s \notin ChoiceSyms /\ auto[s] # "n"
      BY <2>3, <1>3, <1>7 DEF AutoKnown
    <3>2. Changed(s0, auto, s)
      BY <2>3, <3>1, <1>5 DEF Changed
    <3> QED BY <1>1, <3>1, <3>2
  <2> QED BY <1>7, <2>1, <2>2, <2>3
<1>8. pc = "deps" /\ pc' = "touch" /\ UNCHANGED <<fs, prog, filename, touched, built, torn, saved>>
  BY DEF conf_touch_deps, InMemory
<1> QED BY <1>2, <1>7, <1>8 DEF Compared

LEMMA DefconfigWritten ==
  ASSUME WriteDefconfig
  PROVE  SavedDefconfig
<1>1. fs' = Renamed("defconfig", conf_write_defconfig(st))
  BY DEF WriteDefconfig
<1>2. fs'["defconfig"] = conf_write_defconfig(st)
  BY <1>1, RenamedFiles
<1> QED BY <1>1, <1>2 DEF WriteDefconfig, SavedDefconfig, Goto

LEMMA TouchedStep ==
  ASSUME NextTouched
  PROVE  \E s \in todo : conf_touch_dep(s)
<1>1. (CHOOSE s \in todo : TRUE) \in todo
  BY DEF NextTouched
<1> QED BY <1>1 DEF NextTouched

(* Every step of the programs is one FilesNext allows, or a stutter.       *)
LEMMA StepSimulates ==
  ASSUME ConfInv, [Next]_vars
  PROVE  [FilesNext]_filevars
<1>1. CASE StartConf \/ StartMconf
  BY <1>1, StartStep DEF FilesNext
<1>2. CASE AskStep
  BY <1>2, AskThinks DEF FilesNext
<1>3. CASE MconfStep
  BY <1>3, MconfThinks DEF FilesNext
<1>4. CASE WriteSymbols
  BY <1>4, WriteStep DEF FilesNext
<1>5. CASE FileStep
  BY <1>5, TouchedStep DEF FileStep, FilesNext
<1>6. CASE Rewritten
  BY <1>6 DEF Rewritten, FilesNext
<1>7. CASE AfterWrite
  BY <1>7, AfterWriteStep DEF FilesNext
<1>8. CASE conf_touch_deps
  BY <1>8, TouchDepsStep DEF FilesNext
<1>9. CASE WriteDefconfig
  BY <1>9, DefconfigWritten DEF FilesNext
<1>10. CASE Exit
  BY <1>10 DEF Exit, FilesNext
<1>11. CASE EditConfig
  <2>1. saved' # None /\ HandEdit
    BY <1>11, NoneIsNoFile DEF EditConfig
  <2> QED BY <2>1 DEF FilesNext
<1>12. CASE NoDefconfig \/ Done \/ UNCHANGED vars
  BY <1>12 DEF NoDefconfig, Done, vars
<1> QED
  BY <1>1, <1>2, <1>3, <1>4, <1>5, <1>6, <1>7, <1>8, <1>9, <1>10, <1>11, <1>12 DEF Next, MconfStep

-----------------------------------------------------------------------------
(* The invariant of KConf.                                                 *)

(* auto.conf changes only when its temporary file gets its name.           *)
LEMMA AutoKept ==
  ASSUME FilesInv, [FilesNext]_filevars, ~RenameAuto
  PROVE  File("auto.conf")' = File("auto.conf")
<1>1. CASE RenameOld
  <2>1. filename \in {".config", "alt"} /\ OldOf(filename) \in {".config.old", "alt.old"}
    BY DEF FilesInv, Files_Place, OldOf
  <2> QED BY <1>1, <2>1 DEF RenameOld, File
<1>2. CASE RenameNew
  <2>1. fs' = Renamed(filename, out) /\ filename # "auto.conf"
    BY <1>2 DEF RenameNew, FilesInv, Files_Place
  <2> QED BY <2>1, RenamedFiles
<1>3. CASE RenameHeader
  BY <1>3, RenamedFiles DEF RenameHeader
<1>4. CASE SavedDefconfig
  BY <1>4, RenamedFiles DEF SavedDefconfig
<1>5. CASE HandEdit
  BY <1>5, RenamedFiles DEF HandEdit
<1>6. CASE UNCHANGED fs
  BY <1>6 DEF File
<1>7. CASE \/ Started \/ Thought \/ WriteTmp \/ SavedFile \/ Compared
           \/ (\E s \in todo : conf_touch_dep(s)) \/ End \/ Crash \/ Make \/ UNCHANGED filevars
  BY <1>6, <1>7 DEF Started, Thought, WriteTmp, SavedFile, Compared, conf_touch_dep,
                    End, Crash, Stop, Make, filevars
<1> QED BY <1>1, <1>2, <1>3, <1>4, <1>5, <1>7 DEF FilesNext

LEMMA ConfInitInv == Init => ConfInv
<1> SUFFICES ASSUME Init PROVE ConfInv
  OBVIOUS
<1>1. FilesInit
  BY DEF Init
<1>2. File("auto.conf") = None /\ pc = "none"
  BY <1>1 DEF FilesInit, File
<1> QED BY <1>1, <1>2, InitInv DEF ConfInv, AutoKnown

(* Only conf_touch_deps and the rename of autoconf.h lead to the renames.  *)
LEMMA ConfNextInv == ConfInv /\ [Next]_vars => ConfInv'
<1> SUFFICES ASSUME ConfInv, [Next]_vars PROVE ConfInv'
  OBVIOUS
<1>1. [FilesNext]_filevars
  BY StepSimulates
<1>2. FilesInv /\ FilesInv'
  BY <1>1, NextInv DEF ConfInv
<1>3. AutoKnown(File("auto.conf"))'
  <2>1. CASE RenameAuto
    <3>1. File("auto.conf")' = out
      BY <2>1, RenamedFiles DEF RenameAuto
    <3>2. AutoKnown(out)
      BY <2>1 DEF RenameAuto, ConfInv
    <3> QED BY <3>1, <3>2 DEF AutoKnown
  <2>2. CASE ~RenameAuto
    <3>1. File("auto.conf")' = File("auto.conf")
      BY <1>1, <1>2, <2>2, AutoKept
    <3> QED BY <3>1 DEF ConfInv, AutoKnown
  <2> QED BY <2>1, <2>2
<1>4. ASSUME pc' \in {"touch", "auto"} PROVE AutoKnown(out)'
  <2>1. CASE conf_touch_deps
    BY <2>1, TouchDepsStep DEF AutoKnown
  <2>2. CASE ~conf_touch_deps
    <3>1. pc \in {"touch", "auto"} /\ out' = out
      <4>1. CASE StartConf \/ StartMconf
        BY <4>1, <1>4, StartStep DEF Started, Thinking
      <4>2. CASE AskStep \/ MconfStep
        BY <4>2, <1>4, AskThinks, MconfThinks DEF Thought, Thinking
      <4>3. CASE WriteSymbols \/ Rewritten \/ AfterWrite
        BY <4>3, <1>4, WriteStep, AfterWriteStep DEF WriteTmp, Rewritten, RenameNew, SavedFile
      <4>4. CASE FileStep
        BY <4>4, <1>2, <1>4 DEF FileStep, RenameOld, NextTouched, conf_touch_dep, RenameHeader,
                                RenameAuto, Make, FilesInv, Files_Place
      <4>5. CASE WriteDefconfig \/ Exit
        BY <4>5, <1>4, DefconfigWritten DEF SavedDefconfig, Exit, End, Crash, Stop
      <4>6. CASE EditConfig
        BY <4>6, <1>4 DEF EditConfig, HandEdit
      <4>7. CASE NoDefconfig \/ Done \/ UNCHANGED vars
        BY <4>7, <1>4 DEF NoDefconfig, Done, vars, filevars
      <4> QED BY <2>2, <4>1, <4>2, <4>3, <4>4, <4>5, <4>6, <4>7 DEF Next, MconfStep
    <3> QED BY <3>1 DEF ConfInv, AutoKnown
  <2> QED BY <2>1, <2>2
<1> QED BY <1>2, <1>3, <1>4 DEF ConfInv

(* The files of conf and mconf, and in particular that auto.conf never     *)
(* mentions a symbol conf_touch_deps would not look at, whatever the       *)
(* Kconfig files say and the user answers.                                 *)
THEOREM ConfInvariant == Spec => []ConfInv
<1> QED BY ConfInitInv, ConfNextInv, PTL DEF Spec

(* conf and mconf, with all they compute, treat the files as FilesSpec     *)
(* says: every step is one of KFiles or leaves the files alone.            *)
THEOREM ConfImplementsFiles == Spec => KeepsFiles
<1>1. Init => FilesInit
  BY DEF Init
<1>2. ConfInv /\ [Next]_vars => [FilesNext]_filevars
  BY StepSimulates
<1> QED BY <1>1, <1>2, ConfInvariant, PTL DEF Spec, KeepsFiles, FilesSpec

(* No kill of conf or mconf, in any mode and with any answers, loses the   *)
(* last saved configuration.                                               *)
THEOREM ConfNeverLoses == Spec => []ConfigNeverLost
<1> QED BY ConfImplementsFiles, ConfigSafe, PTL DEF KeepsFiles

(* After any runs of conf and mconf, with kills and hand edits in between, *)
(* make takes no object for up to date that its sources would not be       *)
(* compiled to again.                                                      *)
THEOREM ConfRebuilds == Spec => []RebuildComplete
<1> QED BY ConfImplementsFiles, RebuildSafe, PTL DEF KeepsFiles
=============================================================================
