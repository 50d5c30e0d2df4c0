------------------------------ MODULE Installer ------------------------------
(***************************************************************************)
(* The installer, installer/iquik.c: read_sb finds the Apple_Bootstrap     *)
(* partition, install_stage writes the boot code to it, make_bootable      *)
(* marks its entry in the partition map, and sync makes it durable.  Any   *)
(* call may fail (fatal), the machine may lose power between any two, and  *)
(* the installer may be run again.  What it leaves behind is read by the   *)
(* firmware, and by read_mac_partition (part.c) in the loader.             *)
(*                                                                         *)
(* The disk is a map of entries and the units of data; a unit holds what   *)
(* was written to it last.  Both exist twice: as processes see them, and   *)
(* as they are on the medium.                                              *)
(*                                                                         *)
(* The sector size only scales the addresses, and offsets are exact: they  *)
(* are where off_t and ssize_t have 64 bits, as in the x64 build.  The     *)
(* Makefile sets no _FILE_OFFSET_BITS, so in a 32 bit build doff * 512     *)
(* wraps at 4 GiB, and a bootstrap partition beyond that is outside this   *)
(* model.                                                                  *)
(***************************************************************************)
EXTENDS Integers, Sequences

CONSTANTS
    Disks,        \* partition maps a run may find: sequences of entries
    Units,        \* data units of the disk
    CodeLen,      \* length of iquik.b without its preboot signature
    Scripts,      \* lengths of preboot scripts that may be given
    NoScript,
    MaxRuns       \* bound: how often the installer is started

MagicLen == 1     \* sizeof(PREBOOT_MAGIC)
BootType == "Apple_Bootstrap"

(* size is boot_size; an entry with sig FALSE ends the map. *)
MapEntry == [sig : BOOLEAN, count : Nat, type : STRING, start : Nat, len : Nat,
             bootable : BOOLEAN, powerpc : BOOLEAN, size : Nat]

ASSUME InstallerAssumption ==
    /\ Disks \subseteq Seq(MapEntry) \ {<<>>}
    /\ Units \subseteq Nat
    /\ CodeLen \in Nat \ {0}
    /\ Scripts \subseteq Nat
    /\ NoScript \notin Nat
    /\ MaxRuns \in Nat

VARIABLES
    ipc,           \* where main is
    opt,           \* -T, -p, and whether a NewWorld runs it without -d
    map, data,     \* the disk as processes see it
    dmap, ddata,   \* the disk as it is on the medium
    part_index, doff,
    stage_size, buff,
    runs,          \* how often main was started
    begin,         \* history: the map when the last run started
    hurt           \* history: in that run power was lost or a read came up short

diskVars == <<map, data>>
mediumVars == <<dmap, ddata>>
locals == <<part_index, doff, stage_size, buff>>
vars == <<ipc, opt, diskVars, mediumVars, locals, runs, begin, hurt>>

Options == [test : BOOLEAN, script : Scripts \cup {NoScript}, newworld : BOOLEAN]
NoOptions == [test |-> TRUE, script |-> NoScript, newworld |-> FALSE]

(* What a unit may hold: before the first run, and what main puts in. *)
Old == <<"old", 0>>
Junk == <<"junk", 0>>

(* The contents of stage for a script: iquik.b with its signature, or the *)
(* code, the script and a terminating NUL.                                *)
StageSize(script) ==
    IF script = NoScript THEN CodeLen + MagicLen ELSE CodeLen + script + 1

Stage(script) ==
    [i \in 0 .. StageSize(script) - 1 |->
        IF i < CodeLen THEN <<"code", i>>
        ELSE IF script = NoScript THEN <<"magic", i>>
        ELSE IF i < CodeLen + script THEN <<"script", i>>
        ELSE <<"nul", i>>]

(* fread came up short: from k on (up to the NUL) the buffer is as malloc  *)
(* returned it.                                                            *)
ShortStage(script, k) ==
    [i \in DOMAIN Stage(script) |->
        IF i < k \/ Stage(script)[i][1] = "nul" THEN Stage(script)[i] ELSE Junk]

-----------------------------------------------------------------------------
(* Searching the map. *)

(* read_sb: the first entry of the bootstrap type, entries being read while *)
(* they have the signature and agree with the first on their number.       *)
SbValid(m, p) ==
    /\ p \in DOMAIN m /\ p <= m[1].count
    /\ \A q \in 1 .. p : m[q].sig /\ m[q].count = m[1].count

BootEntries(m) ==
    { p \in DOMAIN m : /\ SbValid(m, p) /\ m[p].type = BootType
                       /\ \A q \in 1 .. p - 1 : m[q].type # BootType }

(* read_mac_partition(part): entries are numbered from 1, and 0 stands for *)
(* the first bootable one.                                                 *)
MacEntries(m, part) ==
    LET Is(p) == part = p \/ (part = 0 /\ m[p].bootable /\ m[p].powerpc)
        Read(p) == p <= m[1].count /\ \A q \in 1 .. p : m[q].sig
    IN  { p \in DOMAIN m : Read(p) /\ Is(p) /\ \A q \in 1 .. p - 1 : ~Is(q) }

-----------------------------------------------------------------------------
Init ==
    /\ ipc = "idle"
    /\ opt = NoOptions
    /\ map \in Disks /\ dmap = map /\ begin = map
    /\ data = [u \in Units |-> Old] /\ ddata = data
    /\ part_index = 0 /\ doff = 0
    /\ stage_size = 0 /\ buff = <<>>
    /\ runs = 0
    /\ hurt = FALSE

(* exit(1): the locals are gone, what was written stays. *)
Fatal == ipc' = "fatal" /\ UNCHANGED <<diskVars, mediumVars, locals, runs, begin, hurt, opt>>

(* main up to read_sb: a NewWorld needs -d. *)
Start(o) ==
    /\ ipc \in {"idle", "fatal", "done"}
    /\ runs < MaxRuns
    /\ runs' = runs + 1
    /\ opt' = o
    /\ part_index' = 0 /\ doff' = 0
    /\ stage_size' = 0 /\ buff' = <<>>
    /\ ipc' = IF o.newworld THEN "fatal" ELSE "read_sb"
    /\ begin' = map
    /\ hurt' = FALSE
    /\ UNCHANGED <<diskVars, mediumVars>>

(* doff is start_block * (secsize >> 9), and * 512 in install_stage: exact, *)
(* see above.                                                               *)
read_sb ==
    /\ ipc = "read_sb"
    /\ \/ \E p \in BootEntries(map) :
            /\ part_index' = p
            /\ doff' = map[p].start
            /\ ipc' = "read_files"
            /\ UNCHANGED <<opt, diskVars, mediumVars, stage_size, buff, runs, begin, hurt>>
       \/ Fatal

(* install_stage up to the write.  Without a script a boot file that is    *)
(* read only in part is not noticed, with one the signature is missed;     *)
(* a script that is read only in part is not noticed.                      *)
ReadFiles ==
    /\ ipc = "read_files"
    /\ \/ /\ opt.script # 0
          /\ stage_size' = StageSize(opt.script)
          /\ buff' = Stage(opt.script)
          /\ ipc' = "write_stage"
          /\ UNCHANGED <<opt, diskVars, mediumVars, part_index, doff, runs, begin, hurt>>
       \/ /\ stage_size' = StageSize(opt.script)
          /\ \E k \in IF opt.script = NoScript THEN 1 .. CodeLen + MagicLen - 1
                      ELSE CodeLen + 1 .. CodeLen + opt.script - 1 :
               buff' = ShortStage(opt.script, k)
          /\ hurt' = TRUE
          /\ ipc' = "write_stage"
          /\ UNCHANGED <<opt, diskVars, mediumVars, part_index, doff, runs, begin>>
       \/ Fatal

(* do_write of the first n units of the stage; none in test mode. *)
Written(n) ==
    IF opt.test THEN data
    ELSE [u \in Units |-> IF u \in doff .. doff + n - 1 THEN buff[u - doff] ELSE data[u]]

(* Mutant: a short write goes unnoticed. *)
WriteStageUnchecked ==
    /\ ipc = "write_stage"
    /\ \E n \in 0 .. stage_size : data' = Written(n)
    /\ ipc' = "make_bootable"
    /\ UNCHANGED <<opt, map, mediumVars, locals, runs, begin, hurt>>

WriteStage ==
    /\ ipc = "write_stage"
    /\ \/ /\ opt.test \/ doff .. doff + stage_size - 1 \subseteq Units
          /\ data' = Written(stage_size)
          /\ ipc' = "make_bootable"
       \/ /\ \E n \in 0 .. stage_size - 1 : data' = Written(n)
          /\ ipc' = "fatal"
    /\ UNCHANGED <<opt, map, mediumVars, locals, runs, begin, hurt>>

(* Mutant: the entry is written in test mode, too. *)
MarkedInTestMode ==
    [map EXCEPT ![part_index].bootable = TRUE, ![part_index].powerpc = TRUE,
                ![part_index].size = stage_size]

MarkedMap ==
    IF opt.test THEN map
    ELSE [map EXCEPT ![part_index].bootable = TRUE, ![part_index].powerpc = TRUE,
                     ![part_index].size = stage_size]

make_bootable ==
    /\ ipc = "make_bootable"
    /\ \/ /\ map' = MarkedMap
          /\ ipc' = "sync"
          /\ UNCHANGED <<opt, data, mediumVars, locals, runs, begin, hurt>>
       \/ Fatal

(* Mutant: exit without sync. *)
SyncForgotten ==
    /\ ipc = "sync"
    /\ ipc' = "done"
    /\ UNCHANGED <<opt, diskVars, mediumVars, locals, runs, begin, hurt>>

Sync ==
    /\ ipc = "sync"
    /\ dmap' = map /\ ddata' = data
    /\ ipc' = "done"
    /\ UNCHANGED <<opt, diskVars, locals, runs, begin, hurt>>

(* External: power is lost; each unit and entry is on the medium or not,   *)
(* in no particular order, and then the machine comes up again.            *)
PowerLoss ==
    /\ ipc \notin {"idle", "done"}
    /\ \E U \in SUBSET {u \in Units : data[u] # ddata[u]} :
         ddata' = [u \in Units |-> IF u \in U THEN data[u] ELSE ddata[u]]
    /\ dmap' \in {map, dmap}
    /\ data' = ddata' /\ map' = dmap'
    /\ ipc' = "idle"
    /\ hurt' = TRUE
    /\ part_index' = 0 /\ doff' = 0 /\ stage_size' = 0 /\ buff' = <<>>
    /\ opt' = NoOptions
    /\ UNCHANGED <<runs, begin>>

(* Nobody starts it again. *)
Finished == runs = MaxRuns /\ ipc \in {"idle", "fatal", "done"} /\ UNCHANGED vars

Next ==
    \/ \E o \in Options : Start(o)
    \/ read_sb \/ ReadFiles \/ WriteStage \/ make_bootable \/ Sync
    \/ PowerLoss
    \/ Finished

Spec == Init /\ [][Next]_vars

-----------------------------------------------------------------------------
Content == {Old, Junk} \cup ({"code", "magic", "script", "nul"} \X Nat)

(* The disk and the locals of main hold values of their kinds. *)
TypeOK ==
    /\ ipc \in {"idle", "read_sb", "read_files", "write_stage", "make_bootable",
                "sync", "done", "fatal"}
    /\ opt \in Options
    /\ map \in Seq(MapEntry) /\ dmap \in Seq(MapEntry) /\ begin \in Seq(MapEntry)
    /\ data \in [Units -> Content] /\ ddata \in [Units -> Content]
    /\ part_index \in Nat /\ doff \in Nat
    /\ stage_size \in Nat /\ DOMAIN buff = 0 .. stage_size - 1
    /\ runs \in 0 .. MaxRuns
    /\ hurt \in BOOLEAN

(* The units from start on hold one whole stage. *)
Holds(d, start, size) ==
    \E s \in Scripts \cup {NoScript} :
        /\ size = StageSize(s)
        /\ \A i \in 0 .. size - 1 : start + i \in Units /\ d[start + i] = Stage(s)[i]

(* As long as the power stays on and files read back whole, there is no    *)
(* moment (in mid-write, after a fatal error, in a retry of a failed run)  *)
(* when an entry that was not bootable when the run started is bootable    *)
(* over anything but a complete stage of the size it gives.                *)
BootableMeansComplete ==
    \A p \in DOMAIN map :
        ~hurt /\ ~begin[p].bootable /\ map[p].bootable => Holds(data, map[p].start, map[p].size)

(* When the installer says it is done it is on the medium: the entry that  *)
(* the firmware, or the loader asked for partition 0, comes to first is    *)
(* the one that was marked (if none before it is bootable), gives the size *)
(* of the stage for this run's options, and, unless fread came up short    *)
(* unnoticed in this run, holds that stage, however earlier runs ended.    *)
InstalledIsFound ==
    ipc = "done" /\ ~opt.test =>
        /\ dmap[part_index].size = StageSize(opt.script)
        /\ (\A q \in 1 .. part_index - 1 : ~begin[q].bootable) => MacEntries(dmap, 0) = {part_index}
        /\ ~hurt => \A i \in DOMAIN Stage(opt.script) :
                       ddata[dmap[part_index].start + i] = Stage(opt.script)[i]

(* No step writes anything in test mode, on a NewWorld without -d or on a  *)
(* disk without an Apple_Bootstrap partition; others write only the stage  *)
(* at the start of that partition and that partition's entry, and of the   *)
(* entry never its place on the disk.                                      *)
ConfinedWrites ==
    [][ ipc # "idle" /\ ipc' # "idle" =>
        /\ (opt.test \/ opt.newworld \/ BootEntries(begin) = {}) => UNCHANGED diskVars
        /\ \A u \in Units : data'[u] # data[u] =>
              \E p \in BootEntries(begin) : u \in begin[p].start .. begin[p].start + stage_size - 1
        /\ \A p \in DOMAIN map : map'[p] # map[p] =>
              /\ p \in BootEntries(begin)
              /\ map'[p] = [map[p] EXCEPT !.bootable = TRUE, !.powerpc = TRUE, !.size = stage_size]
      ]_vars
=============================================================================
