-------------------------- MODULE InstallerProofs --------------------------
(***************************************************************************)
(* What the installer leaves on the disk, for every partition map, boot    *)
(* file, script and number of runs.                                        *)
(***************************************************************************)
EXTENDS Installer, TLAPS

(* The entry p of map m as make_bootable writes it. *)
Marked(m, p, size) == [m EXCEPT ![p].bootable = TRUE, ![p].powerpc = TRUE, ![p].size = size]

MarkedEntry(e, size) == [e EXCEPT !.bootable = TRUE, !.powerpc = TRUE, !.size = size]

SameMaps == DOMAIN dmap = DOMAIN map /\ DOMAIN begin = DOMAIN map

BuffType == buff \in [0 .. stage_size - 1 -> Content]

(* A NewWorld is turned away before read_sb, and read_sb has found an      *)
(* entry of the map that the run started with.                             *)
Found ==
    /\ ipc \notin {"idle", "fatal"} => ~opt.newworld
    /\ ipc \in {"read_files", "write_stage", "make_bootable", "sync", "done"} =>
        /\ part_index \in BootEntries(begin)
        /\ doff = begin[part_index].start

(* Until make_bootable the map is the one the run started with, and after  *)
(* it differs in that entry.                                               *)
MapNow ==
    /\ \/ ipc \in {"read_sb", "read_files", "write_stage", "make_bootable", "fatal"}
       \/ ipc = "idle" /\ ~hurt
       => map = begin
    /\ ipc \in {"sync", "done"} =>
          map = IF opt.test THEN begin ELSE Marked(begin, part_index, stage_size)

(* The stage is as long as the one that was asked for, and buff holds that *)
(* one unless a read came up short.                                        *)
StageNow ==
    ipc \in {"write_stage", "make_bootable", "sync", "done"} =>
        /\ stage_size = StageSize(opt.script)
        /\ ~hurt => buff = Stage(opt.script)

(* Past the write all of buff is on the disk. *)
WrittenNow ==
    ipc \in {"make_bootable", "sync", "done"} /\ ~opt.test =>
        \A i \in 0 .. stage_size - 1 : doff + i \in Units /\ data[doff + i] = buff[i]

Durable == ipc = "done" => dmap = map /\ ddata = data

IInv ==
    /\ TypeOK /\ SameMaps /\ BuffType
    /\ Found /\ MapNow /\ StageNow /\ WrittenNow /\ Durable

-----------------------------------------------------------------------------
(* Lemmas about the operators. *)

LEMMA StageType ==
    ASSUME NEW script \in Scripts \cup {NoScript}
    PROVE  /\ StageSize(script) \in Nat
           /\ Stage(script) \in [0 .. StageSize(script) - 1 -> Content]
  <1>1. StageSize(script) \in Nat
    BY InstallerAssumption DEF StageSize, MagicLen
  <1>2. \A i \in 0 .. StageSize(script) - 1 :
            {<<"code", i>>, <<"magic", i>>, <<"script", i>>, <<"nul", i>>} \subseteq Content
    BY <1>1 DEF Content
  <1> QED
    BY <1>1, <1>2 DEF Stage

LEMMA ShortStageType ==
    ASSUME NEW script \in Scripts \cup {NoScript}, NEW k
    PROVE  ShortStage(script, k) \in [0 .. StageSize(script) - 1 -> Content]
  BY StageType DEF ShortStage, Content

LEMMA WrittenType ==
    ASSUME TypeOK, BuffType, NEW n \in 0 .. stage_size
    PROVE  Written(n) \in [Units -> Content]
  <1>1. ASSUME NEW u \in Units, u \in doff .. doff + n - 1
        PROVE  u - doff \in 0 .. stage_size - 1
    BY <1>1, InstallerAssumption DEF TypeOK
  <1> QED
    BY <1>1 DEF Written, TypeOK, BuffType

(* make_bootable changes three fields of one entry, none of which says     *)
(* where the entry or the partition is.                                    *)
LEMMA MarkedShape ==
    ASSUME NEW m \in Seq(MapEntry), NEW p \in DOMAIN m, NEW size \in Nat
    PROVE  /\ Marked(m, p, size) \in Seq(MapEntry)
           /\ DOMAIN Marked(m, p, size) = DOMAIN m
           /\ \A q \in DOMAIN m : q # p => Marked(m, p, size)[q] = m[q]
           /\ Marked(m, p, size)[p] = MarkedEntry(m[p], size)
  <1>1. m[p] \in MapEntry
    OBVIOUS
  <1>2. MarkedEntry(m[p], size) \in MapEntry
    BY <1>1 DEF MapEntry, MarkedEntry
  <1>3. Marked(m, p, size) = [m EXCEPT ![p] = MarkedEntry(m[p], size)]
    BY <1>1 DEF Marked, MapEntry, MarkedEntry
  <1>4. [m EXCEPT ![p] = MarkedEntry(m[p], size)] \in Seq(MapEntry)
    BY <1>2
  <1> QED
    BY <1>3, <1>4

LEMMA MarkedFields ==
    ASSUME NEW e \in MapEntry, NEW size \in Nat
    PROVE  /\ MarkedEntry(e, size).bootable /\ MarkedEntry(e, size).powerpc
           /\ MarkedEntry(e, size).size = size
           /\ MarkedEntry(e, size).sig = e.sig /\ MarkedEntry(e, size).count = e.count
           /\ MarkedEntry(e, size).start = e.start
  BY DEF MapEntry, MarkedEntry

LEMMA NoBuff == DOMAIN <<>> = 0 .. 0 - 1 /\ <<>> \in [0 .. 0 - 1 -> Content]
  <1>1. DOMAIN <<>> = {} /\ 0 .. 0 - 1 = {}
    OBVIOUS
  <1>2. <<>> = [i \in {} |-> i]
    OBVIOUS
  <1> QED
    BY <1>1, <1>2

(* The entry of a successful read_sb is one of the map. *)
LEMMA BootEntryIsEntry ==
    ASSUME NEW m \in Seq(MapEntry), NEW p \in BootEntries(m)
    PROVE  p \in DOMAIN m /\ p \in Nat /\ m[p].start \in Nat
  <1>1. p \in DOMAIN m
    BY DEF BootEntries, SbValid
  <1>2. m[p] \in MapEntry /\ p \in Nat
    BY <1>1
  <1> QED
    BY <1>1, <1>2 DEF MapEntry

-----------------------------------------------------------------------------
LEMMA IInit == Init => IInv
  <1> SUFFICES ASSUME Init PROVE IInv
    OBVIOUS
  <1>1. map \in Seq(MapEntry)
    BY InstallerAssumption DEF Init
  <1>2. data \in [Units -> Content] /\ ddata = data
    BY DEF Init, Content
  <1>3. NoOptions \in Options
    BY DEF NoOptions, Options
  <1>4. TypeOK
    <2>1. stage_size \in Nat /\ DOMAIN buff = 0 .. stage_size - 1
      BY NoBuff DEF Init
    <2>2. runs \in 0 .. MaxRuns /\ part_index \in Nat /\ doff \in Nat
      BY InstallerAssumption DEF Init
    <2> QED
      BY <1>1, <1>2, <1>3, <2>1, <2>2 DEF Init, TypeOK
  <1>5. BuffType
    BY NoBuff DEF Init, BuffType
  <1> QED
    BY <1>4, <1>5 DEF Init, IInv, SameMaps, Found, MapNow, StageNow, WrittenNow, Durable

LEMMA IFatal ==
    ASSUME IInv, ipc \in {"read_sb", "read_files", "make_bootable"}, Fatal
    PROVE  IInv'
  <1>1. /\ ipc' = "fatal"
        /\ UNCHANGED <<map, data, dmap, ddata, part_index, doff>>
        /\ UNCHANGED <<stage_size, buff, runs, begin, hurt, opt>>
    BY DEF Fatal, diskVars, mediumVars, locals
  <1> QED
    BY <1>1 DEF IInv, TypeOK, SameMaps, BuffType, Found, MapNow, StageNow, WrittenNow, Durable

LEMMA IStart == ASSUME IInv, NEW o \in Options, Start(o) PROVE IInv'
  <1>1. /\ runs < MaxRuns /\ runs' = runs + 1 /\ opt' = o /\ hurt' = FALSE /\ begin' = map
        /\ part_index' = 0 /\ doff' = 0 /\ stage_size' = 0 /\ buff' = <<>>
        /\ ipc' = IF o.newworld THEN "fatal" ELSE "read_sb"
        /\ UNCHANGED <<map, data, dmap, ddata>>
    BY DEF Start, diskVars, mediumVars
  <1>2. TypeOK'
    <2>1. stage_size' \in Nat /\ DOMAIN buff' = 0 .. stage_size' - 1
      BY <1>1, NoBuff
    <2>2. runs' \in 0 .. MaxRuns /\ part_index' \in Nat /\ doff' \in Nat
      BY <1>1, InstallerAssumption DEF IInv, TypeOK
    <2> QED
      BY <1>1, <2>1, <2>2 DEF IInv, TypeOK
  <1>3. BuffType'
    BY <1>1, NoBuff DEF BuffType
  <1> QED
    BY <1>1, <1>2, <1>3 DEF IInv, SameMaps, Found, MapNow, StageNow, WrittenNow, Durable

LEMMA IReadSb == ASSUME IInv, read_sb PROVE IInv'
  <1>1. CASE Fatal
    BY <1>1, IFatal DEF read_sb
  <1>2. CASE ~Fatal
    <2>1. PICK p \in BootEntries(map) :
            /\ part_index' = p /\ doff' = map[p].start /\ ipc' = "read_files"
            /\ UNCHANGED <<opt, map, data, dmap, ddata, stage_size, buff, runs, begin, hurt>>
      BY <1>2 DEF read_sb, diskVars, mediumVars
    <2>2. map = begin
      BY DEF read_sb, IInv, MapNow
    <2>3. p \in Nat /\ map[p].start \in Nat
      BY BootEntryIsEntry DEF IInv, TypeOK
    <2>4. TypeOK' /\ SameMaps' /\ BuffType'
      BY <2>1, <2>3 DEF IInv, TypeOK, SameMaps, BuffType
    <2>5. Found'
      BY <2>1, <2>2 DEF Found, IInv, read_sb
    <2> QED
      BY <2>1, <2>2, <2>4, <2>5 DEF IInv, MapNow, StageNow, WrittenNow, Durable
  <1> QED
    BY <1>1, <1>2

LEMMA IReadFiles == ASSUME IInv, ReadFiles PROVE IInv'
  <1>1. opt.script \in Scripts \cup {NoScript}
    BY DEF IInv, TypeOK, Options
  <1>2. CASE Fatal
    BY <1>2, IFatal DEF ReadFiles
  <1>3. CASE ~Fatal
    <2>1. /\ ipc = "read_files" /\ ipc' = "write_stage" /\ stage_size' = StageSize(opt.script)
          /\ \/ buff' = Stage(opt.script) /\ hurt' = hurt
             \/ (\E k \in Int : buff' = ShortStage(opt.script, k)) /\ hurt' = TRUE
          /\ UNCHANGED <<opt, map, data, dmap, ddata, part_index, doff, runs, begin>>
      <3>1. ASSUME NEW k \in IF opt.script = NoScript THEN 1 .. CodeLen + MagicLen - 1
                             ELSE CodeLen + 1 .. CodeLen + opt.script - 1
            PROVE  k \in Int
        BY <1>1, InstallerAssumption DEF MagicLen
      <3> QED
        BY <1>3, <3>1 DEF ReadFiles, diskVars, mediumVars
    <2>2. buff' \in [0 .. stage_size' - 1 -> Content] /\ stage_size' \in Nat
      BY <1>1, <2>1, StageType, ShortStageType
    <2>3. TypeOK'
      BY <2>1, <2>2 DEF IInv, TypeOK
    <2>4. BuffType' /\ SameMaps'
      BY <2>1, <2>2 DEF IInv, BuffType, SameMaps
    <2>5. StageNow'
      BY <2>1 DEF StageNow
    <2> QED
      BY <2>1, <2>3, <2>4, <2>5 DEF IInv, Found, MapNow, WrittenNow, Durable
  <1> QED
    BY <1>2, <1>3

LEMMA IWriteStage == ASSUME IInv, WriteStage PROVE IInv'
  <1>1. /\ ipc = "write_stage"
        /\ UNCHANGED <<opt, map, dmap, ddata, part_index, doff, stage_size, buff, runs, begin, hurt>>
    BY DEF WriteStage, mediumVars, locals
  <1>2. PICK n \in 0 .. stage_size :
           /\ data' = Written(n)
           /\ \/ /\ opt.test \/ doff .. doff + stage_size - 1 \subseteq Units
                 /\ ipc' = "make_bootable" /\ n = stage_size
              \/ ipc' = "fatal"
    BY DEF WriteStage, IInv, TypeOK
  <1>3. data' \in [Units -> Content]
    BY <1>2, WrittenType DEF IInv
  <1>4. TypeOK'
    BY <1>1, <1>2, <1>3 DEF IInv, TypeOK
  <1>5. BuffType' /\ SameMaps'
    BY <1>1 DEF IInv, BuffType, SameMaps
  <1>6. WrittenNow'
    <2> SUFFICES ASSUME ipc' = "make_bootable", ~opt.test, NEW i \in 0 .. stage_size - 1
                 PROVE  doff + i \in Units /\ data'[doff + i] = buff[i]
      BY <1>1, <1>2 DEF WrittenNow
    <2>1. doff \in Nat /\ stage_size \in Nat
      BY DEF IInv, TypeOK
    <2>2. doff + i \in doff .. doff + stage_size - 1 /\ (doff + i) - doff = i
      BY <2>1
    <2>3. doff + i \in Units /\ n = stage_size
      BY <1>2, <2>2
    <2>4. data' = [u \in Units |-> IF u \in doff .. doff + n - 1 THEN buff[u - doff] ELSE data[u]]
      BY <1>2 DEF Written
    <2> QED
      BY <2>2, <2>3, <2>4
  <1> QED
    BY <1>1, <1>2, <1>4, <1>5, <1>6 DEF IInv, Found, MapNow, StageNow, Durable

LEMMA IMakeBootable == ASSUME IInv, make_bootable PROVE IInv'
  <1>1. CASE Fatal
    BY <1>1, IFatal DEF make_bootable
  <1>2. CASE ~Fatal
    <2>1. /\ ipc = "make_bootable" /\ ipc' = "sync" /\ map' = MarkedMap
          /\ UNCHANGED <<opt, data, dmap, ddata, part_index, doff, stage_size, buff, runs, begin, hurt>>
      BY <1>2 DEF make_bootable, mediumVars, locals
    <2>2. map = begin /\ part_index \in DOMAIN map
      BY <2>1, BootEntryIsEntry DEF IInv, MapNow, Found, TypeOK
    <2>3. map' = IF opt.test THEN begin ELSE Marked(begin, part_index, stage_size)
      BY <2>1, <2>2 DEF MarkedMap, Marked
    <2>4. map' \in Seq(MapEntry) /\ DOMAIN map' = DOMAIN map
      <3>1. begin \in Seq(MapEntry) /\ part_index \in DOMAIN begin /\ stage_size \in Nat
        BY <2>2 DEF IInv, TypeOK
      <3>2. Marked(begin, part_index, stage_size) \in Seq(MapEntry)
            /\ DOMAIN Marked(begin, part_index, stage_size) = DOMAIN begin
        BY <3>1, MarkedShape, Zenon
      <3> QED
        BY <2>2, <2>3, <3>1, <3>2
    <2>5. TypeOK'
      BY <2>1, <2>4 DEF IInv, TypeOK
    <2>6. BuffType' /\ SameMaps'
      BY <2>1, <2>4 DEF IInv, BuffType, SameMaps
    <2>7. MapNow'
      BY <2>1, <2>3 DEF MapNow
    <2> QED
      BY <2>1, <2>5, <2>6, <2>7 DEF IInv, Found, StageNow, WrittenNow, Durable
  <1> QED
    BY <1>1, <1>2

LEMMA ISync == ASSUME IInv, Sync PROVE IInv'
  <1>1. /\ ipc = "sync" /\ ipc' = "done" /\ dmap' = map /\ ddata' = data
        /\ UNCHANGED <<opt, map, data, part_index, doff, stage_size, buff, runs, begin, hurt>>
    BY DEF Sync, diskVars, locals
  <1>2. TypeOK'
    BY <1>1 DEF IInv, TypeOK
  <1> QED
    BY <1>1, <1>2 DEF IInv, BuffType, SameMaps, Found, MapNow, StageNow, WrittenNow, Durable

LEMMA IPowerLoss == ASSUME IInv, PowerLoss PROVE IInv'
  <1>1. /\ ipc' = "idle" /\ hurt' = TRUE /\ opt' = NoOptions
        /\ part_index' = 0 /\ doff' = 0 /\ stage_size' = 0 /\ buff' = <<>>
        /\ dmap' \in {map, dmap} /\ map' = dmap' /\ data' = ddata'
        /\ UNCHANGED <<runs, begin>>
    BY DEF PowerLoss
  <1>2. ddata' \in [Units -> Content]
    <2>1. PICK U \in SUBSET Units : ddata' = [u \in Units |-> IF u \in U THEN data[u] ELSE ddata[u]]
      BY DEF PowerLoss
    <2> QED
      BY <2>1 DEF IInv, TypeOK
  <1>3. stage_size' \in Nat /\ DOMAIN buff' = 0 .. stage_size' - 1 /\ BuffType'
    BY <1>1, NoBuff DEF BuffType
  <1>4. opt' \in Options
    BY <1>1 DEF NoOptions, Options
  <1>5. TypeOK'
    BY <1>1, <1>2, <1>3, <1>4 DEF IInv, TypeOK
  <1> QED
    BY <1>1, <1>3, <1>5 DEF IInv, SameMaps, Found, MapNow, StageNow, WrittenNow, Durable

LEMMA IStep == IInv /\ [Next]_vars => IInv'
  <1> SUFFICES ASSUME IInv, [Next]_vars PROVE IInv'
    OBVIOUS
  <1>1. CASE UNCHANGED vars
    <2>1. /\ UNCHANGED <<ipc, opt, map, data, dmap, ddata>>
          /\ UNCHANGED <<part_index, doff, stage_size, buff, runs, begin, hurt>>
      BY <1>1 DEF vars, diskVars, mediumVars, locals
    <2> QED
      BY <2>1 DEF IInv, TypeOK, SameMaps, BuffType, Found, MapNow, StageNow, WrittenNow, Durable
  <1> QED
    BY <1>1, IStart, IReadSb, IReadFiles, IWriteStage, IMakeBootable, ISync, IPowerLoss
       DEF Next, Finished

LEMMA IInvariant == Spec => []IInv
  BY IInit, IStep, PTL DEF Spec

-----------------------------------------------------------------------------
(* Every variable keeps its type. *)
THEOREM InstallerTypeCorrect == Spec => []TypeOK
  <1>1. IInv => TypeOK
    BY DEF IInv
  <1> QED
    BY <1>1, IInvariant, PTL

(* main marks an entry bootable only over a stage that is there in full:   *)
(* install_stage ends in fatal when do_write comes up short, and           *)
(* make_bootable comes after it.                                           *)
THEOREM BootableIsComplete == Spec => []BootableMeansComplete
  <1>1. IInv => BootableMeansComplete
    <2> SUFFICES ASSUME IInv, NEW p \in DOMAIN map, ~hurt, ~begin[p].bootable, map[p].bootable
                 PROVE  Holds(data, map[p].start, map[p].size)
      BY DEF BootableMeansComplete
    <2>1. /\ ipc \in {"sync", "done"} /\ ~opt.test
          /\ map = Marked(begin, part_index, stage_size)
      BY DEF IInv, MapNow, TypeOK
    <2>2. part_index \in BootEntries(begin) /\ doff = begin[part_index].start
      BY <2>1 DEF IInv, Found
    <2>3. part_index \in DOMAIN begin /\ begin \in Seq(MapEntry) /\ begin[part_index] \in MapEntry
          /\ stage_size \in Nat /\ DOMAIN begin = DOMAIN map
      BY <2>2, BootEntryIsEntry DEF IInv, TypeOK, SameMaps
    <2>4. p = part_index /\ map[p] = MarkedEntry(begin[p], stage_size)
      <3>1. \A q \in DOMAIN begin : q # part_index => map[q] = begin[q]
        BY <2>1, <2>3, MarkedShape, Zenon
      <3>2. map[part_index] = MarkedEntry(begin[part_index], stage_size)
        BY <2>1, <2>3, MarkedShape, Zenon
      <3>3. p = part_index
        BY <2>3, <3>1
      <3> QED
        BY <3>2, <3>3
    <2>5. map[p].start = doff /\ map[p].size = stage_size
      BY <2>2, <2>3, <2>4, MarkedFields
    <2>6. stage_size = StageSize(opt.script) /\ buff = Stage(opt.script)
          /\ opt.script \in Scripts \cup {NoScript}
      BY <2>1 DEF IInv, StageNow, TypeOK, Options
    <2>7. \A i \in 0 .. stage_size - 1 : doff + i \in Units /\ data[doff + i] = buff[i]
      BY <2>1 DEF IInv, WrittenNow
    <2> QED
      BY <2>5, <2>6, <2>7 DEF Holds
  <1> QED
    BY <1>1, IInvariant, PTL

(* After sync the firmware and read_mac_partition(0) come to the entry     *)
(* make_bootable marked, and it holds the stage for this run's options     *)
(* unless a file was read only in part in this run, also when earlier runs *)
(* ended in fatal or in a loss of power.                                   *)
THEOREM InstalledAndFound == Spec => []InstalledIsFound
  <1>1. IInv => InstalledIsFound
    <2> SUFFICES ASSUME IInv, ipc = "done", ~opt.test PROVE InstalledIsFound
      BY DEF InstalledIsFound
    <2>1. dmap = Marked(begin, part_index, stage_size) /\ ddata = data
      BY DEF IInv, MapNow, Durable
    <2>2. part_index \in BootEntries(begin) /\ doff = begin[part_index].start
      BY DEF IInv, Found
    <2>3. part_index \in DOMAIN begin /\ begin \in Seq(MapEntry) /\ begin[part_index] \in MapEntry
          /\ stage_size \in Nat
      BY <2>2, BootEntryIsEntry DEF IInv, TypeOK
    <2>4. /\ DOMAIN dmap = DOMAIN begin /\ dmap \in Seq(MapEntry)
          /\ \A q \in DOMAIN begin : q # part_index => dmap[q] = begin[q]
          /\ dmap[part_index] = MarkedEntry(begin[part_index], stage_size)
      BY <2>1, <2>3, MarkedShape, Zenon
    <2>5. /\ dmap[part_index].size = stage_size
          /\ dmap[part_index].bootable /\ dmap[part_index].powerpc
          /\ dmap[part_index].sig = begin[part_index].sig
          /\ dmap[part_index].count = begin[part_index].count
      BY <2>3, <2>4, MarkedFields
    <2>6. /\ stage_size = StageSize(opt.script) /\ dmap[part_index].start = doff
          /\ ~hurt => \A i \in DOMAIN Stage(opt.script) : ddata[doff + i] = Stage(opt.script)[i]
      <3>1. stage_size = StageSize(opt.script) /\ (~hurt => buff = Stage(opt.script))
        BY DEF IInv, StageNow
      <3>2. \A i \in 0 .. stage_size - 1 : ddata[doff + i] = buff[i]
        BY <2>1 DEF IInv, WrittenNow
      <3>3. DOMAIN Stage(opt.script) = 0 .. stage_size - 1
        BY <3>1 DEF Stage
      <3>4. dmap[part_index].start = doff
        BY <2>2, <2>3, <2>4, MarkedFields
      <3> QED
        BY <3>1, <3>2, <3>3, <3>4
    <2>7. ASSUME \A q \in 1 .. part_index - 1 : ~begin[q].bootable
          PROVE  MacEntries(dmap, 0) = {part_index}
      <3>1. DOMAIN dmap = 1 .. Len(dmap) /\ Len(dmap) \in Nat /\ part_index \in 1 .. Len(dmap)
        BY <2>3, <2>4
      <3>2. /\ part_index <= begin[1].count
            /\ \A q \in 1 .. part_index : begin[q].sig
        BY <2>2 DEF BootEntries, SbValid
      <3>3. dmap[1].count = begin[1].count /\ \A q \in 1 .. part_index : dmap[q].sig
        <4>1. \A q \in 1 .. Len(dmap) : dmap[q].sig = begin[q].sig /\ dmap[q].count = begin[q].count
          BY <2>4, <2>5, <3>1, Zenon
        <4>2. 1 \in 1 .. Len(dmap) /\ \A q \in 1 .. part_index : q \in 1 .. Len(dmap)
          BY <3>1
        <4> QED
          BY <3>2, <4>1, <4>2, Zenon
      <3>4. \A q \in 1 .. part_index - 1 : ~dmap[q].bootable
        BY <2>4, <2>7, <3>1
      <3> DEFINE Is(p) == 0 = p \/ (0 = 0 /\ dmap[p].bootable /\ dmap[p].powerpc)
      <3>5. Is(part_index) /\ \A q \in 1 .. part_index - 1 : ~Is(q)
        BY <2>5, <3>1, <3>4
      <3>6. \A p \in 1 .. Len(dmap) : Is(p) /\ (\A q \in 1 .. p - 1 : ~Is(q)) <=> p = part_index
        BY <3>1, <3>5
      <3>7. MacEntries(dmap, 0) =
                { p \in DOMAIN dmap : /\ p <= dmap[1].count /\ \A q \in 1 .. p : dmap[q].sig
                                      /\ Is(p) /\ \A q \in 1 .. p - 1 : ~Is(q) }
        BY DEF MacEntries
      <3> HIDE DEF Is
      <3> QED
        BY <3>1, <3>2, <3>3, <3>6, <3>7
    <2> QED
      BY <2>5, <2>6, <2>7 DEF InstalledIsFound
  <1> QED
    BY <1>1, IInvariant, PTL

(* The one step that writes data and the one that writes the map do so     *)
(* inside the partition and the entry that read_sb found, in the map as it *)
(* was when main started.                                                  *)
THEOREM WritesAreConfined == Spec => ConfinedWrites
  <1> DEFINE Confined ==
        ipc # "idle" /\ ipc' # "idle" =>
        /\ (opt.test \/ opt.newworld \/ BootEntries(begin) = {}) => UNCHANGED diskVars
        /\ \A u \in Units : data'[u] # data[u] =>
              \E p \in BootEntries(begin) : u \in begin[p].start .. begin[p].start + stage_size - 1
        /\ \A p \in DOMAIN map : map'[p] # map[p] =>
              /\ p \in BootEntries(begin)
              /\ map'[p] = [map[p] EXCEPT !.bootable = TRUE, !.powerpc = TRUE, !.size = stage_size]
  <1>1. IInv /\ [Next]_vars => [Confined]_vars
    <2> SUFFICES ASSUME IInv, Next, ipc # "idle", ipc' # "idle" PROVE Confined
      BY DEF Confined
    <2>1. CASE UNCHANGED diskVars
      BY <2>1 DEF diskVars
    <2>2. CASE WriteStage
      <3>1. ipc = "write_stage" /\ map' = map
        BY <2>2 DEF WriteStage
      <3>2. PICK n \in 0 .. stage_size : data' = Written(n)
        BY <2>2 DEF WriteStage, IInv, TypeOK
      <3>3. ~opt.newworld /\ part_index \in BootEntries(begin) /\ doff = begin[part_index].start
        BY <3>1 DEF IInv, Found
      <3>4. doff \in Nat /\ stage_size \in Nat /\ data \in [Units -> Content]
        BY DEF IInv, TypeOK
      <3>5. opt.test => data' = data
        BY <3>2 DEF Written
      <3>6. ASSUME NEW u \in Units, data'[u] # data[u]
            PROVE  u \in doff .. doff + stage_size - 1
        <4>1. u \in doff .. doff + n - 1
          BY <3>2, <3>6 DEF Written
        <4>2. u \in Nat
          BY InstallerAssumption
        <4> QED
          BY <3>4, <4>1, <4>2
      <3>7. (opt.test \/ opt.newworld \/ BootEntries(begin) = {}) => UNCHANGED diskVars
        BY <3>1, <3>3, <3>5 DEF diskVars
      <3> QED
        BY <3>1, <3>3, <3>6, <3>7
    <2>3. CASE make_bootable /\ ~Fatal
      <3>1. ipc = "make_bootable" /\ map' = MarkedMap /\ data' = data
        BY <2>3 DEF make_bootable
      <3>2. ~opt.newworld /\ part_index \in BootEntries(begin) /\ map = begin
        BY <3>1 DEF IInv, Found, MapNow
      <3>3. map \in Seq(MapEntry) /\ part_index \in DOMAIN map /\ stage_size \in Nat
        BY <3>2, BootEntryIsEntry DEF IInv, TypeOK
      <3>4. opt.test => map' = map
        BY <3>1 DEF MarkedMap
      <3>5. ~opt.test => map' = Marked(map, part_index, stage_size)
        BY <3>1 DEF MarkedMap, Marked
      <3>6. ASSUME NEW p \in DOMAIN map, map'[p] # map[p]
            PROVE  p = part_index /\ map'[p] = MarkedEntry(map[p], stage_size)
        <4>1. map' = Marked(map, part_index, stage_size)
          BY <3>4, <3>5, <3>6
        <4>2. \A q \in DOMAIN map : q # part_index => map'[q] = map[q]
          BY <3>3, <4>1, MarkedShape, Zenon
        <4>3. map'[part_index] = MarkedEntry(map[part_index], stage_size)
          BY <3>3, <4>1, MarkedShape, Zenon
        <4> QED
          BY <3>6, <4>2, <4>3
      <3>7. (opt.test \/ opt.newworld \/ BootEntries(begin) = {}) => UNCHANGED diskVars
        BY <3>1, <3>2, <3>4 DEF diskVars
      <3> QED
        BY <3>1, <3>2, <3>6, <3>7 DEF MarkedEntry
    <2> QED
      BY <2>1, <2>2, <2>3
         DEF Next, Start, read_sb, ReadFiles, make_bootable, Fatal, Sync, PowerLoss, Finished, diskVars,
             vars
  <1> QED
    BY <1>1, IInvariant, PTL DEF Spec, ConfinedWrites
=============================================================================
