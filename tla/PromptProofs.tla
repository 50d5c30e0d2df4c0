---------------------------- MODULE PromptProofs ----------------------------
(***************************************************************************)
(* What is requested to be loaded, for every configuration, all boot       *)
(* arguments and everything the user may type; then what cfg_parse makes   *)
(* of the text of the configuration.                                       *)
(***************************************************************************)
EXTENDS Prompt, Config, FiniteSetTheorems, TLAPS

(* config is one of the files, or what cfg.c starts with. *)
ConfigKnown == config = NoConfig \/ \E c \in DOMAIN Confs : config = Confs[c]

(* load_config needs a valid default device to read from, and nothing      *)
(* makes it invalid again.                                                 *)
DefaultStays ==
    /\ "CONFIG_VALID" \in flags => IsValid(default_dev)
    /\ ppc = "start" => "CONFIG_VALID" \notin flags

(* get_params boots by itself only as long as TRIED_AUTO is clear. *)
FirstPass == autos \in Nat /\ autos <= 1 /\ (autos = 1 => "TRIED_AUTO" \in flags)

(* PAUSE_BEFORE_BOOT is set by the labels chosen, and only by them; there  *)
(* are none as long as the configuration can change.                       *)
PauseFlag ==
    /\ "PAUSE_BEFORE_BOOT" \in flags <=> \E label \in chosen : AsksPause(label)
    /\ ppc \in {"start", "config"} => chosen = {}

PInv ==
    /\ TypeOK /\ ConfigKnown /\ DefaultStays /\ FirstPass /\ PauseFlag
    /\ PauseAsAsked /\ InitrdFollows /\ OldFlagMatchesLabel

-----------------------------------------------------------------------------
(* The options of the tables. *)

LEMMA KnownTables ==
    ASSUME ConfigKnown
    PROVE  /\ TableOk(config.global)
           /\ config.images = <<>> \/ 1 \in DOMAIN config.images
           /\ \A n \in DOMAIN config.images :
                /\ TableOk(config.images[n])
                /\ {"image", "label"} \cap DOMAIN config.images[n] # {}
  <1>1. CASE config = NoConfig
    <2>1. config.global = <<>> /\ config.images = <<>>
      BY <1>1 DEF NoConfig
    <2>2. DOMAIN <<>> = {}
      OBVIOUS
    <2>. QED  BY <2>1, <2>2 DEF TableOk
  <1>2. CASE \E c \in DOMAIN Confs : config = Confs[c]
    BY <1>2, PromptAssumption
  <1>. QED  BY <1>1, <1>2 DEF ConfigKnown

(* cfg_get_strg finds words where words were given. *)
LEMMA FoundAreWords ==
    ASSUME ConfigKnown, NEW name, NEW opt \in {"image", "initrd"}
    PROVE  cfg_get_strg(name, opt) \in Words \cup {NULL}
  <1>1. cfg_get_strg_i(config.global, opt) \in Words \cup {NULL}
    BY KnownTables DEF cfg_get_strg_i, TableOk
  <1>2. CASE name = NULL
    BY <1>1, <1>2 DEF cfg_get_strg
  <1>3. CASE name # NULL /\ ImageNamed(name) = {}
    BY <1>3 DEF cfg_get_strg
  <1>4. CASE name # NULL /\ ImageNamed(name) # {}
    <2>. DEFINE k == CHOOSE n \in ImageNamed(name) : TRUE
    <2>1. k \in ImageNamed(name)
      BY <1>4
    <2>2. k \in DOMAIN config.images
      BY <2>1 DEF ImageNamed
    <2>. HIDE DEF k
    <2>3. TableOk(config.images[k])
      BY <2>2, KnownTables
    <2>4. opt \in DOMAIN config.images[k] => config.images[k][opt] \in Words
      BY <2>3 DEF TableOk
    <2>5. cfg_get_strg(name, opt) =
            IF opt \in DOMAIN config.images[k] THEN config.images[k][opt]
            ELSE cfg_get_strg_i(config.global, opt)
      BY <1>4 DEF cfg_get_strg, k
    <2>. QED  BY <1>1, <2>4, <2>5
  <1>. QED  BY <1>2, <1>3, <1>4

(* What cfg_get_default returns is a word. *)
LEMMA DefaultIsWord ==
    ASSUME ConfigKnown
    PROVE  cfg_get_default \in Words \cup {NULL}
  <1>1. CASE "default" \in DOMAIN config.global
    BY <1>1, KnownTables DEF cfg_get_default, TableOk
  <1>2. CASE "default" \notin DOMAIN config.global /\ config.images = <<>>
    BY <1>2 DEF cfg_get_default
  <1>3. CASE "default" \notin DOMAIN config.global /\ config.images # <<>>
    <2>1. 1 \in DOMAIN config.images
      BY <1>3, KnownTables
    <2>2. /\ TableOk(config.images[1])
          /\ "image" \in DOMAIN config.images[1] \/ "label" \in DOMAIN config.images[1]
      BY <2>1, KnownTables
    <2>3. LabelOf(config.images[1]) \in Words
      BY <2>2, PromptAssumption DEF LabelOf, TableOk
    <2>. QED  BY <1>3, <2>3 DEF cfg_get_default
  <1>. QED  BY <1>1, <1>2, <1>3

(* A path file_path accepts has a device and a partition: its own, or the  *)
(* ones it was given.                                                      *)
LEMMA AcceptedIsValid ==
    ASSUME NEW w \in Words, NEW dev, PathOk(w, dev)
    PROVE  /\ IsValid(file_path(w, dev))
           /\ PathSpec[w].form = "short" => /\ file_path(w, dev).device = dev.device
                                            /\ file_path(w, dev).part = dev.part
  <1>1. CASE PathSpec[w].form = "full"
    BY <1>1, PromptAssumption DEF file_path, IsValid
  <1>2. CASE PathSpec[w].form = "short" /\ IsValid(dev)
    BY <1>2 DEF file_path, IsValid
  <1>. QED  BY <1>1, <1>2 DEF PathOk

LEMMA LineParts ==
    ASSUME NEW line \in Seq(Words)
    PROVE  First(line) \in Words \cup {NULL} /\ Rest(line) \in Seq(Words)
  BY DEF First, Rest

-----------------------------------------------------------------------------
(* get_load_paths, from AutoBoot as from TypeLine. *)

RequestInv ==
    /\ PauseFlag /\ PauseAsAsked /\ InitrdFollows /\ OldFlagMatchesLabel
    /\ chosen \subseteq Words
    /\ ppc \in {"prompt", "loading"} /\ flags \subseteq Flags
    /\ DOMAIN req = DOMAIN NoReq

LEMMA RequestIsGood ==
    ASSUME PInv, ppc = "prompt", NEW kernel \in Words \cup {NULL},
           NEW args \in Seq(Words), NEW auto \in BOOLEAN,
           GetLoadPaths(kernel, args, auto), default_dev' = default_dev, config' = config
    PROVE  /\ RequestInv'
           /\ "TRIED_AUTO" \in flags'
           /\ "CONFIG_VALID" \in flags' <=> "CONFIG_VALID" \in flags
  <1>. DEFINE valid == "CONFIG_VALID" \in flags
              imagePath == IF valid THEN cfg_get_strg(kernel, "image") ELSE NULL
              label == IF imagePath # NULL THEN kernel ELSE NULL
              spec == IF label # NULL THEN imagePath ELSE kernel
              dashes == label = NULL /\ Len(args) > 1 /\ Head(args) = "--"
              globalInitrd == IF valid THEN cfg_get_strg(NULL, "initrd") ELSE NULL
              initrdSpec == IF label # NULL THEN cfg_get_strg(label, "initrd")
                            ELSE IF dashes THEN globalInitrd
                            ELSE First(args)
              params == IF label # NULL THEN LabelParams(label) \o args ELSE Rest(args)
              dev == CurDev(IF label # NULL THEN LabelDev(label) ELSE NoDev)
              kernelPath == file_path(spec, dev)
              initrdDev == InitrdDev(dev, kernelPath)
              initrdPath == IF initrdSpec = NULL THEN NoPath ELSE file_path(initrdSpec, initrdDev)
              tried == Tried(flags)
              old == cfg_get_strg(label, "old-kernel") # NULL
              request == [auto |-> auto, label |-> label, kernel |-> kernelPath,
                          initrd |-> initrdPath, kernel_spec |-> spec,
                          initrd_spec |-> initrdSpec, params |-> params]
              ok == PathOk(spec, dev) /\ (initrdSpec # NULL => PathOk(initrdSpec, initrdDev))
  <1>1. /\ TypeOK /\ ConfigKnown /\ DefaultStays /\ PauseFlag
    BY DEF PInv
  <1>2. tried \subseteq Flags /\ "TRIED_AUTO" \in tried
        /\ ("CONFIG_VALID" \in tried <=> "CONFIG_VALID" \in flags)
        /\ ("PAUSE_BEFORE_BOOT" \in tried <=> "PAUSE_BEFORE_BOOT" \in flags)
    BY <1>1 DEF Tried, Toggle, Flags, TypeOK
  <1>0. \A l : AsksPause(l)' <=> AsksPause(l)
    BY DEF AsksPause, cfg_get_strg, ImageNamed
  <1>3. CASE kernel = NULL
    <2>1. flags' = tried /\ ppc' = ppc /\ req' = req /\ chosen' = chosen
      BY <1>3 DEF GetLoadPaths
    <2>2. PauseFlag'
      BY <1>0, <1>1, <1>2, <2>1 DEF PauseFlag
    <2>. QED  BY <1>1, <1>2, <2>1, <2>2 DEF RequestInv, PauseAsAsked, InitrdFollows,
                OldFlagMatchesLabel, Requested, TypeOK
  <1>4. CASE kernel # NULL
    <2>1. /\ flags' = IF label # NULL THEN FlagsFor(label, tried) ELSE tried
          /\ chosen' = chosen \cup ({label} \ {NULL})
          /\ IF ok THEN ppc' = "loading" /\ req' = request ELSE ppc' = ppc /\ req' = req
      BY <1>4, Zenon DEF GetLoadPaths
    <2>2. imagePath \in Words \cup {NULL}
      BY <1>1, FoundAreWords
    <2>3. /\ spec \in Words
          /\ initrdSpec \in Words \cup {NULL}
      BY <1>1, <1>4, <2>2, FoundAreWords, LineParts
    <2>4. label # NULL => "CONFIG_VALID" \in flags
      OBVIOUS
    <2>5. dev = IF IsValid(default_dev) THEN default_dev ELSE NoDev
      BY <1>1, <2>4 DEF CurDev, DefaultStays
    <2>6. /\ request.label = label /\ request.kernel = kernelPath
          /\ request.initrd = initrdPath /\ request.initrd_spec = initrdSpec
          /\ request.kernel_spec = spec
          /\ DOMAIN request = DOMAIN NoReq
      BY DEF NoReq
    <2>10. label \in Words \cup {NULL}
      OBVIOUS
    <2>. HIDE DEF label, spec, initrdSpec, dev, tried
    <2>7. /\ flags' \subseteq Flags /\ "TRIED_AUTO" \in flags'
          /\ "CONFIG_VALID" \in flags' <=> "CONFIG_VALID" \in flags
          /\ label # NULL => ("BOOT_PRE_2_4" \in flags' <=> old)
      BY <1>2, <2>1 DEF FlagsFor, Flags
    <2>11. chosen' \subseteq Words
      BY <1>1, <2>1, <2>10 DEF TypeOK
    <2>12. "PAUSE_BEFORE_BOOT" \in flags' <=>
             "PAUSE_BEFORE_BOOT" \in flags \/ (label # NULL /\ AsksPause(label))
      BY <1>2, <2>1 DEF FlagsFor
    <2>13. ppc' \notin {"start", "config", "booted"}
      BY <2>1
    <2>14. PauseFlag' /\ PauseAsAsked'
      BY <1>0, <1>1, <2>1, <2>12, <2>13 DEF PauseFlag, PauseAsAsked
    <2>8. CASE ~ok
      <3>1. ppc' = ppc /\ req' = req
        BY <2>1, <2>8
      <3>. QED  BY <1>1, <2>7, <2>11, <2>14, <3>1 DEF RequestInv, InitrdFollows,
                  OldFlagMatchesLabel, Requested, TypeOK
    <2>9. CASE ok
      <3>1. /\ ppc' = "loading"
            /\ req'.label = label /\ req'.kernel = kernelPath /\ req'.initrd = initrdPath
            /\ req'.initrd_spec = initrdSpec /\ req'.kernel_spec = spec
            /\ DOMAIN req' = DOMAIN NoReq
        BY <2>1, <2>6, <2>9
      <3>2. PathSpec[spec].form = "short" =>
              /\ initrdDev = dev
              /\ kernelPath.device = dev.device /\ kernelPath.part = dev.part
        <4>1. PathSpec[spec].form = "short" => IsValid(dev)
          BY <2>9 DEF PathOk
        <4>. QED  BY <2>3, <2>9, <4>1, AcceptedIsValid DEF InitrdDev
      <3>. HIDE DEF initrdDev
      <3>3. initrdSpec # NULL /\ PathSpec[initrdSpec].form = "short" =>
              initrdPath.device = initrdDev.device /\ initrdPath.part = initrdDev.part
        BY <2>3, <2>9, AcceptedIsValid
      <3>4. LET home == IF IsValid(default_dev) THEN default_dev ELSE kernelPath
            IN  initrdDev.device = home.device /\ initrdDev.part = home.part
        BY <2>5 DEF initrdDev, InitrdDev, IsValid, NoDev
      <3>. HIDE DEF initrdPath, kernelPath
      <3>6. InitrdFollows'
        BY <3>1, <3>2, <3>3, <3>4 DEF InitrdFollows, IsValid
      <3>7. OldFlagMatchesLabel'
        BY <2>7, <3>1 DEF OldFlagMatchesLabel, cfg_get_strg, ImageNamed
      <3>. QED  BY <2>7, <2>11, <2>14, <3>1, <3>6, <3>7 DEF RequestInv
    <2>. QED  BY <2>7, <2>8, <2>9
  <1>. QED  BY <1>3, <1>4
-----------------------------------------------------------------------------
(* One lemma per step.  A step that leaves ppc out of loading changes      *)
(* nothing these invariants say about a request.                           *)

LEMMA PInit == Init => PInv
  <1>. SUFFICES ASSUME Init PROVE PInv
    OBVIOUS
  <1>1. /\ ppc = "start" /\ flags \subseteq {"SHIM_OF", "WITH_PREBOOT"}
        /\ default_dev = NoDev /\ bootargs = <<>> /\ config = NoConfig /\ req = NoReq
        /\ paused = FALSE /\ autos = 0 /\ chosen = {}
    BY DEF Init
  <1>2. TypeOK
    <2>1. flags \subseteq Flags
      BY <1>1 DEF Flags
    <2>2. bootargs \in Seq(Words) /\ autos \in Nat
      BY <1>1
    <2>3. DOMAIN default_dev = {"device", "part"} /\ DOMAIN config = {"global", "images"}
      BY <1>1 DEF NoDev, NoConfig
    <2>. QED  BY <1>1, <2>1, <2>2, <2>3 DEF TypeOK
  <1>3. ConfigKnown /\ DefaultStays
    BY <1>1 DEF ConfigKnown, DefaultStays
  <1>4. FirstPass /\ PauseFlag
    BY <1>1 DEF FirstPass, PauseFlag
  <1>5. PauseAsAsked /\ InitrdFollows /\ OldFlagMatchesLabel
    BY <1>1 DEF PauseAsAsked, InitrdFollows, OldFlagMatchesLabel, Requested
  <1>. QED  BY <1>2, <1>3, <1>4, <1>5 DEF PInv

LEMMA PEnvInit ==
    ASSUME PInv, NEW ba \in BootArgs, NEW bf \in BootFiles, EnvInit(ba, bf)
    PROVE  PInv'
  <1>1. /\ TypeOK /\ ConfigKnown /\ DefaultStays /\ FirstPass /\ PauseFlag
    BY DEF PInv
  <1>2. /\ ppc' \in {"config", "exit"}
        /\ flags' = flags /\ config' = config /\ req' = req
        /\ paused' = paused /\ autos' = autos /\ chosen' = chosen /\ ppc = "start"
    BY DEF EnvInit, histVars
  <1>3. bootargs' \in Seq(Words)
    BY LineParts, PromptAssumption DEF EnvInit
  <1>4. DOMAIN default_dev' = {"device", "part"}
    BY <1>1 DEF EnvInit, TypeOK
  <1>5. "CONFIG_VALID" \notin flags
    BY <1>1 DEF DefaultStays, EnvInit
  <1>6. TypeOK'
    BY <1>1, <1>2, <1>3, <1>4 DEF TypeOK
  <1>7. ConfigKnown'
    BY <1>1, <1>2 DEF ConfigKnown
  <1>8. DefaultStays' /\ FirstPass' /\ PauseFlag'
    BY <1>1, <1>2, <1>5 DEF DefaultStays, FirstPass, PauseFlag
  <1>9. PauseAsAsked' /\ InitrdFollows' /\ OldFlagMatchesLabel'
    BY <1>2 DEF PauseAsAsked, InitrdFollows, OldFlagMatchesLabel, Requested
  <1>. QED  BY <1>6, <1>7, <1>8, <1>9 DEF PInv

LEMMA PLoadConfig ==
    ASSUME PInv, LoadConfig
    PROVE  PInv'
  <1>1. /\ TypeOK /\ ConfigKnown /\ DefaultStays /\ FirstPass /\ PauseFlag
    BY DEF PInv
  <1>2. PICK n \in DOMAIN Attempts :
          LET conf == Confs[ConfAt(Attempts[n])]
              Global(opt, old) ==
                  IF opt \in DOMAIN conf.global THEN conf.global[opt] ELSE old
          IN  /\ Found(n)
              /\ config' = conf
              /\ default_dev' = [device |-> Global("device", default_dev.device),
                                 part |-> Global("partition", default_dev.part)]
    BY DEF LoadConfig
  <1>3. /\ IsValid(default_dev) /\ ppc' = "prompt" /\ ppc = "config"
        /\ flags' = flags \cup {"CONFIG_VALID"} /\ bootargs' = bootargs
        /\ req' = req /\ paused' = paused /\ autos' = autos /\ chosen' = chosen
    BY DEF LoadConfig, histVars
  <1>. DEFINE at == ConfAt(Attempts[n])
  <1>4. at \in DOMAIN Confs
    BY <1>2 DEF Found
  <1>. HIDE DEF at
  <1>5. TableOk(Confs[at].global) /\ DOMAIN Confs[at] = {"global", "images"}
    BY <1>4, PromptAssumption
  <1>6. config' = Confs[at]
    BY <1>2 DEF at
  <1>7. IsValid(default_dev') /\ DOMAIN default_dev' = {"device", "part"}
    BY <1>2, <1>3, <1>5 DEF at, IsValid, TableOk
  <1>8. TypeOK'
    BY <1>1, <1>3, <1>5, <1>6, <1>7 DEF TypeOK, Flags
  <1>9. ConfigKnown' /\ DefaultStays'
    BY <1>3, <1>4, <1>6, <1>7 DEF ConfigKnown, DefaultStays, IsValid
  <1>10. FirstPass' /\ PauseFlag'
    BY <1>1, <1>3 DEF FirstPass, PauseFlag
  <1>11. PauseAsAsked' /\ InitrdFollows' /\ OldFlagMatchesLabel'
    BY <1>3 DEF PauseAsAsked, InitrdFollows, OldFlagMatchesLabel, Requested
  <1>. QED  BY <1>8, <1>9, <1>10, <1>11 DEF PInv

LEMMA PAutoBoot ==
    ASSUME PInv, AutoBoot
    PROVE  PInv'
  <1>1. /\ TypeOK /\ ConfigKnown /\ DefaultStays /\ FirstPass /\ PauseFlag
    BY DEF PInv
  <1>2. /\ ppc = "prompt" /\ GetLoadPaths(AutoKernel, Rest(bootargs), TRUE)
        /\ autos' = autos + 1 /\ default_dev' = default_dev /\ bootargs' = bootargs
        /\ config' = config /\ paused' = paused
    BY DEF AutoBoot
  <1>3. AutoKernel \in Words \cup {NULL} /\ Rest(bootargs) \in Seq(Words)
    BY <1>1, DefaultIsWord, LineParts DEF AutoKernel, TypeOK
  <1>4. /\ RequestInv' /\ "TRIED_AUTO" \in flags'
        /\ "CONFIG_VALID" \in flags' <=> "CONFIG_VALID" \in flags
    BY <1>2, <1>3, RequestIsGood
  <1>5. "TRIED_AUTO" \notin flags
    BY DEF AutoBoot, Timeout
  <1>6. autos = 0
    BY <1>1, <1>5 DEF FirstPass
  <1>7. TypeOK'
    BY <1>1, <1>2, <1>4 DEF TypeOK, RequestInv
  <1>8. ConfigKnown' /\ DefaultStays'
    BY <1>1, <1>2, <1>4 DEF ConfigKnown, DefaultStays, IsValid, RequestInv
  <1>9. FirstPass'
    BY <1>2, <1>4, <1>6 DEF FirstPass
  <1>. QED  BY <1>4, <1>7, <1>8, <1>9 DEF PInv, RequestInv

LEMMA PTypeLine ==
    ASSUME PInv, NEW line \in Lines, TypeLine(line)
    PROVE  PInv'
  <1>1. /\ TypeOK /\ ConfigKnown /\ DefaultStays /\ FirstPass /\ PauseFlag
    BY DEF PInv
  <1>2. /\ ppc = "prompt" /\ GetLoadPaths(First(line), Rest(line), FALSE)
        /\ autos' = autos /\ default_dev' = default_dev /\ bootargs' = bootargs
        /\ config' = config /\ paused' = paused
    BY DEF TypeLine
  <1>3. First(line) \in Words \cup {NULL} /\ Rest(line) \in Seq(Words)
    BY LineParts, PromptAssumption
  <1>4. /\ RequestInv' /\ "TRIED_AUTO" \in flags'
        /\ "CONFIG_VALID" \in flags' <=> "CONFIG_VALID" \in flags
    BY <1>2, <1>3, RequestIsGood
  <1>5. TypeOK'
    BY <1>1, <1>2, <1>4 DEF TypeOK, RequestInv
  <1>6. ConfigKnown' /\ DefaultStays'
    BY <1>1, <1>2, <1>4 DEF ConfigKnown, DefaultStays, IsValid, RequestInv
  <1>7. FirstPass'
    BY <1>1, <1>2, <1>4 DEF FirstPass
  <1>. QED  BY <1>4, <1>5, <1>6, <1>7 DEF PInv, RequestInv

(* The commands stay at the prompt, where nothing is requested. *)
LEMMA PCommand ==
    ASSUME PInv, CmdOld \/ CmdDebug \/ (\E w \in Words : CmdDev(w))
    PROVE  PInv'
  <1>1. /\ TypeOK /\ ConfigKnown /\ DefaultStays /\ FirstPass /\ PauseFlag
    BY DEF PInv
  <1>2. /\ ppc = "prompt" /\ ppc' = "prompt" /\ bootargs' = bootargs /\ config' = config
        /\ req' = req /\ paused' = paused /\ autos' = autos /\ chosen' = chosen
    BY DEF CmdOld, CmdDebug, CmdDev, Command, histVars
  <1>3. /\ flags' \subseteq Flags /\ "TRIED_AUTO" \in flags'
        /\ "CONFIG_VALID" \in flags' <=> "CONFIG_VALID" \in flags
        /\ "PAUSE_BEFORE_BOOT" \in flags' <=> "PAUSE_BEFORE_BOOT" \in flags
    BY <1>1 DEF CmdOld, CmdDebug, CmdDev, Tried, Toggle, Flags, TypeOK
  <1>4. \/ default_dev' = default_dev
        \/ IsValid(default_dev') /\ DOMAIN default_dev' = {"device", "part"}
    <2>1. CASE CmdOld \/ CmdDebug
      BY <2>1 DEF CmdOld, CmdDebug
    <2>2. ASSUME NEW w \in Words, CmdDev(w), PathOk(w, default_dev)
          PROVE  IsValid(default_dev') /\ DOMAIN default_dev' = {"device", "part"}
      <3>. DEFINE p == file_path(w, default_dev)
      <3>1. IsValid(p)
        BY <2>2, AcceptedIsValid
      <3>2. default_dev' = [device |-> p.device, part |-> p.part]
        BY <2>2 DEF CmdDev
      <3>. HIDE DEF p
      <3>. QED  BY <3>1, <3>2 DEF IsValid
    <2>3. ASSUME NEW w \in Words, CmdDev(w), ~PathOk(w, default_dev)
          PROVE  default_dev' = default_dev
      BY <2>3 DEF CmdDev
    <2>. QED  BY <2>1, <2>2, <2>3
  <1>5. TypeOK'
    BY <1>1, <1>2, <1>3, <1>4 DEF TypeOK
  <1>6. ConfigKnown' /\ DefaultStays'
    BY <1>1, <1>2, <1>3, <1>4 DEF ConfigKnown, DefaultStays, IsValid
  <1>7. FirstPass' /\ PauseFlag'
    <2>1. \A l : AsksPause(l)' <=> AsksPause(l)
      BY <1>2 DEF AsksPause, cfg_get_strg, ImageNamed
    <2>. QED  BY <1>1, <1>2, <1>3, <2>1 DEF FirstPass, PauseFlag
  <1>8. PauseAsAsked' /\ InitrdFollows' /\ OldFlagMatchesLabel'
    BY <1>2 DEF PauseAsAsked, InitrdFollows, OldFlagMatchesLabel, Requested
  <1>. QED  BY <1>5, <1>6, <1>7, <1>8 DEF PInv

(* Once a request is made, neither the configuration nor the flags it      *)
(* depends on change before the kernel has control.                        *)
LEMMA PAfterwards ==
    ASSUME PInv,
           LoadConfigFails \/ LoadFails \/ LoadSucceeds \/ ReloFails \/ HandOver
             \/ UNCHANGED vars
    PROVE  PInv'
  <1>1. /\ TypeOK /\ ConfigKnown /\ DefaultStays /\ FirstPass /\ PauseFlag
        /\ PauseAsAsked /\ InitrdFollows /\ OldFlagMatchesLabel
    BY DEF PInv
  <1>2. /\ default_dev' = default_dev /\ bootargs' = bootargs /\ config' = config
        /\ req' = req /\ autos' = autos /\ chosen' = chosen /\ paused' \in BOOLEAN
        /\ flags' \subseteq flags /\ flags \subseteq flags' \cup {"SHIM_OF"}
    BY <1>1 DEF LoadConfigFails, LoadFails, LoadSucceeds, ReloFails, HandOver, vars, biVars,
         histVars, TypeOK
  <1>3. /\ ppc' \in {"start", "config", "prompt", "loading", "loaded", "booted", "exit"}
        /\ Requested' => Requested
        /\ ppc' \in {"start", "config"} => ppc' = ppc
    BY <1>1 DEF LoadConfigFails, LoadFails, LoadSucceeds, ReloFails, HandOver, vars, biVars,
         TypeOK, Requested
  <1>4. TypeOK'
    BY <1>1, <1>2, <1>3 DEF TypeOK
  <1>5. ConfigKnown' /\ DefaultStays' /\ FirstPass'
    BY <1>1, <1>2, <1>3 DEF ConfigKnown, DefaultStays, FirstPass, IsValid
  <1>8. \A l : AsksPause(l)' <=> AsksPause(l)
    BY <1>2 DEF AsksPause, cfg_get_strg, ImageNamed
  <1>9. PauseFlag'
    BY <1>1, <1>2, <1>3, <1>8 DEF PauseFlag
  <1>10. PauseAsAsked'
    <2>1. CASE HandOver
      BY <1>1, <1>2, <1>8, <2>1 DEF HandOver, PauseFlag, PauseAsAsked
    <2>2. CASE ~HandOver
      <3>1. ppc' = "booted" => ppc = "booted" /\ paused' = paused /\ flags' = flags
        BY <2>2 DEF LoadConfigFails, LoadFails, LoadSucceeds, ReloFails, vars, biVars
      <3>. QED  BY <1>1, <1>2, <1>8, <3>1 DEF PauseAsAsked
    <2>. QED  BY <2>1, <2>2
  <1>6. InitrdFollows'
    <2>1. HasOwnDev(req.label)' <=> HasOwnDev(req.label)
      BY <1>2 DEF HasOwnDev, ImageNamed
    <2>. QED  BY <1>1, <1>2, <1>3, <2>1 DEF InitrdFollows, IsValid
  <1>7. OldFlagMatchesLabel'
    BY <1>1, <1>2, <1>3 DEF OldFlagMatchesLabel, cfg_get_strg, ImageNamed
  <1>. QED  BY <1>4, <1>5, <1>6, <1>7, <1>9, <1>10 DEF PInv

LEMMA PStep == PInv /\ [Next]_vars => PInv'
  <1>. SUFFICES ASSUME PInv, [Next]_vars PROVE PInv'
    OBVIOUS
  <1>1. CASE \E ba \in BootArgs, bf \in BootFiles : EnvInit(ba, bf)
    BY <1>1, PEnvInit
  <1>2. CASE \E line \in Lines : TypeLine(line)
    BY <1>2, PTypeLine
  <1>3. CASE CmdOld \/ CmdDebug \/ (\E w \in Words : CmdDev(w))
    BY <1>3, PCommand
  <1>4. CASE LoadConfigFails \/ LoadFails \/ LoadSucceeds \/ ReloFails \/ HandOver
               \/ UNCHANGED vars
    BY <1>4, PAfterwards
  <1>5. CASE Done
    BY <1>5, PAfterwards DEF Done
  <1>. QED  BY <1>1, <1>2, <1>3, <1>4, <1>5, PLoadConfig, PAutoBoot DEF Next

LEMMA Invariance == Spec => []PInv
  BY PInit, PStep, PTL DEF Spec

-----------------------------------------------------------------------------
(* boot_info_t and the tables keep their types, whatever is booted with,   *)
(* configured and typed.                                                   *)
THEOREM PromptTypeCorrect == Spec => []TypeOK
  <1>1. PInv => TypeOK
    BY DEF PInv
  <1>. QED  BY <1>1, Invariance, PTL

(* At the hand-over iQUIK pauses exactly if !debug or a label chosen so    *)
(* far asked for it, whatever failed, was retried or typed in between.     *)
THEOREM PausesAsAsked == Spec => []PauseAsAsked
  <1>1. PInv => PauseAsAsked
    BY DEF PInv
  <1>. QED  BY <1>1, Invariance, PTL

(* Kernel and initrd given without a device come from one place; where the *)
(* image has no device of its own, from the default device, and from the   *)
(* kernel's where there is no default (get_load_paths).                    *)
THEOREM InitrdIsWhereExpected == Spec => []InitrdFollows
  <1>1. PInv => InitrdFollows
    BY DEF PInv
  <1>. QED  BY <1>1, Invariance, PTL

(* get_params takes the default by itself at most once.                    *)
THEOREM AtMostOneAutoBoot == Spec => []OneAutoBoot
  <1>1. PInv => OneAutoBoot
    BY DEF PInv, FirstPass, OneAutoBoot
  <1>. QED  BY <1>1, Invariance, PTL

(* A label is booted as an old kernel exactly if its section, or the       *)
(* global options, say so, whatever was tried before.                      *)
THEOREM OldIsWhatTheLabelSays == Spec => []OldFlagMatchesLabel
  <1>1. PInv => OldFlagMatchesLabel
    BY DEF PInv
  <1>. QED  BY <1>1, Invariance, PTL

-----------------------------------------------------------------------------
(***************************************************************************)
(* The Config module: cfg_parse, for every text, all option names and      *)
(* types.  The parser looks ahead by up to two tokens and puts one back,   *)
(* so the invariant speaks of the position up to which the text is used.   *)
(***************************************************************************)

(* How many tokens the parser is done with: one that was put back is not. *)
Pos == currp - (IF last_token = Nil THEN 0 ELSE 1)

(* The entry that cfg_set is called for. *)
Cur == Pos - (IF value = Nil THEN 0 ELSE 2)

Reading ==
    /\ cpc \in {"next", "set", "done", "failed"}
    /\ text \in Texts
    /\ currp \in 0 .. Len(text)
    /\ last_token # Nil =>
          currp > 0 /\ last_token = text[currp] /\ last_token \in DOMAIN Lower

(* What Meant says, of the entries up to b. *)
SettingTo(b, n, o) == { k \in Setting(n, o) : k <= b }

ValueAt(k) == IF Valued(k) THEN At(k + 2) ELSE Nil
MeantTo(b, n, types) ==
    [o \in { p \in DOMAIN types : SettingTo(b, n, p) # {} } |-> ValueAt(Max(SettingTo(b, n, o)))]

(* The tables hold what the entries up to b mean. *)
TablesTo(b) ==
    /\ options = MeantTo(b, 0, cf_options)
    /\ images = [n \in 1 .. Cardinality(Section(b)) |-> MeantTo(b, n, cf_image)]

(* Nothing is wrong up to token w, and all entries up to b take effect. *)
CleanTo(b, w) ==
    /\ \A j \in 1 .. w : ~WrongAt(j)
    /\ \A j \in 1 .. b : ~Unknown(j)
    /\ \A k \in 1 .. b : IsEntry(k) => Counts(k)

(* Between two entries. *)
Between ==
    cpc = "next" =>
        /\ Pos \in 0 .. Len(text)
        /\ At(Pos) # "="
        /\ IsEntry(Pos) => ~Valued(Pos)
        /\ CleanTo(Pos, Pos)
        /\ TablesTo(Pos)

(* An entry is read and not yet set. *)
AtEntry ==
    cpc = "set" =>
        /\ Cur \in 1 .. Len(text)
        /\ IsEntry(Cur) /\ item = At(Cur)
        /\ Valued(Cur) => IsWord(Cur + 2)
        /\ value = ValueAt(Cur)
        /\ CleanTo(Cur - 1, Cur + (IF Valued(Cur) THEN 2 ELSE 1))
        /\ TablesTo(Cur - 1)

Bare == \E k \in DOMAIN text : IsEntry(k) /\ Lower[At(k)] = "image" /\ ~Valued(k)

(* Every section has its path, from the moment it is opened. *)
HasPath == \A n \in DOMAIN images : "image" \in DOMAIN images[n] \/ Bare

CInv == Reading /\ Between /\ AtEntry /\ HasPath /\ MeansTheText

-----------------------------------------------------------------------------
(* Positions in the text. *)

LEMMA TextType ==
    ASSUME Reading
    PROVE  /\ text \in Seq(DOMAIN Lower \cup {"=", Bad}) /\ Len(text) \in Nat
           /\ DOMAIN text = 1 .. Len(text) /\ currp \in Nat /\ currp <= Len(text)
  <1>1. text \in Seq(DOMAIN Lower \cup {"=", Bad})
    BY ConfigAssumption DEF Reading
  <1>. QED  BY <1>1 DEF Reading

LEMMA AtType ==
    ASSUME Reading, NEW k \in Int
    PROVE  /\ At(k) # Nil <=> k \in 1 .. Len(text)
           /\ At(k) # Nil => At(k) = text[k] /\ At(k) \in DOMAIN Lower \cup {"=", Bad}
           /\ IsWord(k) <=> At(k) \in DOMAIN Lower
  <1>1. /\ Nil \notin DOMAIN Lower /\ "=" \notin DOMAIN Lower /\ Bad \notin DOMAIN Lower
        /\ Nil # "=" /\ Nil # Bad
    BY ConfigAssumption
  <1>2. CASE k \in 1 .. Len(text)
    <2>1. At(k) = text[k] /\ text[k] \in DOMAIN Lower \cup {"=", Bad}
      BY <1>2, TextType DEF At
    <2>. QED  BY <1>1, <1>2, <2>1 DEF IsWord
  <1>3. CASE k \notin 1 .. Len(text)
    BY <1>1, <1>3 DEF At, IsWord
  <1>. QED  BY <1>2, <1>3

LEMMA PosType ==
    ASSUME Reading
    PROVE  Pos \in 0 .. Len(text)
  BY TextType DEF Reading, Pos

(* cfg_get_token returns the tokens in the order of the text. *)
LEMMA TokIsAt ==
    ASSUME Reading, NEW n \in Nat, n > 0
    PROVE  Tok(n) = At(Pos + n)
  <1>. DEFINE rest == SubSeq(text, currp + 1, Len(text))
              T == DOMAIN Lower \cup {"=", Bad}
  <1>1. /\ rest \in Seq(T) /\ Len(rest) = Len(text) - currp
        /\ \A k \in 1 .. Len(text) - currp : rest[k] = text[currp + k]
    BY TextType
  <1>. HIDE DEF rest, T
  <1>2. CASE last_token = Nil
    <2>1. Ahead = <<>> \o rest /\ Pos = currp
      BY <1>2, TextType DEF Ahead, Pos, rest
    <2>2. Ahead = rest
      BY <1>1, <2>1
    <2>3. CASE n > Len(rest)
      <3>1. Tok(n) = Nil
        BY <2>2, <2>3 DEF Tok
      <3>2. Pos + n \notin 1 .. Len(text)
        BY <1>1, <2>1, <2>3, TextType
      <3>. QED  BY <3>1, <3>2 DEF At
    <2>4. CASE ~(n > Len(rest))
      <3>1. n \in 1 .. Len(text) - currp /\ Pos + n \in 1 .. Len(text)
        BY <1>1, <2>1, <2>4, TextType
      <3>2. Tok(n) = rest[n]
        BY <2>2, <2>4 DEF Tok
      <3>. QED  BY <1>1, <2>1, <3>1, <3>2 DEF At
    <2>. QED  BY <2>3, <2>4
  <1>3. CASE last_token # Nil
    <2>1. Ahead = <<last_token>> \o rest /\ Pos = currp - 1
      BY <1>3 DEF Ahead, Pos, rest
    <2>2. currp > 0 /\ last_token = text[currp] /\ last_token \in T
      BY <1>3 DEF Reading, T
    <2>3. /\ Len(Ahead) = 1 + Len(rest) /\ Ahead[1] = last_token
          /\ \A k \in 1 .. Len(rest) : Ahead[k + 1] = rest[k]
      BY <1>1, <2>1, <2>2
    <2>4. CASE n > Len(Ahead)
      <3>1. Tok(n) = Nil
        BY <2>4 DEF Tok
      <3>2. Pos + n \notin 1 .. Len(text)
        BY <1>1, <2>1, <2>3, <2>4, TextType
      <3>. QED  BY <3>1, <3>2 DEF At
    <2>5. CASE n = 1
      <3>1. Tok(n) = Ahead[1]
        BY <1>1, <2>3, <2>5, TextType DEF Tok
      <3>2. Pos + n = currp /\ currp \in 1 .. Len(text)
        BY <2>1, <2>2, <2>5, TextType
      <3>. QED  BY <2>2, <2>3, <3>1, <3>2 DEF At
    <2>6. CASE n > 1 /\ ~(n > Len(Ahead))
      <3>1. n - 1 \in 1 .. Len(rest) /\ Pos + n \in 1 .. Len(text) /\ Pos + n = currp + (n - 1)
            /\ (n - 1) + 1 = n
        <4>. DEFINE r == Len(rest)  a == Len(Ahead)  l == Len(text)  p == Pos
        <4>1. r = l - currp /\ a = 1 + r /\ p = currp - 1
          BY <1>1, <2>1, <2>3
        <4>2. l \in Nat /\ currp \in Nat /\ currp <= l
          BY TextType
        <4>3. n > 1 /\ ~(n > a)
          BY <2>6
        <4>. HIDE DEF r, a, l, p
        <4>4. n - 1 \in 1 .. r /\ p + n \in 1 .. l /\ p + n = currp + (n - 1) /\ (n - 1) + 1 = n
          BY <4>1, <4>2, <4>3
        <4>. QED  BY <4>4 DEF r, l, p
      <3>2. Tok(n) = Ahead[n]
        BY <2>6 DEF Tok
      <3>3. Ahead[n] = rest[n - 1]
        BY <2>3, <3>1
      <3>. QED  BY <1>1, <3>1, <3>2, <3>3 DEF At
    <2>. QED  BY <2>4, <2>5, <2>6
  <1>. QED  BY <1>2, <1>3

-----------------------------------------------------------------------------
(* What is said of the text does not change with it. *)

LEMMA SameAt ==
    ASSUME text' = text
    PROVE  /\ \A k : At(k)' = At(k)
           /\ \A k : IsWord(k)' <=> IsWord(k)
           /\ \A k : IsEntry(k)' <=> IsEntry(k)
           /\ \A k : Valued(k)' <=> Valued(k)
           /\ \A k : WrongAt(k)' <=> WrongAt(k)
  <1>1. \A k : At(k)' = At(k)
    BY DEF At
  <1>2. \A k : IsWord(k)' <=> IsWord(k)
    BY <1>1 DEF IsWord
  <1>3. \A k : IsEntry(k)' <=> IsEntry(k)
    BY <1>1, <1>2 DEF IsEntry
  <1>4. \A k : Valued(k)' <=> Valued(k)
    BY <1>1 DEF Valued
  <1>5. \A k : WrongAt(k)' <=> WrongAt(k)
    BY <1>1, <1>2, <1>3 DEF WrongAt
  <1>. QED  BY <1>1, <1>2, <1>3, <1>4, <1>5

LEMMA SameSection ==
    ASSUME text' = text
    PROVE  /\ \A k : Section(k)' = Section(k)
           /\ \A k : TypesIn(k)' = TypesIn(k)
           /\ \A k : Unknown(k)' <=> Unknown(k)
           /\ \A k : Counts(k)' <=> Counts(k)
           /\ \A k : Fits(k)' <=> Fits(k)
  <1>1. \A k : Section(k)' = Section(k)
    BY SameAt DEF Section
  <1>2. \A k : TypesIn(k)' = TypesIn(k)
    BY <1>1 DEF TypesIn
  <1>3. \A k : Unknown(k)' <=> Unknown(k)
    BY <1>2, SameAt DEF Unknown
  <1>4. \A k : Counts(k)' <=> Counts(k)
    BY <1>3, SameAt DEF Counts
  <1>5. \A k : Fits(k)' <=> Fits(k)
    BY <1>2, SameAt DEF Fits
  <1>. QED  BY <1>1, <1>2, <1>3, <1>4, <1>5

LEMMA SameMeant ==
    ASSUME text' = text
    PROVE  /\ \A b, n, types : MeantTo(b, n, types)' = MeantTo(b, n, types)
           /\ \A n, types : Meant(n, types)' = Meant(n, types)
           /\ MeantImages' = MeantImages
           /\ Bare' <=> Bare
  <1>1. \A n, o : Setting(n, o)' = Setting(n, o)
    BY SameAt, SameSection DEF Setting
  <1>2. \A b, n, o : SettingTo(b, n, o)' = SettingTo(b, n, o)
    BY <1>1 DEF SettingTo
  <1>3. \A b, n, types : MeantTo(b, n, types)' = MeantTo(b, n, types)
    BY <1>2, SameAt DEF MeantTo, ValueAt
  <1>4. \A n, types : Meant(n, types)' = Meant(n, types)
    BY <1>1, SameAt DEF Meant
  <1>5. MeantImages' = MeantImages
    BY SameAt, SameSection DEF MeantImages
  <1>6. Bare' <=> Bare
    BY SameAt DEF Bare
  <1>. QED  BY <1>3, <1>4, <1>5, <1>6

-----------------------------------------------------------------------------
(* Entries and sections. *)

LEMMA SectionFinite ==
    ASSUME NEW b \in Nat
    PROVE  IsFiniteSet(Section(b)) /\ Cardinality(Section(b)) \in Nat
           /\ (Cardinality(Section(b)) = 0 <=> Section(b) = {})
  <1>1. IsFiniteSet(1 .. b)
    BY FS_Interval
  <1>2. Section(b) \subseteq 1 .. b
    BY DEF Section
  <1>3. IsFiniteSet(Section(b))
    BY <1>1, <1>2, FS_Subset
  <1>. QED  BY <1>3, FS_CardinalityType, FS_EmptySet

LEMMA SectionGrows ==
    ASSUME NEW a \in Nat, NEW b \in Nat, a <= b
    PROVE  Section(a) \subseteq Section(b)
           /\ Cardinality(Section(a)) <= Cardinality(Section(b))
  <1>1. Section(a) \subseteq Section(b)
    BY DEF Section
  <1>. QED  BY <1>1, SectionFinite, FS_Subset

(* The entry q of the text, as cfg_next has returned it. *)
AtQ(q) ==
    /\ q \in 1 .. Len(text) /\ IsEntry(q)
    /\ Valued(q) => IsWord(q + 2)
    /\ CleanTo(q - 1, q + (IF Valued(q) THEN 2 ELSE 1))
EndQ(q) == IF Valued(q) THEN q + 2 ELSE q

LEMMA NoOtherEntry ==
    ASSUME Reading, NEW q, AtQ(q), NEW k \in Int, k > q, k <= EndQ(q)
    PROVE  ~IsEntry(k)
  <1>1. q \in Int /\ Valued(q) /\ (k = q + 1 \/ k = q + 2)
    BY TextType DEF AtQ, EndQ
  <1>2. At(q + 1) = "="
    BY <1>1 DEF Valued
  <1>3. CASE k = q + 1
    BY <1>2, <1>3 DEF IsEntry, IsWord
  <1>4. CASE k = q + 2
    <2>1. k - 1 = q + 1
      BY <1>1, <1>4
    <2>. QED  BY <1>2, <2>1 DEF IsEntry
  <1>. QED  BY <1>1, <1>3, <1>4

LEMMA EndType ==
    ASSUME Reading, NEW q, AtQ(q)
    PROVE  EndQ(q) \in 1 .. Len(text) /\ q <= EndQ(q) /\ q \in Nat /\ q - 1 \in Nat
  <1>1. q \in Nat /\ q > 0 /\ q <= Len(text)
    BY TextType DEF AtQ
  <1>2. CASE Valued(q)
    <2>1. IsWord(q + 2) /\ q + 2 \in Int
      BY <1>1, <1>2 DEF AtQ
    <2>2. At(q + 2) # Nil
      BY <2>1 DEF IsWord
    <2>3. q + 2 \in 1 .. Len(text)
      BY <2>1, <2>2, AtType
    <2>. QED  BY <1>1, <1>2, <2>3, TextType DEF EndQ
  <1>3. CASE ~Valued(q)
    BY <1>1, <1>3, TextType DEF EndQ
  <1>. QED  BY <1>2, <1>3

LEMMA SectionAtQ ==
    ASSUME Reading, NEW q, AtQ(q)
    PROVE  /\ Lower[At(q)] # "image" =>
                 Section(q) = Section(q - 1) /\ Section(EndQ(q)) = Section(q - 1)
           /\ Lower[At(q)] = "image" =>
                 /\ Section(q) = Section(q - 1) \cup {q} /\ Section(EndQ(q)) = Section(q)
                 /\ Cardinality(Section(q)) = Cardinality(Section(q - 1)) + 1
  <1>1. q \in Nat /\ q - 1 \in Nat /\ EndQ(q) \in Nat /\ q <= EndQ(q) /\ q >= 1
    BY EndType, TextType DEF AtQ
  <1>2. \A k \in 1 .. EndQ(q) : IsEntry(k) => k <= q
    BY <1>1, NoOtherEntry
  <1>3. Section(EndQ(q)) = Section(q)
    BY <1>1, <1>2 DEF Section
  <1>4. IsEntry(q)
    BY DEF AtQ
  <1>5. Lower[At(q)] # "image" => Section(q) = Section(q - 1)
    BY <1>1 DEF Section
  <1>6. Lower[At(q)] = "image" => Section(q) = Section(q - 1) \cup {q}
    BY <1>1, <1>4 DEF Section
  <1>7. q \notin Section(q - 1)
    BY <1>1 DEF Section
  <1>8. Lower[At(q)] = "image" => Cardinality(Section(q)) = Cardinality(Section(q - 1)) + 1
    BY <1>1, <1>6, <1>7, SectionFinite, FS_AddElement
  <1>. QED  BY <1>3, <1>5, <1>6, <1>8

(* It is known exactly if cfg_set finds it in the current table. *)
LEMMA CleanAfterQ ==
    ASSUME Reading, NEW q, AtQ(q), ~Unknown(q)
    PROVE  Counts(q) /\ CleanTo(EndQ(q), EndQ(q))
  <1>1. q \in Nat /\ q - 1 \in Nat /\ EndQ(q) \in Nat /\ q <= EndQ(q) /\ q >= 1
        /\ EndQ(q) <= q + (IF Valued(q) THEN 2 ELSE 1)
    BY EndType, TextType DEF AtQ, EndQ
  <1>2. /\ IsEntry(q)
        /\ \A j \in 1 .. q + (IF Valued(q) THEN 2 ELSE 1) : ~WrongAt(j)
        /\ \A j \in 1 .. q - 1 : ~Unknown(j)
        /\ \A k \in 1 .. q - 1 : IsEntry(k) => Counts(k)
    BY DEF AtQ, CleanTo
  <1>3. \A j \in 1 .. q : ~Unknown(j)
    <2>. TAKE j \in 1 .. q
    <2>1. j = q \/ j \in 1 .. q - 1
      BY <1>1
    <2>. QED  BY <1>2, <2>1
  <1>4. Counts(q)
    BY <1>2, <1>3 DEF Counts
  <1>5. \A j \in 1 .. EndQ(q) : ~WrongAt(j)
    BY <1>1, <1>2
  <1>6. \A j \in 1 .. EndQ(q) : ~Unknown(j) /\ (IsEntry(j) => Counts(j))
    <2>. TAKE j \in 1 .. EndQ(q)
    <2>1. CASE j > q
      <3>1. ~IsEntry(j)
        BY <1>1, <2>1, NoOtherEntry
      <3>. QED  BY <3>1 DEF Unknown
    <2>2. CASE j = q
      BY <1>3, <1>4, <1>1, <2>2
    <2>3. CASE j < q
      <3>1. j \in 1 .. q - 1
        BY <1>1, <2>3
      <3>. QED  BY <1>2, <3>1
    <2>. QED  BY <1>1, <2>1, <2>2, <2>3
  <1>. QED  BY <1>4, <1>5, <1>6 DEF CleanTo

LEMMA MaxNew ==
    ASSUME NEW S, NEW e \in Int, \A k \in S : k \in Int /\ k < e
    PROVE  Max(S \cup {e}) = e
  <1>. DEFINE T == S \cup {e}
              m == CHOOSE k \in T : \A j \in T : k >= j
  <1>1. e \in T /\ \A j \in T : e >= j
    OBVIOUS
  <1>2. m \in T /\ \A j \in T : m >= j
    BY <1>1
  <1>. HIDE DEF m
  <1>3. m = e
    BY <1>1, <1>2
  <1>. QED  BY <1>3 DEF Max, m

LEMMA SettingAtQ ==
    ASSUME Reading, NEW q, AtQ(q), ~Unknown(q), NEW n, NEW o
    PROVE  SettingTo(EndQ(q), n, o) =
             SettingTo(q - 1, n, o) \cup
               (IF Fits(q) /\ Lower[At(q)] = o /\ Cardinality(Section(q)) = n THEN {q} ELSE {})
  <1>1. /\ q \in Nat /\ q - 1 \in Nat /\ EndQ(q) \in Nat /\ q <= EndQ(q)
        /\ q \in DOMAIN text /\ DOMAIN text \subseteq Int
    BY EndType, TextType DEF AtQ
  <1>2. q \in Setting(n, o) <=> Fits(q) /\ Lower[At(q)] = o /\ Cardinality(Section(q)) = n
    BY <1>1, CleanAfterQ DEF Setting
  <1>3. ASSUME NEW k \in Setting(n, o), k <= EndQ(q)
        PROVE  k = q \/ k <= q - 1
    <2>1. k \in Int /\ IsEntry(k)
      BY <1>1 DEF Setting, Counts
    <2>2. ~(k > q)
      BY <1>3, <2>1, NoOtherEntry
    <2>. QED  BY <1>1, <2>1, <2>2
  <1>4. Setting(n, o) \subseteq Int
    BY <1>1 DEF Setting
  <1>5. \A k \in Setting(n, o) : k <= EndQ(q) <=> (k = q \/ k <= q - 1)
    BY <1>1, <1>3, <1>4
  <1>. QED  BY <1>2, <1>5 DEF SettingTo

(* The entry changes at most one option of one table. *)
LEMMA MeantAtQ ==
    ASSUME Reading, NEW q, AtQ(q), ~Unknown(q), NEW n, NEW types
    PROVE  LET old == MeantTo(q - 1, n, types)
               name == Lower[At(q)]
           IN  MeantTo(EndQ(q), n, types) =
                 IF Fits(q) /\ Cardinality(Section(q)) = n /\ name \in DOMAIN types
                 THEN [o \in DOMAIN old \cup {name} |-> IF o = name THEN ValueAt(q) ELSE old[o]]
                 ELSE old
  <1>. DEFINE old == MeantTo(q - 1, n, types)
              new == MeantTo(EndQ(q), n, types)
              name == Lower[At(q)]
              S(o) == SettingTo(q - 1, n, o)
              T(o) == SettingTo(EndQ(q), n, o)
              hit == Fits(q) /\ Cardinality(Section(q)) = n
  <1>1. q \in Int /\ \A o : S(o) \subseteq Int /\ \A k \in S(o) : k < q
    BY EndType, TextType DEF AtQ, SettingTo, Setting
  <1>2. /\ old = [o \in { p \in DOMAIN types : S(p) # {} } |-> ValueAt(Max(S(o)))]
        /\ new = [o \in { p \in DOMAIN types : T(p) # {} } |-> ValueAt(Max(T(o)))]
    BY DEF MeantTo
  <1>3. \A o : T(o) = S(o) \cup (IF hit /\ name = o THEN {q} ELSE {})
    BY SettingAtQ
  <1>. HIDE DEF old, new, S, T, name, hit
  <1>4. \A o : ~(hit /\ name = o) => T(o) = S(o)
    BY <1>3
  <1>5. hit => T(name) # {} /\ ValueAt(Max(T(name))) = ValueAt(q)
    <2>1. hit => T(name) = S(name) \cup {q}
      BY <1>3
    <2>2. Max(S(name) \cup {q}) = q
      <3>1. \A k \in S(name) : k \in Int /\ k < q
        BY <1>1
      <3>. QED  BY <1>1, <3>1, MaxNew
    <2>. QED  BY <2>1, <2>2
  <1>6. CASE hit /\ name \in DOMAIN types
    <2>1. { p \in DOMAIN types : T(p) # {} } = { p \in DOMAIN types : S(p) # {} } \cup {name}
      BY <1>4, <1>5, <1>6
    <2>2. DOMAIN old = { p \in DOMAIN types : S(p) # {} }
      BY <1>2
    <2>3. ASSUME NEW o \in { p \in DOMAIN types : T(p) # {} }
          PROVE  ValueAt(Max(T(o))) = IF o = name THEN ValueAt(q) ELSE old[o]
      <3>1. CASE o = name
        BY <1>5, <1>6, <3>1
      <3>2. CASE o # name
        BY <1>2, <1>4, <2>1, <3>2
      <3>. QED  BY <3>1, <3>2
    <2>4. new = [o \in DOMAIN old \cup {name} |-> IF o = name THEN ValueAt(q) ELSE old[o]]
      BY <1>2, <2>1, <2>2, <2>3
    <2>. QED  BY <1>6, <2>4 DEF hit, name, old, new
  <1>7. CASE ~(hit /\ name \in DOMAIN types)
    <2>1. \A o \in DOMAIN types : T(o) = S(o)
      BY <1>4, <1>7
    <2>2. new = old
      BY <1>2, <2>1
    <2>. QED  BY <1>7, <2>2 DEF hit, name, old, new
  <1>. QED  BY <1>6, <1>7

(* A section that is not yet open has no settings. *)
LEMMA NothingYet ==
    ASSUME Reading, NEW b \in Nat, NEW n \in Nat, n > Cardinality(Section(b)), NEW types
    PROVE  MeantTo(b, n, types) = NoOptions
  <1>1. \A o : SettingTo(b, n, o) = {}
    <2>. SUFFICES ASSUME NEW o, NEW k \in SettingTo(b, n, o)
                  PROVE  FALSE
      OBVIOUS
    <2>1. k \in Nat /\ k <= b /\ Cardinality(Section(k)) = n
      BY TextType DEF SettingTo, Setting
    <2>. QED  BY <2>1, SectionGrows, SectionFinite
  <1>. QED  BY <1>1 DEF MeantTo, NoOptions

-----------------------------------------------------------------------------
(* The tables. *)

LEMMA ImagesType ==
    ASSUME NEW b \in Nat, TablesTo(b)
    PROVE  /\ images \in Seq({ images[n] : n \in DOMAIN images })
           /\ DOMAIN images = 1 .. Cardinality(Section(b))
           /\ Len(images) = Cardinality(Section(b)) /\ Len(images) \in Nat
           /\ (images = <<>> <=> Section(b) = {}) /\ (images = <<>> <=> Len(images) = 0)
  <1>1. /\ Cardinality(Section(b)) \in Nat
        /\ (Cardinality(Section(b)) = 0 <=> Section(b) = {})
    BY SectionFinite
  <1>2. images = [n \in 1 .. Cardinality(Section(b)) |-> images[n]]
    BY DEF TablesTo
  <1>3. DOMAIN images = 1 .. Cardinality(Section(b))
    BY <1>2
  <1>4. images \in Seq({ images[n] : n \in DOMAIN images })
        /\ Len(images) = Cardinality(Section(b))
    BY <1>1, <1>2, <1>3
  <1>. QED  BY <1>1, <1>3, <1>4

LEMMA EntryFacts ==
    ASSUME Reading, AtEntry, cpc = "set"
    PROVE  /\ AtQ(Cur) /\ EndQ(Cur) = Pos /\ Cur \in Nat /\ Cur - 1 \in Nat
           /\ Name = Lower[At(Cur)] /\ TablesTo(Cur - 1)
           /\ value = ValueAt(Cur) /\ (value # Nil <=> Valued(Cur))
  <1>1. /\ AtQ(Cur) /\ item = At(Cur) /\ value = ValueAt(Cur) /\ TablesTo(Cur - 1)
    BY DEF AtEntry, AtQ
  <1>2. Cur \in Nat /\ Cur - 1 \in Nat
    BY <1>1, EndType
  <1>3. value # Nil <=> Valued(Cur)
    BY <1>1 DEF AtQ, ValueAt, IsWord
  <1>4. EndQ(Cur) = Pos
    BY <1>2, <1>3, PosType, TextType DEF EndQ, Cur
  <1>. QED  BY <1>1, <1>2, <1>3, <1>4 DEF Name

LEMMA TypesAtEntry ==
    ASSUME Reading, AtEntry, cpc = "set"
    PROVE  /\ Name # "image" =>
                 TypesIn(Cur) = CurrTypes /\ Cardinality(Section(Cur)) = Len(images)
           /\ Name = "image" =>
                 /\ TypesIn(Cur) = cf_image /\ ~Unknown(Cur)
                 /\ Cardinality(Section(Cur)) = Len(images) + 1
           /\ Unknown(Cur) <=> Name \notin DOMAIN TypesIn(Cur)
           /\ Fits(Cur) <=> (TypesIn(Cur)[Name] = "strg" <=> value # Nil)
  <1>1. /\ AtQ(Cur) /\ Cur - 1 \in Nat /\ Name = Lower[At(Cur)] /\ TablesTo(Cur - 1)
        /\ (value # Nil <=> Valued(Cur)) /\ IsEntry(Cur)
    BY EntryFacts DEF AtQ
  <1>2. Unknown(Cur) <=> Name \notin DOMAIN TypesIn(Cur)
    BY <1>1 DEF Unknown
  <1>3. Fits(Cur) <=> (TypesIn(Cur)[Name] = "strg" <=> value # Nil)
    BY <1>1 DEF Fits
  <1>4. /\ Len(images) = Cardinality(Section(Cur - 1))
        /\ (images = <<>> <=> Section(Cur - 1) = {})
    BY <1>1, ImagesType
  <1>5. ASSUME Name # "image"
        PROVE  TypesIn(Cur) = CurrTypes /\ Cardinality(Section(Cur)) = Len(images)
    BY <1>1, <1>4, <1>5, SectionAtQ DEF TypesIn, CurrTypes
  <1>6. ASSUME Name = "image"
        PROVE  /\ TypesIn(Cur) = cf_image /\ ~Unknown(Cur)
               /\ Cardinality(Section(Cur)) = Len(images) + 1
    <2>1. Section(Cur) # {} /\ Cardinality(Section(Cur)) = Len(images) + 1
      BY <1>1, <1>4, <1>6, SectionAtQ
    <2>2. TypesIn(Cur) = cf_image
      BY <2>1 DEF TypesIn
    <2>. QED  BY <1>2, <1>6, <2>1, <2>2, ConfigAssumption
  <1>. QED  BY <1>2, <1>3, <1>5, <1>6

(* SetIn is what the entry does to its table. *)
LEMMA SetInMeans ==
    ASSUME Reading, AtEntry, cpc = "set", ~Unknown(Cur), NEW n, NEW types
    PROVE  /\ n = Cardinality(Section(Cur)) /\ types = TypesIn(Cur) =>
                 MeantTo(Pos, n, types) = SetIn(MeantTo(Cur - 1, n, types), types)
           /\ n # Cardinality(Section(Cur)) =>
                 MeantTo(Pos, n, types) = MeantTo(Cur - 1, n, types)
  <1>1. /\ AtQ(Cur) /\ EndQ(Cur) = Pos /\ Name = Lower[At(Cur)] /\ value = ValueAt(Cur)
        /\ Name \in DOMAIN TypesIn(Cur)
        /\ Fits(Cur) <=> (TypesIn(Cur)[Name] = "strg" <=> value # Nil)
    BY EntryFacts, TypesAtEntry
  <1>. DEFINE old == MeantTo(Cur - 1, n, types)
  <1>2. MeantTo(Pos, n, types) =
           IF Fits(Cur) /\ Cardinality(Section(Cur)) = n /\ Name \in DOMAIN types
           THEN [o \in DOMAIN old \cup {Name} |-> IF o = Name THEN value ELSE old[o]]
           ELSE old
    BY <1>1, MeantAtQ
  <1>. HIDE DEF old
  <1>3. ASSUME n = Cardinality(Section(Cur)), types = TypesIn(Cur)
        PROVE  MeantTo(Pos, n, types) = SetIn(old, types)
    BY <1>1, <1>2, <1>3 DEF SetIn
  <1>4. ASSUME n # Cardinality(Section(Cur))
        PROVE  MeantTo(Pos, n, types) = old
    BY <1>2, <1>4
  <1>. QED  BY <1>3, <1>4 DEF old

(* The tables after the step, in terms of the state before it: options'    *)
(* and images' are given as o and i.                                       *)
HoldTo(b, o, i) ==
    /\ o = MeantTo(b, 0, cf_options)
    /\ i = [n \in 1 .. Cardinality(Section(b)) |-> MeantTo(b, n, cf_image)]

LEMMA TablesAfterOption ==
    ASSUME Reading, AtEntry, SetOption
    PROVE  HoldTo(Pos, options', images') /\ ~Unknown(Cur)
  <1>1. cpc = "set" /\ Name # "image" /\ Name \in DOMAIN CurrTypes
    BY DEF SetOption
  <1>2. /\ TypesIn(Cur) = CurrTypes /\ Cardinality(Section(Cur)) = Len(images)
        /\ ~Unknown(Cur)
    BY <1>1, TypesAtEntry
  <1>3. /\ Cur - 1 \in Nat /\ TablesTo(Cur - 1) /\ AtQ(Cur) /\ EndQ(Cur) = Pos
        /\ Name = Lower[At(Cur)]
    BY <1>1, EntryFacts
  <1>4. /\ DOMAIN images = 1 .. Len(images) /\ Len(images) \in Nat
        /\ (images = <<>> <=> Len(images) = 0)
        /\ images \in Seq({ images[n] : n \in DOMAIN images })
    BY <1>3, ImagesType
  <1>5. Cardinality(Section(Pos)) = Len(images)
    BY <1>1, <1>2, <1>3, SectionAtQ
  <1>6. /\ options = MeantTo(Cur - 1, 0, cf_options)
        /\ \A n \in DOMAIN images : images[n] = MeantTo(Cur - 1, n, cf_image)
    BY <1>3 DEF TablesTo
  <1>7. CASE images = <<>>
    <2>1. options' = SetIn(options, cf_options) /\ images' = images
      BY <1>7 DEF SetOption
    <2>2. Len(images) = 0 /\ TypesIn(Cur) = cf_options
      BY <1>2, <1>4, <1>7 DEF CurrTypes
    <2>3. options' = MeantTo(Pos, 0, cf_options)
      BY <1>1, <1>2, <1>6, <2>1, <2>2, SetInMeans
    <2>4. images' = [n \in 1 .. Cardinality(Section(Pos)) |-> MeantTo(Pos, n, cf_image)]
      BY <1>5, <1>7, <2>1, <2>2
    <2>. QED  BY <1>2, <2>3, <2>4 DEF HoldTo
  <1>8. CASE images # <<>>
    <2>. DEFINE N == Len(images)
    <2>1. /\ images' = [images EXCEPT ![N] = SetIn(images[N], cf_image)] /\ options' = options
      BY <1>8 DEF SetOption
    <2>2. N # 0 /\ N \in DOMAIN images /\ TypesIn(Cur) = cf_image /\ N = Cardinality(Section(Cur))
      BY <1>2, <1>4, <1>8 DEF CurrTypes
    <2>3. options' = MeantTo(Pos, 0, cf_options)
      BY <1>1, <1>2, <1>6, <2>1, <2>2, SetInMeans
    <2>4. MeantTo(Pos, N, cf_image) = SetIn(images[N], cf_image)
      BY <1>1, <1>2, <1>6, <2>2, SetInMeans
    <2>5. \A n \in DOMAIN images : n # N => MeantTo(Pos, n, cf_image) = images[n]
      BY <1>1, <1>2, <1>6, <2>2, SetInMeans
    <2>. HIDE DEF N
    <2>6. images' = [n \in DOMAIN images |-> IF n = N THEN SetIn(images[N], cf_image) ELSE images[n]]
      BY <2>1, <2>2
    <2>7. images' = [n \in 1 .. Cardinality(Section(Pos)) |-> MeantTo(Pos, n, cf_image)]
      BY <1>4, <1>5, <2>4, <2>5, <2>6
    <2>. QED  BY <1>2, <2>3, <2>7 DEF HoldTo
  <1>. QED  BY <1>7, <1>8

LEMMA TablesAfterImage ==
    ASSUME Reading, AtEntry, SetImage
    PROVE  HoldTo(Pos, options', images') /\ ~Unknown(Cur)
  <1>1. cpc = "set" /\ Name = "image" /\ options' = options
        /\ images' = Append(images, SetIn(NoOptions, cf_image))
    BY DEF SetImage
  <1>. DEFINE N == Len(images)
              new == SetIn(NoOptions, cf_image)
  <1>2. TypesIn(Cur) = cf_image /\ Cardinality(Section(Cur)) = N + 1 /\ ~Unknown(Cur)
    BY <1>1, TypesAtEntry
  <1>3. /\ Cur - 1 \in Nat /\ TablesTo(Cur - 1) /\ AtQ(Cur) /\ EndQ(Cur) = Pos
        /\ Name = Lower[At(Cur)]
    BY <1>1, EntryFacts
  <1>4. /\ DOMAIN images = 1 .. N /\ N \in Nat /\ N = Cardinality(Section(Cur - 1))
        /\ images \in Seq({ images[n] : n \in DOMAIN images })
    BY <1>3, ImagesType
  <1>5. Cardinality(Section(Pos)) = N + 1
    BY <1>1, <1>2, <1>3, SectionAtQ
  <1>6. /\ options = MeantTo(Cur - 1, 0, cf_options)
        /\ \A n \in DOMAIN images : images[n] = MeantTo(Cur - 1, n, cf_image)
    BY <1>3 DEF TablesTo
  <1>7. options' = MeantTo(Pos, 0, cf_options)
    BY <1>1, <1>2, <1>4, <1>6, SetInMeans
  <1>8. \A n \in 1 .. N : MeantTo(Pos, n, cf_image) = images[n]
    BY <1>1, <1>2, <1>4, <1>6, SetInMeans
  <1>9. MeantTo(Cur - 1, N + 1, cf_image) = NoOptions
    BY <1>3, <1>4, NothingYet
  <1>10. MeantTo(Pos, N + 1, cf_image) = new
    BY <1>1, <1>2, <1>9, SetInMeans
  <1>. HIDE DEF N, new
  <1>11. images' = [n \in 1 .. N + 1 |-> IF n <= N THEN images[n] ELSE new]
    <2>. DEFINE S == { images[n] : n \in DOMAIN images } \cup {new}
    <2>1. images \in Seq(S) /\ new \in S
      BY <1>4
    <2>. HIDE DEF S
    <2>2. /\ images' \in Seq(S) /\ Len(images') = N + 1
          /\ \A n \in 1 .. N : images'[n] = images[n]
          /\ images'[N + 1] = new
      BY <1>1, <2>1 DEF N, new
    <2>3. images' = [n \in 1 .. N + 1 |-> images'[n]]
      BY <2>2
    <2>4. \A n \in 1 .. N + 1 : images'[n] = IF n <= N THEN images[n] ELSE new
      BY <1>4, <2>2
    <2>. QED  BY <2>3, <2>4
  <1>12. images' = [n \in 1 .. Cardinality(Section(Pos)) |-> MeantTo(Pos, n, cf_image)]
    BY <1>4, <1>5, <1>8, <1>10, <1>11
  <1>. QED  BY <1>2, <1>7, <1>12 DEF HoldTo

-----------------------------------------------------------------------------
(* The steps. *)

(* cfg_next: the word behind Pos is an entry, and nothing is wrong up to   *)
(* where it was read.                                                      *)
LEMMA NextIsEntry ==
    ASSUME Reading, Between, cpc = "next", Word(1),
           IF HasValue THEN Word(3) ELSE Tok(2) # Bad
    PROVE  AtQ(Pos + 1) /\ (Valued(Pos + 1) <=> HasValue)
  <1>. DEFINE q == Pos + 1
  <1>1. Pos \in Nat /\ Pos <= Len(text) /\ q \in Nat /\ q - 1 = Pos /\ Len(text) \in Nat
    BY PosType, TextType
  <1>2. Tok(1) = At(q) /\ Tok(2) = At(q + 1) /\ Tok(3) = At(q + 2)
    <2>1. Pos + 2 = q + 1 /\ Pos + 3 = q + 2
      BY <1>1
    <2>. QED  BY <2>1, TokIsAt
  <1>. HIDE DEF q
  <1>3. IsWord(q) /\ At(q) # Nil
    BY <1>2 DEF Word, IsWord
  <1>4. At(Pos) # "=" /\ CleanTo(Pos, Pos)
    BY DEF Between
  <1>5. IsEntry(q)
    BY <1>1, <1>3, <1>4 DEF IsEntry
  <1>6. q \in 1 .. Len(text)
    BY <1>1, <1>3, AtType
  <1>7. Valued(q) <=> HasValue
    BY <1>2 DEF Valued, HasValue
  <1>8. Valued(q) => IsWord(q + 2)
    BY <1>2, <1>7 DEF Word, IsWord
  <1>9. ASSUME NEW j \in 1 .. q + (IF Valued(q) THEN 2 ELSE 1)
        PROVE  ~WrongAt(j)
    <2>1. CASE j \in 1 .. Pos
      BY <1>4, <2>1 DEF CleanTo
    <2>2. CASE j = q
      BY <1>3, <2>2 DEF WrongAt, IsWord
    <2>3. CASE j = q + 1 /\ Valued(q)
      <3>1. At(j) = "=" /\ j - 1 = q /\ j + 1 = q + 2 /\ Bad # "="
        BY <1>1, <2>3, ConfigAssumption DEF Valued
      <3>. QED  BY <1>5, <1>8, <2>3, <3>1 DEF WrongAt
    <2>4. CASE j = q + 1 /\ ~Valued(q)
      <3>1. At(j) # "=" /\ At(j) # Bad
        BY <1>2, <1>7, <2>4 DEF Valued
      <3>. QED  BY <3>1 DEF WrongAt
    <2>5. CASE j = q + 2 /\ Valued(q)
      BY <1>8, <2>5 DEF WrongAt, IsWord
    <2>6. j \in 1 .. Pos \/ j = q \/ j = q + 1 \/ (j = q + 2 /\ Valued(q))
      BY <1>1
    <2>. QED  BY <2>1, <2>2, <2>3, <2>4, <2>5, <2>6
  <1>10. CleanTo(q - 1, q + (IF Valued(q) THEN 2 ELSE 1))
    BY <1>1, <1>4, <1>9 DEF CleanTo
  <1>. QED  BY <1>5, <1>6, <1>7, <1>8, <1>10 DEF AtQ, q

(* What Between and AtEntry say carries over when the text stays. *)
LEMMA EntryNext ==
    ASSUME Reading, text' = text, options' = options, images' = images,
           NEW q \in Int, AtQ(q), TablesTo(q - 1), Cur' = q, cpc' = "set",
           item' = At(q), value' = ValueAt(q)
    PROVE  AtEntry'
  <1>1. /\ q \in 1 .. Len(text) /\ IsEntry(q) /\ (Valued(q) => IsWord(q + 2))
        /\ CleanTo(q - 1, q + (IF Valued(q) THEN 2 ELSE 1))
    BY DEF AtQ
  <1>2. /\ IsEntry(q)' /\ (Valued(q)' <=> Valued(q)) /\ (Valued(q)' => IsWord(q + 2)')
        /\ item' = At(q)' /\ value' = ValueAt(q)'
    BY <1>1, SameAt DEF ValueAt
  <1>3. \A b, w : CleanTo(b, w) => CleanTo(b, w)'
    BY SameAt, SameSection DEF CleanTo
  <1>4. TablesTo(q - 1)'
    BY SameMeant, SameSection DEF TablesTo
  <1>. QED  BY <1>1, <1>2, <1>3, <1>4 DEF AtEntry

LEMMA StepNext ==
    ASSUME CInv, NextWithValue \/ NextAlone
    PROVE  CInv'
  <1>. DEFINE q == Pos + 1
  <1>1. /\ Reading /\ Between /\ cpc = "next" /\ Word(1) /\ cpc' = "set" /\ item' = Tok(1)
        /\ text' = text /\ options' = options /\ images' = images
        /\ IF HasValue THEN Word(3) ELSE Tok(2) # Bad
    BY DEF CInv, NextWithValue, NextAlone
  <1>2. AtQ(q) /\ (Valued(q) <=> HasValue) /\ TablesTo(Pos)
    BY <1>1, NextIsEntry DEF Between
  <1>3. /\ Pos \in Nat /\ q \in Nat /\ q - 1 = Pos /\ currp \in Nat /\ q <= Len(text)
        /\ Len(text) \in Nat
        /\ currp - (IF last_token = Nil THEN 0 ELSE 1) = Pos
    BY <1>1, <1>2, PosType, TextType DEF AtQ, Pos
  <1>4. Tok(1) = At(q) /\ Tok(2) = At(q + 1) /\ Tok(3) = At(q + 2)
    <2>1. Pos + 2 = q + 1 /\ Pos + 3 = q + 2
      BY <1>3
    <2>. QED  BY <1>1, <2>1, TokIsAt
  <1>. HIDE DEF q
  <1>5. Reading' /\ Cur' = q /\ value' = ValueAt(q)
    <2>1. CASE NextWithValue
      <3>1. /\ HasValue /\ Valued(q) /\ value' = At(q + 2) /\ last_token' = Nil
            /\ currp' = currp + 3 - (IF last_token = Nil THEN 0 ELSE 1)
        BY <1>2, <1>4, <2>1 DEF NextWithValue, Take
      <3>2. currp' = q + 2
        BY <1>3, <3>1
      <3>3. IsWord(q + 2) /\ At(q + 2) # Nil
        BY <1>2, <3>1 DEF AtQ, IsWord
      <3>4. q + 2 \in 1 .. Len(text)
        BY <1>1, <1>3, <3>3, AtType
      <3>5. Reading'
        BY <1>1, <1>3, <3>1, <3>2, <3>4 DEF Reading
      <3>6. Cur' = q
        BY <1>3, <3>1, <3>2, <3>3 DEF Cur, Pos
      <3>. QED  BY <3>1, <3>5, <3>6 DEF ValueAt
    <2>2. CASE NextAlone /\ Tok(2) = Nil
      <3>1. /\ ~Valued(q) /\ value' = Nil /\ last_token' = Nil
            /\ currp' = currp + 1 - (IF last_token = Nil THEN 0 ELSE 1)
        BY <1>2, <2>2 DEF NextAlone, Take
      <3>2. currp' = q
        BY <1>3, <3>1
      <3>3. Reading'
        BY <1>1, <1>3, <3>1, <3>2 DEF Reading
      <3>4. Cur' = q
        BY <1>3, <3>1, <3>2 DEF Cur, Pos
      <3>. QED  BY <3>1, <3>3, <3>4 DEF ValueAt
    <2>3. CASE NextAlone /\ Tok(2) # Nil
      <3>1. /\ ~Valued(q) /\ value' = Nil /\ last_token' = Tok(2) /\ Tok(2) # Bad
            /\ currp' = currp + 2 - (IF last_token = Nil THEN 0 ELSE 1)
        BY <1>2, <2>3 DEF NextAlone
      <3>2. currp' = q + 1
        BY <1>3, <3>1
      <3>3. At(q + 1) # Nil /\ At(q + 1) # "=" /\ At(q + 1) # Bad
        BY <1>4, <2>3, <3>1 DEF Valued
      <3>4. q + 1 \in 1 .. Len(text) /\ At(q + 1) = text[q + 1] /\ At(q + 1) \in DOMAIN Lower
        BY <1>1, <1>3, <3>3, AtType
      <3>5. Reading'
        BY <1>1, <1>3, <1>4, <3>1, <3>2, <3>4 DEF Reading
      <3>6. Cur' = q
        BY <1>3, <1>4, <3>1, <3>2, <3>3 DEF Cur, Pos
      <3>. QED  BY <3>1, <3>5, <3>6 DEF ValueAt
    <2>. QED  BY <2>1, <2>2, <2>3
  <1>6. AtEntry'
    BY <1>1, <1>2, <1>3, <1>4, <1>5, EntryNext
  <1>7. Between' /\ MeansTheText'
    BY <1>1 DEF Between, MeansTheText, Returned
  <1>8. HasPath'
    BY <1>1, SameMeant DEF CInv, HasPath
  <1>. QED  BY <1>5, <1>6, <1>7, <1>8 DEF CInv

LEMMA BetweenNext ==
    ASSUME Reading, AtEntry, cpc = "set", ~Unknown(Cur), HoldTo(Pos, options', images'),
           text' = text, currp' = currp, last_token' = last_token, cpc' = "next"
    PROVE  Reading' /\ Between'
  <1>1. AtQ(Cur) /\ EndQ(Cur) = Pos /\ Cur \in Nat
    BY EntryFacts
  <1>2. Reading'
    BY DEF Reading
  <1>3. Pos' = Pos
    BY DEF Pos
  <1>4. CleanTo(Pos, Pos)
    BY <1>1, CleanAfterQ
  <1>5. Pos \in 0 .. Len(text)
    BY PosType
  <1>6. At(Pos) # "=" /\ (IsEntry(Pos) => ~Valued(Pos))
    <2>1. CASE Valued(Cur)
      <3>1. Pos = Cur + 2 /\ IsWord(Cur + 2) /\ At(Cur + 1) = "=" /\ Pos - 1 = Cur + 1
        BY <1>1, <2>1 DEF EndQ, AtQ, Valued
      <3>. QED  BY <3>1 DEF IsWord, IsEntry
    <2>2. CASE ~Valued(Cur)
      BY <1>1, <2>2 DEF EndQ, AtQ, IsEntry, IsWord
    <2>. QED  BY <2>1, <2>2
  <1>7. TablesTo(Pos)'
    <2>1. \A b : Section(b)' = Section(b)
      BY SameSection
    <2>. QED  BY <1>3, <2>1, SameMeant DEF HoldTo, TablesTo
  <1>8. CleanTo(Pos, Pos)'
    BY <1>3, <1>4, SameAt, SameSection DEF CleanTo
  <1>9. At(Pos)' # "=" /\ (IsEntry(Pos)' => ~Valued(Pos)')
    BY <1>3, <1>6, SameAt DEF At, IsEntry, Valued, IsWord
  <1>. QED  BY <1>2, <1>3, <1>5, <1>7, <1>8, <1>9 DEF Between

LEMMA StepSet ==
    ASSUME CInv, SetOption \/ SetImage
    PROVE  CInv'
  <1>1. /\ Reading /\ AtEntry /\ HasPath /\ cpc = "set" /\ cpc' = "next"
        /\ text' = text /\ currp' = currp /\ last_token' = last_token
    BY DEF CInv, SetOption, SetImage
  <1>2. HoldTo(Pos, options', images') /\ ~Unknown(Cur)
    BY <1>1, TablesAfterOption, TablesAfterImage
  <1>3. Reading' /\ Between'
    BY <1>1, <1>2, BetweenNext
  <1>4. AtEntry' /\ MeansTheText'
    BY <1>1 DEF AtEntry, MeansTheText, Returned
  <1>5. HasPath'
    <2>1. /\ DOMAIN images = 1 .. Len(images) /\ Len(images) \in Nat
          /\ images \in Seq({ images[n] : n \in DOMAIN images })
      BY <1>1, EntryFacts, ImagesType
    <2>2. \A n \in DOMAIN images : "image" \in DOMAIN images[n] \/ Bare
      BY <1>1 DEF HasPath
    <2>3. \A table, types : DOMAIN table \subseteq DOMAIN SetIn(table, types)
      BY DEF SetIn
    <2>4. CASE SetOption
      <3>1. CASE images = <<>>
        <4>1. images' = images
          BY <2>4, <3>1 DEF SetOption
        <4>. QED  BY <1>1, <2>2, <4>1, SameMeant DEF HasPath
      <3>2. CASE images # <<>>
        <4>. DEFINE N == Len(images)
        <4>1. images' = [images EXCEPT ![N] = SetIn(images[N], cf_image)]
          BY <2>4, <3>2 DEF SetOption
        <4>2. DOMAIN images' = DOMAIN images
          BY <4>1
        <4>3. ASSUME NEW n \in DOMAIN images
              PROVE  DOMAIN images[n] \subseteq DOMAIN images'[n]
          <5>1. images'[n] = IF n = N THEN SetIn(images[N], cf_image) ELSE images[n]
            BY <4>1
          <5>. QED  BY <2>3, <5>1
        <4>. QED  BY <1>1, <2>2, <4>2, <4>3, SameMeant DEF HasPath
      <3>. QED  BY <3>1, <3>2
    <2>5. CASE SetImage
      <3>. DEFINE new == SetIn(NoOptions, cf_image)
                  N == Len(images)
                  S == { images[n] : n \in DOMAIN images } \cup {new}
      <3>1. images' = Append(images, new) /\ Name = "image"
        BY <2>5 DEF SetImage
      <3>2. images \in Seq(S) /\ new \in S
        BY <2>1
      <3>3. "image" \in DOMAIN new \/ Bare
        <4>1. CASE value # Nil
          <5>1. cf_image[Name] = "strg" <=> value # Nil
            BY <3>1, <4>1, ConfigAssumption
          <5>2. new = [o \in DOMAIN NoOptions \cup {Name} |->
                          IF o = Name THEN value ELSE NoOptions[o]]
            BY <5>1 DEF SetIn
          <5>3. DOMAIN new = DOMAIN NoOptions \cup {Name}
            BY <5>2
          <5>. QED  BY <3>1, <5>3
        <4>2. CASE value = Nil
          <5>1. /\ AtQ(Cur) /\ ~Valued(Cur) /\ Name = Lower[At(Cur)]
            BY <1>1, <4>2, EntryFacts
          <5>2. Cur \in DOMAIN text /\ IsEntry(Cur)
            BY <1>1, <5>1, TextType DEF AtQ
          <5>. QED  BY <3>1, <5>1, <5>2 DEF Bare
        <4>. QED  BY <4>1, <4>2
      <3>. HIDE DEF new, S
      <3>4. /\ DOMAIN images' = 1 .. N + 1
            /\ \A n \in 1 .. N : images'[n] = images[n]
            /\ images'[N + 1] = new
        BY <3>1, <3>2
      <3>5. \A n \in 1 .. N + 1 : n \in DOMAIN images \/ n = N + 1
        BY <2>1
      <3>. QED  BY <1>1, <2>1, <2>2, <3>3, <3>4, <3>5, SameMeant DEF HasPath
    <2>. QED  BY <2>4, <2>5
  <1>. QED  BY <1>3, <1>4, <1>5 DEF CInv

(* Once nothing behind b counts, the tables are final. *)
LEMMA FinalTables ==
    ASSUME Reading, NEW b \in Nat, b <= Len(text), TablesTo(b),
           \A k \in 1 .. b : IsEntry(k) => Counts(k),
           \A k \in DOMAIN text : k > b => ~Counts(k)
    PROVE  /\ options = Meant(0, cf_options)
           /\ Len(images) = Cardinality(MeantImages)
           /\ \A n \in DOMAIN images : images[n] = Meant(n, cf_image)
  <1>1. DOMAIN text = 1 .. Len(text) /\ Len(text) \in Nat
    BY TextType
  <1>2. \A n, o : Setting(n, o) = SettingTo(b, n, o)
    <2>1. \A n, o : \A k \in Setting(n, o) : k <= b
      BY <1>1 DEF Setting
    <2>. QED  BY <2>1 DEF SettingTo
  <1>3. \A n, types : Meant(n, types) = MeantTo(b, n, types)
    BY <1>2 DEF Meant, MeantTo, ValueAt
  <1>4. MeantImages = Section(b)
    <2>1. ASSUME NEW k \in MeantImages
          PROVE  k \in Section(b)
      BY <1>1 DEF MeantImages, Section, Counts
    <2>2. ASSUME NEW k \in Section(b)
          PROVE  k \in MeantImages
      BY <1>1 DEF MeantImages, Section
    <2>. QED  BY <2>1, <2>2
  <1>5. Len(images) = Cardinality(Section(b)) /\ DOMAIN images = 1 .. Cardinality(Section(b))
    BY ImagesType
  <1>. QED  BY <1>3, <1>4, <1>5 DEF TablesTo

LEMMA FinalMeans ==
    ASSUME CInv, UNCHANGED <<text, currp, last_token, item, value, options, images>>,
           cpc' \in {"done", "failed"},
           cpc' = "failed" <=> (\E k \in DOMAIN text : WrongAt(k) \/ Unknown(k)),
           options = Meant(0, cf_options),
           Len(images) = Cardinality(MeantImages),
           \A n \in DOMAIN images : images[n] = Meant(n, cf_image)
    PROVE  CInv'
  <1>1. Reading'
    BY DEF CInv, Reading
  <1>2. Between' /\ AtEntry'
    BY DEF Between, AtEntry
  <1>3. HasPath'
    BY SameMeant DEF CInv, HasPath
  <1>4. MeansTheText'
    <2>1. cpc' = "failed" <=> (\E k \in DOMAIN text' : WrongAt(k)' \/ Unknown(k)')
      BY SameAt, SameSection
    <2>. QED  BY <2>1, SameMeant DEF MeansTheText
  <1>. QED  BY <1>1, <1>2, <1>3, <1>4 DEF CInv

LEMMA StepEnds ==
    ASSUME CInv, ParseEnds
    PROVE  CInv'
  <1>1. /\ Reading /\ Between /\ cpc = "next" /\ Tok(1) = Nil /\ cpc' = "done"
        /\ UNCHANGED <<text, currp, last_token, item, value, options, images>>
    BY DEF CInv, ParseEnds
  <1>2. Pos \in Nat /\ Pos <= Len(text) /\ DOMAIN text = 1 .. Len(text) /\ Len(text) \in Nat
    BY <1>1, PosType, TextType
  <1>3. Pos = Len(text)
    <2>1. At(Pos + 1) = Nil
      BY <1>1, TokIsAt
    <2>2. Pos + 1 \notin 1 .. Len(text)
      BY <1>1, <1>2, <2>1, AtType
    <2>3. \A a, b \in Nat : a <= b /\ a + 1 \notin 1 .. b => a = b
      OBVIOUS
    <2>. QED  BY <1>2, <2>2, <2>3
  <1>4. CleanTo(Pos, Pos) /\ TablesTo(Pos)
    BY <1>1 DEF Between
  <1>5. ~\E k \in DOMAIN text : WrongAt(k) \/ Unknown(k)
    BY <1>2, <1>3, <1>4 DEF CleanTo
  <1>6. /\ \A k \in 1 .. Pos : IsEntry(k) => Counts(k)
        /\ \A k \in DOMAIN text : k > Pos => ~Counts(k)
    BY <1>2, <1>3, <1>4 DEF CleanTo
  <1>7. /\ options = Meant(0, cf_options)
        /\ Len(images) = Cardinality(MeantImages)
        /\ \A n \in DOMAIN images : images[n] = Meant(n, cf_image)
    BY <1>1, <1>2, <1>4, <1>6, FinalTables
  <1>. QED  BY <1>1, <1>5, <1>7, FinalMeans

(* An error: nothing from token w on takes effect. *)
LEMMA StepFails ==
    ASSUME CInv, cpc' = "failed",
           UNCHANGED <<text, currp, last_token, item, value, options, images>>,
           NEW b \in Nat, b <= Len(text), TablesTo(b), CleanTo(b, b),
           \E k \in DOMAIN text : WrongAt(k) \/ Unknown(k),
           \A k \in DOMAIN text : k > b => ~Counts(k)
    PROVE  CInv'
  <1>1. \A k \in 1 .. b : IsEntry(k) => Counts(k)
    BY DEF CleanTo
  <1>2. Reading
    BY DEF CInv
  <1>3. /\ options = Meant(0, cf_options)
        /\ Len(images) = Cardinality(MeantImages)
        /\ \A n \in DOMAIN images : images[n] = Meant(n, cf_image)
    BY <1>1, <1>2, FinalTables
  <1>. QED  BY <1>3, FinalMeans

LEMMA StepError ==
    ASSUME CInv, ParseError
    PROVE  CInv'
  <1>1. /\ Reading /\ Between /\ cpc = "next" /\ cpc' = "failed"
        /\ UNCHANGED <<text, currp, last_token, item, value, options, images>>
    BY DEF CInv, ParseError
  <1>2. Pos \in Nat /\ Pos <= Len(text) /\ DOMAIN text = 1 .. Len(text) /\ Len(text) \in Nat
    BY <1>1, PosType, TextType
  <1>3. Tok(1) = At(Pos + 1) /\ Tok(2) = At(Pos + 2) /\ Tok(3) = At(Pos + 3)
    BY <1>1, TokIsAt
  <1>4. /\ IsEntry(Pos) => ~Valued(Pos)
        /\ CleanTo(Pos, Pos) /\ TablesTo(Pos)
    BY <1>1 DEF Between
  <1>5. "=" # Nil /\ Bad # Nil
    BY ConfigAssumption
  <1>6. WrongAt(Pos + 1) \/ WrongAt(Pos + 2)
    <2>1. CASE Tok(1) = Bad \/ Tok(2) = Bad
      BY <1>3, <2>1 DEF WrongAt
    <2>2. CASE Tok(1) = "="
      <3>1. (Pos + 1) - 1 = Pos
        BY <1>2
      <3>2. ~IsEntry(Pos)
        BY <1>3, <1>4, <2>2 DEF Valued
      <3>. QED  BY <1>3, <2>2, <3>1, <3>2 DEF WrongAt
    <2>3. CASE HasValue /\ Tok(3) \in {Nil, "=", Bad}
      <3>1. (Pos + 2) + 1 = Pos + 3 /\ At(Pos + 2) = "="
        BY <1>2, <1>3, <2>3 DEF HasValue
      <3>2. ~IsWord(Pos + 3)
        BY <1>3, <2>3 DEF IsWord
      <3>. QED  BY <3>1, <3>2 DEF WrongAt
    <2>. QED  BY <2>1, <2>2, <2>3 DEF ParseError
  <1>7. PICK w \in {Pos + 1, Pos + 2} : WrongAt(w)
    BY <1>6
  <1>8. w \in DOMAIN text
    <2>1. At(w) # Nil /\ w \in Int
      BY <1>2, <1>5, <1>7 DEF WrongAt
    <2>. QED  BY <1>1, <1>2, <2>1, AtType
  <1>9. ASSUME NEW k \in DOMAIN text, k > Pos
        PROVE  ~Counts(k)
    <2>1. w \in 1 .. k + (IF Valued(k) THEN 2 ELSE 1)
      BY <1>2, <1>8, <1>9
    <2>. QED  BY <1>7, <2>1 DEF Counts
  <1>. QED  BY <1>1, <1>2, <1>4, <1>7, <1>8, <1>9, StepFails

LEMMA StepUnknown ==
    ASSUME CInv, SetUnknown
    PROVE  CInv'
  <1>1. /\ Reading /\ AtEntry /\ cpc = "set" /\ cpc' = "failed" /\ Name # "image"
        /\ UNCHANGED <<text, currp, last_token, item, value, options, images>>
        /\ Name \notin DOMAIN CurrTypes
    BY DEF CInv, SetUnknown
  <1>2. Unknown(Cur)
    BY <1>1, TypesAtEntry
  <1>3. AtQ(Cur) /\ Cur \in Nat /\ Cur - 1 \in Nat /\ TablesTo(Cur - 1)
    BY <1>1, EntryFacts
  <1>4. Cur \in DOMAIN text /\ Cur - 1 <= Len(text) /\ DOMAIN text \subseteq Nat
    BY <1>1, <1>3, TextType DEF AtQ
  <1>5. CleanTo(Cur - 1, Cur - 1)
    BY <1>3 DEF AtQ, CleanTo
  <1>6. ASSUME NEW k \in DOMAIN text, k > Cur - 1
        PROVE  ~Counts(k)
    <2>1. Cur \in 1 .. k
      BY <1>1, <1>3, <1>4, <1>6, TextType DEF AtQ
    <2>. QED  BY <1>2, <2>1 DEF Counts
  <1>. QED  BY <1>1, <1>2, <1>3, <1>4, <1>5, <1>6, StepFails

LEMMA ConfigStutter ==
    ASSUME CInv, UNCHANGED configVars
    PROVE  CInv'
  <1>1. UNCHANGED <<cpc, text, currp, last_token, item, value, options, images>>
    BY DEF configVars
  <1>2. Pos' = Pos /\ Cur' = Cur
    BY <1>1 DEF Pos, Cur
  <1>3. Reading'
    BY <1>1 DEF CInv, Reading
  <1>4. \A b : TablesTo(b)' <=> TablesTo(b)
    BY <1>1, SameSection, SameMeant DEF TablesTo
  <1>5. \A b, w : CleanTo(b, w)' <=> CleanTo(b, w)
    BY <1>1, SameAt, SameSection DEF CleanTo
  <1>6. /\ \A k : At(k)' = At(k)
        /\ \A k : IsWord(k)' <=> IsWord(k)
        /\ \A k : IsEntry(k)' <=> IsEntry(k)
        /\ \A k : Valued(k)' <=> Valued(k)
        /\ \A k : WrongAt(k)' <=> WrongAt(k)
        /\ \A k : Unknown(k)' <=> Unknown(k)
        /\ \A k : ValueAt(k)' = ValueAt(k)
    BY <1>1, SameAt, SameSection DEF ValueAt
  <1>7. Between'
    <2>1. /\ TablesTo(Pos)' <=> TablesTo(Pos)
          /\ CleanTo(Pos, Pos)' <=> CleanTo(Pos, Pos)
          /\ At(Pos)' = At(Pos) /\ (IsEntry(Pos)' <=> IsEntry(Pos)) /\ (Valued(Pos)' <=> Valued(Pos))
      BY <1>1, <1>2, <1>4, <1>5, <1>6
    <2>. QED  BY <1>1, <1>2, <2>1 DEF CInv, Between
  <1>8. AtEntry'
    BY <1>1, <1>2, <1>4, <1>5, <1>6 DEF CInv, AtEntry
  <1>9. HasPath'
    BY <1>1, SameMeant DEF CInv, HasPath
  <1>10. MeansTheText'
    BY <1>1, <1>6, SameMeant DEF CInv, MeansTheText, Returned
  <1>. QED  BY <1>3, <1>7, <1>8, <1>9, <1>10 DEF CInv

LEMMA ConfigStarts ==
    ASSUME ConfigInit
    PROVE  CInv
  <1>1. /\ cpc = "next" /\ text \in Texts /\ currp = 0 /\ last_token = Nil
        /\ options = NoOptions /\ images = <<>>
    BY DEF ConfigInit
  <1>2. text \in Seq(DOMAIN Lower \cup {"=", Bad}) /\ Len(text) \in Nat
    BY <1>1, ConfigAssumption
  <1>3. Reading
    BY <1>1, <1>2 DEF Reading
  <1>4. Pos = 0 /\ At(0) = Nil /\ Nil # "="
    BY <1>1, <1>2, ConfigAssumption DEF Pos, At
  <1>5. ~IsEntry(0)
    BY <1>4 DEF IsEntry, IsWord
  <1>6. CleanTo(0, 0)
    BY DEF CleanTo
  <1>7. Section(0) = {} /\ Cardinality(Section(0)) = 0
    <2>1. Section(0) = {}
      BY DEF Section
    <2>. QED  BY <2>1, SectionFinite
  <1>8. TablesTo(0)
    <2>1. \A n, o : SettingTo(0, n, o) = {}
      BY <1>3, TextType DEF SettingTo, Setting
    <2>2. MeantTo(0, 0, cf_options) = NoOptions
      BY <2>1 DEF MeantTo, NoOptions
    <2>3. images = [n \in 1 .. Cardinality(Section(0)) |-> MeantTo(0, n, cf_image)]
      BY <1>1, <1>7
    <2>. QED  BY <1>1, <2>2, <2>3 DEF TablesTo
  <1>9. Between
    BY <1>2, <1>4, <1>5, <1>6, <1>8 DEF Between
  <1>10. AtEntry /\ MeansTheText
    BY <1>1 DEF AtEntry, MeansTheText, Returned
  <1>11. HasPath
    BY <1>1 DEF HasPath
  <1>. QED  BY <1>3, <1>9, <1>10, <1>11 DEF CInv

(* The inductive invariant of cfg_parse: up to the position it has come to *)
(* nothing was wrong, and the tables hold what that much of the text says. *)
THEOREM ConfigInductive == ConfigSpec => []CInv
  <1>1. ConfigInit => CInv
    BY ConfigStarts
  <1>2. CInv /\ [ConfigNext]_configVars => CInv'
    <2>. SUFFICES ASSUME CInv, [ConfigNext]_configVars
                  PROVE  CInv'
      OBVIOUS
    <2>1. CASE ParseStep
      BY <2>1, StepEnds, StepError, StepNext, StepSet, StepUnknown DEF ParseStep
    <2>2. CASE Stop \/ UNCHANGED configVars
      BY <2>2, ConfigStutter DEF Stop
    <2>. QED  BY <2>1, <2>2 DEF ConfigNext
  <1>. QED  BY <1>1, <1>2, PTL DEF ConfigSpec

(* What cfg_parse leaves in the tables is what the text means, also after  *)
(* an error: for every file, however long, and every set of options.       *)
THEOREM ParsedAsMeant == ConfigSpec => []MeansTheText
  <1>1. CInv => MeansTheText
    BY DEF CInv
  <1>. QED  BY <1>1, ConfigInductive, PTL

(* An image without a path and a label comes only from an "image" that was *)
(* given no value.                                                         *)
THEOREM NamedUnlessBare == ConfigSpec => []NamelessOnlyIfBare
  <1>1. CInv => NamelessOnlyIfBare
    BY DEF CInv, HasPath, Bare, NamelessOnlyIfBare, Nameless
  <1>. QED  BY <1>1, ConfigInductive, PTL

(* Every variable has its type; only known options are ever set. *)
THEOREM ConfigTypeCorrect == ConfigSpec => []ConfigTypeOK
  <1>1. ASSUME CInv
        PROVE  ConfigTypeOK
    <2>1. /\ Reading /\ currp \in 0 .. Len(text) /\ last_token \in DOMAIN Lower \cup {Nil}
          /\ cpc \in {"next", "set", "done", "failed"}
      BY <1>1 DEF CInv, Reading
    <2>2. ASSUME cpc = "set"
          PROVE  item \in DOMAIN Lower /\ value \in DOMAIN Lower \cup {Nil}
      <3>1. /\ Cur \in Int /\ IsWord(Cur) /\ item = At(Cur) /\ value = ValueAt(Cur)
            /\ (Valued(Cur) => IsWord(Cur + 2))
        BY <1>1, <2>1, <2>2, TextType DEF CInv, AtEntry, IsEntry
      <3>2. At(Cur) \in DOMAIN Lower /\ (Valued(Cur) => At(Cur + 2) \in DOMAIN Lower)
        BY <2>1, <3>1, AtType
      <3>. QED  BY <3>1, <3>2 DEF ValueAt
    <2>3. /\ \A b, n, types : DOMAIN MeantTo(b, n, types) \subseteq DOMAIN types
          /\ \A n, types : DOMAIN Meant(n, types) \subseteq DOMAIN types
      BY DEF MeantTo, Meant
    <2>4. /\ DOMAIN options \subseteq DOMAIN cf_options
          /\ \A n \in DOMAIN images : DOMAIN images[n] \subseteq DOMAIN cf_image
      <3>1. CASE cpc \in {"next", "set"}
        <4>1. PICK b : TablesTo(b)
          BY <1>1, <3>1 DEF CInv, Between, AtEntry
        <4>. QED  BY <2>3, <4>1 DEF TablesTo
      <3>2. CASE cpc \in {"done", "failed"}
        BY <1>1, <2>3, <3>2 DEF CInv, MeansTheText, Returned
      <3>. QED  BY <2>1, <3>1, <3>2
    <2>. QED  BY <2>1, <2>2, <2>4 DEF ConfigTypeOK
  <1>. QED  BY <1>1, ConfigInductive, PTL
=============================================================================
