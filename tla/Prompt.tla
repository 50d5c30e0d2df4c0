------------------------------- MODULE Prompt -------------------------------
(***************************************************************************)
(* From the firmware's boot arguments to the paths that are loaded:        *)
(* env_init (env.c), load_config, get_params, make_params and              *)
(* get_load_paths (main.c), the lookups of cfg.c they make, file_path and  *)
(* file_cmd_dev (file.c), the commands that change boot_info_t, and the    *)
(* last decisions of iquik_main.  Loading itself is the Loader module: it  *)
(* appears here as LoadFails and LoadSucceeds.                             *)
(*                                                                         *)
(* A line is a sequence of words (word_split takes its head); a word is    *)
(* described by how file_path reads it.  The tables of cfg.c are functions *)
(* from the options that are set to their values.                          *)
(***************************************************************************)
EXTENDS Integers, Sequences, FiniteSets

CONSTANTS
    NULL,
    Words,       \* words of the boot arguments and of typed lines
    PathSpec,    \* how file_path reads a word
    BaseName,    \* the part of a word behind its last slash
    Confs,       \* configuration files: <<device, part, path>> to tables
    BootArgs,    \* values of /chosen/bootargs
    BootFiles,   \* values of boot-file, at most one word each
    Lines        \* what the user may type

(* An option that is set has a value, and these are words. *)
TableOk(table) ==
    \A o \in DOMAIN table :
        table[o] # NULL /\ (o \in {"image", "initrd", "label", "default"} => table[o] \in Words)

(* form: "short" (a path without a device), "full" (device:part and maybe  *)
(* a path), "bad" (neither; no colon in it, as env_init splits at one).    *)
(* file is NULL when the word ends with the partition number.              *)
ASSUME PromptAssumption ==
    /\ NULL \notin Words
    /\ \A w \in Words :
         /\ PathSpec[w].form \in {"short", "full", "bad"}
         /\ PathSpec[w].form = "full" => PathSpec[w].device # NULL /\ PathSpec[w].part # NULL
         /\ BaseName[w] \in Words
    /\ \A c \in DOMAIN Confs :
         /\ DOMAIN Confs[c] = {"global", "images"}
         /\ TableOk(Confs[c].global)
         /\ Confs[c].images = <<>> \/ 1 \in DOMAIN Confs[c].images
         /\ \A n \in DOMAIN Confs[c].images :
              /\ TableOk(Confs[c].images[n])
              /\ {"image", "label"} \cap DOMAIN Confs[c].images[n] # {}
    /\ BootArgs \subseteq Seq(Words)
    /\ \A bf \in BootFiles : bf \in Seq(Words) /\ Len(bf) <= 1
    /\ Lines \subseteq Seq(Words)

VARIABLES
    ppc,            \* where iquik_main is
    flags,          \* bi->flags
    default_dev,    \* bi->default_dev: device and part, NULL when not valid
    config_file,    \* bi->config_file
    bootargs,       \* bi->bootargs
    pause_message,  \* bi->pause_message
    config,         \* the tables of cfg.c: global options and images
    req,            \* what get_load_paths resolved last
    paused,         \* prom_pause was called before the hand-over
    autos,          \* history: unattended boot attempts
    chosen          \* history: labels whose options get_params has taken over

biVars == <<flags, default_dev, config_file, bootargs, pause_message, config>>
histVars == <<autos, chosen>>
vars == <<ppc, biVars, req, paused, histVars>>

Flags == {"CONFIG_VALID", "PAUSE_BEFORE_BOOT", "DEBUG_BEFORE_BOOT", "TRIED_AUTO",
          "BOOT_PRE_2_4", "SHIM_OF", "WITH_PREBOOT"}

NoDev == [device |-> NULL, part |-> NULL]
NoConfig == [global |-> <<>>, images |-> <<>>]
NoPath == [device |-> NULL, part |-> NULL, file |-> NULL]
NoReq == [auto |-> FALSE, label |-> NULL, kernel |-> NoPath, initrd |-> NoPath,
          kernel_spec |-> NULL, initrd_spec |-> NULL, params |-> <<>>]

(* env_dev_is_valid *)
IsValid(dev) == dev.device # NULL /\ dev.part # NULL

-----------------------------------------------------------------------------
(* cfg.c *)

cfg_get_strg_i(table, item) == IF item \in DOMAIN table THEN table[item] ELSE NULL

LabelOf(table) ==
    IF "label" \in DOMAIN table THEN table["label"] ELSE BaseName[table["image"]]

Matches(table, name) ==
    LabelOf(table) = name \/ cfg_get_strg_i(table, "alias") = name

(* The first image of that label or alias, else none. *)
ImageNamed(name) ==
    { n \in DOMAIN config.images :
        /\ Matches(config.images[n], name)
        /\ \A m \in 1 .. n - 1 : ~Matches(config.images[m], name) }

cfg_get_strg(name, item) ==
    IF name = NULL THEN cfg_get_strg_i(config.global, item)
    ELSE IF ImageNamed(name) = {} THEN NULL
    ELSE LET table == config.images[CHOOSE n \in ImageNamed(name) : TRUE]
         IN  IF item \in DOMAIN table THEN table[item]
             ELSE cfg_get_strg_i(config.global, item)

cfg_get_default ==
    IF "default" \in DOMAIN config.global THEN config.global["default"]
    ELSE IF config.images = <<>> THEN NULL
    ELSE LabelOf(config.images[1])

-----------------------------------------------------------------------------
(* env_init *)

First(line) == IF line = <<>> THEN NULL ELSE Head(line)
Rest(line) == IF line = <<>> THEN <<>> ELSE Tail(line)

(* The first word of the boot arguments names the default device; none, or *)
(* dashes, defer to boot-file, which a preboot script must have set.       *)
EnvInit(ba, bf) ==
    LET preboot == "WITH_PREBOOT" \in flags
        line == IF preboot THEN bf ELSE ba
        useBootFile == First(line) \in {NULL, "--"}
        word == IF useBootFile THEN First(bf) ELSE First(line)
    IN  /\ ppc = "start"
        /\ bootargs' = Rest(line)
        /\ IF useBootFile /\ preboot
           THEN /\ ppc' = "exit"
                /\ UNCHANGED <<default_dev, config_file>>
           ELSE /\ ppc' = "config"
                /\ IF word # NULL /\ PathSpec[word].form = "full"
                   THEN /\ default_dev' = [device |-> PathSpec[word].device,
                                           part |-> PathSpec[word].part]
                        /\ config_file' = IF PathSpec[word].file = NULL
                                          THEN "/etc/quik.conf" ELSE PathSpec[word].file
                   ELSE /\ default_dev' = [device |-> IF word = NULL THEN "" ELSE word,
                                           part |-> NULL]
                        /\ UNCHANGED config_file
        /\ UNCHANGED <<flags, pause_message, config, req, paused, histVars>>

-----------------------------------------------------------------------------
(* load_config *)

Attempts == <<config_file, "/boot/iquik.conf", "/boot/quik.conf", "/boot/iquik.conf", "/quik.conf">>

ConfAt(file) == <<default_dev.device, default_dev.part, file>>
Found(n) == ConfAt(Attempts[n]) \in DOMAIN Confs

(* No valid default device, no file found, or the file cannot be read. *)
LoadConfigFails ==
    /\ ppc = "config"
    /\ ppc' = "prompt"
    /\ UNCHANGED <<biVars, req, paused, histVars>>

LoadConfig ==
    /\ ppc = "config"
    /\ IsValid(default_dev)
    /\ \E n \in DOMAIN Attempts :
         /\ Found(n)
         /\ \A m \in 1 .. n - 1 : ~Found(m)
         /\ LET conf == Confs[ConfAt(Attempts[n])]
                Global(item, old) ==
                    IF item \in DOMAIN conf.global THEN conf.global[item] ELSE old
            IN  /\ config' = conf
                /\ flags' = flags \cup {"CONFIG_VALID"}
                /\ default_dev' = [device |-> Global("device", default_dev.device),
                                   part |-> Global("partition", default_dev.part)]
                /\ pause_message' = Global("pause-message", pause_message)
    /\ ppc' = "prompt"
    /\ UNCHANGED <<config_file, bootargs, req, paused, histVars>>

-----------------------------------------------------------------------------
(* file_path: the path a word stands for, given the device to default to. *)

PathOk(word, dev) ==
    \/ PathSpec[word].form = "full"
    \/ PathSpec[word].form = "short" /\ IsValid(dev)

file_path(word, dev) ==
    IF PathSpec[word].form = "short"
    THEN [device |-> dev.device, part |-> dev.part, file |-> PathSpec[word].file]
    ELSE [device |-> PathSpec[word].device, part |-> PathSpec[word].part,
          file |-> IF PathSpec[word].file = NULL THEN "/" ELSE PathSpec[word].file]

-----------------------------------------------------------------------------
(* get_params: what the first pass would boot, and for how long it waits. *)

AutoKernel == IF bootargs # <<>> THEN Head(bootargs) ELSE cfg_get_default

Timeout ==
    IF "TRIED_AUTO" \in flags THEN -1
    ELSE IF bootargs # <<>> THEN 0
    ELSE IF "CONFIG_VALID" \in flags /\ cfg_get_strg(NULL, "timeout") # NULL
         THEN cfg_get_strg(NULL, "timeout")
    ELSE -1

(* A key can arrive before the default is taken only if there is a wait. *)
CanType == Timeout = -1 \/ Timeout > 0

(* make_params: the arguments a label stands for, before the user's own. *)
ParamOrder == <<"root", "read-only", "read-write", "ramdisk", "append">>

LabelParams(label) ==
    IF cfg_get_strg(label, "literal") # NULL THEN <<"literal">>
    ELSE LET Given(o) == cfg_get_strg(label, o) # NULL IN SelectSeq(ParamOrder, Given)

(* make_params comes to pause-after unless the label has literal. *)
AsksPause(label) ==
    cfg_get_strg(label, "literal") = NULL /\ cfg_get_strg(label, "pause-after") # NULL

Toggle(fl, flag) == IF flag \in fl THEN fl \ {flag} ELSE fl \cup {flag}

(* Mutant: old-kernel is set for a label but never cleared. *)
FlagsForNeverClears(label, fl) ==
    LET old == IF cfg_get_strg(label, "old-kernel") # NULL
               THEN fl \cup {"BOOT_PRE_2_4"} ELSE fl
    IN  IF AsksPause(label) THEN old \cup {"PAUSE_BEFORE_BOOT"} ELSE old

(* Mutant: pause-after toggles its flag, as !old does. *)
FlagsForTogglesPause(label, fl) ==
    LET old == IF cfg_get_strg(label, "old-kernel") # NULL
               THEN fl \cup {"BOOT_PRE_2_4"} ELSE fl \ {"BOOT_PRE_2_4"}
    IN  IF AsksPause(label) THEN Toggle(old, "PAUSE_BEFORE_BOOT") ELSE old

(* The flags get_params leaves for a label, make_params included. *)
FlagsFor(label, fl) ==
    LET old == IF cfg_get_strg(label, "old-kernel") # NULL
               THEN fl \cup {"BOOT_PRE_2_4"} ELSE fl \ {"BOOT_PRE_2_4"}
    IN  IF AsksPause(label) THEN old \cup {"PAUSE_BEFORE_BOOT"} ELSE old

MessageFor(label) ==
    IF cfg_get_strg(label, "literal") = NULL /\ cfg_get_strg(label, "pause-message") # NULL
    THEN cfg_get_strg(label, "pause-message") ELSE pause_message

(* The device get_params fills in from the options of a label: its own, or *)
(* else the global ones.                                                   *)
LabelDev(label) == [device |-> cfg_get_strg(label, "device"),
                    part |-> cfg_get_strg(label, "partition")]

(* env_dev_update_from_default: a valid default device replaces what       *)
(* get_params filled in, local device= and partition= included.            *)
CurDev(dev) == IF IsValid(default_dev) THEN default_dev ELSE dev

(* Mutant: the initrd is always looked for next to the kernel. *)
InitrdNextToKernel(dev, kernelPath) == [device |-> kernelPath.device, part |-> kernelPath.part]

(* Without any device at all, the initrd is looked for next to the kernel. *)
InitrdDev(dev, kernelPath) ==
    IF IsValid(dev) THEN dev ELSE [device |-> kernelPath.device, part |-> kernelPath.part]

(* Mutant: TRIED_AUTO is toggled in every pass. *)
TriedToggles(fl) == Toggle(fl, "TRIED_AUTO")

(* get_params toggles TRIED_AUTO in the first pass. *)
Tried(fl) == IF "TRIED_AUTO" \notin fl THEN Toggle(fl, "TRIED_AUTO") ELSE fl

(***************************************************************************)
(* get_load_paths for a kernel word and its arguments, from the lookup of  *)
(* the label to the parsed paths.  Flags set for a label stay set when a   *)
(* path turns out bad.                                                     *)
(***************************************************************************)
GetLoadPaths(kernel, args, auto) ==
    LET valid == "CONFIG_VALID" \in flags
        imagePath == IF valid THEN cfg_get_strg(kernel, "image") ELSE NULL
        label == IF imagePath # NULL THEN kernel ELSE NULL
        spec == IF label # NULL THEN imagePath ELSE kernel
        dashes == label = NULL /\ Len(args) > 1 /\ Head(args) = "--"
        globalInitrd == IF valid THEN cfg_get_strg(NULL, "initrd") ELSE NULL
        initrdSpec == IF label # NULL THEN cfg_get_strg(label, "initrd")
                      ELSE IF dashes THEN globalInitrd
                      ELSE First(args)
        params == IF label # NULL THEN LabelParams(label) \o args ELSE Rest(args)
        dev == CurDev(IF label # NULL THEN LabelDev(label) ELSE NoDev)
        kernelPath == file_path(spec, dev)
        initrdDev == InitrdDev(dev, kernelPath)
        ok == /\ PathOk(spec, dev)
              /\ initrdSpec # NULL => PathOk(initrdSpec, initrdDev)
        tried == Tried(flags)
    IN  IF kernel = NULL
        THEN /\ flags' = tried
             /\ UNCHANGED <<ppc, pause_message, req, chosen>>
        ELSE /\ flags' = IF label # NULL THEN FlagsFor(label, tried) ELSE tried
             /\ pause_message' = IF label # NULL THEN MessageFor(label) ELSE pause_message
             /\ chosen' = chosen \cup ({label} \ {NULL})
             /\ IF ok
                THEN /\ ppc' = "loading"
                     /\ req' = [auto |-> auto, label |-> label, kernel |-> kernelPath,
                                initrd |-> IF initrdSpec = NULL THEN NoPath
                                           ELSE file_path(initrdSpec, initrdDev),
                                kernel_spec |-> spec, initrd_spec |-> initrdSpec,
                                params |-> params]
                ELSE UNCHANGED <<ppc, req>>

(* Enter, or no key before the time-out: the default is booted. *)
AutoBoot ==
    /\ ppc = "prompt"
    /\ Timeout # -1
    /\ GetLoadPaths(AutoKernel, Rest(bootargs), TRUE)
    /\ autos' = autos + 1
    /\ UNCHANGED <<default_dev, config_file, bootargs, config, paused>>

(* The user types a line that is not a command. *)
TypeLine(line) ==
    /\ ppc = "prompt"
    /\ CanType
    /\ GetLoadPaths(First(line), Rest(line), FALSE)
    /\ UNCHANGED <<default_dev, config_file, bootargs, config, paused, autos>>

-----------------------------------------------------------------------------
(* Commands.  After one, get_params returns ERR_NOT_READY. *)

Command ==
    /\ ppc = "prompt"
    /\ CanType
    /\ UNCHANGED <<ppc, config_file, bootargs, pause_message, config, req, paused, histVars>>

(* !old *)
CmdOld ==
    /\ Command
    /\ flags' = Toggle(Tried(flags), "BOOT_PRE_2_4")
    /\ UNCHANGED default_dev

(* !debug *)
CmdDebug ==
    /\ Command
    /\ flags' = Tried(flags) \cup {"SHIM_OF", "DEBUG_BEFORE_BOOT"}
    /\ UNCHANGED default_dev

(* !dev, with a path that may be bad *)
CmdDev(word) ==
    /\ Command
    /\ flags' = Tried(flags)
    /\ default_dev' = IF PathOk(word, default_dev)
                      THEN LET p == file_path(word, default_dev)
                           IN  [device |-> p.device, part |-> p.part]
                      ELSE default_dev

-----------------------------------------------------------------------------
(* try_load_loop comes back with an error, or the loop ends. *)

LoadFails ==
    /\ ppc = "loading"
    /\ ppc' = "prompt"
    /\ UNCHANGED <<biVars, req, paused, histVars>>

LoadSucceeds ==
    /\ ppc = "loading"
    /\ ppc' = "loaded"
    /\ UNCHANGED <<biVars, req, paused, histVars>>

(* elf_relo refuses an old kernel that is too large. *)
ReloFails ==
    /\ ppc = "loaded"
    /\ "BOOT_PRE_2_4" \in flags
    /\ ppc' = "exit"
    /\ UNCHANGED <<biVars, req, paused, histVars>>

(* No shim for old kernels; pause if asked to; jump. *)
HandOver ==
    /\ ppc = "loaded"
    /\ flags' = IF "BOOT_PRE_2_4" \in flags THEN flags \ {"SHIM_OF"} ELSE flags
    /\ paused' = (flags \cap {"DEBUG_BEFORE_BOOT", "PAUSE_BEFORE_BOOT"} # {})
    /\ ppc' = "booted"
    /\ UNCHANGED <<default_dev, config_file, bootargs, pause_message, config, req, histVars>>

(* The kernel has control, or prom_exit was called. *)
Done == ppc \in {"booted", "exit"} /\ UNCHANGED vars

Init ==
    /\ ppc = "start"
    /\ flags \in SUBSET {"SHIM_OF", "WITH_PREBOOT"}
    /\ default_dev = NoDev
    /\ config_file = NULL
    /\ bootargs = <<>>
    /\ pause_message = NULL
    /\ config = NoConfig
    /\ req = NoReq
    /\ paused = FALSE
    /\ autos = 0
    /\ chosen = {}

Next ==
    \/ \E ba \in BootArgs, bf \in BootFiles : EnvInit(ba, bf)
    \/ LoadConfig \/ LoadConfigFails
    \/ AutoBoot
    \/ \E line \in Lines : TypeLine(line)
    \/ CmdOld \/ CmdDebug
    \/ \E w \in Words : CmdDev(w)
    \/ LoadFails \/ LoadSucceeds
    \/ ReloFails \/ HandOver
    \/ Done

Spec == Init /\ [][Next]_vars

-----------------------------------------------------------------------------
(* Every component of boot_info_t holds a value of its kind. *)
TypeOK ==
    /\ ppc \in {"start", "config", "prompt", "loading", "loaded", "booted", "exit"}
    /\ flags \subseteq Flags
    /\ bootargs \in Seq(Words)
    /\ DOMAIN default_dev = {"device", "part"}
    /\ DOMAIN config = {"global", "images"}
    /\ DOMAIN req = DOMAIN NoReq
    /\ paused \in BOOLEAN /\ autos \in Nat /\ chosen \subseteq Words

Requested == ppc \in {"loading", "loaded", "booted"}

(* At the hand-over iQUIK pauses exactly if !debug was typed or pause-after *)
(* applies to a label chosen so far (make_params, iquik_main): no retry, no *)
(* other label, no command and no failure in between loses a pause that was *)
(* asked for.  The label need not be the one that boots: the pause of one   *)
(* that failed carries over.                                                *)
PauseAsAsked ==
    ppc = "booted" =>
        (paused <=> "DEBUG_BEFORE_BOOT" \in flags \/ \E label \in chosen : AsksPause(label))

(* The image of that label has a device= or a partition= of its own. *)
HasOwnDev(label) ==
    label # NULL /\ \E n \in ImageNamed(label) :
                       {"device", "partition"} \cap DOMAIN config.images[n] # {}

(* get_load_paths: a kernel and an initrd both given without a device come  *)
(* from one place, also for a label with a device of its own and after      *)
(* !dev.  For all other requests that place is known: the default device,   *)
(* !dev before any global option, and next to the kernel when there is no   *)
(* default.  For an image with device= or partition= the place is left      *)
(* open: man/quik.conf.5:23 says its own, the code takes the default.       *)
InitrdFollows ==
    Requested /\ req.initrd_spec # NULL /\ PathSpec[req.initrd_spec].form = "short" =>
        LET home == IF IsValid(default_dev) THEN default_dev ELSE req.kernel
        IN  /\ PathSpec[req.kernel_spec].form = "short" =>
                   req.initrd.device = req.kernel.device /\ req.initrd.part = req.kernel.part
            /\ ~HasOwnDev(req.label) =>
                   req.initrd.device = home.device /\ req.initrd.part = home.part

(* iQUIK boots unattended at most once: after the first pass of get_params *)
(* nothing is loaded that was not typed, so a default that fails is not    *)
(* retried for ever.                                                       *)
OneAutoBoot == autos <= 1

(* A label is booted as an old kernel exactly if its section says so,      *)
(* whatever labels were tried and !old commands were typed before.         *)
OldFlagMatchesLabel ==
    Requested /\ req.label # NULL =>
        (("BOOT_PRE_2_4" \in flags) <=> (cfg_get_strg(req.label, "old-kernel") # NULL))
=============================================================================
