------------------------------ MODULE Firmware ------------------------------
(***************************************************************************)
(* Work-arounds for faults of Open Firmware: prom_init and                 *)
(* parse_prom_flags, which choose them for the machine at hand, !prom_flags *)
(* which lets the user choose again, and prom_shim, which stands between   *)
(* the firmware and the kernel once that runs (prom.c); with the flags of  *)
(* boot_info_t and the decisions of iquik_main and elf_boot that put it    *)
(* there.                                                                  *)
(*                                                                         *)
(* The firmware is external: a machine says how its firmware calls itself, *)
(* what its device tree has and which faults it really has.  The kernel    *)
(* asks for properties it has set itself, for the numbers of its CPUs and  *)
(* for the nodes of the device tree.  Properties consist of cells; of what *)
(* is written into the kernel's buffer the model keeps the whole cells.    *)
(***************************************************************************)
EXTENDS Integers, Sequences

CONSTANTS
    Machines,    \* machines, see MachineAssumption
    Junk,        \* the content of memory that was reused
    Initrds,     \* where an initrd may have been loaded: base and len
    Sizes,       \* sizes the kernel asks with: nothing restricts them
    Word,        \* numbers of a uint32_t: 2^32 in the code
    CellBound,   \* bound: cells the shim writes before the model stops
    FlagChoices  \* flags the user may set

Flags == {"CLAIM_WORK_AROUND", "NEED_SHIM", "SHALLOW_SETPROP", "HIDE_MEDIABAY_ATA",
          "NW_FULL_DISK", "SMP_FIX"}

CellSize == 4

ASSUME MachineAssumption ==
    \A m \in Machines :
        /\ m.shallow \in BOOLEAN            \* setprop keeps only the address
        /\ m.powerbook \in BOOLEAN          \* compatible with the 3400/2400
        /\ m.cpus \in Nat                   \* cells in reg of /PowerPC,604, 0: none
        /\ m.bay \in {"none", "empty", "full"}

ASSUME CallAssumption ==
    /\ Word \in Nat /\ Word > 0 /\ Word % CellSize = 0
    /\ \A s \in Sizes : s \in Nat /\ s < Word
    /\ CellBound \in Nat /\ \A m \in Machines : m.cpus < CellBound
    /\ \A r \in Initrds : r.base \in Nat \ {0} /\ r.len \in Nat
    /\ FlagChoices \subseteq SUBSET Flags

VARIABLES
    fpc,           \* "init", "loader", "loaded", "kernel", "call", "exit"
    machine,
    prom_flags,
    shim_state,    \* of_shim_state: cpu_count and whether mediabay_ata is set
    bi_flags,      \* SHIM_OF, DEBUG_BEFORE_BOOT, BOOT_PRE_2_4 of bi->flags
    initrd,        \* bi->initrd_base and bi->initrd_len
    entry,         \* what the kernel was given to call
    call,          \* the call of the kernel that is going on or was the last
    chosen,        \* history: the user has set flags
    halfDone       \* history: the last parse_prom_flags returned early

vars == <<fpc, machine, prom_flags, shim_state, bi_flags, initrd, entry, call, chosen, halfDone>>

NoInitrd == [base |-> 0, len |-> 0]
NoCall == [service |-> "", size |-> 0, left |-> 0, place |-> <<>>, ret |-> 0]

Init ==
    /\ fpc = "init"
    /\ machine \in Machines
    /\ prom_flags = {}
    /\ shim_state = [cpu_count |-> 0, bay |-> FALSE]
    /\ bi_flags = {}
    /\ initrd = NoInitrd
    /\ entry = ""
    /\ call = NoCall
    /\ chosen = FALSE /\ halfDone = FALSE

-----------------------------------------------------------------------------
(* Mutant: only the second of the two versions is known. *)
VersionFlagsOne(ver) ==
    IF ver = "1.0.5" THEN {"CLAIM_WORK_AROUND", "SHALLOW_SETPROP"}
    ELSE IF ver = "2.0.1" THEN {"SHALLOW_SETPROP"}
    ELSE IF ver # "iMac,1" THEN {"NW_FULL_DISK"}
    ELSE {}

(* The flags prom_init takes from the name of the firmware; the last test  *)
(* is a strcmp without a comparison, so it holds for every other name.     *)
VersionFlags(ver) ==
    IF ver = "1.0.5" THEN {"CLAIM_WORK_AROUND", "SHALLOW_SETPROP"}
    ELSE IF ver \in {"2.0", "2.0.1"} THEN {"SHALLOW_SETPROP"}
    ELSE IF ver # "iMac,1" THEN {"NW_FULL_DISK"}
    ELSE {}

MachineFlags(m) ==
    VersionFlags(m.ver)
        \cup (IF m.powerbook THEN {"HIDE_MEDIABAY_ATA"} ELSE {})
        \cup (IF m.cpus > 0 THEN {"SMP_FIX"} ELSE {})

(* Mutant: the shim is for setprop only. *)
ShimFlagsSetprop(fl) == fl \cap {"SHALLOW_SETPROP"}

(* Flags that work through the shim, given that they survived the tests of *)
(* parse_prom_flags; the media bay is hidden only when it is empty.        *)
ShimFlags(fl) ==
    fl \cap ({"SHALLOW_SETPROP", "SMP_FIX"}
                \cup (IF machine.bay = "empty" THEN {"HIDE_MEDIABAY_ATA"} ELSE {}))

(* Mutant: the bay is hidden with what is in it. *)
HidesFullBay(fl) == "HIDE_MEDIABAY_ATA" \in fl /\ machine.bay # "none"

HidesBay(fl) == "HIDE_MEDIABAY_ATA" \in fl /\ machine.bay = "empty"

(* parse_prom_flags with the flags fl: a single CPU needs no fix, a bay    *)
(* that does not exist is not hidden.  Without /PowerPC,604 the code notes *)
(* a count of -1, for a node no kernel can ask about.                      *)
ParsePromFlags(fl) ==
    LET one == IF machine.cpus = 1 THEN fl \ {"SMP_FIX"} ELSE fl
        kept == IF machine.bay = "none" THEN one \ {"HIDE_MEDIABAY_ATA"} ELSE one
        all == IF ShimFlags(kept) # {} THEN kept \cup {"NEED_SHIM"} ELSE kept
    IN  /\ prom_flags' = all
        /\ shim_state' =
               [cpu_count |-> IF "SMP_FIX" \in fl THEN machine.cpus * CellSize
                              ELSE shim_state.cpu_count,
                bay |-> shim_state.bay \/ HidesBay(fl)]
        /\ bi_flags' = IF "NEED_SHIM" \in all THEN bi_flags \cup {"SHIM_OF"} ELSE bi_flags
        /\ halfDone' = FALSE

(* /memory cannot be opened: the flags stay as they are, unparsed. *)
ParseEarlyReturn(fl) ==
    /\ "CLAIM_WORK_AROUND" \in fl
    /\ prom_flags' = fl
    /\ halfDone' = TRUE
    /\ UNCHANGED <<shim_state, bi_flags>>

PromInit ==
    /\ fpc = "init"
    /\ ParsePromFlags(MachineFlags(machine))
    /\ fpc' = "loader"
    /\ UNCHANGED <<machine, initrd, entry, call, chosen>>

(* A node every firmware has is missing, or /memory: iquik_main exits. *)
PromInitFails ==
    /\ fpc = "init"
    /\ fpc' = "exit"
    /\ UNCHANGED <<machine, prom_flags, shim_state, bi_flags, initrd, entry, call, chosen, halfDone>>

-----------------------------------------------------------------------------
(* Commands. *)

(* !prom_flags *)
CmdPromFlags(fl) ==
    /\ fpc = "loader"
    /\ chosen' = TRUE
    /\ ParsePromFlags(fl) \/ ParseEarlyReturn(fl)
    /\ UNCHANGED <<fpc, machine, initrd, entry, call>>

Toggle(s, f) == IF f \in s THEN s \ {f} ELSE s \cup {f}

(* !debug, and !old or a label with old-kernel *)
CmdDebugOrOld ==
    /\ fpc = "loader"
    /\ \/ bi_flags' = bi_flags \cup {"SHIM_OF", "DEBUG_BEFORE_BOOT"}
       \/ bi_flags' = Toggle(bi_flags, "BOOT_PRE_2_4")
    /\ UNCHANGED <<fpc, machine, prom_flags, shim_state, initrd, entry, call, chosen, halfDone>>

(* try_load_loop succeeds, with an initrd or without. *)
Load(r) ==
    /\ fpc = "loader"
    /\ initrd' = r
    /\ fpc' = "loaded"
    /\ UNCHANGED <<machine, prom_flags, shim_state, bi_flags, entry, call, chosen, halfDone>>

(* The end of iquik_main, and elf_boot. *)
HandOver ==
    /\ fpc = "loaded"
    /\ bi_flags' = IF "BOOT_PRE_2_4" \in bi_flags THEN bi_flags \ {"SHIM_OF"} ELSE bi_flags
    /\ entry' = IF "SHIM_OF" \in bi_flags' THEN "prom_shim" ELSE "prom_entry"
    /\ fpc' = "kernel"
    /\ UNCHANGED <<machine, prom_flags, shim_state, initrd, call, chosen, halfDone>>

-----------------------------------------------------------------------------
(* The firmware itself. *)

(* A number in a buffer of the given size: in the second of two cells.     *)
Cells(size, value) == IF size = 2 * CellSize THEN <<0, value>> ELSE <<value>>

InitrdValue(name) == IF name = "initrd-start" THEN initrd.base ELSE initrd.base + initrd.len

(* reg has a cell for each CPU; what the kernel has set has as many cells  *)
(* as it asks for if these are two, and else one.                          *)
Property(name, size) ==
    IF name = "reg" THEN [k \in 1 .. machine.cpus |-> 0]
    ELSE Cells(size, IF machine.shallow THEN Junk ELSE InitrdValue(name))

(* getprop copies as much as there is and the buffer holds. *)
OfGetprop(name, size) ==
    LET all == Len(Property(name, size)) * CellSize
        n == IF all < size THEN all ELSE size
    IN  [place |-> [k \in 1 .. n \div CellSize |-> Property(name, size)[k]], ret |-> n]

(* The devices below the media bay. *)
OfChild == IF machine.bay = "none" THEN "nothing" ELSE "ata"

-----------------------------------------------------------------------------
(* What the kernel calls. *)

Answer(service, size, a) ==
    /\ call' = [service |-> service, size |-> size, left |-> 0, place |-> a.place, ret |-> a.ret]
    /\ fpc' = "kernel"

KernelVarsKept == UNCHANGED <<machine, prom_flags, shim_state, bi_flags, initrd, entry, chosen, halfDone>>

Shimmed(flag) == entry = "prom_shim" /\ flag \in prom_flags

(* The kernel has set the properties of the initrd in /chosen and asks for *)
(* them.  With a size of two cells the shim clears the upper one; with any *)
(* other size, also one below a cell, it writes one cell, and it answers   *)
(* the size it was given.                                                  *)
GetInitrd(name, size) ==
    /\ fpc = "kernel"
    /\ initrd # NoInitrd
    /\ IF Shimmed("SHALLOW_SETPROP")
       THEN Answer(name, size, [place |-> Cells(size, InitrdValue(name)), ret |-> size])
       ELSE Answer(name, size, OfGetprop(name, size))
    /\ KernelVarsKept

(* Mutant: the size the kernel gives is not looked at. *)
RegSizeAll(size) == shim_state.cpu_count

RegSize(size) == IF shim_state.cpu_count < size THEN shim_state.cpu_count ELSE size

(* It asks for reg of its CPUs: the shim numbers them in a loop. *)
GetReg(size) ==
    /\ fpc = "kernel"
    /\ machine.cpus > 0
    /\ IF Shimmed("SMP_FIX")
       THEN /\ call' = [service |-> "reg", size |-> size, left |-> RegSize(size),
                        place |-> <<>>, ret |-> RegSize(size)]
            /\ fpc' = "call"
       ELSE Answer("reg", size, OfGetprop("reg", size))
    /\ KernelVarsKept

(* Mutant: cells are counted, of a size in bytes. *)
LeftByOne == call.left - 1

(* size -= 4 of an unsigned size. *)
LeftAfter ==
    IF call.left < CellSize THEN call.left + (Word - CellSize) ELSE call.left - CellSize

(* A size that is no multiple of the cell never comes to 0: the loop goes  *)
(* on over the kernel's memory, and the model stops it at CellBound.       *)
GetRegLoop ==
    /\ fpc = "call"
    /\ IF call.left # 0
       THEN /\ Len(call.place) < CellBound
            /\ call' = [call EXCEPT !.place = Append(@, Len(@)), !.left = LeftAfter]
            /\ UNCHANGED fpc
       ELSE fpc' = "kernel" /\ UNCHANGED call
    /\ KernelVarsKept

(* It walks the device tree and comes to the child of the media bay. *)
GetBayChild ==
    /\ fpc = "kernel"
    /\ machine.powerbook
    /\ LET hide == Shimmed("HIDE_MEDIABAY_ATA") /\ shim_state.bay
       IN  Answer("child", 0, [place |-> <<IF hide THEN "nothing" ELSE OfChild>>, ret |-> 0])
    /\ KernelVarsKept

(* The kernel runs on, prom_exit was called, or the shim writes on.        *)
RunsOn == (fpc \in {"kernel", "exit"} \/ Len(call.place) = CellBound) /\ UNCHANGED vars

Next ==
    \/ PromInit \/ PromInitFails
    \/ \E fl \in FlagChoices : CmdPromFlags(fl)
    \/ CmdDebugOrOld
    \/ \E r \in Initrds \cup {NoInitrd} : Load(r)
    \/ HandOver
    \/ \E n \in {"initrd-start", "initrd-end"}, s \in Sizes : GetInitrd(n, s)
    \/ \E s \in Sizes : GetReg(s)
    \/ GetRegLoop \/ GetBayChild
    \/ RunsOn

Spec == Init /\ [][Next]_vars

-----------------------------------------------------------------------------
(* Every variable has its type. *)
TypeOK ==
    /\ fpc \in {"init", "loader", "loaded", "kernel", "call", "exit"}
    /\ machine \in Machines
    /\ prom_flags \subseteq Flags
    /\ shim_state \in [cpu_count : Nat, bay : BOOLEAN]
    /\ bi_flags \subseteq {"SHIM_OF", "DEBUG_BEFORE_BOOT", "BOOT_PRE_2_4"}
    /\ initrd \in Initrds \cup {NoInitrd}
    /\ entry \in {"", "prom_shim", "prom_entry"}
    /\ call.left \in Nat
    /\ chosen \in BOOLEAN /\ halfDone \in BOOLEAN

Running == fpc \in {"kernel", "call"}
Old == "BOOT_PRE_2_4" \in bi_flags

(* A kernel runs behind the shim whenever a work-around that needs it is   *)
(* in force, however the flags came about, unless it is an old one: that   *)
(* never does.  Flags of a !prom_flags that ended with an error, because   *)
(* /memory could not be opened, are in force without the shim.             *)
ShimWhereNeeded ==
    Running =>
        /\ Old => entry = "prom_entry"
        /\ \/ "SHALLOW_SETPROP" \in prom_flags
           \/ "SMP_FIX" \in prom_flags
           \/ "HIDE_MEDIABAY_ATA" \in prom_flags /\ machine.bay = "empty"
           => Old \/ halfDone \/ entry = "prom_shim"

Answered(services) == fpc = "kernel" /\ call.service \in services

(* On every machine a kernel that is not old finds its initrd where the    *)
(* loader put it, as long as it has room for a cell and the user has not   *)
(* chosen other flags.                                                     *)
KernelFindsInitrd ==
    Answered({"initrd-start", "initrd-end"}) /\ ~Old /\ ~chosen /\ call.size >= CellSize =>
        call.place[Len(call.place)] = InitrdValue(call.service)

(* ... it sees as many different CPUs as it has room for or there are, if  *)
(* it gets an answer, and the device in the media bay just if there is     *)
(* one.                                                                    *)
KernelSeesDevices ==
    /\ Answered({"reg"}) /\ ~Old /\ ~chosen =>
        /\ \A j, k \in DOMAIN call.place : call.place[j] = call.place[k] => j = k
        /\ Len(call.place) = IF machine.cpus * CellSize < call.size THEN machine.cpus
                             ELSE call.size \div CellSize
    /\ Answered({"child"}) /\ ~Old /\ ~chosen =>
        (call.place[1] = "ata") = (machine.bay = "full")

Written == Len(call.place) * CellSize

(* What is written for the kernel passes the end of its buffer in no other *)
(* than two cases, at any turn of the loop that counts an unsigned size    *)
(* down and whatever flags the user chose: the shim numbers CPUs into a    *)
(* buffer too small for all of them and no multiple of a cell (prom.c:212, *)
(* where the count wraps), or it writes the one cell of an initrd property *)
(* into a buffer smaller than that (prom.c:229).  The size that is         *)
(* answered is never larger than the buffer.                               *)
AnswerFits ==
    Running /\ call.service # "child" =>
        /\ call.ret <= call.size
        /\ Written > call.size =>
            IF call.service = "reg"
            THEN /\ Shimmed("SMP_FIX")
                 /\ call.size < shim_state.cpu_count /\ call.size % CellSize # 0
            ELSE Shimmed("SHALLOW_SETPROP") /\ call.size < CellSize /\ Written = CellSize
=============================================================================
