--------------------------- MODULE FirmwareProofs ---------------------------
(***************************************************************************)
(* The dealings with the firmware (prom.c, elf.c): the shim and what the   *)
(* kernel sees through it, for every set of machines, flags, initrds and   *)
(* sizes; then the keys and the clock of the Console module.               *)
(***************************************************************************)
EXTENDS Firmware, Console, WellFoundedInduction, TLAPS

Cell == Nat \cup {Junk, "nothing", "ata"}

Services == {"", "initrd-start", "initrd-end", "reg", "child"}

CallType == [service : Services, size : Nat, left : Nat, place : Seq(Cell), ret : Nat]

(* Nothing is called before the kernel runs; the loop of the shim runs     *)
(* only for reg.                                                           *)
CallShape ==
    /\ call \in CallType
    /\ ~Running \/ call.service = "" => call = NoCall
    /\ fpc = "call" => call.service = "reg" /\ Shimmed("SMP_FIX")
    /\ call.service = "reg" => call.size \in Sizes /\ machine.cpus > 0

(* The count in bytes is a multiple of the cell.                           *)
Counted == \E n \in Nat : shim_state.cpu_count = n * CellSize

(* The shim's answer, complete but for what is left of it.  When its size  *)
(* is no multiple of the cell there is always something left: it is never  *)
(* given.                                                                  *)
Numbered ==
    /\ call.ret = RegSize(call.size)
    /\ call.ret % CellSize = 0 => call.left + Len(call.place) * CellSize = call.ret
    /\ call.ret % CellSize # 0 => call.left % CellSize # 0
    /\ \A k \in 1 .. Len(call.place) : call.place[k] = k - 1
    /\ fpc = "kernel" => call.left = 0

Direct ==
    /\ call.place = OfGetprop(call.service, call.size).place
    /\ call.ret = OfGetprop(call.service, call.size).ret

RegAnswer == Running /\ call.service = "reg" => IF Shimmed("SMP_FIX") THEN Numbered ELSE Direct

InitrdAnswer ==
    Running /\ call.service \in {"initrd-start", "initrd-end"} =>
        /\ call.size \in Sizes
        /\ IF Shimmed("SHALLOW_SETPROP")
           THEN call.place = Cells(call.size, InitrdValue(call.service)) /\ call.ret = call.size
           ELSE Direct

ChildAnswer ==
    Running /\ call.service = "child" =>
        /\ machine.powerbook
        /\ call.place = << IF Shimmed("HIDE_MEDIABAY_ATA") /\ shim_state.bay THEN "nothing"
                           ELSE OfChild >>

Needed ==
    \/ "SHALLOW_SETPROP" \in prom_flags
    \/ "SMP_FIX" \in prom_flags
    \/ "HIDE_MEDIABAY_ATA" \in prom_flags /\ machine.bay = "empty"

(* SHIM_OF is set as soon as a work-around needs it, and elf_boot looks at *)
(* it.                                                                     *)
ShimPlanned ==
    /\ fpc \in {"loader", "loaded"} /\ Needed => halfDone \/ "SHIM_OF" \in bi_flags
    /\ fpc = "init" => prom_flags = {} /\ shim_state.cpu_count = 0 /\ ~shim_state.bay /\ ~halfDone

(* The flags of a machine whose user has not chosen others. *)
OwnFlags ==
    ~chosen /\ fpc \notin {"init", "exit"} =>
        /\ ~halfDone
        /\ machine.ver \in {"1.0.5", "2.0", "2.0.1"} => "SHALLOW_SETPROP" \in prom_flags
        /\ "SMP_FIX" \in prom_flags <=> machine.cpus > 1
        /\ machine.cpus > 0 => shim_state.cpu_count = machine.cpus * CellSize
        /\ machine.powerbook /\ machine.bay = "empty" =>
              "HIDE_MEDIABAY_ATA" \in prom_flags
        /\ shim_state.bay <=> machine.powerbook /\ machine.bay = "empty"

FInv ==
    /\ TypeOK /\ CallShape /\ Counted
    /\ RegAnswer /\ InitrdAnswer /\ ChildAnswer
    /\ ShimPlanned /\ ShimWhereNeeded /\ OwnFlags

(* setprop is shallow in no other firmware than prom_init lists; the table *)
(* is what the code knows of the machines it was tried on.                 *)
ListedFaults == \A m \in Machines : m.shallow => m.ver \in {"1.0.5", "2.0", "2.0.1"}

-----------------------------------------------------------------------------
LEMMA FlagsOfMachine ==
    ASSUME NEW m \in Machines
    PROVE  /\ MachineFlags(m) \subseteq Flags
           /\ m.ver \in {"1.0.5", "2.0", "2.0.1"} => "SHALLOW_SETPROP" \in MachineFlags(m)
           /\ "SMP_FIX" \in MachineFlags(m) <=> m.cpus > 0
           /\ "HIDE_MEDIABAY_ATA" \in MachineFlags(m) <=> m.powerbook
  BY MachineAssumption DEF MachineFlags, VersionFlags, Flags

(* What parse_prom_flags leaves behind, whatever flags it is given.        *)
LEMMA Parsed ==
    ASSUME TypeOK, Counted, NEW fl \in SUBSET Flags, ParsePromFlags(fl)
    PROVE  /\ prom_flags' \subseteq Flags
           /\ shim_state' \in [cpu_count : Nat, bay : BOOLEAN]
           /\ \E n \in Nat : shim_state'.cpu_count = n * CellSize
           /\ bi_flags' \subseteq {"SHIM_OF", "DEBUG_BEFORE_BOOT", "BOOT_PRE_2_4"}
           /\ halfDone' = FALSE
           /\ \/ "SHALLOW_SETPROP" \in prom_flags'
              \/ "SMP_FIX" \in prom_flags'
              \/ "HIDE_MEDIABAY_ATA" \in prom_flags' /\ machine.bay = "empty"
              => "SHIM_OF" \in bi_flags'
           /\ "SHALLOW_SETPROP" \in fl => "SHALLOW_SETPROP" \in prom_flags'
           /\ "SMP_FIX" \in prom_flags' <=> "SMP_FIX" \in fl /\ machine.cpus # 1
           /\ "SMP_FIX" \in fl => shim_state'.cpu_count = machine.cpus * CellSize
           /\ "HIDE_MEDIABAY_ATA" \in fl /\ machine.bay = "empty" =>
                 "HIDE_MEDIABAY_ATA" \in prom_flags'
           /\ shim_state'.bay = (shim_state.bay \/ HidesBay(fl))
  <1> DEFINE one == IF machine.cpus = 1 THEN fl \ {"SMP_FIX"} ELSE fl
             kept == IF machine.bay = "none" THEN one \ {"HIDE_MEDIABAY_ATA"} ELSE one
             all == IF ShimFlags(kept) # {} THEN kept \cup {"NEED_SHIM"} ELSE kept
  <1>1. /\ prom_flags' = all
        /\ shim_state' =
               [cpu_count |-> IF "SMP_FIX" \in fl THEN machine.cpus * CellSize
                              ELSE shim_state.cpu_count,
                bay |-> shim_state.bay \/ HidesBay(fl)]
        /\ bi_flags' = IF "NEED_SHIM" \in all THEN bi_flags \cup {"SHIM_OF"} ELSE bi_flags
        /\ halfDone' = FALSE
    BY DEF ParsePromFlags
  <1>2. machine.cpus \in Nat /\ machine \in Machines
    BY MachineAssumption DEF TypeOK
  <1>3. all \subseteq Flags
    BY DEF Flags
  <1>4. PICK n \in Nat : shim_state.cpu_count = n * CellSize
    BY DEF Counted
  <1>5. /\ shim_state' \in [cpu_count : Nat, bay : BOOLEAN]
        /\ \E k \in Nat : shim_state'.cpu_count = k * CellSize
        /\ "SMP_FIX" \in fl => shim_state'.cpu_count = machine.cpus * CellSize
        /\ shim_state'.bay = (shim_state.bay \/ HidesBay(fl))
    <2>1. HidesBay(fl) \in BOOLEAN /\ shim_state.bay \in BOOLEAN
      BY DEF HidesBay, TypeOK
    <2>2. machine.cpus * CellSize \in Nat
      BY <1>2 DEF CellSize
    <2>3. shim_state.cpu_count \in Nat
      BY DEF TypeOK
    <2> QED
      BY <1>1, <1>2, <1>4, <2>1, <2>2, <2>3 DEF TypeOK
  <1>6. bi_flags' \subseteq {"SHIM_OF", "DEBUG_BEFORE_BOOT", "BOOT_PRE_2_4"}
    BY <1>1 DEF TypeOK
  <1>7. \/ "SHALLOW_SETPROP" \in all
        \/ "SMP_FIX" \in all
        \/ "HIDE_MEDIABAY_ATA" \in all /\ machine.bay = "empty"
        => "NEED_SHIM" \in all
    BY DEF ShimFlags
  <1>8. /\ "SHALLOW_SETPROP" \in fl => "SHALLOW_SETPROP" \in all
        /\ "SMP_FIX" \in all <=> "SMP_FIX" \in fl /\ machine.cpus # 1
        /\ "HIDE_MEDIABAY_ATA" \in fl /\ machine.bay = "empty" => "HIDE_MEDIABAY_ATA" \in all
    OBVIOUS
  <1> QED
    BY <1>1, <1>3, <1>5, <1>6, <1>7, <1>8

-----------------------------------------------------------------------------
(* Lemmas about the answers. *)

LEMMA CellsShape ==
    ASSUME NEW size \in Nat, NEW value \in Cell
    PROVE  /\ Cells(size, value) \in Seq(Cell)
           /\ Len(Cells(size, value)) = IF size = 2 * CellSize THEN 2 ELSE 1
           /\ Cells(size, value)[Len(Cells(size, value))] = value
  <1>1. 0 \in Cell
    BY DEF Cell
  <1>2. <<0, value>> \in Seq(Cell) /\ <<value>> \in Seq(Cell)
    BY <1>1
  <1> QED
    BY <1>2 DEF Cells

LEMMA InitrdValueType ==
    ASSUME TypeOK, NEW name \in {"initrd-start", "initrd-end"}
    PROVE  InitrdValue(name) \in Nat
  <1>1. CASE initrd \in Initrds
    BY <1>1, CallAssumption DEF InitrdValue
  <1>2. CASE initrd = NoInitrd
    BY <1>2 DEF InitrdValue, NoInitrd
  <1> QED
    BY <1>1, <1>2 DEF TypeOK

LEMMA PropertyShape ==
    ASSUME TypeOK, NEW size \in Sizes, NEW name \in {"reg", "initrd-start", "initrd-end"}
    PROVE  /\ Property(name, size) \in Seq(Cell)
           /\ name = "reg" => Len(Property(name, size)) = machine.cpus
           /\ name # "reg" => Property(name, size) =
                  Cells(size, IF machine.shallow THEN Junk ELSE InitrdValue(name))
  <1>1. machine.cpus \in Nat /\ size \in Nat
    BY MachineAssumption, CallAssumption DEF TypeOK
  <1>2. CASE name = "reg"
    <2>1. Property(name, size) = [k \in 1 .. machine.cpus |-> 0]
      BY <1>2 DEF Property
    <2>2. 0 \in Cell
      BY DEF Cell
    <2>3. [k \in 1 .. machine.cpus |-> 0] \in Seq(Cell)
          /\ Len([k \in 1 .. machine.cpus |-> 0]) = machine.cpus
      BY <1>1, <2>2
    <2> QED
      BY <1>2, <2>1, <2>3
  <1>3. CASE name # "reg"
    <2> DEFINE value == IF machine.shallow THEN Junk ELSE InitrdValue(name)
    <2>1. value \in Cell
      BY <1>3, InitrdValueType DEF Cell
    <2>2. Property(name, size) = Cells(size, value)
      BY <1>3 DEF Property
    <2> QED
      BY <1>1, <1>3, <2>1, <2>2, CellsShape
  <1> QED
    BY <1>2, <1>3

(* The firmware's own answer is as long as asked for, or as the property   *)
(* is.                                                                     *)
LEMMA OfShape ==
    ASSUME TypeOK, NEW size \in Sizes, NEW name \in {"reg", "initrd-start", "initrd-end"}
    PROVE  LET a == OfGetprop(name, size)
               all == Len(Property(name, size)) * CellSize
           IN  /\ a.place \in Seq(Cell)
               /\ a.ret = IF all < size THEN all ELSE size
               /\ a.ret \in Nat /\ a.ret <= size
               /\ Len(a.place) = a.ret \div CellSize
               /\ Len(a.place) * CellSize <= a.ret
               /\ \A k \in 1 .. Len(a.place) : a.place[k] = Property(name, size)[k]
  <1> DEFINE prop == Property(name, size)
             all == Len(prop) * CellSize
             n == IF all < size THEN all ELSE size
             m == n \div CellSize
             cells == [k \in 1 .. m |-> prop[k]]
  <1>1. prop \in Seq(Cell) /\ Len(prop) \in Nat /\ size \in Nat
    BY PropertyShape, CallAssumption
  <1>2. OfGetprop(name, size) = [place |-> cells, ret |-> n]
    BY DEF OfGetprop
  <1>3. all \in Nat /\ n \in Nat /\ n <= size /\ n <= all
    <2> HIDE DEF prop
    <2> QED
      BY <1>1 DEF CellSize
  <1>4. m \in Nat /\ m * CellSize <= n /\ m <= Len(prop)
    <2> HIDE DEF prop
    <2>1. all = Len(prop) * 4
      BY DEF CellSize
    <2> HIDE DEF n
    <2> QED
      BY <1>1, <1>3, <2>1 DEF CellSize
  <1> HIDE DEF m, n, prop
  <1>5. \A k \in 1 .. m : prop[k] \in Cell
    BY <1>1, <1>4
  <1>6. cells \in Seq(Cell) /\ Len(cells) = m /\ \A k \in 1 .. m : cells[k] = prop[k]
    BY <1>4, <1>5
  <1> HIDE DEF cells
  <1>7. OfGetprop(name, size).place = cells /\ OfGetprop(name, size).ret = n
    BY <1>2
  <1>8. n = (IF all < size THEN all ELSE size) /\ m = n \div CellSize
    BY DEF n, m
  <1>9. prop = Property(name, size)
    BY DEF prop
  <1> HIDE DEF all
  <1>10. all = Len(Property(name, size)) * CellSize
    BY DEF all, prop
  <1> QED
    BY <1>3, <1>4, <1>6, <1>7, <1>8, <1>9, <1>10

-----------------------------------------------------------------------------
LEMMA FInit == Init => FInv
  <1> SUFFICES ASSUME Init PROVE FInv
    OBVIOUS
  <1>1. NoCall \in CallType
    <2>1. <<>> \in Seq(Cell)
      OBVIOUS
    <2> QED
      BY <2>1 DEF NoCall, CallType, Services
  <1>2. TypeOK
    BY <1>1 DEF Init, TypeOK, NoCall, Flags
  <1>3. CallShape
    BY <1>1 DEF Init, CallShape, Running, NoCall
  <1>4. Counted
    <2>1. shim_state = [cpu_count |-> 0, bay |-> FALSE]
      BY DEF Init
    <2>2. shim_state.cpu_count = 0
      BY <2>1, Zenon
    <2>3. 0 = 0 * CellSize
      BY DEF CellSize
    <2> QED
      BY <2>2, <2>3 DEF Counted
  <1>5. RegAnswer /\ InitrdAnswer /\ ChildAnswer /\ ShimWhereNeeded /\ OwnFlags /\ ShimPlanned
    BY DEF Init, RegAnswer, InitrdAnswer, ChildAnswer, ShimWhereNeeded, OwnFlags, ShimPlanned,
           Running, Needed
  <1> QED
    BY <1>2, <1>3, <1>4, <1>5 DEF FInv

(* Until the kernel runs there is no call to speak of. *)
LEMMA BeforeKernel ==
    ASSUME fpc' \in {"loader", "loaded", "exit"}, call' = NoCall
    PROVE  CallShape' /\ RegAnswer' /\ InitrdAnswer' /\ ChildAnswer' /\ ShimWhereNeeded'
  <1>1. NoCall \in CallType
    <2>1. <<>> \in Seq(Cell)
      OBVIOUS
    <2> QED
      BY <2>1 DEF NoCall, CallType, Services
  <1> QED
    BY <1>1 DEF CallShape, RegAnswer, InitrdAnswer, ChildAnswer, ShimWhereNeeded, Running, NoCall

(* While it runs a call changes nothing else. *)
LEMMA CallKeeps ==
    ASSUME FInv, KernelVarsKept, Running, Running', call'.left \in Nat
    PROVE  TypeOK' /\ Counted' /\ ShimPlanned' /\ ShimWhereNeeded' /\ OwnFlags'
  <1> USE DEF FInv, KernelVarsKept, Running
  <1>1. TypeOK'
    BY DEF TypeOK
  <1>2. Counted'
    BY DEF Counted
  <1>3. ShimPlanned'
    BY DEF ShimPlanned
  <1>4. ShimWhereNeeded'
    BY DEF ShimWhereNeeded, Old
  <1>5. OwnFlags'
    BY DEF OwnFlags
  <1> QED
    BY <1>1, <1>2, <1>3, <1>4, <1>5

(* Commands and loading: the flags change, the kernel does not run yet. *)
LEMMA FStepLoader ==
    ASSUME FInv,
           \/ PromInit \/ PromInitFails
           \/ \E fl \in FlagChoices : CmdPromFlags(fl)
           \/ CmdDebugOrOld
           \/ \E r \in Initrds \cup {NoInitrd} : Load(r)
    PROVE  FInv'
  <1> USE DEF FInv
  <1>1. CASE PromInit
    <2>1. MachineFlags(machine) \in SUBSET Flags /\ machine.cpus \in Nat
      BY FlagsOfMachine, MachineAssumption DEF TypeOK
    <2>2. fpc = "init" /\ fpc' = "loader" /\ ParsePromFlags(MachineFlags(machine))
      BY <1>1 DEF PromInit
    <2>3. call' = NoCall /\ UNCHANGED <<machine, initrd, entry, chosen>>
      BY <1>1 DEF PromInit, CallShape, Running
    <2>4. TypeOK' /\ Counted'
      BY <2>1, <2>2, <2>3, Parsed DEF TypeOK, Counted, NoCall
    <2>5. ShimPlanned'
      BY <2>1, <2>2, <2>3, Parsed DEF ShimPlanned, Needed
    <2>6. OwnFlags'
      <3>1. ~shim_state.bay
        BY <2>2 DEF ShimPlanned
      <3>2. shim_state'.bay <=> machine.powerbook /\ machine.bay = "empty"
        BY <2>1, <2>2, <3>1, Parsed, FlagsOfMachine, Zenon DEF HidesBay, TypeOK
      <3>3. machine \in Machines
        BY DEF TypeOK
      <3>4. /\ halfDone' = FALSE
            /\ machine.ver \in {"1.0.5", "2.0", "2.0.1"} => "SHALLOW_SETPROP" \in prom_flags'
            /\ machine.powerbook /\ machine.bay = "empty" => "HIDE_MEDIABAY_ATA" \in prom_flags'
        BY <2>1, <2>2, <3>3, Parsed, FlagsOfMachine
      <3>5. /\ "SMP_FIX" \in prom_flags' <=> machine.cpus > 0 /\ machine.cpus # 1
            /\ machine.cpus > 0 => shim_state'.cpu_count = machine.cpus * CellSize
        BY <2>1, <2>2, <3>3, Parsed, FlagsOfMachine
      <3>6. machine.cpus > 0 /\ machine.cpus # 1 <=> machine.cpus > 1
        BY <2>1
      <3> QED
        BY <2>3, <3>2, <3>4, <3>5, <3>6, Zenon DEF OwnFlags
    <2> QED
      BY <2>2, <2>3, <2>4, <2>5, <2>6, BeforeKernel
  <1>2. CASE PromInitFails
    <2>1. fpc' = "exit" /\ call' = NoCall
          /\ UNCHANGED <<machine, prom_flags, shim_state, bi_flags, initrd, entry, chosen, halfDone>>
      BY <1>2 DEF PromInitFails, CallShape, Running
    <2>2. TypeOK' /\ Counted' /\ ShimPlanned' /\ OwnFlags'
      BY <2>1 DEF TypeOK, Counted, ShimPlanned, OwnFlags, NoCall
    <2> QED
      BY <2>1, <2>2, BeforeKernel
  <1>3. ASSUME NEW fl \in FlagChoices, CmdPromFlags(fl)
        PROVE  FInv'
    <2>1. fl \in SUBSET Flags
      BY CallAssumption
    <2>2. fpc = "loader" /\ fpc' = "loader" /\ chosen' = TRUE
      BY <1>3 DEF CmdPromFlags
    <2>3. call' = NoCall /\ UNCHANGED <<machine, initrd, entry>>
      BY <1>3, <2>2 DEF CmdPromFlags, CallShape, Running
    <2>4. OwnFlags'
      BY <2>2 DEF OwnFlags
    <2>5. CASE ParsePromFlags(fl)
      <3>1. TypeOK' /\ Counted'
        BY <2>1, <2>2, <2>3, <2>5, Parsed DEF TypeOK, Counted, NoCall
      <3>2. ShimPlanned'
        BY <2>1, <2>2, <2>3, <2>5, Parsed DEF ShimPlanned, Needed
      <3> QED
        BY <2>2, <2>3, <2>4, <3>1, <3>2, BeforeKernel
    <2>6. CASE ParseEarlyReturn(fl)
      <3>1. TypeOK' /\ Counted'
        BY <2>1, <2>2, <2>3, <2>6 DEF TypeOK, Counted, NoCall, ParseEarlyReturn
      <3>2. ShimPlanned'
        BY <2>2, <2>6 DEF ShimPlanned, ParseEarlyReturn
      <3> QED
        BY <2>2, <2>3, <2>4, <3>1, <3>2, BeforeKernel
    <2> QED
      BY <1>3, <2>5, <2>6 DEF CmdPromFlags
  <1>4. CASE CmdDebugOrOld
    <2>1. fpc = "loader" /\ fpc' = "loader" /\ call' = NoCall
          /\ UNCHANGED <<machine, prom_flags, shim_state, initrd, entry, chosen, halfDone>>
      BY <1>4 DEF CmdDebugOrOld, CallShape, Running
    <2>2. bi_flags' \subseteq {"SHIM_OF", "DEBUG_BEFORE_BOOT", "BOOT_PRE_2_4"}
          /\ ("SHIM_OF" \in bi_flags => "SHIM_OF" \in bi_flags')
      BY <1>4 DEF CmdDebugOrOld, Toggle, TypeOK
    <2>3. TypeOK' /\ Counted' /\ OwnFlags'
      BY <2>1, <2>2 DEF TypeOK, Counted, OwnFlags, NoCall
    <2>4. ShimPlanned'
      BY <2>1, <2>2 DEF ShimPlanned, Needed
    <2> QED
      BY <2>1, <2>3, <2>4, BeforeKernel
  <1>5. ASSUME NEW r \in Initrds \cup {NoInitrd}, Load(r)
        PROVE  FInv'
    <2>1. fpc = "loader" /\ fpc' = "loaded" /\ initrd' = r /\ call' = NoCall
          /\ UNCHANGED <<machine, prom_flags, shim_state, bi_flags, entry, chosen, halfDone>>
      BY <1>5 DEF Load, CallShape, Running
    <2>2. TypeOK' /\ Counted' /\ OwnFlags'
      BY <2>1 DEF TypeOK, Counted, OwnFlags, NoCall
    <2>3. ShimPlanned'
      BY <2>1 DEF ShimPlanned, Needed
    <2> QED
      BY <2>1, <2>2, <2>3, BeforeKernel
  <1> QED
    BY <1>1, <1>2, <1>3, <1>4, <1>5

LEMMA FStepHandOver == ASSUME FInv, HandOver PROVE FInv'
  <1> USE DEF FInv
  <1>1. fpc = "loaded" /\ fpc' = "kernel" /\ call = NoCall /\ call' = NoCall
        /\ UNCHANGED <<machine, prom_flags, shim_state, initrd, chosen, halfDone>>
    BY DEF HandOver, CallShape, Running
  <1>2. /\ bi_flags' = IF "BOOT_PRE_2_4" \in bi_flags THEN bi_flags \ {"SHIM_OF"} ELSE bi_flags
        /\ entry' = IF "SHIM_OF" \in bi_flags' THEN "prom_shim" ELSE "prom_entry"
    BY DEF HandOver
  <1>3. TypeOK' /\ Counted' /\ OwnFlags' /\ ShimPlanned'
    BY <1>1, <1>2 DEF TypeOK, Counted, OwnFlags, ShimPlanned, NoCall
  <1>4. CallShape' /\ RegAnswer' /\ InitrdAnswer' /\ ChildAnswer'
    BY <1>1 DEF CallShape, RegAnswer, InitrdAnswer, ChildAnswer, NoCall
  <1>5. ShimWhereNeeded'
    BY <1>1, <1>2 DEF ShimWhereNeeded, ShimPlanned, Needed, Old
  <1> QED
    BY <1>3, <1>4, <1>5

LEMMA FStepGetInitrd ==
    ASSUME FInv, NEW name \in {"initrd-start", "initrd-end"}, NEW size \in Sizes,
           GetInitrd(name, size)
    PROVE  FInv'
  <1> USE DEF FInv
  <1> DEFINE a == IF Shimmed("SHALLOW_SETPROP")
                  THEN [place |-> Cells(size, InitrdValue(name)), ret |-> size]
                  ELSE OfGetprop(name, size)
  <1>1. fpc = "kernel" /\ KernelVarsKept /\ size \in Nat
    BY CallAssumption DEF GetInitrd
  <1>2. fpc' = "kernel"
        /\ call' = [service |-> name, size |-> size, left |-> 0,
                    place |-> a.place, ret |-> a.ret]
    <2>1. CASE Shimmed("SHALLOW_SETPROP")
      BY <2>1 DEF GetInitrd, Answer
    <2>2. CASE ~Shimmed("SHALLOW_SETPROP")
      BY <2>2 DEF GetInitrd, Answer
    <2> QED
      BY <2>1, <2>2
  <1>3. a.place \in Seq(Cell) /\ a.ret \in Nat
    <2>1. CASE Shimmed("SHALLOW_SETPROP")
      <3>1. InitrdValue(name) \in Cell
        BY InitrdValueType DEF Cell
      <3>2. Cells(size, InitrdValue(name)) \in Seq(Cell)
        BY <1>1, <3>1, CellsShape
      <3> QED
        BY <1>1, <2>1, <3>2
    <2>2. CASE ~Shimmed("SHALLOW_SETPROP")
      BY <2>2, OfShape
    <2> QED
      BY <2>1, <2>2
  <1>4. /\ Shimmed("SHALLOW_SETPROP")' = Shimmed("SHALLOW_SETPROP")
        /\ InitrdValue(name)' = InitrdValue(name) /\ OfGetprop(name, size)' = OfGetprop(name, size)
    BY <1>1 DEF KernelVarsKept, Shimmed, InitrdValue, OfGetprop, Property
  <1>5. call'.service = name /\ call'.size = size /\ call'.ret = a.ret /\ call'.place = a.place
    BY <1>2
  <1>6. InitrdAnswer'
    BY <1>4, <1>5 DEF InitrdAnswer, Direct, Cells
  <1> HIDE DEF a
  <1>8. call' \in CallType /\ call'.service = name
    BY <1>1, <1>2, <1>3 DEF CallType, Services
  <1>9. CallShape' /\ RegAnswer' /\ ChildAnswer'
    BY <1>2, <1>8 DEF CallShape, RegAnswer, ChildAnswer, Running
  <1>10. TypeOK' /\ Counted' /\ ShimPlanned' /\ ShimWhereNeeded' /\ OwnFlags'
    BY <1>1, <1>2, <1>8, CallKeeps DEF Running, CallType
  <1> QED
    BY <1>6, <1>9, <1>10

LEMMA FStepGetReg == ASSUME FInv, NEW size \in Sizes, GetReg(size) PROVE FInv'
  <1> USE DEF FInv
  <1>1. fpc = "kernel" /\ machine.cpus > 0 /\ KernelVarsKept /\ size \in Nat /\ RegSize(size) \in Nat
    BY CallAssumption DEF GetReg, RegSize, TypeOK
  <1>2. CASE Shimmed("SMP_FIX")
    <2>1. fpc' = "call"
          /\ call' = [service |-> "reg", size |-> size, left |-> RegSize(size),
                      place |-> <<>>, ret |-> RegSize(size)]
      BY <1>2 DEF GetReg
    <2>2. call' \in CallType
      <3>1. <<>> \in Seq(Cell)
        OBVIOUS
      <3> QED
        BY <1>1, <2>1, <3>1 DEF CallType, Services
    <2>3. Shimmed("SMP_FIX")' /\ RegSize(size)' = RegSize(size)
      BY <1>1, <1>2 DEF KernelVarsKept, Shimmed, RegSize
    <2>4. CallShape' /\ InitrdAnswer' /\ ChildAnswer'
      BY <1>1, <2>1, <2>2, <2>3 DEF CallShape, InitrdAnswer, ChildAnswer, Running, KernelVarsKept
    <2>5. RegAnswer'
      <3>1. call'.size = size /\ call'.ret = RegSize(size) /\ call'.left = RegSize(size)
            /\ call'.place = <<>>
        BY <2>1
      <3>2. Len(call'.place) = 0
        BY <3>1
      <3>3. RegSize(call.size)' = RegSize(size)
        BY <1>1, <3>1 DEF RegSize, KernelVarsKept
      <3>4. Numbered'
        BY <1>1, <2>1, <3>1, <3>2, <3>3 DEF Numbered, CellSize
      <3> QED
        BY <2>3, <3>4 DEF RegAnswer
    <2>6. TypeOK' /\ Counted' /\ ShimPlanned' /\ ShimWhereNeeded' /\ OwnFlags'
      BY <1>1, <2>1, <2>2, CallKeeps DEF Running, CallType
    <2> QED
      BY <2>4, <2>5, <2>6
  <1>3. CASE ~Shimmed("SMP_FIX")
    <2> DEFINE a == OfGetprop("reg", size)
    <2> HIDE DEF a
    <2>1. fpc' = "kernel"
          /\ call' = [service |-> "reg", size |-> size, left |-> 0, place |-> a.place, ret |-> a.ret]
      BY <1>3 DEF GetReg, Answer, a
    <2>2. a.place \in Seq(Cell) /\ a.ret \in Nat
      BY OfShape DEF a
    <2>3. call' \in CallType
      BY <1>1, <2>1, <2>2 DEF CallType, Services
    <2>4. ~Shimmed("SMP_FIX")' /\ OfGetprop("reg", size)' = a
      BY <1>1, <1>3 DEF KernelVarsKept, Shimmed, OfGetprop, Property, a
    <2>5. call'.service = "reg" /\ call'.size = size /\ call'.place = a.place /\ call'.ret = a.ret
      BY <2>1
    <2>6. CallShape' /\ InitrdAnswer' /\ ChildAnswer'
      BY <1>1, <2>1, <2>3, <2>5 DEF CallShape, InitrdAnswer, ChildAnswer, Running, KernelVarsKept
    <2>7. RegAnswer'
      BY <2>4, <2>5 DEF RegAnswer, Direct
    <2>8. TypeOK' /\ Counted' /\ ShimPlanned' /\ ShimWhereNeeded' /\ OwnFlags'
      BY <1>1, <2>1, <2>3, CallKeeps DEF Running, CallType
    <2> QED
      BY <2>6, <2>7, <2>8
  <1> QED
    BY <1>2, <1>3

(* Each turn moves a cell from what is left to what is there.  A multiple  *)
(* of the cell does not run past 0; of any other number the rest stays,    *)
(* also where the count wraps, since the word is a multiple of the cell.   *)
LEMMA FStepGetRegLoop == ASSUME FInv, GetRegLoop PROVE FInv'
  <1> USE DEF FInv
  <1>1. fpc = "call" /\ KernelVarsKept /\ call \in CallType /\ call.service = "reg"
        /\ Shimmed("SMP_FIX") /\ call.size \in Sizes /\ machine.cpus > 0
    BY DEF GetRegLoop, CallShape
  <1>2. Numbered
    BY <1>1 DEF RegAnswer, Running
  <1>3. Shimmed("SMP_FIX")' /\ shim_state' = shim_state
    BY <1>1 DEF KernelVarsKept, Shimmed
  <1>4. CASE call.left # 0
    <2>1. fpc' = "call"
          /\ call' = [call EXCEPT !.place = Append(@, Len(@)), !.left = LeftAfter]
      BY <1>4 DEF GetRegLoop
    <2>2. call.left \in Nat /\ call.place \in Seq(Cell) /\ Len(call.place) \in Nat
      BY <1>1 DEF CallType
    <2>3. /\ LeftAfter \in Nat
          /\ call.ret % CellSize = 0 => LeftAfter = call.left - CellSize
          /\ call.ret % CellSize # 0 => LeftAfter % CellSize # 0
      <3>1. Word \in Nat /\ Word > 0 /\ Word % 4 = 0 /\ call.ret \in Nat
        BY <1>1, CallAssumption DEF CellSize, CallType
      <3>2. CASE call.ret % CellSize = 0
        <4>1. call.left + Len(call.place) * CellSize = call.ret
          BY <1>2, <3>2 DEF Numbered
        <4>2. call.left >= 4
          BY <1>4, <2>2, <3>1, <3>2, <4>1 DEF CellSize
        <4> QED
          BY <2>2, <3>2, <4>2 DEF LeftAfter, CellSize
      <3>3. CASE call.ret % CellSize # 0
        <4>1. call.left % 4 # 0
          BY <1>2, <3>3 DEF Numbered, CellSize
        <4>2. CASE call.left < 4
          <5>1. LeftAfter = call.left + (Word - 4)
            BY <4>2 DEF LeftAfter, CellSize
          <5>2. call.left + (Word - 4) \in Nat /\ (call.left + (Word - 4)) % 4 # 0
            BY <2>2, <3>1, <4>1
          <5> QED
            BY <3>3, <5>1, <5>2 DEF CellSize
        <4>3. CASE ~(call.left < 4)
          <5>1. LeftAfter = call.left - 4
            BY <4>3 DEF LeftAfter, CellSize
          <5>2. call.left - 4 \in Nat /\ (call.left - 4) % 4 # 0
            BY <2>2, <4>1, <4>3
          <5> QED
            BY <3>3, <5>1, <5>2 DEF CellSize
        <4> QED
          BY <4>2, <4>3
      <3> QED
        BY <3>2, <3>3
    <2> DEFINE more == Append(call.place, Len(call.place))
    <2>4. more \in Seq(Cell) /\ Len(more) = Len(call.place) + 1
      BY <2>2 DEF Cell
    <2>5. \A k \in 1 .. Len(more) : more[k] = k - 1
      BY <1>2, <2>2, <2>4 DEF Numbered
    <2> HIDE DEF more
    <2>6. call' = [call EXCEPT !.place = more, !.left = LeftAfter]
      BY <2>1 DEF more
    <2>7. call' \in CallType /\ call'.service = "reg" /\ call'.size = call.size /\ call'.ret = call.ret
          /\ call'.place = more /\ call'.left = LeftAfter
      BY <1>1, <2>3, <2>4, <2>6 DEF CallType
    <2>8. CallShape' /\ InitrdAnswer' /\ ChildAnswer'
      BY <1>1, <1>3, <2>1, <2>7 DEF CallShape, InitrdAnswer, ChildAnswer, Running, KernelVarsKept
    <2>9. RegAnswer'
      <3>1. call'.ret = RegSize(call.size)'
        BY <1>2, <1>3, <2>7 DEF Numbered, RegSize
      <3>2. call.ret % CellSize = 0 => call'.left + Len(call'.place) * CellSize = call.ret
        <4> SUFFICES ASSUME call.ret % CellSize = 0
                     PROVE  call'.left + Len(call'.place) * CellSize = call.ret
          OBVIOUS
        <4>1. call.left + Len(call.place) * CellSize = call.ret
          BY <1>2 DEF Numbered
        <4>2. Len(call'.place) = Len(call.place) + 1 /\ call'.left = call.left - CellSize
          BY <2>3, <2>4, <2>7
        <4> QED
          BY <2>2, <4>1, <4>2 DEF CellSize
      <3>3. Numbered'
        BY <2>1, <2>3, <2>5, <2>7, <3>1, <3>2 DEF Numbered
      <3> QED
        BY <1>3, <3>3 DEF RegAnswer
    <2>10. TypeOK' /\ Counted' /\ ShimPlanned' /\ ShimWhereNeeded' /\ OwnFlags'
      BY <1>1, <2>1, <2>7, CallKeeps DEF Running, CallType
    <2> QED
      BY <2>8, <2>9, <2>10
  <1>5. CASE call.left = 0
    <2>1. fpc' = "kernel" /\ call' = call
      BY <1>5 DEF GetRegLoop
    <2>2. CallShape' /\ InitrdAnswer' /\ ChildAnswer'
      BY <1>1, <2>1 DEF CallShape, InitrdAnswer, ChildAnswer, Running, KernelVarsKept
    <2>3. RegAnswer'
      <3>1. RegSize(call.size)' = RegSize(call.size)
        BY <1>3, <2>1 DEF RegSize
      <3>2. Numbered'
        BY <1>2, <1>5, <2>1, <3>1 DEF Numbered
      <3> QED
        BY <1>3, <3>2 DEF RegAnswer
    <2>4. TypeOK' /\ Counted' /\ ShimPlanned' /\ ShimWhereNeeded' /\ OwnFlags'
      BY <1>1, <2>1, CallKeeps DEF Running, CallType
    <2> QED
      BY <2>2, <2>3, <2>4
  <1> QED
    BY <1>4, <1>5

LEMMA FStepGetBayChild == ASSUME FInv, GetBayChild PROVE FInv'
  <1> USE DEF FInv
  <1> DEFINE seen == IF Shimmed("HIDE_MEDIABAY_ATA") /\ shim_state.bay THEN "nothing" ELSE OfChild
  <1>1. fpc = "kernel" /\ fpc' = "kernel" /\ machine.powerbook /\ KernelVarsKept
        /\ call' = [service |-> "child", size |-> 0, left |-> 0, place |-> <<seen>>, ret |-> 0]
    BY DEF GetBayChild, Answer
  <1>2. seen \in {"nothing", "ata"} /\ seen' = seen
    BY <1>1 DEF OfChild, KernelVarsKept, Shimmed
  <1>3. <<seen>> \in Seq(Cell)
    BY <1>2 DEF Cell
  <1>4. call' \in CallType /\ call'.service = "child" /\ call'.place = <<seen>>
    BY <1>1, <1>3 DEF CallType, Services
  <1>5. CallShape' /\ RegAnswer' /\ InitrdAnswer'
    BY <1>1, <1>4 DEF CallShape, RegAnswer, InitrdAnswer, Running
  <1>6. ChildAnswer'
    BY <1>1, <1>2, <1>4 DEF ChildAnswer, KernelVarsKept
  <1>7. TypeOK' /\ Counted' /\ ShimPlanned' /\ ShimWhereNeeded' /\ OwnFlags'
    BY <1>1, <1>4, CallKeeps DEF Running, CallType
  <1> QED
    BY <1>5, <1>6, <1>7

LEMMA FStep == FInv /\ [Next]_vars => FInv'
  <1> SUFFICES ASSUME FInv, [Next]_vars PROVE FInv'
    OBVIOUS
  <1>1. CASE PromInit \/ PromInitFails
    BY <1>1, FStepLoader
  <1>2. CASE \E fl \in FlagChoices : CmdPromFlags(fl)
    BY <1>2, FStepLoader
  <1>3. CASE CmdDebugOrOld
    BY <1>3, FStepLoader
  <1>4. CASE \E r \in Initrds \cup {NoInitrd} : Load(r)
    BY <1>4, FStepLoader
  <1>5. CASE HandOver
    BY <1>5, FStepHandOver
  <1>6. CASE \E n \in {"initrd-start", "initrd-end"}, s \in Sizes : GetInitrd(n, s)
    BY <1>6, FStepGetInitrd
  <1>7. CASE \E s \in Sizes : GetReg(s)
    BY <1>7, FStepGetReg
  <1>8. CASE GetRegLoop
    BY <1>8, FStepGetRegLoop
  <1>9. CASE GetBayChild
    BY <1>9, FStepGetBayChild
  <1>10. CASE UNCHANGED vars
    <2>1. /\ UNCHANGED <<fpc, machine, prom_flags, shim_state, bi_flags>>
          /\ UNCHANGED <<initrd, entry, call, chosen, halfDone>>
      BY <1>10 DEF vars
    <2>2. TypeOK' /\ Counted' /\ CallShape'
      BY <2>1 DEF FInv, TypeOK, CallShape, Counted, Running, Shimmed
    <2>4. ShimPlanned' /\ ShimWhereNeeded'
      BY <2>1 DEF FInv, ShimPlanned, ShimWhereNeeded, Running, Needed, Old
    <2>5. OwnFlags'
      BY <2>1 DEF FInv, OwnFlags
    <2>3. RegAnswer' /\ InitrdAnswer' /\ ChildAnswer'
      <3>1. /\ RegSize(call.size)' = RegSize(call.size)
            /\ OfGetprop(call.service, call.size)' = OfGetprop(call.service, call.size)
            /\ Cells(call.size, InitrdValue(call.service))' = Cells(call.size, InitrdValue(call.service))
            /\ OfChild' = OfChild
        BY <2>1 DEF RegSize, OfGetprop, Property, Cells, InitrdValue, OfChild
      <3>2. \A f : (Shimmed(f))' = Shimmed(f)
        BY <2>1 DEF Shimmed
      <3>3. Numbered' = Numbered /\ Direct' = Direct
        BY <2>1, <3>1 DEF Numbered, Direct
      <3> QED
        BY <2>1, <3>1, <3>2, <3>3, Zenon DEF FInv, RegAnswer, InitrdAnswer, ChildAnswer, Running,
           Shimmed
    <2> QED
      BY <2>2, <2>3, <2>4, <2>5 DEF FInv
  <1> QED
    BY <1>1, <1>2, <1>3, <1>4, <1>5, <1>6, <1>7, <1>8, <1>9, <1>10 DEF Next, RunsOn

LEMMA FInvariant == Spec => []FInv
  BY FInit, FStep, PTL DEF Spec

-----------------------------------------------------------------------------
(* Every variable keeps its type. *)
THEOREM FirmwareTypeCorrect == Spec => []TypeOK
  <1>1. FInv => TypeOK
    BY DEF FInv
  <1> QED
    BY <1>1, FInvariant, PTL

(* The kernel that iquik_main starts runs behind prom_shim whenever a flag *)
(* that needs it survived parse_prom_flags, through any sequence of        *)
(* !prom_flags, !debug and !old; an old kernel never does.                 *)
THEOREM ShimIsThere == Spec => []ShimWhereNeeded
  <1>1. FInv => ShimWhereNeeded
    BY DEF FInv
  <1> QED
    BY <1>1, FInvariant, PTL

(* prom_shim and the firmware write past the kernel's buffer only in the   *)
(* two cases AnswerFits names, for every size and every count of CPUs,     *)
(* also when !prom_flags ended early and cpu_count is still 0: a size that *)
(* is a multiple of the cell is counted down to 0.                         *)
THEOREM AnswersFit == Spec => []AnswerFits
  <1>1. FInv => AnswerFits
    <2> SUFFICES ASSUME FInv, Running, call.service # "child"
                 PROVE  /\ call.ret <= call.size
                        /\ Written > call.size =>
                            IF call.service = "reg"
                            THEN /\ Shimmed("SMP_FIX")
                                 /\ call.size < shim_state.cpu_count /\ call.size % CellSize # 0
                            ELSE /\ Shimmed("SHALLOW_SETPROP")
                                 /\ call.size < CellSize /\ Written = CellSize
      BY DEF AnswerFits
    <2> USE DEF FInv
    <2>1. call \in CallType
      BY DEF CallShape
    <2>2. call.size \in Nat /\ call.left \in Nat /\ call.ret \in Nat /\ call.place \in Seq(Cell)
          /\ Len(call.place) \in Nat /\ call.service \in Services
      BY <2>1 DEF CallType
    <2>3. CASE call.service \in {"initrd-start", "initrd-end"} /\ Shimmed("SHALLOW_SETPROP")
      <3>1. /\ call.place = Cells(call.size, InitrdValue(call.service))
            /\ call.ret = call.size
        BY <2>3 DEF InitrdAnswer
      <3>2. InitrdValue(call.service) \in Cell
        BY <2>3, InitrdValueType DEF Cell
      <3> DEFINE v == InitrdValue(call.service)
      <3> HIDE DEF v
      <3>3. Len(Cells(call.size, v)) = IF call.size = 2 * CellSize THEN 2 ELSE 1
        BY <2>2, <3>2, CellsShape DEF v
      <3>4. Len(call.place) = IF call.size = 2 * CellSize THEN 2 ELSE 1
        BY <3>1, <3>3 DEF v
      <3> QED
        BY <2>2, <2>3, <3>1, <3>4 DEF CellSize, Written
    <2>4. CASE call.service \in {"initrd-start", "initrd-end"} /\ ~Shimmed("SHALLOW_SETPROP")
      <3>1. Direct /\ call.size \in Sizes
        BY <2>4 DEF InitrdAnswer
      <3>2. Written <= call.ret /\ call.ret <= call.size
        BY <2>4, <3>1, OfShape DEF Direct, Written
      <3> QED
        BY <2>2, <3>2 DEF Written, CellSize
    <2>5. CASE call.service = "reg" /\ Shimmed("SMP_FIX")
      <3>1. Numbered
        BY <2>5 DEF RegAnswer
      <3>2. call.ret = RegSize(call.size) /\ shim_state.cpu_count \in Nat
        BY <3>1 DEF Numbered, TypeOK
      <3>3. call.ret <= call.size
        BY <2>2, <3>2 DEF RegSize
      <3>4. CASE call.ret % CellSize = 0
        <4>1. call.left + Written = call.ret
          BY <3>1, <3>4 DEF Numbered, Written
        <4> QED
          BY <2>2, <3>3, <4>1 DEF Written, CellSize
      <3>5. CASE call.ret % CellSize # 0
        <4>1. shim_state.cpu_count % CellSize = 0
          BY <3>2 DEF Counted, CellSize
        <4>2. call.size < shim_state.cpu_count /\ call.size % CellSize # 0
          BY <2>2, <3>2, <3>5, <4>1 DEF RegSize
        <4> QED
          BY <2>5, <3>3, <4>2
      <3> QED
        BY <3>4, <3>5
    <2>6. CASE call.service = "reg" /\ ~Shimmed("SMP_FIX")
      <3>1. Direct /\ call.size \in Sizes
        BY <2>6 DEF RegAnswer, CallShape
      <3>2. Written <= call.ret /\ call.ret <= call.size
        BY <2>6, <3>1, OfShape DEF Direct, Written
      <3> QED
        BY <2>2, <3>2 DEF Written, CellSize
    <2>7. CASE call.service = ""
      <3>1. call = NoCall
        BY <2>7 DEF CallShape
      <3>2. call.size = 0 /\ call.ret = 0 /\ Len(call.place) = 0
        BY <3>1 DEF NoCall
      <3> QED
        BY <3>2 DEF CellSize, Written
    <2> QED
      BY <2>2, <2>3, <2>4, <2>5, <2>6, <2>7 DEF Services
  <1> QED
    BY <1>1, FInvariant, PTL

(* A kernel that is not old and has room for a cell finds its initrd where *)
(* the loader put it, if the firmware has no shallow setprop that          *)
(* prom_init does not know of and the user leaves the flags alone.         *)
THEOREM InitrdIsFound == ASSUME ListedFaults PROVE Spec => []KernelFindsInitrd
  <1>1. FInv => KernelFindsInitrd
    <2> SUFFICES ASSUME FInv, fpc = "kernel", call.service \in {"initrd-start", "initrd-end"},
                        ~Old, ~chosen, call.size >= CellSize
                 PROVE  call.place[Len(call.place)] = InitrdValue(call.service)
      BY DEF KernelFindsInitrd, Answered
    <2> USE DEF FInv
    <2> DEFINE value == InitrdValue(call.service)
    <2>1. machine.shallow => Shimmed("SHALLOW_SETPROP")
      BY ListedFaults DEF ListedFaults, OwnFlags, ShimWhereNeeded, Running, Shimmed, TypeOK
    <2>2. call.size \in Sizes /\ call.size \in Nat
      BY CallAssumption DEF InitrdAnswer, Running
    <2>3. value \in Cell
      BY InitrdValueType DEF Cell
    <2>4. CASE Shimmed("SHALLOW_SETPROP")
      <3>1. call.place = Cells(call.size, value)
        BY <2>4 DEF InitrdAnswer, Running
      <3> QED
        BY <2>2, <2>3, <3>1, CellsShape
    <2>5. CASE ~Shimmed("SHALLOW_SETPROP")
      <3> DEFINE prop == Property(call.service, call.size)
      <3>1. Direct
        BY <2>5 DEF InitrdAnswer, Running
      <3>2. prop = Cells(call.size, value)
        BY <2>1, <2>2, <2>5, PropertyShape
      <3>3. /\ Len(prop) = IF call.size = 2 * CellSize THEN 2 ELSE 1
            /\ prop[Len(prop)] = value
        <4> HIDE DEF value, prop
        <4>1. /\ Len(Cells(call.size, value)) = IF call.size = 2 * CellSize THEN 2 ELSE 1
              /\ Cells(call.size, value)[Len(Cells(call.size, value))] = value
          BY <2>2, <2>3, CellsShape
        <4> QED
          BY <3>2, <4>1
      <3>4. /\ call.ret = IF Len(prop) * CellSize < call.size THEN Len(prop) * CellSize ELSE call.size
            /\ Len(call.place) = call.ret \div CellSize
            /\ \A k \in 1 .. Len(call.place) : call.place[k] = prop[k]
        BY <2>2, <3>1, OfShape DEF Direct
      <3> HIDE DEF prop
      <3>5. Len(call.place) = Len(prop) /\ Len(call.place) \in 1 .. Len(call.place)
        BY <2>2, <3>3, <3>4 DEF CellSize
      <3> QED
        BY <3>3, <3>4, <3>5
    <2> QED
      BY <2>4, <2>5
  <1> QED
    BY <1>1, FInvariant, PTL

(* A kernel that is not old sees each of its CPUs once, as many as it has  *)
(* room for, and the child of the media bay just if the bay is full, on    *)
(* every machine, as long as the user leaves the flags alone.              *)
THEOREM DevicesAreSeen == Spec => []KernelSeesDevices
  <1>1. FInv => KernelSeesDevices
    <2> SUFFICES ASSUME FInv PROVE KernelSeesDevices
      OBVIOUS
    <2> USE DEF FInv
    <2>1. ASSUME fpc = "kernel", call.service = "reg", ~Old, ~chosen
          PROVE  /\ \A j, k \in DOMAIN call.place : call.place[j] = call.place[k] => j = k
                 /\ Len(call.place) = IF machine.cpus * CellSize < call.size THEN machine.cpus
                                      ELSE call.size \div CellSize
      <3>1. call \in CallType /\ call.size \in Sizes /\ machine.cpus > 0 /\ machine.cpus \in Nat
        BY <2>1, MachineAssumption DEF CallShape, TypeOK
      <3>2. /\ call.place \in Seq(Cell) /\ Len(call.place) \in Nat
            /\ DOMAIN call.place = 1 .. Len(call.place)
            /\ call.size \in Nat
        BY <3>1 DEF CallType
      <3>3. CASE machine.cpus > 1
        <4>1. Shimmed("SMP_FIX") /\ shim_state.cpu_count = machine.cpus * CellSize
          BY <2>1, <3>1, <3>3 DEF OwnFlags, ShimWhereNeeded, Running, Shimmed
        <4>2. Numbered
          BY <2>1, <4>1 DEF RegAnswer, Running
        <4>3. \A k \in 1 .. Len(call.place) : call.place[k] = k - 1
          BY <4>2 DEF Numbered
        <4>4. Len(call.place) * CellSize = RegSize(call.size)
          <5>1. call.left = 0 /\ call.ret % CellSize = 0
            BY <2>1, <4>2 DEF Numbered, CellSize
          <5>2. call.left + Len(call.place) * CellSize = RegSize(call.size)
            BY <4>2, <5>1 DEF Numbered
          <5> QED
            BY <3>2, <5>1, <5>2 DEF CellSize
        <4>5. \A j, k \in DOMAIN call.place : call.place[j] = call.place[k] => j = k
          BY <3>2, <4>3
        <4>6. Len(call.place) = IF machine.cpus * CellSize < call.size THEN machine.cpus
                                ELSE call.size \div CellSize
          BY <3>1, <3>2, <4>1, <4>4 DEF RegSize, CellSize
        <4> QED
          BY <4>5, <4>6
      <3>4. CASE machine.cpus = 1
        <4>1. ~Shimmed("SMP_FIX")
          BY <2>1, <3>1, <3>4 DEF OwnFlags, Shimmed
        <4>2. Direct
          BY <2>1, <4>1 DEF RegAnswer, Running
        <4>3. /\ call.ret = IF 1 * CellSize < call.size THEN 1 * CellSize ELSE call.size
              /\ Len(call.place) = call.ret \div CellSize
          <5> DEFINE all == Len(Property("reg", call.size)) * CellSize
          <5>1. /\ call.ret = IF all < call.size THEN all ELSE call.size
                /\ Len(call.place) = call.ret \div CellSize
            BY <2>1, <3>1, <4>2, OfShape DEF Direct
          <5>2. all = 1 * CellSize
            BY <3>1, <3>4, PropertyShape
          <5> HIDE DEF all
          <5> QED
            BY <5>1, <5>2
        <4>4. /\ Len(call.place) <= 1
              /\ Len(call.place) = IF 1 * CellSize < call.size THEN 1 ELSE call.size \div CellSize
          BY <3>2, <4>3 DEF CellSize
        <4>5. \A j, k \in DOMAIN call.place : call.place[j] = call.place[k] => j = k
          BY <3>2, <4>4
        <4> QED
          BY <3>4, <4>4, <4>5
      <3> QED
        BY <3>1, <3>3, <3>4
    <2>2. ASSUME fpc = "kernel", call.service = "child", ~Old, ~chosen
          PROVE  (call.place[1] = "ata") = (machine.bay = "full")
      <3>1. machine.bay \in {"none", "empty", "full"} /\ machine.powerbook
        BY <2>2, MachineAssumption DEF TypeOK, ChildAnswer, Running
      <3>2. call.place[1] = IF Shimmed("HIDE_MEDIABAY_ATA") /\ shim_state.bay THEN "nothing"
                            ELSE OfChild
        BY <2>2 DEF ChildAnswer, Running
      <3>3. machine.bay = "empty" => Shimmed("HIDE_MEDIABAY_ATA") /\ shim_state.bay
        BY <2>2, <3>1 DEF OwnFlags, ShimWhereNeeded, Running, Shimmed
      <3>4. machine.bay # "empty" => ~shim_state.bay
        BY <2>2 DEF OwnFlags
      <3> QED
        BY <3>1, <3>2, <3>3, <3>4 DEF OfChild
    <2> QED
      BY <2>1, <2>2 DEF KernelSeesDevices, Answered
  <1> QED
    BY <1>1, FInvariant, PTL

-----------------------------------------------------------------------------
(***************************************************************************)
(* The Console module: the line editor and the wait for a key, for every   *)
(* set of keys, length of the line, width of int and period.               *)
(***************************************************************************)

(* The line as cmd_edit holds it: the first x characters of cbuff. *)
Held == [k \in 1 .. x |-> cbuff[k - 1]]

WaitType == [who : {"preboot", "prompt"}, beg : Clock, end : Clock, now : Clock,
             ticks : Nat, passed : Nat]

(* No NUL is inside the line. *)
NoneEnds == \A k \in 0 .. x - 1 : cbuff[k] \in Printable

(* What is held are the keys taken, but for the one that is looked at. *)
HeldIsTaken ==
    /\ kpc = "getc" => Held = Edited(taken)
    /\ kpc = "key" /\ c = NoKey => Held = Edited(taken)
    /\ kpc = "key" /\ c # NoKey =>
          \E s \in Seq(Keys) : taken = Append(s, c) /\ Held = Edited(s)

(* As long as the sums are exact, the clock and the count agree. *)
OnTime ==
    kpc \in {"poll", "clock"} =>
        /\ wait \in WaitType
        /\ wait.end = Int32(wait.beg + Int32(wait.ticks))
        /\ Exact(wait) /\ wait.passed <= wait.ticks => wait.now = wait.beg + wait.passed

KInv ==
    /\ ConsoleTypeOK /\ OnTime
    /\ kpc \in {"getc", "key"} => NoneEnds
    /\ HeldIsTaken /\ LineIsTyped /\ ScreenShowsLine /\ NotEarly

-----------------------------------------------------------------------------
(* Induction. *)

(* Every set of numbers has a least one. *)
LEMMA LeastNumber ==
    ASSUME NEW T \in SUBSET Nat, T # {}
    PROVE  \E l \in T : \A m \in T : l <= m
  <1>. DEFINE R == OpToRel(<, Nat)
  <1>1. IsWellFoundedOn(R, Nat)
    BY NatLessThanWellFounded
  <1>2. \A a, b \in Nat : <<a, b>> \in R <=> a < b
    BY DEF OpToRel
  <1>. HIDE DEF R
  <1>3. PICK l \in T : \A m \in T : ~(<<m, l>> \in R)
    BY <1>1, WFMin
  <1>4. ASSUME NEW m \in T
        PROVE  l <= m
    <2>1. l \in Nat /\ m \in Nat /\ ~(<<m, l>> \in R)
      BY <1>3
    <2>. QED  BY <1>2, <2>1
  <1>. QED  BY <1>4

(* A set that holds 0 and with every number the next one holds them all. *)
LEMMA AllNumbers ==
    ASSUME NEW T \in SUBSET Nat, 0 \in T, \A n \in T : n + 1 \in T
    PROVE  T = Nat
  <1>. SUFFICES ASSUME Nat \ T # {}
                PROVE  FALSE
    OBVIOUS
  <1>1. PICK l \in Nat \ T : \A m \in Nat \ T : l <= m
    BY LeastNumber
  <1>2. l - 1 \in Nat /\ l - 1 \notin Nat \ T
    BY <1>1
  <1>. QED  BY <1>1, <1>2

-----------------------------------------------------------------------------
(* The line that keys give. *)

(* f is the line after each of the keys. *)
Steps(keys, f) ==
    f = [n \in 0 .. Len(keys) |-> IF n = 0 THEN <<>> ELSE Edit(f[n - 1], keys[n])]

LEMMA StepsExist == \A keys \in Seq(Keys) : \E f : Steps(keys, f)
  <1>. DEFINE T == { m \in Nat : \A keys \in Seq(Keys) : Len(keys) = m => \E f : Steps(keys, f) }
  <1>1. 0 \in T
    <2>. SUFFICES ASSUME NEW keys \in Seq(Keys), Len(keys) = 0
                  PROVE  \E f : Steps(keys, f)
      OBVIOUS
    <2>1. Steps(keys, [n \in 0 .. 0 |-> <<>>])
      BY DEF Steps
    <2>. QED  BY <2>1
  <1>2. ASSUME NEW m \in T
        PROVE  m + 1 \in T
    <2>. SUFFICES ASSUME NEW keys \in Seq(Keys), Len(keys) = m + 1
                  PROVE  \E f : Steps(keys, f)
      OBVIOUS
    <2>. DEFINE s == SubSeq(keys, 1, m)
    <2>1. s \in Seq(Keys) /\ Len(s) = m /\ \A n \in 1 .. m : s[n] = keys[n]
      OBVIOUS
    <2>2. PICK f : Steps(s, f)
      BY <2>1
    <2>. DEFINE g == [n \in 0 .. m + 1 |-> IF n = m + 1 THEN Edit(f[m], keys[m + 1]) ELSE f[n]]
    <2>. HIDE DEF s
    <2>3. /\ \A n \in 0 .. m : f[n] = IF n = 0 THEN <<>> ELSE Edit(f[n - 1], keys[n])
          /\ m \in Nat
      <3>1. m \in Nat /\ f = [n \in 0 .. m |-> IF n = 0 THEN <<>> ELSE Edit(f[n - 1], s[n])]
        BY <2>1, <2>2 DEF Steps
      <3>2. \A n \in 0 .. m : f[n] = IF n = 0 THEN <<>> ELSE Edit(f[n - 1], s[n])
        BY <3>1
      <3>3. \A n \in 0 .. m : n = 0 \/ n \in 1 .. m
        BY <3>1
      <3>. QED  BY <2>1, <3>1, <3>2, <3>3
    <2>4. \A n \in 0 .. m + 1 : g[n] = IF n = 0 THEN <<>> ELSE Edit(g[n - 1], keys[n])
      BY <2>3
    <2>5. g = [n \in 0 .. m + 1 |-> g[n]]
      OBVIOUS
    <2>. HIDE DEF g
    <2>6. Steps(keys, g)
      BY <2>4, <2>5 DEF Steps
    <2>. QED  BY <2>6
  <1>3. T = Nat
    <2>. HIDE DEF T
    <2>1. T \in SUBSET Nat
      BY DEF T
    <2>. QED  BY <1>1, <1>2, <2>1, AllNumbers
  <1>. QED
    <2>. TAKE keys \in Seq(Keys)
    <2>1. Len(keys) \in T
      BY <1>3
    <2>. QED  BY <2>1

LEMMA StepsAgree ==
    ASSUME NEW keys \in Seq(Keys), NEW s \in Seq(Keys), NEW f, NEW g,
           Steps(keys, f), Steps(s, g),
           Len(s) <= Len(keys), \A n \in 1 .. Len(s) : s[n] = keys[n]
    PROVE  f[Len(s)] = g[Len(s)]
  <1>. DEFINE T == { n \in Nat : n <= Len(s) => f[n] = g[n] }
  <1>1. /\ \A n \in 0 .. Len(keys) : f[n] = IF n = 0 THEN <<>> ELSE Edit(f[n - 1], keys[n])
        /\ \A n \in 0 .. Len(s) : g[n] = IF n = 0 THEN <<>> ELSE Edit(g[n - 1], s[n])
    BY DEF Steps
  <1>2. 0 \in T
    BY <1>1
  <1>3. ASSUME NEW n \in T
        PROVE  n + 1 \in T
    <2>. SUFFICES ASSUME n + 1 <= Len(s)
                  PROVE  f[n + 1] = g[n + 1]
      OBVIOUS
    <2>1. f[n] = g[n] /\ n + 1 \in 1 .. Len(s) /\ n + 1 \in 0 .. Len(keys) /\ n + 1 # 0
          /\ (n + 1) - 1 = n
      OBVIOUS
    <2>2. f[n + 1] = Edit(f[n], keys[n + 1]) /\ g[n + 1] = Edit(g[n], s[n + 1])
      BY <1>1, <2>1
    <2>. QED  BY <2>1, <2>2
  <1>4. T = Nat
    <2>. HIDE DEF T
    <2>1. T \in SUBSET Nat
      BY DEF T
    <2>. QED  BY <1>2, <1>3, <2>1, AllNumbers
  <1>. QED  BY <1>4

LEMMA EditedSteps ==
    ASSUME NEW keys \in Seq(Keys)
    PROVE  \E f : Steps(keys, f) /\ Edited(keys) = f[Len(keys)]
  <1>. DEFINE F == CHOOSE f : Steps(keys, f)
  <1>1. Steps(keys, F)
    BY StepsExist
  <1>2. Edited(keys) = F[Len(keys)]
    BY DEF Edited, Steps
  <1>. QED  BY <1>1, <1>2

LEMMA EditedNothing == Edited(<<>>) = <<>>
  <1>1. <<>> \in Seq(Keys)
    OBVIOUS
  <1>2. PICK f : Steps(<<>>, f) /\ Edited(<<>>) = f[Len(<<>>)]
    BY <1>1, EditedSteps
  <1>. QED  BY <1>2 DEF Steps

(* One more key is one more step of the editor. *)
LEMMA EditedOneMore ==
    ASSUME NEW s \in Seq(Keys), NEW k \in Keys
    PROVE  Edited(Append(s, k)) = Edit(Edited(s), k)
  <1>. DEFINE keys == Append(s, k)
  <1>1. /\ keys \in Seq(Keys) /\ Len(keys) = Len(s) + 1 /\ keys[Len(s) + 1] = k
        /\ \A n \in 1 .. Len(s) : s[n] = keys[n]
    OBVIOUS
  <1>. HIDE DEF keys
  <1>2. PICK f : Steps(keys, f) /\ Edited(keys) = f[Len(keys)]
    BY <1>1, EditedSteps
  <1>3. PICK g : Steps(s, g) /\ Edited(s) = g[Len(s)]
    BY EditedSteps
  <1>4. f[Len(s)] = g[Len(s)]
    BY <1>1, <1>2, <1>3, StepsAgree
  <1>5. f[Len(s) + 1] = Edit(f[Len(s)], k)
    BY <1>1, <1>2 DEF Steps
  <1>. QED  BY <1>1, <1>2, <1>3, <1>4, <1>5 DEF keys

-----------------------------------------------------------------------------
(* Arithmetic on int. *)

LEMMA IntRange ==
    ASSUME NEW n \in Int
    PROVE  Int32(n) \in Clock
  <1>. DEFINE M == 2 * MaxInt + 2
  <1>1. MaxInt \in Nat /\ M \in Nat /\ M > 0
    BY ConsoleAssumption
  <1>2. (n + MaxInt + 1) % M \in 0 .. M - 1
    <2>. HIDE DEF M
    <2>. QED  BY <1>1
  <1>. QED  BY <1>1, <1>2 DEF Int32, Clock

(* A sum that is not beyond an int, and one that has wrapped once. *)
LEMMA ModOnce ==
    ASSUME NEW M \in Nat, M > 0, NEW r \in 0 .. M - 1
    PROVE  r % M = r /\ (r + M) % M = r /\ (r - M) % M = r
  OBVIOUS

LEMMA IntExact ==
    ASSUME NEW n \in Clock
    PROVE  Int32(n) = n /\ Int32(n + 2 * MaxInt + 2) = n /\ Int32(n - 2 * MaxInt - 2) = n
  <1>. DEFINE M == 2 * MaxInt + 2
              r == n + MaxInt + 1
  <1>1. MaxInt \in Nat /\ M \in Nat /\ M > 0 /\ r \in 0 .. M - 1
    BY ConsoleAssumption DEF Clock
  <1>2. r % M = r /\ (r + M) % M = r /\ (r - M) % M = r
    <2>. HIDE DEF M, r
    <2>. QED  BY <1>1, ModOnce
  <1>3. n + 2 * MaxInt + 2 + MaxInt + 1 = r + M /\ n - 2 * MaxInt - 2 + MaxInt + 1 = r - M
    BY <1>1 DEF Clock
  <1>. QED  BY <1>1, <1>2, <1>3 DEF Int32, Clock

(* The end of a wait is right even if its length is beyond an int. *)
LEMMA IntSum ==
    ASSUME NEW a \in Clock, NEW b \in Nat, a + b \in Clock
    PROVE  Int32(a + Int32(b)) = a + b
  <1>1. MaxInt \in Nat
    BY ConsoleAssumption
  <1>2. CASE b <= MaxInt
    <2>1. b \in Clock
      BY <1>1, <1>2 DEF Clock
    <2>2. Int32(b) = b
      BY <2>1, IntExact
    <2>. QED  BY <2>2, IntExact
  <1>3. CASE b > MaxInt
    <2>. DEFINE m == b - 2 * MaxInt - 2
    <2>1. m \in Clock /\ b = m + 2 * MaxInt + 2
      BY <1>1, <1>3 DEF Clock
    <2>. HIDE DEF m
    <2>2. Int32(b) = m
      BY <2>1, IntExact
    <2>3. a \in Int /\ m \in Int /\ a + m = (a + b) - 2 * MaxInt - 2
      BY <1>1, <2>1 DEF Clock
    <2>. QED  BY <2>2, <2>3, IntExact
  <1>. QED  BY <1>1, <1>2, <1>3

-----------------------------------------------------------------------------
(* The buffer and the string in it. *)

(* A NUL right behind the line ends the string there. *)
LEMMA LineIsHeld ==
    ASSUME x' \in 0 .. CmdLeng - 1, cbuff' \in [0 .. CmdLeng - 1 -> Keys \cup {NUL}],
           NoneEnds', cbuff'[x'] = NUL
    PROVE  Line' = Held'
  <1>. DEFINE ends == { k \in DOMAIN cbuff' : cbuff'[k] = NUL }
              n == IF ends = {} THEN CmdLeng ELSE CHOOSE k \in ends : \A j \in ends : k <= j
  <1>0. CmdLeng \in Nat /\ NUL \notin Printable
    BY ConsoleAssumption DEF Keys
  <1>1. /\ CmdLeng \in Nat /\ x' \in Nat /\ DOMAIN cbuff' = 0 .. CmdLeng - 1
        /\ NUL \notin Printable /\ x' \in DOMAIN cbuff'
    BY <1>0
  <1>2. x' \in ends
    BY <1>1
  <1>3. \A j \in ends : x' <= j
    <2>. SUFFICES ASSUME NEW j \in ends, j < x'
                  PROVE  FALSE
      BY <1>1
    <2>1. j \in 0 .. CmdLeng - 1 /\ cbuff'[j] = NUL
      BY <1>1
    <2>2. x' \in Nat /\ CmdLeng \in Nat
      BY <1>1
    <2>. HIDE DEF ends, n
    <2>3. \A a, b \in Nat : a < b => a \in 0 .. b - 1
      OBVIOUS
    <2>4. j \in Nat
      BY <2>1
    <2>5. j \in 0 .. x' - 1
      BY <2>2, <2>3, <2>4
    <2>. QED  BY <1>1, <2>1, <2>5 DEF NoneEnds
  <1>4. n = x'
    <2>1. n \in ends /\ \A j \in ends : n <= j
      BY <1>2, <1>3
    <2>. HIDE DEF n
    <2>2. n <= x' /\ x' <= n /\ n \in Int
      BY <1>1, <1>2, <1>3, <2>1
    <2>. QED  BY <1>1, <2>2
  <1>5. Line' = [k \in 1 .. n |-> cbuff'[k - 1]]
    BY DEF Line
  <1>. QED  BY <1>4, <1>5 DEF Held

LEMMA HeldType ==
    ASSUME ConsoleTypeOK, NoneEnds
    PROVE  Held \in Seq(Printable) /\ Len(Held) = x
  <1>1. x \in Nat
    BY ConsoleAssumption DEF ConsoleTypeOK
  <1>2. \A k \in 1 .. x : cbuff[k - 1] \in Printable
    BY <1>1 DEF NoneEnds
  <1>. QED  BY <1>1, <1>2 DEF Held

-----------------------------------------------------------------------------
(* The invariant. *)

(* Nothing that is said of the line changes. *)
LEMMA SameLine ==
    ASSUME UNCHANGED <<x, cbuff, taken, c>>
    PROVE  /\ Held' = Held /\ Line' = Line /\ Edited(taken') = Edited(taken)
           /\ NoneEnds' = NoneEnds
  BY DEF Held, Line, NoneEnds

LEMMA KInvInit ==
    ASSUME ConsoleInit
    PROVE  KInv
  <1>1. ConsoleTypeOK
    <2>1. CmdLeng \in Nat /\ CmdLeng > 0 /\ MaxKeys \in Nat
      BY ConsoleAssumption
    <2>2. cbuff \in [0 .. CmdLeng - 1 -> Keys \cup {NUL}]
      BY DEF ConsoleInit
    <2>3. tried \in BOOLEAN
      BY DEF ConsoleInit
    <2>4. queue \in Seq(Keys) /\ screen \in Seq(Keys) /\ taken \in Seq(Keys)
      BY DEF ConsoleInit
    <2>5. /\ kpc = "start" /\ wait = NoWait /\ preboot \in {"none", "asked"} /\ typed = 0
          /\ c = NoKey /\ x = 0
      BY DEF ConsoleInit
    <2>. QED  BY <2>1, <2>2, <2>3, <2>4, <2>5 DEF ConsoleTypeOK
  <1>. QED
    BY <1>1 DEF ConsoleInit, KInv, OnTime, HeldIsTaken, LineIsTyped, ScreenShowsLine, NotEarly

LEMMA KInvType ==
    ASSUME KInv, NEW k \in Keys, Type(k)
    PROVE  KInv'
  <1>1. ConsoleTypeOK'
    BY ConsoleAssumption DEF KInv, ConsoleTypeOK, Type, editVars
  <1>2. /\ Held' = Held /\ Line' = Line /\ Edited(taken') = Edited(taken)
        /\ NoneEnds' = NoneEnds
    BY SameLine DEF Type, editVars
  <1>3. OnTime'
    BY DEF KInv, OnTime, Type, Exact, WaitType
  <1>4. HeldIsTaken'
    BY <1>2 DEF KInv, HeldIsTaken, Type, editVars
  <1>5. LineIsTyped' /\ ScreenShowsLine' /\ NotEarly'
    BY <1>2 DEF KInv, LineIsTyped, ScreenShowsLine, NotEarly, Type, editVars
  <1>. QED  BY <1>1, <1>2, <1>3, <1>4, <1>5 DEF KInv, Type

(* Before a line is edited and behind it. *)
LEMMA KInvAway ==
    ASSUME ConsoleTypeOK', OnTime', NotEarly',
           kpc' \notin {"getc", "key", "line", "command"}
    PROVE  KInv'
  BY DEF KInv, HeldIsTaken, LineIsTyped, ScreenShowsLine

LEMMA WaitBegins ==
    ASSUME NEW who \in {"preboot", "prompt"}, NEW t \in Nat, BeginWait(who, t)
    PROVE  OnTime' /\ {wait'.beg, wait'.end, wait'.now} \subseteq Clock /\ kpc' = "poll"
  <1>1. MaxInt \in Nat /\ PerTenth \in Nat /\ PerTenth * t \in Nat
    BY ConsoleAssumption
  <1>2. PICK now \in Clock :
            wait' = [who |-> who, beg |-> now, end |-> EndOf(now, t), now |-> now,
                     ticks |-> PerTenth * t, passed |-> 0]
    BY DEF BeginWait
  <1>3. now \in Int
    BY <1>1 DEF Clock
  <1>4. EndOf(now, t) \in Clock /\ EndOf(now, t) = Int32(now + Int32(PerTenth * t))
    <2>1. Int32(PerTenth * t) \in Int
      BY <1>1, IntRange DEF Clock
    <2>. QED  BY <1>3, <2>1, IntRange DEF EndOf
  <1>. DEFINE q == PerTenth * t
  <1>. HIDE DEF q
  <1>5. wait' \in WaitType /\ wait'.end = Int32(wait'.beg + Int32(wait'.ticks))
        /\ wait'.now = wait'.beg /\ wait'.passed = 0
        /\ {wait'.beg, wait'.end, wait'.now} \subseteq Clock
    BY <1>1, <1>2, <1>4 DEF WaitType
  <1>6. wait'.beg + wait'.passed = wait'.now
    BY <1>2, <1>3
  <1>. QED  BY <1>5, <1>6 DEF OnTime, BeginWait

LEMMA KInvStart ==
    ASSUME KInv, Start
    PROVE  KInv'
  <1>1. CASE preboot = "none"
    <2>1. ConsoleTypeOK'
      BY <1>1 DEF KInv, ConsoleTypeOK, Start, editVars
    <2>. QED  BY <1>1, <2>1, KInvAway DEF Start, KInv, OnTime, NotEarly
  <1>2. CASE preboot # "none"
    <2>1. BeginWait("preboot", PrebootTimeout) /\ PrebootTimeout \in Nat
      BY <1>2, ConsoleAssumption DEF Start
    <2>2. OnTime' /\ {wait'.beg, wait'.end, wait'.now} \subseteq Clock /\ kpc' = "poll"
      BY <2>1, WaitBegins
    <2>3. ConsoleTypeOK'
      BY <2>2 DEF KInv, ConsoleTypeOK, Start, editVars
    <2>. QED  BY <2>2, <2>3, KInvAway DEF Start, KInv, NotEarly
  <1>. QED  BY <1>1, <1>2

LEMMA TimeGoesOn ==
    ASSUME KInv, kpc \in {"poll", "clock"}, NEW d \in 1 .. MaxCall, TimePasses(d)
    PROVE  OnTime' /\ {wait'.beg, wait'.end, wait'.now} \subseteq Clock
  <1>1. /\ MaxInt \in Nat /\ MaxCall \in Nat /\ d \in Nat /\ d <= MaxCall
        /\ wait \in WaitType
        /\ wait.end = Int32(wait.beg + Int32(wait.ticks))
        /\ Exact(wait) /\ wait.passed <= wait.ticks => wait.now = wait.beg + wait.passed
    BY ConsoleAssumption DEF KInv, OnTime
  <1>2. /\ wait.beg \in Clock /\ wait.end \in Clock /\ wait.now \in Clock
        /\ wait.beg \in Int /\ wait.now \in Int /\ wait.ticks \in Nat /\ wait.passed \in Nat
        /\ wait.beg >= -MaxInt - 1
    BY <1>1 DEF WaitType, Clock
  <1>. DEFINE p == IF wait.passed > wait.ticks THEN wait.passed ELSE wait.passed + d
  <1>3. wait' = [wait EXCEPT !.now = Int32(wait.now + d), !.passed = p]
    BY DEF TimePasses
  <1>4. Int32(wait.now + d) \in Clock
    BY <1>1, <1>2, IntRange
  <1>5. p \in Nat
    BY <1>1, <1>2
  <1>. HIDE DEF p
  <1>6. /\ wait' \in WaitType
        /\ wait'.beg = wait.beg /\ wait'.end = wait.end /\ wait'.ticks = wait.ticks
        /\ wait'.now = Int32(wait.now + d) /\ wait'.passed = p
    BY <1>1, <1>3, <1>4, <1>5 DEF WaitType
  <1>7. ASSUME Exact(wait'), p <= wait.ticks
        PROVE  Int32(wait.now + d) = wait.beg + p
    <2>1. Exact(wait) /\ wait.beg + wait.ticks + 2 * MaxCall <= MaxInt
      BY <1>6, <1>7 DEF Exact
    <2>2. wait.passed <= wait.ticks /\ p = wait.passed + d
      BY <1>1, <1>2, <1>7 DEF p
    <2>3. wait.now + d = wait.beg + p
      BY <1>1, <1>2, <2>1, <2>2
    <2>4. wait.beg + p \in Clock
      BY <1>1, <1>2, <1>5, <1>7, <2>1 DEF Clock
    <2>. QED  BY <2>3, <2>4, IntExact
  <1>. QED  BY <1>1, <1>2, <1>4, <1>6, <1>7 DEF OnTime

LEMMA KInvTime ==
    ASSUME KInv, PollNothing \/ StillTime
    PROVE  KInv'
  <1>1. /\ kpc \in {"poll", "clock"} /\ \E d \in 1 .. MaxCall : TimePasses(d)
        /\ kpc' \in {"poll", "clock"}
        /\ UNCHANGED <<tried, preboot, queue, typed, c, editVars, taken, early>>
    BY DEF PollNothing, StillTime
  <1>2. OnTime' /\ {wait'.beg, wait'.end, wait'.now} \subseteq Clock
    BY <1>1, TimeGoesOn
  <1>3. ConsoleTypeOK'
    BY <1>1, <1>2 DEF KInv, ConsoleTypeOK, editVars
  <1>. QED  BY <1>1, <1>2, <1>3, KInvAway DEF KInv, NotEarly

LEMMA KInvTimedOut ==
    ASSUME KInv, TimedOut
    PROVE  KInv'
  <1>1. kpc' \in {"prompt", "auto"}
    BY DEF TimedOut
  <1>2. ConsoleTypeOK'
    BY <1>1 DEF KInv, ConsoleTypeOK, TimedOut, editVars
  <1>3. ~(Exact(wait) /\ wait.passed < wait.ticks)
    <2>. SUFFICES ASSUME Exact(wait), wait.passed < wait.ticks
                  PROVE  FALSE
      OBVIOUS
    <2>1. /\ MaxInt \in Nat /\ MaxCall \in Nat /\ wait \in WaitType
          /\ wait.end = Int32(wait.beg + Int32(wait.ticks))
          /\ wait.passed <= wait.ticks => wait.now = wait.beg + wait.passed
      BY ConsoleAssumption DEF KInv, OnTime, TimedOut
    <2>2. /\ wait.beg \in Clock /\ wait.beg \in Int /\ wait.ticks \in Nat /\ wait.passed \in Nat
          /\ wait.beg >= -MaxInt - 1
      BY <2>1 DEF WaitType, Clock
    <2>3. wait.beg + wait.ticks \in Clock
      BY <2>1, <2>2 DEF Exact, Clock
    <2>4. wait.end = wait.beg + wait.ticks
      BY <2>1, <2>2, <2>3, IntSum
    <2>. QED  BY <2>1, <2>2, <2>4 DEF TimedOut, TimeLeft
  <1>4. NotEarly'
    BY <1>3 DEF KInv, NotEarly, TimedOut
  <1>. QED  BY <1>1, <1>2, <1>4, KInvAway DEF OnTime

(* A line begins, with the key that ended a wait or with none. *)
LEMMA EditBegins ==
    ASSUME KInv, NEW key \in Keys \cup {NoKey}, BeginEdit(key), NotEarly',
           taken' = IF key = NoKey THEN <<>> ELSE <<key>>,
           queue' \in Seq(Keys), tried' \in BOOLEAN,
           wait' = wait \/ wait' = NoWait,
           UNCHANGED <<preboot, typed>>
    PROVE  KInv'
  <1>1. /\ CmdLeng \in Nat /\ CmdLeng > 0 /\ NoKey \notin Keys
        /\ kpc' = IF key = NoKey THEN "getc" ELSE "key"
        /\ x' = 0 /\ screen' = <<>> /\ c' = key
    BY ConsoleAssumption DEF BeginEdit
  <1>2. cbuff' \in [0 .. CmdLeng - 1 -> Keys \cup {NUL}]
    BY DEF BeginEdit, KInv, ConsoleTypeOK
  <1>3. taken' \in Seq(Keys)
    OBVIOUS
  <1>4. ConsoleTypeOK'
    BY <1>1, <1>2, <1>3 DEF KInv, ConsoleTypeOK
  <1>5. NoneEnds'
    BY <1>1 DEF NoneEnds
  <1>6. Held' = <<>>
    BY <1>1 DEF Held
  <1>7. HeldIsTaken'
    <2>1. CASE key = NoKey
      BY <1>1, <1>6, <2>1, EditedNothing DEF HeldIsTaken
    <2>2. CASE key # NoKey
      <3>1. taken' = Append(<<>>, key) /\ <<>> \in Seq(Keys)
        BY <2>2
      <3>. QED  BY <1>1, <1>6, <2>2, <3>1, EditedNothing DEF HeldIsTaken
    <2>. QED  BY <2>1, <2>2
  <1>8. ScreenShowsLine'
    BY <1>1, <1>6 DEF ScreenShowsLine, Held
  <1>9. OnTime' /\ LineIsTyped'
    BY <1>1 DEF OnTime, LineIsTyped
  <1>. QED  BY <1>4, <1>5, <1>7, <1>8, <1>9 DEF KInv

LEMMA KInvPollKey ==
    ASSUME KInv, PollKey
    PROVE  KInv'
  <1>1. /\ queue \in Seq(Keys) /\ queue # <<>> /\ Head(queue) \in Keys
        /\ Tail(queue) \in Seq(Keys) /\ NoKey \notin Keys
    BY ConsoleAssumption DEF KInv, ConsoleTypeOK, PollKey
  <1>2. CASE wait.who = "preboot" \/ Head(queue) = "cr"
    <2>1. kpc' \in {"prompt", "auto"}
      BY <1>2 DEF PollKey
    <2>2. /\ UNCHANGED <<c, editVars, tried, typed, early>> /\ queue' = Tail(queue)
          /\ wait' = NoWait
      BY <1>2 DEF PollKey
    <2>3. taken' \in {taken, <<Head(queue)>>} /\ preboot' \in {preboot, "skipped"}
      BY <1>2 DEF PollKey
    <2>4. taken' \in Seq(Keys)
      <3>1. taken \in Seq(Keys) /\ <<Head(queue)>> \in Seq(Keys)
        BY <1>1 DEF KInv, ConsoleTypeOK
      <3>. QED  BY <2>3, <3>1
    <2>5. ConsoleTypeOK'
      BY <1>1, <2>1, <2>2, <2>3, <2>4 DEF KInv, ConsoleTypeOK, editVars
    <2>. QED  BY <2>1, <2>2, <2>5, KInvAway DEF KInv, NotEarly, OnTime
  <1>3. CASE wait.who # "preboot" /\ Head(queue) # "cr"
    <2>1. /\ BeginEdit(Head(queue)) /\ taken' = <<Head(queue)>> /\ wait' = NoWait
          /\ queue' = Tail(queue) /\ UNCHANGED <<preboot, tried, typed, early>>
      BY <1>3 DEF PollKey
    <2>2. tried' \in BOOLEAN /\ NotEarly'
      BY <2>1 DEF KInv, ConsoleTypeOK, NotEarly
    <2>. QED  BY <1>1, <2>1, <2>2, EditBegins
  <1>. QED  BY <1>2, <1>3

LEMMA KInvFirstPrompt ==
    ASSUME KInv, NEW t \in Timeouts, FirstPrompt(t)
    PROVE  KInv'
  <1>1. /\ UNCHANGED <<preboot, queue, typed, early>> /\ tried' = TRUE /\ taken' = <<>>
        /\ NotEarly' /\ queue' \in Seq(Keys) /\ t \in Int
    BY ConsoleAssumption DEF FirstPrompt, KInv, NotEarly, ConsoleTypeOK
  <1>2. CASE BeginEdit(NoKey) /\ UNCHANGED wait
    BY <1>1, <1>2, EditBegins
  <1>3. CASE kpc' = "auto" /\ UNCHANGED <<wait, c, editVars>>
    <2>1. ConsoleTypeOK'
      <3>1. tried' \in BOOLEAN /\ taken' \in Seq(Keys)
        BY <1>1
      <3>2. UNCHANGED <<preboot, queue, typed>>
        BY <1>1
      <3>. QED  BY <1>3, <3>1, <3>2 DEF KInv, ConsoleTypeOK, editVars
    <2>. QED  BY <1>1, <1>3, <2>1, KInvAway DEF OnTime
  <1>4. CASE t > 0 /\ BeginWait("prompt", t) /\ UNCHANGED <<c, editVars, early>>
    <2>1. t \in Nat
      BY <1>1, <1>4
    <2>2. OnTime' /\ {wait'.beg, wait'.end, wait'.now} \subseteq Clock /\ kpc' = "poll"
      BY <1>4, <2>1, WaitBegins
    <2>3. ConsoleTypeOK'
      <3>1. tried' \in BOOLEAN /\ taken' \in Seq(Keys)
        BY <1>1
      <3>2. UNCHANGED <<preboot, queue, typed>>
        BY <1>1
      <3>. QED  BY <1>4, <2>2, <3>1, <3>2 DEF KInv, ConsoleTypeOK, editVars
    <2>. QED  BY <1>1, <2>2, <2>3, KInvAway
  <1>. QED  BY <1>2, <1>3, <1>4 DEF FirstPrompt

LEMMA KInvLaterPrompt ==
    ASSUME KInv, LaterPrompt
    PROVE  KInv'
  <1>1. /\ BeginEdit(NoKey) /\ taken' = <<>>
        /\ UNCHANGED <<wait, tried, preboot, queue, typed, early>>
    BY DEF LaterPrompt
  <1>2. queue' \in Seq(Keys) /\ tried' \in BOOLEAN /\ NotEarly'
    BY <1>1 DEF KInv, ConsoleTypeOK, NotEarly
  <1>. QED  BY <1>1, <1>2, EditBegins

LEMMA KInvAgain ==
    ASSUME KInv, Again
    PROVE  KInv'
  <1>1. ConsoleTypeOK'
    BY DEF KInv, ConsoleTypeOK, Again, editVars
  <1>. QED  BY <1>1, KInvAway DEF Again, KInv, NotEarly, OnTime

LEMMA KInvGetChar ==
    ASSUME KInv, GetChar
    PROVE  KInv'
  <1>1. /\ queue \in Seq(Keys) /\ queue # <<>> /\ Head(queue) \in Keys
        /\ Tail(queue) \in Seq(Keys) /\ NoKey \notin Keys /\ taken \in Seq(Keys)
    BY ConsoleAssumption DEF KInv, ConsoleTypeOK, GetChar
  <1>2. /\ kpc = "getc" /\ kpc' = "key" /\ c' = Head(queue) /\ queue' = Tail(queue)
        /\ taken' = Append(taken, c')
        /\ UNCHANGED <<wait, tried, preboot, typed, x, cbuff, screen, early>>
    BY DEF GetChar, editVars
  <1>3. ConsoleTypeOK'
    BY <1>1, <1>2 DEF KInv, ConsoleTypeOK
  <1>4. Held' = Held /\ NoneEnds' = NoneEnds
    BY <1>2 DEF Held, NoneEnds
  <1>5. HeldIsTaken'
    BY <1>1, <1>2, <1>4 DEF KInv, HeldIsTaken
  <1>6. LineIsTyped' /\ OnTime'
    BY <1>2 DEF LineIsTyped, OnTime
  <1>7. ScreenShowsLine' /\ NotEarly'
    BY <1>2 DEF KInv, ScreenShowsLine, NotEarly
  <1>. QED  BY <1>2, <1>3, <1>4, <1>5, <1>6, <1>7 DEF KInv

LEMMA KInvGetCharFails ==
    ASSUME KInv, GetCharFails
    PROVE  KInv'
  <1>1. /\ kpc = "getc" /\ kpc' = "key" /\ c' = NoKey
        /\ UNCHANGED <<wait, tried, preboot, queue, typed, x, cbuff, screen, taken, early>>
    BY DEF GetCharFails, editVars
  <1>2. ConsoleTypeOK'
    BY <1>1 DEF KInv, ConsoleTypeOK
  <1>3. Held' = Held /\ NoneEnds' = NoneEnds
    BY <1>1 DEF Held, NoneEnds
  <1>4. HeldIsTaken'
    BY <1>1, <1>3 DEF KInv, HeldIsTaken
  <1>5. LineIsTyped' /\ OnTime'
    BY <1>1 DEF LineIsTyped, OnTime
  <1>6. ScreenShowsLine' /\ NotEarly'
    BY <1>1 DEF KInv, ScreenShowsLine, NotEarly
  <1>. QED  BY <1>1, <1>2, <1>3, <1>4, <1>5, <1>6 DEF KInv

(* A key that is looked at goes into the line as Edit says. *)
LEMMA KeyDone ==
    ASSUME KInv, NEW keys \in SUBSET Keys, KeyStep(keys),
           x' \in 0 .. CmdLeng - 1, cbuff' \in [0 .. CmdLeng - 1 -> Keys \cup {NUL}],
           NoneEnds', screen' = Held', Held' = Edit(Held, c)
    PROVE  KInv'
  <1>1. /\ kpc = "key" /\ kpc' = "getc" /\ c \in Keys /\ NoKey \notin Keys /\ NUL \notin Keys
        /\ UNCHANGED <<wait, tried, preboot, queue, typed, c, taken, early>>
    BY ConsoleAssumption DEF KeyStep
  <1>2. PICK s \in Seq(Keys) : taken = Append(s, c) /\ Held = Edited(s)
    BY <1>1 DEF KInv, HeldIsTaken
  <1>3. HeldIsTaken'
    <2>1. Edited(taken) = Edit(Held, c)
      BY <1>1, <1>2, EditedOneMore
    <2>. QED  BY <1>1, <2>1 DEF HeldIsTaken
  <1>4. screen' \in Seq(Keys)
    <2>1. CmdLeng \in Nat /\ x' \in Nat
      BY ConsoleAssumption
    <2>2. \A k \in 1 .. x' : cbuff'[k - 1] \in Printable
      BY <2>1 DEF NoneEnds
    <2>3. \A k \in 1 .. x' : cbuff'[k - 1] \in Keys
      BY <2>2 DEF Keys
    <2>. QED  BY <2>1, <2>3 DEF Held
  <1>5. ConsoleTypeOK'
    BY <1>1, <1>4 DEF KInv, ConsoleTypeOK
  <1>6. ScreenShowsLine'
    BY DEF ScreenShowsLine, Held
  <1>7. OnTime' /\ LineIsTyped'
    BY <1>1 DEF OnTime, LineIsTyped
  <1>8. NotEarly'
    BY <1>1 DEF KInv, NotEarly
  <1>. QED  BY <1>1, <1>3, <1>5, <1>6, <1>7, <1>8 DEF KInv

LEMMA KeyFacts ==
    ASSUME KInv, kpc = "key"
    PROVE  /\ CmdLeng \in Nat /\ x \in Nat /\ x <= CmdLeng - 1 /\ x \in 0 .. CmdLeng - 1
           /\ cbuff \in [0 .. CmdLeng - 1 -> Keys \cup {NUL}]
           /\ NoneEnds /\ screen = Held /\ ConsoleTypeOK
           /\ Held \in Seq(Printable) /\ Len(Held) = x
           /\ Printable \cap Erase = {} /\ Other \cap (Printable \cup Erase) = {}
           /\ {"cr", "tab"} \cap (Printable \cup Erase \cup Other) = {}
           /\ Printable \cup Erase \cup Other \cup {"cr", "tab"} \subseteq Keys
  <1>1. CmdLeng \in Nat /\ x \in 0 .. CmdLeng - 1 /\ NoneEnds /\ screen = Held /\ ConsoleTypeOK
    BY ConsoleAssumption DEF KInv, ConsoleTypeOK, ScreenShowsLine, Held
  <1>2. Held \in Seq(Printable) /\ Len(Held) = x
    BY <1>1, HeldType
  <1>3. cbuff \in [0 .. CmdLeng - 1 -> Keys \cup {NUL}]
    BY <1>1 DEF ConsoleTypeOK
  <1>4. /\ Printable \cap Erase = {} /\ Other \cap (Printable \cup Erase) = {}
        /\ {"cr", "tab"} \cap (Printable \cup Erase \cup Other) = {}
        /\ Printable \cup Erase \cup Other \cup {"cr", "tab"} \subseteq Keys
    BY ConsoleAssumption DEF Keys
  <1>. QED  BY <1>1, <1>2, <1>3, <1>4

LEMMA KInvTab ==
    ASSUME KInv, KeyTab
    PROVE  KInv'
  <1>1. /\ kpc = "key" /\ c = "tab" /\ KeyStep({"tab"}) /\ x' = x
        /\ cbuff' = [cbuff EXCEPT ![x] = NUL] /\ screen' = Line'
    BY DEF KeyTab, KeyStep
  <1>2. /\ cbuff' \in [0 .. CmdLeng - 1 -> Keys \cup {NUL}] /\ cbuff'[x'] = NUL
        /\ \A k \in 0 .. x - 1 : cbuff'[k] = cbuff[k]
    BY <1>1, KeyFacts
  <1>3. NoneEnds'
    BY <1>1, <1>2, KeyFacts DEF NoneEnds
  <1>4. Held' = Held
    BY <1>1, <1>2, KeyFacts DEF Held
  <1>5. Line' = Held'
    BY <1>1, <1>2, <1>3, KeyFacts, LineIsHeld
  <1>6. Held = Edit(Held, c)
    BY <1>1, KeyFacts DEF Edit
  <1>. QED  BY <1>1, <1>2, <1>3, <1>4, <1>5, <1>6, KeyFacts, KeyDone

LEMMA KInvErase ==
    ASSUME KInv, KeyErase
    PROVE  KInv'
  <1>1. kpc = "key" /\ c \in Erase /\ KeyStep(Erase) /\ Erase \in SUBSET Keys
    BY KeyFacts DEF KeyErase, KeyStep
  <1>2. CASE x > 0
    <2>1. /\ x' = x - 1 /\ cbuff' = [cbuff EXCEPT ![x - 1] = NUL] /\ screen' = Front(screen)
      BY <1>2 DEF KeyErase
    <2>2. /\ cbuff' \in [0 .. CmdLeng - 1 -> Keys \cup {NUL}] /\ x' \in 0 .. CmdLeng - 1
          /\ \A k \in 0 .. x' - 1 : cbuff'[k] = cbuff[k] /\ k \in 0 .. x - 1
      BY <1>1, <1>2, <2>1, KeyFacts
    <2>3. NoneEnds'
      BY <1>1, <2>2, KeyFacts DEF NoneEnds
    <2>4. Held' = [k \in 1 .. x - 1 |-> cbuff[k - 1]]
      BY <1>1, <1>2, <2>1, <2>2, KeyFacts DEF Held
    <2>5. Front(Held) = [k \in 1 .. x - 1 |-> cbuff[k - 1]]
      <3>1. Front(Held) = [k \in 1 .. x - 1 |-> Held[k]]
        BY <1>1, <1>2, KeyFacts DEF Front
      <3>2. \A k \in 1 .. x - 1 : Held[k] = cbuff[k - 1]
        BY <1>1, <1>2, KeyFacts DEF Held
      <3>. QED  BY <3>1, <3>2
    <2>6. Held # <<>>
      BY <1>1, <1>2, KeyFacts
    <2>7. Held' = Edit(Held, c)
      BY <1>1, <2>4, <2>5, <2>6 DEF Edit
    <2>8. screen' = Held'
      BY <1>1, <2>1, <2>4, <2>5, KeyFacts
    <2>. QED  BY <1>1, <2>2, <2>3, <2>7, <2>8, KeyDone
  <1>3. CASE ~(x > 0)
    <2>1. x' = x /\ cbuff' = cbuff /\ screen' = screen
      BY <1>3 DEF KeyErase, editVars
    <2>2. NoneEnds' = NoneEnds /\ Held' = Held
      BY <2>1 DEF NoneEnds, Held
    <2>3. Held = <<>>
      BY <1>1, <1>3, KeyFacts
    <2>4. Held' = Edit(Held, c)
      BY <1>1, <2>2, <2>3 DEF Edit
    <2>. QED  BY <1>1, <2>1, <2>2, <2>4, KeyFacts, KeyDone
  <1>. QED  BY <1>2, <1>3

LEMMA KInvPrint ==
    ASSUME KInv, KeyPrint
    PROVE  KInv'
  <1>1. /\ kpc = "key" /\ c \in Printable /\ KeyStep(Printable) /\ Printable \in SUBSET Keys
        /\ c \notin Erase /\ c \in Keys
    BY KeyFacts DEF KeyPrint, KeyStep
  <1>2. CASE Room
    <2>1. /\ x' = x + 1 /\ cbuff' = [cbuff EXCEPT ![x] = c] /\ screen' = Append(screen, c)
      BY <1>2 DEF KeyPrint
    <2>2. /\ cbuff' \in [0 .. CmdLeng - 1 -> Keys \cup {NUL}] /\ x' \in 0 .. CmdLeng - 1
          /\ x' \in Nat /\ cbuff'[x] = c
          /\ \A k \in 0 .. x - 1 : cbuff'[k] = cbuff[k]
      BY <1>1, <1>2, <2>1, KeyFacts DEF Room
    <2>3. \A k \in 0 .. x' - 1 : cbuff'[k] \in Printable
      <3>. TAKE k \in 0 .. x' - 1
      <3>1. k = x \/ k \in 0 .. x - 1
        BY <1>1, <2>1, KeyFacts
      <3>. QED  BY <1>1, <2>2, <3>1, KeyFacts DEF NoneEnds
    <2>4. NoneEnds'
      BY <2>3 DEF NoneEnds
    <2>5. Held' = Append(Held, c)
      <3>1. Append(Held, c) = [k \in 1 .. x + 1 |-> IF k <= x THEN Held[k] ELSE c]
        BY <1>1, KeyFacts
      <3>2. \A k \in 1 .. x + 1 : cbuff'[k - 1] = IF k <= x THEN Held[k] ELSE c
        BY <1>1, <2>2, KeyFacts DEF Held
      <3>3. Held' = [k \in 1 .. x + 1 |-> cbuff'[k - 1]]
        BY <2>1 DEF Held
      <3>. QED  BY <3>1, <3>2, <3>3
    <2>6. Held' = Edit(Held, c)
      BY <1>1, <1>2, <2>5, KeyFacts DEF Edit, Room
    <2>7. screen' = Held'
      BY <1>1, <2>1, <2>5, KeyFacts
    <2>. QED  BY <1>1, <2>2, <2>4, <2>6, <2>7, KeyDone
  <1>3. CASE ~Room
    <2>1. x' = x /\ cbuff' = cbuff /\ screen' = screen
      BY <1>3 DEF KeyPrint, editVars
    <2>2. NoneEnds' = NoneEnds /\ Held' = Held
      BY <2>1 DEF NoneEnds, Held
    <2>3. Held' = Edit(Held, c)
      BY <1>1, <1>3, <2>2, KeyFacts DEF Edit, Room
    <2>. QED  BY <1>1, <2>1, <2>2, <2>3, KeyFacts, KeyDone
  <1>. QED  BY <1>2, <1>3

LEMMA KInvIgnored ==
    ASSUME KInv, KeyIgnored
    PROVE  KInv'
  <1>1. /\ kpc = "key" /\ c \in Other /\ KeyStep(Other) /\ Other \in SUBSET Keys
        /\ c \notin Erase /\ c \notin Printable /\ x' = x /\ cbuff' = cbuff /\ screen' = screen
    BY KeyFacts DEF KeyIgnored, KeyStep, editVars
  <1>2. NoneEnds' = NoneEnds /\ Held' = Held
    BY <1>1 DEF NoneEnds, Held
  <1>3. Held' = Edit(Held, c)
    BY <1>1, <1>2 DEF Edit
  <1>. QED  BY <1>1, <1>2, <1>3, KeyFacts, KeyDone

LEMMA KInvEndLine ==
    ASSUME KInv, EndLine
    PROVE  KInv'
  <1>1. /\ kpc = "key" /\ kpc' \in {"command", "line"} /\ c \in {NoKey, "cr"}
        /\ cbuff' = [cbuff EXCEPT ![x] = NUL]
        /\ UNCHANGED <<wait, tried, preboot, queue, typed, c, x, screen, taken, early>>
    BY DEF EndLine
  <1>2. /\ cbuff' \in [0 .. CmdLeng - 1 -> Keys \cup {NUL}] /\ cbuff'[x'] = NUL
        /\ \A k \in 0 .. x - 1 : cbuff'[k] = cbuff[k]
    BY <1>1, KeyFacts
  <1>3. NoneEnds'
    BY <1>1, <1>2, KeyFacts DEF NoneEnds
  <1>4. Held' = Held
    BY <1>1, <1>2, KeyFacts DEF Held
  <1>5. Line' = Held'
    BY <1>1, <1>2, <1>3, KeyFacts, LineIsHeld
  <1>6. Held = Edited(taken)
    <2>1. CASE c = NoKey
      BY <1>1, <2>1 DEF KInv, HeldIsTaken
    <2>2. CASE c # NoKey
      <3>1. PICK s \in Seq(Keys) : taken = Append(s, c) /\ Held = Edited(s)
        BY <1>1, <2>2 DEF KInv, HeldIsTaken
      <3>2. c = "cr" /\ c \in Keys /\ c \notin Erase /\ c \notin Printable
        BY <1>1, <2>2, KeyFacts
      <3>3. Edited(taken) = Edit(Held, c)
        BY <3>1, <3>2, EditedOneMore
      <3>. QED  BY <3>2, <3>3 DEF Edit
    <2>. QED  BY <2>1, <2>2
  <1>7. LineIsTyped'
    BY <1>1, <1>4, <1>5, <1>6 DEF LineIsTyped
  <1>8. ScreenShowsLine'
    BY <1>1, <1>4, KeyFacts DEF ScreenShowsLine, Held
  <1>9. ConsoleTypeOK' /\ NotEarly'
    BY <1>1, <1>2 DEF KInv, ConsoleTypeOK, NotEarly
  <1>10. OnTime' /\ HeldIsTaken'
    BY <1>1 DEF OnTime, HeldIsTaken
  <1>. QED  BY <1>1, <1>7, <1>8, <1>9, <1>10 DEF KInv

LEMMA KInvStutter ==
    ASSUME KInv, UNCHANGED consoleVars
    PROVE  KInv'
  <1>1. UNCHANGED <<kpc, wait, tried, preboot, queue, typed, c, x, cbuff, screen, taken, early>>
    BY DEF consoleVars
  <1>2. /\ Held' = Held /\ Line' = Line /\ Edited(taken') = Edited(taken)
        /\ NoneEnds' = NoneEnds
    BY <1>1, SameLine
  <1>3. ConsoleTypeOK'
    BY <1>1 DEF KInv, ConsoleTypeOK
  <1>4. OnTime'
    BY <1>1 DEF KInv, OnTime
  <1>5. HeldIsTaken' /\ LineIsTyped' /\ ScreenShowsLine' /\ NotEarly'
    BY <1>1, <1>2 DEF KInv, HeldIsTaken, LineIsTyped, ScreenShowsLine, NotEarly
  <1>. QED  BY <1>1, <1>2, <1>3, <1>4, <1>5 DEF KInv

(* The inductive invariant of cmd_edit and wait_for_key: what is held in   *)
(* the buffer are the keys taken, and the clock is what the wait counted.  *)
THEOREM ConsoleInductive == ConsoleSpec => []KInv
  <1>1. ConsoleInit => KInv
    BY KInvInit
  <1>2. KInv /\ [ConsoleNext]_consoleVars => KInv'
    <2>. SUFFICES ASSUME KInv, [ConsoleNext]_consoleVars
                  PROVE  KInv'
      OBVIOUS
    <2>1. CASE ConsoleNext
      BY <2>1, KInvType, KInvStart, KInvTime, KInvPollKey, KInvTimedOut, KInvFirstPrompt,
         KInvLaterPrompt, KInvGetChar, KInvGetCharFails, KInvTab, KInvErase, KInvPrint,
         KInvIgnored, KInvEndLine, KInvAgain DEF ConsoleNext, WaitStep
    <2>2. CASE UNCHANGED consoleVars
      BY <2>2, KInvStutter
    <2>. QED  BY <2>1, <2>2
  <1>. QED  BY <1>1, <1>2, PTL DEF ConsoleSpec

(* The line cmd_edit returns is what the keys since the prompt give, for   *)
(* a buffer and a queue of any length and any keys.                        *)
THEOREM LinesAreTyped == ConsoleSpec => []LineIsTyped
  <1>1. KInv => LineIsTyped
    BY DEF KInv
  <1>. QED  BY <1>1, ConsoleInductive, PTL

(* While a line is edited the screen shows it. *)
THEOREM ScreenIsTrue == ConsoleSpec => []ScreenShowsLine
  <1>1. KInv => ScreenShowsLine
    BY DEF KInv
  <1>. QED  BY <1>1, ConsoleInductive, PTL

(* No wait of wait_for_key ends unasked before its time, unless the clock  *)
(* was about to wrap: for every width of int, period and call duration.    *)
THEOREM NothingEarly == ConsoleSpec => []NotEarly
  <1>1. KInv => NotEarly
    BY DEF KInv
  <1>. QED  BY <1>1, ConsoleInductive, PTL

(* Every variable has its type: x never leaves the buffer. *)
THEOREM ConsoleTypeCorrect == ConsoleSpec => []ConsoleTypeOK
  <1>1. KInv => ConsoleTypeOK
    BY DEF KInv
  <1>. QED  BY <1>1, ConsoleInductive, PTL
=============================================================================
