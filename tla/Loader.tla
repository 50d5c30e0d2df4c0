------------------------------- MODULE Loader -------------------------------
(***************************************************************************)
(* Loading a kernel and an initrd and handing control over: try_load_loop  *)
(* and load_image (main.c), elf_parse, elf_relo and elf_boot (elf.c), with *)
(* the part of iquik_main that drives them.                                *)
(*                                                                         *)
(* One iteration of the "for (;;)" loop of iquik_main starts with Request  *)
(* (get_load_paths has produced the paths) and ends back at "prompt" when  *)
(* anything fails, or at "loaded" when both images are in memory.          *)
(***************************************************************************)
EXTENDS OfMemory

CONSTANTS
    IQUIK_BASE, IQUIK_SIZE,     \* where the loader itself runs
    MALLOC_BASE, MALLOC_SIZE,   \* its heap
    LOAD_BASE,                  \* where loading starts to look for room
    FwClaims,                   \* what the firmware holds for itself
    Files,                      \* the files a path may name
    NoFile,                     \* no initrd given
    FileLen,                    \* length of each file
    Elf                         \* what elf_parse finds in each file

(***************************************************************************)
(* Elf[f].ok: f passes the header checks and has a loadable segment; then  *)
(* off, len, base and entry are what the program headers say, and word is  *)
(* the first word at the entry point.                                      *)
(***************************************************************************)
Word == [nop : BOOLEAN, value : Nat, toc : BOOLEAN]
ElfInfo == [ok : BOOLEAN, off : Nat, len : Nat, base : Nat, entry : Nat, word : Word]

Iquik == Span(IQUIK_BASE, IQUIK_SIZE)
Heap  == Span(MALLOC_BASE, MALLOC_SIZE)
Base  == FwClaims \cup Iquik \cup Heap

ASSUME LayoutAssumption ==
    /\ IQUIK_BASE \in Nat /\ IQUIK_SIZE \in Nat \ {0}
    /\ MALLOC_BASE \in Nat /\ MALLOC_SIZE \in Nat \ {0}
    /\ LOAD_BASE \in Nat \ {0}
    /\ IQUIK_BASE + IQUIK_SIZE <= MALLOC_BASE
    /\ MALLOC_BASE + MALLOC_SIZE <= LOAD_BASE
    /\ LOAD_BASE <= RamTop
    /\ FwClaims \subseteq Ram \ (Iquik \cup Heap)

ASSUME FileAssumption ==
    /\ NoFile \notin Files
    /\ FileLen \in [Files -> Nat]
    /\ Elf \in [Files -> ElfInfo]

VARIABLES
    lpc,          \* what try_load_loop / iquik_main does next
    job,          \* the paths and the BOOT_PRE_2_4 flag of this iteration
    kernel_buf, kernel_len,
    initrd_buf, initrd_len,
    image,        \* load_state_t
    initrd,       \* bi->initrd_base, bi->initrd_len
    claimed,      \* units the firmware counts as taken
    mem,          \* what each unit holds: <<owner, index>>
    start,        \* the address elf_boot jumps to
    extra,        \* history: units prom_ensure_claimed has obtained
    missed,       \* history: units of the parsed kernel it did not obtain
    prev          \* history: kernel and address of the last loaded attempt

memVars  == <<claimed, mem>>
bufVars  == <<kernel_buf, kernel_len, initrd_buf, initrd_len>>
histVars == <<extra, missed, prev>>
vars == <<lpc, job, bufVars, image, initrd, memVars, start, histVars>>

Jobs == [kernel : Files, initrd : Files \cup {NoFile}, old : BOOLEAN]
NoJob == [kernel |-> NoFile, initrd |-> NoFile, old |-> FALSE]

NoImage == [buf |-> 0, base |-> 0, off |-> 0, len |-> 0, entry |-> 0, file |-> NoFile]
NoInitrd == [base |-> 0, len |-> 0]

(* What a unit of memory can hold. *)
Tag == (Files \cup {NoFile}) \X Nat

(* The units the kernel will use: header to end of bss, in the buffer. *)
KernelExtent(im) == Span(im.buf, im.off + im.len)

(* Contents of memory once the first n units of file f are read to a. *)
WithFile(m, f, a, n) ==
    [u \in Ram |-> IF u \in Span(a, n) THEN <<f, u - a>> ELSE m[u]]

(* A read that failed part way leaves an unknown mixture behind. *)
WithJunk(m, a, n) ==
    [u \in Ram |-> IF u \in Span(a, n) THEN <<NoFile, 1>> ELSE m[u]]

(* memmove of n units. *)
WithMove(m, dst, src, n) ==
    [u \in Ram |-> IF u \in Span(dst, n)
                   THEN IF u - dst + src \in Ram THEN m[u - dst + src] ELSE <<NoFile, 1>>
                   ELSE m[u]]

Init ==
    /\ lpc = "prompt"
    /\ job = NoJob
    /\ kernel_buf = 0 /\ kernel_len = 0
    /\ initrd_buf = 0 /\ initrd_len = 0
    /\ image = NoImage
    /\ initrd = NoInitrd
    /\ claimed = Base
    /\ mem = [u \in Ram |-> <<NoFile, 0>>]
    /\ start = 0
    /\ extra = {} /\ missed = {}
    /\ prev = [kernel |-> NoFile, buf |-> 0]

(***************************************************************************)
(* try_load_loop: get_load_paths succeeded.                                *)
(***************************************************************************)
Request(j) ==
    /\ lpc = "prompt"
    /\ job' = j
    /\ kernel_buf' = LOAD_BASE
    /\ lpc' = "kernel_len"
    /\ UNCHANGED <<kernel_len, initrd_buf, initrd_len, image, initrd, memVars, start, histVars>>

(* !memtest: claims the range rounded to whole megabytes, writes and reads *)
(* it, and releases it.  When the claim fails nothing happens.             *)
Memtest(a, n) ==
    /\ lpc = "prompt"
    /\ a % SIZE_1M = 0 /\ n % SIZE_1M = 0
    /\ Claimable(claimed, a, n)
    /\ mem' = WithJunk(mem, a, n)
    /\ claimed' = prom_release(prom_claim(claimed, a, n), a, n)
    /\ UNCHANGED <<lpc, job, bufVars, image, initrd, start, histVars>>

(***************************************************************************)
(* load_image of the kernel: file_len (which zeroes *len first),           *)
(* prom_claim_chunk, file_load.                                            *)
(***************************************************************************)
KernelLen ==
    /\ lpc = "kernel_len"
    /\ \/ kernel_len' = FileLen[job.kernel] /\ lpc' = "kernel_claim"
       \/ kernel_len' = 0 /\ lpc' = "out"
    /\ UNCHANGED <<job, kernel_buf, initrd_buf, initrd_len, image, initrd, memVars, start, histVars>>

KernelClaim ==
    /\ lpc = "kernel_claim"
    /\ \/ \E a \in ChunkAddrs(claimed, kernel_buf, kernel_len) :
            /\ IsClaimChunk(claimed, kernel_buf, kernel_len, a)
            /\ kernel_buf' = a
            /\ claimed' = prom_claim(claimed, a, kernel_len)
            /\ lpc' = "kernel_load"
       \/ /\ ChunkAddrs(claimed, kernel_buf, kernel_len) = {}
          /\ kernel_buf' = BadAddr
          /\ lpc' = "out"
          /\ UNCHANGED claimed
    /\ UNCHANGED <<job, kernel_len, initrd_buf, initrd_len, image, initrd, mem, start, histVars>>

KernelLoad ==
    /\ lpc = "kernel_load"
    /\ \/ /\ mem' = WithFile(mem, job.kernel, kernel_buf, kernel_len)
          /\ lpc' = "parse"
          /\ UNCHANGED claimed
       \/ /\ mem' = WithJunk(mem, kernel_buf, kernel_len)
          /\ claimed' = prom_release(claimed, kernel_buf, kernel_len)
          /\ lpc' = "out"
    /\ UNCHANGED <<job, bufVars, image, initrd, start, histVars>>

(***************************************************************************)
(* elf_parse reads the header at the start of the buffer, whatever the     *)
(* length of the file that was read there.                                 *)
(***************************************************************************)
HeaderAt(a) == IF a \in Ram /\ mem[a][2] = 0 THEN mem[a][1] ELSE NoFile

IsKernel(f) == f \in Files /\ Elf[f].ok

ElfParseFails ==
    /\ lpc = "parse"
    /\ ~IsKernel(HeaderAt(kernel_buf))
    /\ image' = NoImage
    /\ lpc' = "out"
    /\ UNCHANGED <<job, bufVars, initrd, memVars, start, histVars>>

(* Mutant: the offset of the segment is left out. *)
BssLenNoOffset(e, filelen) == IF e.len > filelen THEN e.len - filelen ELSE 0

(* The bss that reaches beyond the file is claimed behind it. *)
BssLen(e, filelen) == IF e.off + e.len > filelen THEN e.off + e.len - filelen ELSE 0

ElfParse ==
    /\ lpc = "parse"
    /\ LET f == HeaderAt(kernel_buf) IN
         /\ IsKernel(f)
         /\ image' = [buf |-> kernel_buf, base |-> Elf[f].base, off |-> Elf[f].off,
                      len |-> Elf[f].len, entry |-> Elf[f].entry, file |-> f]
         /\ claimed' = prom_ensure_claimed(claimed, kernel_buf + kernel_len,
                                           BssLen(Elf[f], kernel_len))
    /\ extra' = extra \cup (claimed' \ claimed)
    /\ missed' = KernelExtent(image') \ claimed'
    /\ prev' = [kernel |-> job.kernel, buf |-> kernel_buf]
    /\ IF job.initrd = NoFile
       THEN /\ initrd' = NoInitrd
            /\ lpc' = "loaded"
            /\ UNCHANGED initrd_buf
       ELSE /\ initrd_buf' = kernel_buf + kernel_len
            /\ lpc' = "initrd_len"
            /\ UNCHANGED initrd
    /\ UNCHANGED <<job, kernel_buf, kernel_len, initrd_len, mem, start>>

(***************************************************************************)
(* load_image of the initrd.                                               *)
(***************************************************************************)
InitrdLen ==
    /\ lpc = "initrd_len"
    /\ \/ initrd_len' = FileLen[job.initrd] /\ lpc' = "initrd_claim"
       \/ initrd_len' = 0 /\ lpc' = "out"
    /\ UNCHANGED <<job, kernel_buf, kernel_len, initrd_buf, image, initrd, memVars, start, histVars>>

InitrdClaim ==
    /\ lpc = "initrd_claim"
    /\ \/ \E a \in ChunkAddrs(claimed, initrd_buf, initrd_len) :
            /\ IsClaimChunk(claimed, initrd_buf, initrd_len, a)
            /\ initrd_buf' = a
            /\ claimed' = prom_claim(claimed, a, initrd_len)
            /\ lpc' = "initrd_load"
       \/ /\ ChunkAddrs(claimed, initrd_buf, initrd_len) = {}
          /\ initrd_buf' = BadAddr
          /\ lpc' = "out"
          /\ UNCHANGED claimed
    /\ UNCHANGED <<job, kernel_buf, kernel_len, initrd_len, image, initrd, mem, start, histVars>>

InitrdLoad ==
    /\ lpc = "initrd_load"
    /\ \/ /\ mem' = WithFile(mem, job.initrd, initrd_buf, initrd_len)
          /\ initrd' = [base |-> initrd_buf, len |-> initrd_len]
          /\ lpc' = "loaded"
          /\ UNCHANGED claimed
       \/ /\ mem' = WithJunk(mem, initrd_buf, initrd_len)
          /\ claimed' = prom_release(claimed, initrd_buf, initrd_len)
          /\ lpc' = "out"
          /\ UNCHANGED initrd
    /\ UNCHANGED <<job, bufVars, image, start, histVars>>

(* Mutant: the kernel buffer is not given back. *)
OutKeepsBuffer ==
    /\ lpc = "out"
    /\ lpc' = "prompt"
    /\ job' = NoJob
    /\ kernel_buf' = 0 /\ kernel_len' = 0
    /\ initrd_buf' = 0 /\ initrd_len' = 0
    /\ UNCHANGED <<image, initrd, memVars, start, histVars>>

(* Mutant: the same paths are tried again without asking. *)
OutRetries ==
    /\ lpc = "out"
    /\ claimed' = IF kernel_buf # 0 THEN prom_release(claimed, kernel_buf, kernel_len) ELSE claimed
    /\ kernel_buf' = LOAD_BASE
    /\ lpc' = "kernel_len"
    /\ UNCHANGED <<job, kernel_len, initrd_buf, initrd_len, image, initrd, mem, start, histVars>>

(***************************************************************************)
(* The "out" label: the kernel buffer is given back, also after a          *)
(* load_image that has already done so or never got one.  The locals of    *)
(* try_load_loop end with it.                                              *)
(***************************************************************************)
Out ==
    /\ lpc = "out"
    /\ claimed' = IF kernel_buf # 0 THEN prom_release(claimed, kernel_buf, kernel_len) ELSE claimed
    /\ lpc' = "prompt"
    /\ job' = NoJob
    /\ kernel_buf' = 0 /\ kernel_len' = 0
    /\ initrd_buf' = 0 /\ initrd_len' = 0
    /\ UNCHANGED <<image, initrd, mem, start, histVars>>

(***************************************************************************)
(* elf_relo.                                                               *)
(***************************************************************************)
ElfReloTooBig ==
    /\ lpc = "loaded"
    /\ job.old
    /\ image.len > IQUIK_BASE
    /\ lpc' = "exit"
    /\ UNCHANGED <<job, bufVars, image, initrd, memVars, start, histVars>>

(* Mutant: the ELF header is moved along with the text. *)
ReloFromHeader ==
    /\ lpc = "loaded"
    /\ job.old
    /\ image.len <= IQUIK_BASE
    /\ claimed' = prom_ensure_claimed(claimed, image.base, image.len)
    /\ mem' = WithMove(mem, image.base, image.buf, image.len)
    /\ lpc' = "relocated"
    /\ UNCHANGED <<job, bufVars, image, initrd, start, histVars>>

ElfReloOld ==
    /\ lpc = "loaded"
    /\ job.old
    /\ image.len <= IQUIK_BASE
    /\ claimed' = prom_ensure_claimed(claimed, image.base, image.len)
    /\ mem' = WithMove(mem, image.base, image.buf + image.off, image.len)
    /\ lpc' = "relocated"
    /\ UNCHANGED <<job, bufVars, image, initrd, start, histVars>>

ElfReloNew ==
    /\ lpc = "loaded"
    /\ ~job.old
    /\ LET to == image.buf + image.off IN
         image' = [image EXCEPT !.entry = @ - image.base + to, !.base = to]
    /\ lpc' = "relocated"
    /\ UNCHANGED <<job, bufVars, initrd, memVars, start, histVars>>

(***************************************************************************)
(* elf_boot: the word at the entry point is a nop (new boot strategy), a   *)
(* procedure descriptor, or neither.                                       *)
(***************************************************************************)
StartAddr(im, w) ==
    IF w.nop THEN im.base
    ELSE IF w.value \in Span(im.base, im.len) /\ ~w.toc THEN w.value
    ELSE w.value + im.entry

ElfBoot ==
    /\ lpc = "relocated"
    /\ start' = StartAddr(image, Elf[image.file].word)
    /\ lpc' = "running"
    /\ UNCHANGED <<job, bufVars, image, initrd, memVars, histVars>>

(* The kernel returned: iquik_main reports it and calls prom_exit. *)
KernelReturns ==
    /\ lpc = "running"
    /\ lpc' = "exit"
    /\ UNCHANGED <<job, bufVars, image, initrd, memVars, start, histVars>>

(* prom_exit does not come back. *)
Exited == lpc = "exit" /\ UNCHANGED vars

LoadStep ==
    \/ KernelLen \/ KernelClaim \/ KernelLoad
    \/ ElfParseFails \/ ElfParse
    \/ InitrdLen \/ InitrdClaim \/ InitrdLoad
    \/ Out
    \/ ElfReloTooBig \/ ElfReloOld \/ ElfReloNew
    \/ ElfBoot

Next ==
    \/ \E j \in Jobs : Request(j)
    \/ \E a, n \in Ram : Memtest(a, n)
    \/ LoadStep
    \/ KernelReturns
    \/ Exited

Spec == Init /\ [][Next]_vars

(* The loader is one thread that nothing preempts: it keeps executing. *)
FairSpec == Spec /\ WF_vars(LoadStep)

-----------------------------------------------------------------------------
Lpcs == {"prompt", "kernel_len", "kernel_claim", "kernel_load", "parse",
         "initrd_len", "initrd_claim", "initrd_load", "out",
         "loaded", "relocated", "running", "exit"}

(* Every variable of try_load_loop, boot_info_t and load_state_t modelled  *)
(* here holds a value of its kind.                                         *)
TypeOK ==
    /\ lpc \in Lpcs
    /\ job \in Jobs \cup {NoJob}
    /\ kernel_buf \in Nat \cup {BadAddr} /\ kernel_len \in Nat
    /\ initrd_buf \in Nat \cup {BadAddr} /\ initrd_len \in Nat
    /\ image \in [buf : Nat, base : Nat, off : Nat, len : Nat, entry : Int,
                  file : Files \cup {NoFile}]
    /\ initrd \in [base : Nat, len : Nat]
    /\ claimed \subseteq Ram
    /\ mem \in [Ram -> Tag]
    /\ start \in Int
    /\ extra \subseteq Ram /\ missed \subseteq Nat
    /\ prev \in [kernel : Files \cup {NoFile}, buf : Nat]

(* No sequence of failed and retried loads ever gives back memory that the *)
(* firmware, the loader's code or its heap live in, although the "out"     *)
(* path of try_load_loop releases a buffer it may not hold.                *)
BaseKept == Base \subseteq claimed

(* Back at the prompt, a failed attempt holds nothing but the bss chunks   *)
(* that elf_parse claimed: kernel and initrd buffers are all returned.     *)
IdleHoldsOnlyBss == lpc = "prompt" => claimed = Base \cup extra

(* The initrd never shares a unit with the kernel, header to end of bss,   *)
(* unless prom_ensure_claimed silently failed to obtain that very unit.    *)
InitrdClearOfKernel ==
    lpc \in {"initrd_load", "loaded"} /\ job.initrd # NoFile =>
        Span(initrd_buf, initrd_len) \cap KernelExtent(image) \subseteq missed

(* When neither the firmware nor the leftovers of an earlier attempt are   *)
(* in the way, prom_ensure_claimed obtains the whole bss, to its last      *)
(* unit: no part of the parsed kernel is left for the initrd to land on.   *)
FreshBssIsClaimed ==
    [][ lpc = "parse" /\ lpc' # "out"
        /\ Span(kernel_buf + kernel_len, BssLen(Elf[image'.file], kernel_len) + SIZE_4K)
               \subseteq Ram \ claimed
        => missed' = {} ]_vars

(* Trying the same kernel again after the initrd failed puts it at the     *)
(* same address: what elf_parse left claimed never gets in its own way.    *)
RetrySameAddress ==
    /\ lpc \in {"kernel_load", "parse"} /\ prev.kernel = job.kernel => kernel_buf = prev.buf
    /\ lpc = "out" /\ kernel_buf = BadAddr => prev.kernel # job.kernel

(* An old kernel linked low enough, or a new kernel linked anywhere.  The  *)
(* code does not ask: elf_relo compares the length alone with IQUIK_BASE   *)
(* (elf.c:117), so that the move of an old kernel linked above 0 can reach *)
(* the loader itself.  What follows says nothing of such a kernel.         *)
Placeable == job.old => Elf[job.kernel].base + Elf[job.kernel].len <= IQUIK_BASE

(* When the kernel gets control, its text is in place where elf_boot says, *)
(* the initrd it is told about is the one that was asked for and complete, *)
(* and the loader's code and heap (which hold the boot arguments) have not *)
(* been overwritten, neither by a load nor by the move of an old kernel.   *)
HandoffImage ==
    lpc = "running" /\ Placeable =>
        /\ image.file = job.kernel
        /\ \A i \in 0 .. image.len - 1 :
              image.off + i < FileLen[job.kernel] =>
                  mem[image.base + i] = <<job.kernel, image.off + i>>
        /\ IF job.initrd = NoFile
           THEN initrd.len = 0
           ELSE /\ initrd.len = FileLen[job.initrd]
                /\ \A i \in 0 .. initrd.len - 1 : mem[initrd.base + i] = <<job.initrd, i>>
        /\ \A u \in Iquik \cup Heap : mem[u] = <<NoFile, 0>>

(* README: any arbitrary kernel typed in is booted.  Refuted by a run of    *)
(* its own: elf_parse reads the header of an empty file from whatever an   *)
(* earlier attempt left in the buffer.                                     *)
BootsWhatWasAsked == lpc = "running" => image.file = job.kernel

(* Whatever file is asked for, the attempt comes to an end: back to the    *)
(* prompt, into the kernel, or out to the firmware.                        *)
LoadSettles == lpc # "prompt" ~> lpc \in {"prompt", "running", "exit"}
=============================================================================
