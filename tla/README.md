# A TLA+ model of iQUIK

iQUIK is a boot loader for OldWorld PowerPC Macintoshes.  An installer puts it on
an `Apple_Bootstrap` partition; Open Firmware loads and starts it; it reads a
configuration file from an ext2 file system, lets the user choose, loads a kernel
and maybe an initrd, and jumps to the kernel.  These modules model that way, TLC
checks them on small instances, and TLAPS proves all of the safety properties for
every value of the constants: every memory layout, partition map, tree, configuration,
machine and set of files.

## The system

The loader is one thread without interrupts.  What makes it hard to test is not
concurrency but *failure and repetition*: every firmware call, read and allocation
may fail, the loop of `iquik_main` then starts again with whatever static state
the failed attempt left behind, and the user may type anything in between.

| component (source) | state | operations | correct means |
|---|---|---|---|
| image loading (`main.c`, `elf.c`) | `load_state_t`, `bi->initrd_*`, claimed memory, memory contents | `try_load_loop`, `load_image`, `elf_parse`, `elf_relo`, `elf_boot` | claims are returned; images do not overlap; the kernel that starts is the one asked for |
| firmware memory (`prom.c`) | the firmware's claims | `prom_claim`, `prom_release`, `prom_claim_chunk`, `prom_ensure_claimed` | (used by image loading) |
| prompt and decisions (`main.c`, `env.c`, `file.c`, `commands.c`) | `boot_info_t` | `env_init`, `load_config`, `get_params`, `make_params`, `get_load_paths`, `!old`, `!debug`, `!dev` | kernel and initrd come from one place; flags belong to the image booted, pauses are those asked for; one unattended boot |
| configuration (`cfg.c`) | option tables, a token put back | `cfg_parse`, `cfg_next`, `cfg_set`, `cfg_get_strg`, `cfg_get_default` | the tables say what the text says up to its first error; local options before global ones |
| allocator (`malloc.c`) | `malloc_ptr`, `last_alloc` | `malloc`, `free` | live blocks are disjoint |
| volumes (`file.c`, `part.c`, `disk.c`, `ext2fs.c`) | the static `part_t`, `ext2fs_root`, two caches of indirect blocks | `open_ext2`, `part_open`, `part_read`, `ext2fs_mount`, `ext2fs_read_block` | one device open, and the partition that was named; blocks come from the right file system, but for the defects below |
| file reading (`ext2fs.c`) | the loop of `ext2fs_read_file` and the caller's buffer | `ext2fs_read_inode`, `ext2fs_read_file`, `ext2fs_read` | the inode asked for; the bytes of the slice, in the buffer |
| path walk (`ext2fs.c`) | nodes, `symlinknest`, `ext2fs_file` | `ext2fs_find_file(1)`, `ext2fs_iterate_dir`, `ext2fs_open`, `ext2fs_ls` | the file the path means; no freed node; bounded recursion |
| installer (`installer/iquik.c`) | partition map and data, in the page cache and on the medium | `read_sb`, `install_stage`, `make_bootable`, `sync` | an entry becomes bootable only over a complete stage; after a run that ended well the stage is on the medium, whatever earlier runs and power cuts left there.  A power cut before `sync` can leave a bootable entry over old data, and no property says otherwise |
| line editor, keys, time (`commands.c`, `util.c`, `prom.c`) | the line buffer, the firmware's key queue and int clock | `cmd_edit`, `wait_for_key`, `getchar`, `nbgetchar` | the line is what was typed and shown; waits are neither cut short nor endless |
| firmware flags and shim (`prom.c`, `elf.c`) | `prom_flags`, `of_shim_state`, `bi->flags` | `prom_init`, `parse_prom_flags`, `!prom_flags`, `prom_shim` | the kernel finds its initrd, its CPUs and its devices; its buffers are overrun only with the sizes named below |
| not modelled | | characters of the tokenizer, `printf`, assembly, `elfextract` | see the end |

They interact by plain calls: `iquik_main` calls the prompt, then the loading,
in a loop; loading calls `file_len` and `file_load`, which open and mount a volume and walk a
path every time; everything allocates from the one heap; and everything takes memory
from the firmware.  The installer meets the loader only through the disk.

`PROJECT.json` lists the hazards found in the code, each at its line, with the
properties that cover it.

## Modules

| module | models | EXTENDS |
|---|---|---|
| `OfMemory` | claim and release as set operators (the firmware is external) | |
| `Loader` | one action per step of `try_load_loop`, `elf_relo`, `elf_boot`; `!memtest` | `OfMemory` |
| `ElfHeaders` | the fold of `elf_parse` over the program headers | |
| `KernelSegments` | `Loader` on files described by their program headers (`Headers`) | `Loader`, `ElfHeaders` |
| `LoaderProofs` | proofs about these: claims first, then what memory holds at the hand-over, then the segments | `KernelSegments` |
| `HeapSpec` | abstract: a set of disjoint live blocks | |
| `Malloc` | `malloc.c`, refines `HeapSpec` | (INSTANCE) |
| `MallocProofs` | proofs about `Malloc` | `Malloc` |
| `Prompt` | boot arguments to resolved paths, and the last decisions | |
| `PromptProofs` | proofs about `Prompt` and `Config` | `Prompt`, `Config` |
| `PartMap` | Mac and DOS partition maps | |
| `Volume` | open, mount and block map | `PartMap` |
| `VolumeProofs` | proofs about `Volume` | `Volume` |
| `ReadFile` | inodes and slices of files | |
| `ReadFileProofs` | proofs about `ReadFile` | `ReadFile` |
| `PathWalk` | the recursive walk with symbolic links, and what a path means | |
| `PathWalkProofs` | proofs about `PathWalk` | `PathWalk` |
| `Config` | the configuration parser over tokens; its definitions are prefixed (`ConfigInit`, `ConfigNext`, `ConfigSpec`) so that it can be extended beside `Prompt` | |
| `Console` | keys, the clock and the line editor; prefixed likewise | |
| `Firmware` | the choice of work-arounds and the shim | |
| `FirmwareProofs` | proofs about `Firmware` and `Console` | `Firmware`, `Console` |
| `Installer` | the installer and loss of power | |
| `InstallerProofs` | proofs about `Installer` | `Installer` |
| `MC_*` | constants for TLC | |

**OfMemory, Loader.**  Memory is a set of units; `claimed` is what the firmware
counts as taken, `mem` says for each unit which file and which offset it holds, so
that overwriting is visible.  `lpc` is the point in `try_load_loop`; its values are
between the calls that can fail, and each such call is a disjunction of its outcomes.
`Out` is the `out:` label, including its release of a buffer that may already have
been released or be `-1`.  What the program headers of a file amount to (`off`,
`len`, `base`, `entry`) is a constant of `Loader`; in `KernelSegments` it is what `Parsed` of `ElfHeaders`
computes from the headers, by the loop of `elf_parse`.
`Memtest` claims, overwrites and releases a range between two attempts.  `extra`, `missed` and `prev` are history
variables.  The firmware is assumed to refuse to claim what is claimed, and to ignore
a release of what is not wholly claimed.

**Malloc.**  The bump pointer, the size word, alignment, and a `free` that rewinds
only for the last block.  The sum in the bound check is taken modulo the address
space; `NoWrapAssumption` says that callers do not make it wrap.

**Prompt.**  A line is a sequence of words, a word a record saying how `file_path`
reads it, a configuration a function from options to values.  `GetLoadPaths` is the
whole of `get_params` after the line is known, `make_params` and `get_load_paths`,
with the flags that stay set when a path turns out bad.  `LoadFails` and
`LoadSucceeds` stand for `Loader`.

**PartMap, Volume.**  `Located` says where `part_open` believes a partition to be: the map of
a Mac disk up to its first block without signature, the first bootable entry for partition
0, the entries of a DOS table with positions modulo `Width`.  `Volume` has the static `part_t` in `file.c`, the mounted root, the two caches with their
size, block number and what their buffer really holds (`None`: unknown, an entry is
then any block).  Each operation opens, mounts, and looks up blocks; opening, reading
the partition table, mounting, allocating and reading fail independently.

**PathWalk.**  `stack` holds the calls of `ext2fs_find_file1` with their locals
(`currroot`, `currnode`, `oldnode`, `type`, names left); a node is a number and an
inode; `freed` are the numbers given back.  `type |-> None` in `ret` is an inner call
that returned without writing `*foundtype`.  Slashes are not counted, and the tree
contains `..` as ordinary entries, as ext2 does.  `Meaning(path, n)` is the path after `n` steps of
rewriting: a name is taken off, a link is replaced by its target in the path (`Rewritten`), until the path is
empty or leads nowhere (`Settled`).

**ReadFile.**  A byte of the disk is known by block and offset, so a wrong place shows in
what `out`, the caller's buffer, holds.  Each turn of the loop of `ext2fs_read_file` is one
of `ReadBlock`, `ClearHole`, `BlockFails`.  The block numbers of a file are given:
they are the business of `Volume`.

**Config.**  A text is a sequence of tokens; `Bad` is a token at which `cfg_get_token` calls
`cfg_error`.  `NextWithValue`, `NextAlone` and `ParseError` are the ways out of `cfg_next`, the `Set`
actions those of `cfg_set`.  The reference `Meant` reads off the same tables by position, without
look-ahead and without state.

**Console.**  `wait_for_key` reads the keyboard and the clock in turn; time passes in
both calls; the clock starts anywhere and wraps.  `cmd_edit` clears only as much of its
buffer as `sizeof` of a pointer says (`Cleared`), so what is behind is of earlier lines.
The keyboard is external, and so are the ticks.

**Firmware.**  A machine is a record of what its firmware calls itself and of the faults
it has.  `PromInit` and `CmdPromFlags` go through `ParsePromFlags`; after `HandOver` the
kernel asks for its initrd, its CPUs and the media bay, with a buffer of any size, and gets the answer of `prom_shim`
or of the firmware.  The numbering of the CPUs is a loop, a step for each turn; where its count wraps it has no end, and the
model stops it after `CellBound` cells.

**Installer.**  `map` and `data` are what processes see, `dmap` and `ddata` what is on
the medium; `PowerLoss` lets any subset of the unsynced units through.

## Runs

Passing runs (`tlc -config MC_X.cfg MC_X`):

| run | shows | bounds and why they suffice |
|---|---|---|
| `loader` | `BaseKept`, `IdleHoldsOnlyBss`, `InitrdClearOfKernel`, `RetrySameAddress`, `HandoffImage`, `SegmentsInPlace`, `FreshBssIsClaimed`, `LoadSettles` | 23 units with a firmware claim in the load area and an end of memory that turns the longest file away, strides of 4 and 2, so bss crosses a stride and chunks collide; two kernels (one segment and a descriptor; four headers of which two count, with a nop at the entry, too large for old), one file that is no ELF; memory tests anywhere; any number of attempts |
| `prompt` | `PauseAsAsked`, `InitrdFollows`, `OneAutoBoot`, `OldFlagMatchesLabel` | two disks, two configurations with three images, one of which has a device, a partition, `literal` and `pause-after` of its own; four boot arguments with and without a boot-file and a preboot script, nine lines; any number of lines and commands |
| `malloc` | `LastIsTop`, `NulBehindBlock`, refinement of `HeapSpec` | 16 units, sizes 0 to 5 with and without rounding; any order of calls |
| `volume` | `OneInstance`, `ReadsWhatWasOpened`, `BlockMapsRightUnlessShared` | a Mac map with a block that has no signature and a DOS table with a partition beyond `Width`, partitions 0 to 4 asked for, three ext2 systems of which two have the same block size; block 2 used as indirect by one node and double indirect by the other, a third node sparse without indirect blocks, a double indirect block with a hole; any number of operations |
| `readfile` | `RightSoFar`, `ReadsAll`, `OverrunOnlyInTailHole` | blocks of 4, every position and length up to 12; seven files (empty, partial, whole, holes at each place, one at the end of the partition) in the first and last inodes of three groups |
| `pathwalk` | `NoDangling`, `StackBounded`, `FindsTheFile` | sixteen paths in a tree with relative, absolute, chained, looping and root links; limit 4 instead of 8, so that the limit is reached both by a loop and by a chain that still fits; two look-ups, so that the count must be reset |
| `config` | `MeansTheText`, `NamelessOnlyIfBare`, `ParseReturns` | all texts of up to four of thirteen pieces: two sections with an option each, duplicates, wrong types, upper case, unknown and broken entries at each place |
| `console` | `LineIsTyped`, `ScreenShowsLine`, `NotEarly`, `WaitEnds` | four keys of six kinds, two queued ahead; a buffer of 3, so that it fills; a clock of 24 values with waits that begin at each of them, and one timeout too long for it; any number of prompts |
| `firmware` | `ShimWhereNeeded`, `KernelFindsInitrd`, `KernelSeesDevices`, `AnswerFits` | 54 machines: six versions, none to two CPUs, three states of the bay; every choice of flags, any number of times; buffers of 0, 2, 4, 6, 8 and 16 bytes, that is none, less than a cell, between one and two, and more than all CPUs need; words of 32 instead of 2^32 (any multiple of the cell above the sizes wraps alike) and at most 6 cells written by a count that wrapped |
| `installer` | `BootableMeansComplete`, `InstalledIsFound`, `ConfinedWrites` | five maps, four scripts and none, two runs, power lost anywhere; `BootableMeansComplete` speaks only of runs without a power cut or a short read (`hurt`) and of entries not bootable before, `InstalledIsFound` of runs that ended, whatever was cut off before them |

`TypeOK` is checked in the runs `loader` and `malloc`.  It is proved for these, `Firmware`, `Installer`,
`Prompt`, `PathWalk`, `Config` and `Console`, and is part of the inductive invariant of `ReadFile`; in `Volume` it
documents what the variables range over.

`InitrdClearOfKernel` leaves out the units a failed claim of `prom_ensure_claimed` missed (`missed`): there the initrd can lie over
the bss.  `HandoffImage` and `SegmentsInPlace` say nothing of an old kernel that reaches above `IQUIK_BASE` (`Placeable`).
`PauseAsAsked` says when the code pauses, with the labels chosen so far in the history variable `chosen`; that a
failed label counts is what the code does, not what the manual says.  `InitrdFollows` leaves open where the files of an image with
its own `device=` are looked for, for the same reason, and only says that kernel and initrd are looked for in one place.
`BlockMapsRightUnlessShared` leaves out look-ups through a hole in place of an indirect block (`ThroughHole`) and no
look-up after them.  `InstalledIsFound` compares the medium with the stage for the options of the run; where a file was read
back short (`hurt`) it only speaks of its size.

`SegmentsInPlace` is about kernels linked as kernels are: segments in the order of the file, as far apart
in memory as in the file (`LinkedInOneRange`), and all in the file (`HoldsItsSegments`).  `elf_parse` relies on both
without checking them.

`FindsTheFile` compares the walk with `Meaning`, which replaces links in the path and
knows nothing of calls and nodes.  A step of rewriting is a node of the walk, so `nodes` steps are enough, and a
walk that fails must do so where the path is `Settled`.  The property excludes look-ups during which a read failed or a link to
`/` was followed (see below).  `NoDangling` also excludes freeing
twice: whatever the walk may still free is listed in it as not yet freed.

Runs that must fail, each for one statement of a document, comment or message which
the code does not keep (quoted in `PROJECT.json`, "findings"):

| run | what the code does |
|---|---|
| `empty_kernel` | an empty file boots the kernel an earlier attempt left in the buffer |
| `shared_cache` | an indirect block of another partition is used |

The models follow the code in some further points where a document or a comment says
otherwise; they are plain from the source and have no run: `kernel -- args` still takes
the global `initrd=` (`main.c:403`, "No initrd, just kernel args."); `literal=` suppresses
`pause-after` (`main.c:84`); `device=` and `partition=` of an image are overridden by the default device
(`env.c:51`, against `man/quik.conf.5:23`); `pause-after` of an image that failed carries over to the
next (`main.c:126`); `old-kernel` of a failed image carries over to a kernel typed by path
(`main.c:378`); `/etc/iquik.conf` and `/iquik.conf` are not searched (`main.c:153`,
`README.md:116`); after a short read a cache of indirect blocks keeps the number of a block it no
longer holds (`ext2fs.c:316`; the history variable `torn` excludes it); for a file so sparse that an indirect block itself is a
hole, block 0 of the partition is read as that block and its words are taken for block numbers (`ext2fs.c:314`, `ext2fs.c:362`, `ext2fs.c:394`; a hole is
otherwise recognised, `ext2fs.c:487`); a read that does not begin at 0 can pass the end of the file, as `len` is compared with
the size and `pos` is not (`ext2fs.c:440`, "so it we can't read past the end of the file"; files are
only read from 0, directories entry by entry); a symbolic link of exactly 60 bytes is taken from the inode, where ext2 has block
numbers then (`ext2fs.c:670`; in `PathWalk` what a link says is given); a link to `/` is "not a directory"
(`ext2fs.c:709`); DOS partition 4 is refused, 0 is taken from before the table, and one beyond
4 GB is looked for below (`part.c:124-135`; `Addressable` excludes the last two); every firmware of
an unknown version gets `PROM_NW_FULL_DISK`, as the second `strcmp` is not compared with 0
(`prom.c:386`); `prom_shim` numbers CPUs without end when the kernel's buffer is too small for all and no multiple of four bytes
(`prom.c:212`), and writes a cell for an initrd property into a smaller buffer (`prom.c:229`): the model has both and `AnswerFits` says there
are no other cases; the move of an old kernel is refused for its length alone (`elf.c:117`), so that one linked above 0 can reach the
loader; the last block of a partition counts as beyond it (`part.c:210`); the
installer compares the size of the stage neither with the partition (`installer/iquik.c:348`) nor with
`IQUIK_SIZE` (`installer/iquik.c:297`).  `Installer` takes offsets on the disk as exact, which they are with a 64-bit `off_t`; a 32-bit build,
for which `installer/Makefile` sets no `_FILE_OFFSET_BITS`, wraps at 4 GB (`installer/iquik.c:156`, `installer/iquik.c:339`).

Fairness is weak and only for the loader's own steps: `LoadStep` in `Loader!FairSpec`,
`ParseStep` in `Config`, `WaitStep` in `Console`.  The loader is a
single thread that nothing preempts, these loops do not block (`wait_for_key` polls), and
the firmware calls are assumed to return.  Nothing is assumed of the user or of the kernel.

## Proofs

`tlapm` checks all of the eight `*Proofs` modules.  In each the argument is the same: a
conjunction of named parts holds initially and is preserved by every action (a step per action, and
under it one per part that the action can disturb), and the properties follow from it.  Almost none of
the properties is inductive alone; what had to be added is given below.

*Loader*, from `MemAssumption`, `LayoutAssumption` (code, heap and load area do not
overlap, as in `layout.h`) and `FileAssumption`.  The inductive invariant is

    Inv == TypeOK /\ InFlight /\ Claims /\ Clear /\ Placement

`InFlight` says which buffers are in use at which `lpc`; `Claims` that `claimed` is
exactly the base, the buffers in flight and `extra`, pairwise apart, which is what
makes the double release at `out:` harmless; `Clear` is the part about the initrd;
`Placement` relates the last successful placement of a kernel to what is claimed now,
from which it follows that a retry comes to the same address.  Theorems: `TypeCorrect`,
`BaseStaysClaimed`, `NothingElseLeaks`, `InitrdStaysClear`, `RetryIsStable`.  They include
`Memtest`: `MemtestKeepsClaims` shows that it returns just what it claimed.  `BssIsClaimed` is the action property
`FreshBssIsClaimed`; it rests on `EnsureWhole`, that every unit asked for lies in one of the chunks
`prom_ensure_claimed` goes through.

`HandoffIsCorrect` adds `Contents` (what memory holds at each point) and `Ready` (the
image as moved), and needs `NoEmptyFile`: without it the statement is false, as
`empty_kernel` shows.

`SegmentsAreInPlace` takes this on to the program headers, from `AddrAssumption` and `HeadersAssumption`, for
any number of headers.  `Found` is the invariant of the loop in `elf_parse`: as long as the length is 0, all
segments were empty; then offset and address are those of the first that was not, and the range reaches to the end of
each that counts so far.  That the last one has the largest end is where `LinkedInOneRange` is needed.

*Malloc*, from `HeapAssumption` and `NoWrapAssumption`: live blocks lie below
`malloc_ptr`, apart from each other and from `last_alloc` once that is free; from this
`HeapTypeCorrect`, `RewindIsSafe` and the step simulation of `MallocImplementsHeap`.
`NulIsHarmless` rests on the size word: the byte behind a block is padding, the header of the
next block, which only `realloc` reads, or free.

*Prompt*, from `PromptAssumption`.  `PInv` adds to the properties that the configuration in force is
one of the files or none (`ConfigKnown`), that a valid configuration implies a valid default device, which
nothing makes invalid again (`DefaultStays`: this is why a label never lacks a device), and that
an unattended boot sets `TRIED_AUTO` (`FirstPass`), and that `PAUSE_BEFORE_BOOT` is set exactly if a label
chosen so far asks for it (`PauseFlag`).  Theorems: `PromptTypeCorrect`, `PausesAsAsked`,
`InitrdIsWhereExpected`, `AtMostOneAutoBoot`, `OldIsWhatTheLabelSays`.  The assumption says of the tables what
`cfg.c` makes of a file: an option that is set has a value, and an image has a path or a label.  The
latter fails for a section that begins with a bare `image`, about which `cfg.c` only
warns; `NamelessOnlyIfBare` of `Config` says that there is no other case.

*Config*, from `ConfigAssumption`.  The parser looks two tokens ahead and puts one back, so `CInv` speaks of `Pos`, the
number of tokens that are used up.  Between two entries (`Between`) nothing up to `Pos` was wrong and the
tables hold what the text up to `Pos` means (`TablesTo`); with an entry read and not set (`AtEntry`) the same of what is
before the entry.  The proof has to show that a position the parser stops at is an entry of the reference and not, say,
the value of the one before, and that one more entry changes `Meant` in one place.  `HasPath` says that a section has its
path from the moment it is opened.  Theorems: `ParsedAsMeant`, `NamedUnlessBare`, `ConfigTypeCorrect`.

*Volume*, from `MapAssumption` and `VolumeAssumption`, which says among other things that no two entries of a
map begin at the same place.  `VInv` has `PartIsLocated` (the static `part_t` is what `part_open` found for the
device and number it was called with), `RootIsMounted` (the root is a file system that begins
there), `Caches` (a cache that has a number holds that block of a file system with blocks of its
size, block 0 for a hole included, unless file systems share a block size or a read was short), and `OneInstance`, which needs to know
that `part_t` is invalid while `part_open` runs.  Theorems: `InstanceIsOne`, `ReadsTheNamedPartition`, `BlocksMapRight`.
The lemma `MacFindsNamed` shows that stopping at the first block without signature loses no
bootable entry before the one found.

*ReadFile*, from `LayoutAssumption`, whose `Stored` says where mke2fs puts an inode without
dividing: the theorem compares the code's divisions with a layout stated by multiplication.
`RInv` has `InodeRight` (the lemma `InodeIsFound`: the code takes the index within a block from the inode number
as a whole, which is right because `InodesPerGroup` is a multiple of `InodesPerBlock`), `Progress` (the position
in the buffer as a function of the block, and all before it is read) and `RightBytes`, stronger than
`RightSoFar` in that it also speaks of what is written behind the end.  Theorems: `BytesAreRight`, `SliceIsComplete`,
`OverrunIsBounded`.

*PathWalk*, from `TreeAssumption`.  The reason that no freed node is in use is the order of
allocation: a call of `ext2fs_find_file1` starts from the root, from where its caller
started, or from a node younger than the start of every call around it (`Ascending`, `CurLive`, `RetLive`),
so that what a call frees is nobody else's.  `FileLive` says the same for the file that is open
and `Nesting` counts calls against `symlinknest`.  Theorems: `WalkTypeCorrect`, `NoUseAfterFree`,
`RecursionIsBounded`.  The attempt showed where the code depends on the file system: an empty relative link
would make the inner call return the directory it was given, which the outer one then frees
(`ext2fs.c:781`) before it goes on from it.  `symlink(2)` makes no such links, and the assumption excludes them.

`WalkFindsTheFile` rests on `PInv`: while no fault and no link to `/` was met, `Meaning` comes in at most `nodes` steps to the inode
of the current node with, as names left, those of the innermost call followed by what each call around it has behind the
link it met (`Rests`), and with as many links to go as `symlinknest` allows.  So the recursion does just what replacing
the link in the path does.  A call that fails has met a `Settled` path (`Nowhere`), and the type it
carries is that of the inode, which only the call for an empty path leaves open.

*Firmware*, from `MachineAssumption` and `CallAssumption`, which restricts the kernel's sizes in no other way than that they are numbers of
a word.  `FInv` has `Counted` (`cpu_count` is a multiple of a cell), `RegAnswer` (for an answer that is a multiple of a cell, cells written plus bytes
left are its size at each turn, so that the unsigned count-down meets 0; for any other the count keeps its rest, also where it
wraps, and never does), `InitrdAnswer` and `ChildAnswer` (whom the answer comes from), `ShimPlanned` (`SHIM_OF` is set as soon as
a flag needs it) and `OwnFlags` (what `prom_init` chose is in force until the user chooses).  Theorems:
`FirmwareTypeCorrect`, `ShimIsThere`, `AnswersFit`, `DevicesAreSeen`, and `InitrdIsFound` under `ListedFaults`: the only versions
with a shallow `setprop` are those `prom_init` lists.  The code cannot find the fault out, so on any other
machine that had it the initrd would be lost.

*Console*, from `ConsoleAssumption`.  `KInv` has `HeldIsTaken` (the first `x` characters of the buffer are what the editor makes of
the keys taken, the one in hand excepted), `NoneEnds` (there is no NUL among them, so the NUL put behind ends the line
just there although the buffer was not cleared), and `OnTime`: as long as `beg + 100 * timeout` fits an int, clock and ticks
passed agree, so that the test `now <= end` does not fail early; beyond that `NotEarly` claims nothing.  Theorems: `LinesAreTyped`,
`ScreenIsTrue`, `NothingEarly`, `ConsoleTypeCorrect`.

*Installer*, from `InstallerAssumption`.  `IInv` relates the map to the one the run started with (`MapNow`), the buffer
to the stage asked for, in size always and in content unless a file was read short (`StageNow`), the disk to the buffer (`WrittenNow`) and the medium to the disk once
`sync` returned (`Durable`).  Theorems: `InstallerTypeCorrect`, `BootableIsComplete`, `InstalledAndFound`, and the action
property `WritesAreConfined`.

*Recursion.*  Three references are recursive functions over an interval of numbers: `Parsed`, `Meaning` and `Edited`.  What they
compute is proved by induction from `WFMin` of the library, which takes a relation and not an operator: every set of numbers has a
least one (`LeastNumber`), so a set that has 0 and with each number the next has them all (`AllNumbers`).
From this it follows that the function exists (`RewritesExist`), that two of them agree (`RewritesAgree`), and that a
longer argument is one more step (`MeaningNext`, `EditedOneMore`, `FoundStep`).

Only model-checked, and why:

- `LoadSettles`, `ParseReturns`, `WaitEnds`: liveness under fairness is beyond the prover;
- `TypeOK` of `Volume`: after a short read or through a DOS entry beyond `Width` a block number may be
  anything, and what is proved does not need its type.

The two runs that must fail are not proved about: their properties are false.

## Plan

Done: all modules above with their runs, and the proofs above.  Left, in this order:

1. `Boot`: `Prompt` and `Loader` composed, the request of the one being the job of the
   other.
2. The work-around path of `prom_claim`, with the `/memory` and `/mmu` claims that can succeed
   one without the other.

## Not modelled

The characters of the tokenizer in `cfg.c` (comments, quotes, escapes): `Config` starts from
tokens.  The work-around path of `prom_claim`.  `prom_pause`, `prom_interpret` (the preboot script
and `init-code` may do anything the firmware can) and `call_prom` itself.  `printf`, `strtol` and the
string routines, start-up, `setjmp` and cache code in assembly, `elfextract`, the packaging and the
Forth patches under `distrib/`: output, straight-line code, or code whose meaning is the
firmware's.  Buffer sizes of single strings are abstracted, except the line of `cmd_edit`.
Points of the code this leaves without a property: the 2048 bytes of `make_params` (`main.c:75`);
the sum in `malloc` that wraps for a size near 2^32 (`malloc.c:48`, excluded by `NoWrapAssumption`); the
heap that runs out in a long session, as every operation mounts again and frees nothing
(`ext2fs.c:942`; allocations in `Volume` and `PathWalk` may fail at any time instead); directory
entries of length 0 or inode 0 (`ext2fs.c:637`, `ext2fs.c:549`), as damaged file systems are not among
the inputs; the answer to `peer`, which hides the siblings after an empty media bay (`prom.c:253`).
