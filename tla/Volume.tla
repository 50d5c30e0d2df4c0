------------------------------- MODULE Volume -------------------------------
(***************************************************************************)
(* Access to one file system after another through the single part_t of    *)
(* file.c: open_ext2 (file.c), part_open, part_close and part_read         *)
(* (part.c), disk_open and disk_close (disk.c), ext2fs_mount and           *)
(* ext2fs_read_block with its two caches of indirect blocks (ext2fs.c).    *)
(*                                                                         *)
(* file_len, file_load, file_ls and load_config all do the same: open_ext2 *)
(* and then, if that went well, any number of block look-ups for the       *)
(* directories and the file they read.  The loader has one thread.         *)
(***************************************************************************)
EXTENDS PartMap, FiniteSets

CONSTANTS
    None,
    Targets,     \* <<device, number>> pairs that a path may name
    Fs,          \* the ext2 file systems, by the partition they lie on
    Nodes,       \* inodes
    Fileblocks   \* <<"dir">>, <<"ind", i>>, <<"dbl", j, i>> and <<"triple">>

(***************************************************************************)
(* Fs[t]: blksz is the block size; dir, indir and double give for a node   *)
(* its (one) direct block, its indirect and its double indirect block;     *)
(* table[b] holds the numbers found in block b when it is read as an       *)
(* indirect block.  A number of 0 is a hole, of one block or of all that   *)
(* an indirect block would have listed; block 0 itself is the boot block,  *)
(* and its numbers are anything.  Place(t) is where the map says the       *)
(* partition is.                                                           *)
(***************************************************************************)
Entry == DOMAIN Fs[CHOOSE t \in DOMAIN Fs : TRUE].table[0]
Devices == DOMAIN Maps
Place(t) == LET m == Maps[t[1]]
            IN  Region(m.entry[t[2]], IF m.scheme = "mac" THEN m.secsize ELSE SECTOR_SIZE)
BlockCount(t) == Place(t).len \div Fs[t].blksz
Blocks(t) == 0 .. BlockCount(t) - 1

ASSUME VolumeAssumption ==
    /\ Targets \subseteq Devices \X Nat
    /\ DOMAIN Fs \subseteq Targets /\ DOMAIN Fs # {}
    /\ \A t \in DOMAIN Fs : t[2] \in DOMAIN Maps[t[1]].entry \ {0}
    \* no other entry of a map begins where a file system does
    /\ \A t \in DOMAIN Fs : \A i \in DOMAIN Maps[t[1]].entry \ {0} :
           Place(<<t[1], i>>).start = Place(t).start => i = t[2]
    /\ None \notin (DOMAIN Fs) \X Nat
    /\ \A t \in DOMAIN Fs :
         /\ Fs[t].blksz \in Nat \ {0}
         /\ Fs[t].dir \in [Nodes -> Blocks(t)]
         /\ Fs[t].indir \in [Nodes -> Blocks(t)]
         /\ Fs[t].double \in [Nodes -> Blocks(t)]
         /\ Fs[t].table \in [Blocks(t) -> [Entry -> Nat]]
         \* a double indirect block lists blocks of the file system
         /\ \A n \in Nodes, i \in Entry :
              Fs[t].double[n] # 0 => Fs[t].table[Fs[t].double[n]][i] \in Blocks(t)
    /\ Fileblocks \subseteq {<<"dir">>, <<"triple">>} \cup ({"ind"} \X Entry)
                                 \cup ({"dbl"} \X Entry \X Entry)

VARIABLES
    vpc,       \* where the file operation is
    target,    \* the device and partition it was called for
    open,      \* firmware: how many instances of each device are open
    part,      \* the static part_t of file.c: valid, what it is, start and len
    root,      \* ext2fs_root: the file system mounted last, or None
    indir1, indir2,   \* the caches: size, blkno, and the block they hold
    look,      \* the look-up in ext2fs_read_block: node and fileblock
    got,       \* the last answer of ext2fs_read_block
    seen,      \* history: file systems mounted so far
    torn       \* history: a read of an indirect block has come up short

cacheVars == <<indir1, indir2>>
histVars == <<seen, torn>>
vars == <<vpc, target, open, part, root, cacheVars, look, got, histVars>>

NoPart == [valid |-> FALSE, at |-> None, start |-> 0, len |-> 0]
NoLook == [node |-> None, fb |-> None]
NoGot == [at |-> None, node |-> None, fb |-> None, blk |-> 0]

(* A cache without memory, and one whose memory was just allocated.  What *)
(* it holds is <<file system, block>>, or None when it may be anything.   *)
Empty == [size |-> 0, blkno |-> -1, data |-> None]
Fresh(size) == [size |-> size, blkno |-> -1, data |-> None]

Init ==
    /\ vpc = "idle"
    /\ target = None
    /\ open = [d \in Devices |-> 0]
    /\ part = NoPart
    /\ root = None
    /\ indir1 = Empty /\ indir2 = Empty
    /\ look = NoLook
    /\ got = NoGot
    /\ seen = {}
    /\ torn = FALSE

(* The operation returns; the answers were its own. *)
Return == vpc' = "idle" /\ look' = NoLook /\ got' = NoGot

-----------------------------------------------------------------------------
(* External: the firmware's open and close. *)
Opened(o, d) == [o EXCEPT ![d] = @ + 1]
Closed(o, d) == [o EXCEPT ![d] = @ - 1]

(* Mutant: only the device is compared. *)
OpenSameDevice(t) ==
    /\ vpc = "idle"
    /\ part.valid /\ part.at[1] = t[1]
    /\ target' = t
    /\ vpc' = "mount"
    /\ UNCHANGED <<open, part, root, cacheVars, look, got, histVars>>

(* part_open: the partition that is open already is used again, any other *)
(* is closed before the device is opened.                                 *)
OpenSame(t) ==
    /\ vpc = "idle"
    /\ part.valid /\ part.at = t
    /\ target' = t
    /\ vpc' = "mount"
    /\ UNCHANGED <<open, part, root, cacheVars, look, got, histVars>>

OpenOther(t) ==
    /\ vpc = "idle"
    /\ ~(part.valid /\ part.at = t)
    /\ target' = t
    /\ open' = IF part.valid THEN Closed(open, part.at[1]) ELSE open
    /\ part' = NoPart
    /\ vpc' = "disk_open"
    /\ UNCHANGED <<root, cacheVars, look, got, histVars>>

(* disk_open succeeds or not. *)
DiskOpen ==
    /\ vpc = "disk_open"
    /\ \/ open' = Opened(open, target[1]) /\ vpc' = "part_table" /\ UNCHANGED <<look, got>>
       \/ UNCHANGED open /\ Return
    /\ UNCHANGED <<target, part, root, cacheVars, histVars>>

(* Mutant: the device stays open when there is no such partition. *)
PartTableNoClose ==
    /\ vpc = "part_table"
    /\ \/ /\ \E p \in Located(target[1], target[2]) :
               part' = [valid |-> TRUE, at |-> target, start |-> p.start, len |-> p.len]
          /\ vpc' = "mount"
          /\ UNCHANGED <<look, got>>
       \/ Return /\ UNCHANGED part
    /\ UNCHANGED <<target, open, root, cacheVars, histVars>>

(* read_mac_partition, read_dos_partition: the entry is found, or there is *)
(* none, or reading fails; then the device is closed.                      *)
PartTable ==
    /\ vpc = "part_table"
    /\ \/ /\ \E p \in Located(target[1], target[2]) :
               part' = [valid |-> TRUE, at |-> target, start |-> p.start, len |-> p.len]
          /\ vpc' = "mount"
          /\ UNCHANGED <<open, look, got>>
       \/ /\ open' = Closed(open, target[1])
          /\ Return
          /\ UNCHANGED part
    /\ UNCHANGED <<target, root, cacheVars, histVars>>

(* ext2fs_mount; PART_MOUNTED is never set, so every operation gets here. *)
MountNoMem ==
    /\ vpc = "mount"
    /\ Return
    /\ UNCHANGED <<target, open, part, root, cacheVars, histVars>>

(* There is no ext2 file system, or a read failed. *)
MountFails ==
    /\ vpc = "mount"
    /\ root' = None
    /\ Return
    /\ UNCHANGED <<target, open, part, cacheVars, histVars>>

Mount ==
    /\ vpc = "mount"
    /\ \E t \in DOMAIN Fs :
         /\ t[1] = part.at[1] /\ Place(t).start = part.start
         /\ root' = t
    /\ seen' = seen \cup {root'}
    /\ vpc' = "mounted"
    /\ UNCHANGED <<target, open, part, cacheVars, look, got, torn>>

(* The operation returns. *)
Finish ==
    /\ vpc = "mounted"
    /\ Return
    /\ UNCHANGED <<target, open, part, root, cacheVars, histVars>>

-----------------------------------------------------------------------------
(* ext2fs_read_block(node, fb). *)

Answer(n, fb, b) ==
    /\ got' = [at |-> root, node |-> n, fb |-> fb, blk |-> b]
    /\ look' = NoLook
    /\ vpc' = "mounted"

Lookup(n, fb) ==
    /\ vpc = "mounted"
    /\ CASE fb[1] = "dir"    -> Answer(n, fb, Fs[root].dir[n])
         [] fb[1] = "triple" -> Return
         [] OTHER            -> /\ look' = [node |-> n, fb |-> fb]
                                /\ vpc' = "indir1"
                                /\ UNCHANGED got
    /\ UNCHANGED <<target, open, part, root, cacheVars, histVars>>

(* part_read refuses a block that reaches the end of the partition. *)
PartReadable(b) == ~((b + 1) * Fs[root].blksz >= part.len)

(* Mutant: the size of the cached block is not compared. *)
ReadyAnySize(c) == IF c.size # 0 THEN c ELSE Fresh(Fs[root].blksz)

(***************************************************************************)
(* The memory of a cache is obtained when there is none or its size is     *)
(* wrong, and then the block is read unless the cache has its number.      *)
(* CacheServes: the cache as it is when the entry is taken from it.        *)
(* CacheFails: as it is left when there is no memory, the block is beyond  *)
(* the partition, or the read comes up short in its buffer.                *)
(***************************************************************************)
Ready(c) == IF c.size = Fs[root].blksz THEN c ELSE Fresh(Fs[root].blksz)

CacheServes(c, b) ==
    IF Ready(c).blkno = b THEN {Ready(c)}
    ELSE IF PartReadable(b)
    THEN {[size |-> Fs[root].blksz, blkno |-> b, data |-> <<root, b>>]}
    ELSE {}

NoMemory(c) == IF c.size = Fs[root].blksz THEN {} ELSE {Empty}
Beyond(c, b) == IF Ready(c).blkno # b /\ ~PartReadable(b) THEN {Ready(c)} ELSE {}
ShortRead(c, b) ==
    IF Ready(c).blkno # b /\ PartReadable(b)
    THEN {[Ready(c) EXCEPT !.data = None]} ELSE {}

CacheFails(c, b) == NoMemory(c) \cup Beyond(c, b) \cup ShortRead(c, b)

(* Entry i of a cached block; of an unknown one, any number: a block of    *)
(* the file system or, which are all alike, one beyond it.                 *)
Entries(c, i) ==
    IF c.data = None \/ c.data[2] \notin Blocks(c.data[1]) THEN 0 .. BlockCount(root)
    ELSE {Fs[c.data[1]].table[c.data[2]][i]}

(* Indirect: answers.  Double indirect: goes on with the second cache.     *)
(* Neither compares the number of the indirect block with 0.               *)
IndirBlock ==
    IF look.fb[1] = "ind" THEN Fs[root].indir[look.node] ELSE Fs[root].double[look.node]

Indir1 ==
    LET n == look.node
        fb == look.fb
        b == IndirBlock
    IN  /\ vpc = "indir1"
        /\ \/ /\ indir1' \in CacheServes(indir1, b)
              /\ IF fb[1] = "ind"
                 THEN \E e \in Entries(indir1', fb[2]) : Answer(n, fb, e)
                 ELSE vpc' = "indir2" /\ UNCHANGED <<look, got>>
              /\ UNCHANGED torn
           \/ /\ indir1' \in CacheFails(indir1, b)
              /\ torn' = (torn \/ indir1' \in ShortRead(indir1, b))
              /\ Return
        /\ UNCHANGED <<target, open, part, root, indir2, seen>>

Indir2 ==
    /\ vpc = "indir2"
    /\ \E b \in Entries(indir1, look.fb[2]) :
         \/ /\ indir2' \in CacheServes(indir2, b)
            /\ \E e \in Entries(indir2', look.fb[3]) : Answer(look.node, look.fb, e)
            /\ UNCHANGED torn
         \/ /\ indir2' \in CacheFails(indir2, b)
            /\ torn' = (torn \/ indir2' \in ShortRead(indir2, b))
            /\ Return
    /\ UNCHANGED <<target, open, part, root, indir1, seen>>

Next ==
    \/ \E t \in Targets : OpenSame(t) \/ OpenOther(t)
    \/ DiskOpen \/ PartTable
    \/ MountNoMem \/ MountFails \/ Mount
    \/ \E n \in Nodes, fb \in Fileblocks : Lookup(n, fb)
    \/ Indir1 \/ Indir2
    \/ Finish

Spec == Init /\ [][Next]_vars

-----------------------------------------------------------------------------
Cache == [size : Nat, blkno : Nat \cup {-1}, data : {None} \cup ((DOMAIN Fs) \X Nat)]

(* part_t, the mounted root, the caches and the answers hold values of     *)
(* their kinds.                                                            *)
TypeOK ==
    /\ vpc \in {"idle", "disk_open", "part_table", "mount", "mounted", "indir1", "indir2"}
    /\ target \in Targets \cup {None}
    /\ open \in [Devices -> Nat]
    /\ part \in [valid : {TRUE}, at : Targets, start : Nat, len : Nat] \cup {NoPart}
    /\ root \in DOMAIN Fs \cup {None}
    /\ indir1 \in Cache /\ indir2 \in Cache
    /\ look \in [node : Nodes, fb : Fileblocks] \cup {NoLook}
    /\ got \in [at : DOMAIN Fs, node : Nodes, fb : Fileblocks, blk : Nat] \cup {NoGot}
    /\ seen \subseteq DOMAIN Fs
    /\ torn \in BOOLEAN

(* Through every mix of operations that succeed and fail, the firmware has *)
(* exactly the device of a valid part_t open, once: part_open neither      *)
(* forgets an instance nor closes one twice.                               *)
OneInstance ==
    \A d \in Devices :
        open[d] = IF \/ part.valid /\ part.at[1] = d
                     \/ vpc = "part_table" /\ target[1] = d
                  THEN 1 ELSE 0

(* The partition a device and a number mean. *)
Named(t) ==
    IF t[2] # 0 THEN t
    ELSE LET boot == { i \in DOMAIN Maps[t[1]].entry : Maps[t[1]].entry[i].boot }
         IN  <<t[1], CHOOSE i \in boot : \A j \in boot : i <= j>>

(* A DOS table has no partition 0, and what begins beyond Width bytes is   *)
(* looked for at the remainder.                                            *)
Addressable(t) == Maps[t[1]].scheme = "mac" \/ (t[2] # 0 /\ Place(t).start < Width)

(* The file system code only ever runs on the partition that was asked     *)
(* for: although the static part_t is handed from mount to mount, a failed *)
(* mount can leave the root of an earlier one behind, and the two kinds of *)
(* map count their entries in different ways.                              *)
ReadsWhatWasOpened ==
    vpc \in {"mounted", "indir1", "indir2"} =>
        part.at = target /\ (Addressable(target) => root = Named(target))

(* The block where fileblock fb of node n really is. *)
BlockOf(t, n, fb) ==
    CASE fb[1] = "dir" -> Fs[t].dir[n]
      [] fb[1] = "ind" -> Fs[t].table[Fs[t].indir[n]][fb[2]]
      [] fb[1] = "dbl" -> Fs[t].table[Fs[t].table[Fs[t].double[n]][fb[2]]][fb[3]]

(* The fileblock lies in a hole that spans an indirect block of its own.   *)
ThroughHole(t, n, fb) ==
    \/ fb[1] = "ind" /\ Fs[t].indir[n] = 0
    \/ fb[1] = "dbl" /\ (Fs[t].double[n] = 0 \/ Fs[t].table[Fs[t].double[n]][fb[2]] = 0)

(* ext2fs_read_block answers with the block of the file on the partition   *)
(* it is on.  Nothing is claimed of a look-up through a hole: the answer   *)
(* should be 0, and is what block 0 has at that place.                     *)
BlockMapsRight ==
    got # NoGot /\ ~ThroughHole(got.at, got.node, got.fb) =>
        got.blk = BlockOf(got.at, got.node, got.fb)

(* Help of !cat: it shows the file at [device:part]/fs/path.  Refuted by a *)
(* run of its own: the caches are keyed by the block number alone and      *)
(* survive a change of partition.                                          *)
CacheFollowsPartition == ~torn => BlockMapsRight

(* There are three ways to go wrong: that one, a read that comes up short  *)
(* and spoils a cache under its old number, and a hole in place of an      *)
(* indirect block, for which block 0 is read as one.  There is no other:   *)
(* with file systems of different block sizes (the size resets a cache)    *)
(* and no short read, every other answer is right however often the        *)
(* partition changes, also after block 0 was cached for a hole, when       *)
(* memory runs out between the two caches or a block lies beyond the       *)
(* partition.                                                              *)
BlockMapsRightUnlessShared ==
    (\A s, t \in seen : s # t => Fs[s].blksz # Fs[t].blksz) /\ ~torn => BlockMapsRight
=============================================================================
