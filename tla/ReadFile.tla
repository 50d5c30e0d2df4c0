------------------------------ MODULE ReadFile ------------------------------
(***************************************************************************)
(* Reading a file of an ext2 file system: ext2fs_read_inode with           *)
(* ext2fs_blockgroup, ext2fs_read_file, and its callers ext2fs_read (the   *)
(* whole file, for file_load) and ext2fs_iterate_dir (slices) in ext2fs.c. *)
(*                                                                         *)
(* A byte on the disk is known by its place <<block, offset>>; Zero is the *)
(* byte memset writes.  Positions and lengths are in units of which a      *)
(* block has BlockSize; indices into a block of descriptors or inodes are  *)
(* counted in descriptors or inodes.  Which block of the file is where is  *)
(* ext2fs_read_block, the Volume module; here it is part of the inode.     *)
(***************************************************************************)
EXTENDS Integers

CONSTANTS
    Zero,
    BlockSize,
    PartLen,          \* part->len
    FirstDataBlock,   \* of the super block
    DescPerBlock,     \* group descriptors in a block
    InodesPerGroup,
    InodesPerBlock,
    Meta,             \* <<block, index>> to what the disk holds there: of a
                      \* descriptor the inode_table_id, of an inode its number
    Files,            \* inode number to its size and its blocks, 0 for a hole
    MaxAsked          \* bound: positions and lengths that are asked for

(* Where mke2fs puts inode n: it is number k of group g, in the block b of *)
(* the inode table of that group, at y; the descriptor of the group is in  *)
(* the block d of the descriptors, at x.                                   *)
Stored(n) ==
    \A g, k \in 0 .. n : n = g * InodesPerGroup + k + 1 /\ k < InodesPerGroup =>
        \A d, x \in 0 .. g : g = d * DescPerBlock + x /\ x < DescPerBlock =>
            \A b, y \in 0 .. k : k = b * InodesPerBlock + y /\ y < InodesPerBlock =>
                Meta[<<Meta[<<FirstDataBlock + 1 + d, x>>] + b, y>>] = n

ASSUME LayoutAssumption ==
    /\ BlockSize \in Nat \ {0} /\ PartLen \in Nat /\ MaxAsked \in Nat
    /\ DescPerBlock \in Nat \ {0} /\ InodesPerBlock \in Nat \ {0}
    /\ InodesPerGroup \in Nat \ {0}
    /\ InodesPerGroup % InodesPerBlock = 0     \* as mke2fs makes them
    /\ \A n \in DOMAIN Files : n \in Nat \ {0} /\ Files[n].size \in Nat /\ Stored(n)

VARIABLES
    rpc,      \* "closed", "open", "read", "done", "failed"
    ino,      \* the inode that was asked for
    inode,    \* the inode that was read
    pos,      \* ext2fs_read_file: where to start
    asked,    \* ... how much the caller asked for, the size of its buffer
    len,      \* ... and how much of that will be read
    i,        \* ... the block of the file the loop is at
    bufp,     \* ... how far buf has moved
    out       \* what was written, by offset from the caller's buffer

vars == <<rpc, ino, inode, pos, asked, len, i, bufp, out>>

Nothing == [k \in {} |-> Zero]

Init ==
    /\ rpc = "closed"
    /\ ino = 0 /\ inode = 0
    /\ pos = 0 /\ asked = 0 /\ len = 0 /\ i = 0 /\ bufp = 0
    /\ out = Nothing

-----------------------------------------------------------------------------
(* ext2fs_blockgroup: where the descriptor of a group is. *)
DescPlace(group) == <<FirstDataBlock + 1 + group \div DescPerBlock, group % DescPerBlock>>

(* Mutant: inodes are counted from 0. *)
InodePlaceFromZero(n) ==
    <<Meta[DescPlace(n \div InodesPerGroup)] + (n % InodesPerGroup) \div InodesPerBlock,
      n % InodesPerBlock>>

(* ext2fs_read_inode: where an inode is. *)
InodePlace(n) ==
    LET n0 == n - 1
    IN  <<Meta[DescPlace(n0 \div InodesPerGroup)] + (n0 % InodesPerGroup) \div InodesPerBlock,
          n0 % InodesPerBlock>>

(* ext2fs_open for a file whose directory entry was found.  When one of    *)
(* the two part_reads fails, the file stays closed.                        *)
Open(n) ==
    /\ rpc = "closed"
    /\ ino' = n
    /\ inode' = Meta[InodePlace(n)]
    /\ rpc' = "open"
    /\ UNCHANGED <<pos, asked, len, i, bufp, out>>

(* ext2fs_read_file up to its loop. *)
Read(p, l) ==
    /\ rpc = "open"
    /\ pos' = p
    /\ asked' = l
    /\ len' = IF l > Files[inode].size THEN Files[inode].size ELSE l
    /\ i' = p \div BlockSize
    /\ bufp' = 0
    /\ rpc' = "read"
    /\ UNCHANGED <<ino, inode, out>>

-----------------------------------------------------------------------------
BlockCnt == (len + pos + BlockSize - 1) \div BlockSize

(* ext2fs_read_block; dir_blocks are 0 beyond the end of the file. *)
BlockOf(n, k) == IF k + 1 \in DOMAIN Files[n].blocks THEN Files[n].blocks[k + 1] ELSE 0

(* Mutant: every block starts in the middle. *)
SkipAlways == pos % BlockSize

(* The first block may start in the middle ... *)
SkipFirst == IF i = pos \div BlockSize THEN pos % BlockSize ELSE 0

(* Mutant: the end of the slice is taken relative to its start. *)
BlockEndNoPos ==
    LET last == len % BlockSize
    IN  (IF i = BlockCnt - 1 /\ last # 0 THEN last ELSE BlockSize) - SkipFirst

(* ... and the last one end there. *)
BlockEnd ==
    LET last == (len + pos) % BlockSize
    IN  (IF i = BlockCnt - 1 /\ last # 0 THEN last ELSE BlockSize) - SkipFirst

Write(length, byte(_)) ==
    LET written == bufp .. bufp + length - 1
    IN  out' = [k \in DOMAIN out \cup written |->
                    IF k \in written THEN byte(k - bufp) ELSE out[k]]

(* part_read refuses what ends at the end of the partition or beyond. *)
Within == BlockOf(inode, i) * BlockSize + SkipFirst + BlockEnd < PartLen

(* Mutant: the whole block is cleared. *)
ClearedWhole == BlockSize

(* What memset clears for a hole: the rest of the block. *)
Cleared == BlockSize - SkipFirst

Looping == rpc = "read" /\ i < BlockCnt

ToNextBlock ==
    /\ i' = i + 1
    /\ bufp' = bufp + BlockSize - SkipFirst
    /\ UNCHANGED <<rpc, ino, inode, pos, asked, len>>

ReadBlock ==
    /\ Looping
    /\ BlockOf(inode, i) # 0
    /\ Within
    /\ Write(BlockEnd, LAMBDA k : <<BlockOf(inode, i), SkipFirst + k>>)
    /\ ToNextBlock

ClearHole ==
    /\ Looping
    /\ BlockOf(inode, i) = 0
    /\ Write(Cleared, LAMBDA k : Zero)
    /\ ToNextBlock

(* ext2fs_read_block fails, part_read refuses, or the disk does not give   *)
(* all that was asked for and leaves some of it.                           *)
BlockFails ==
    /\ Looping
    /\ \/ out' = out
       \/ /\ BlockOf(inode, i) # 0 /\ Within
          /\ \E part \in 0 .. BlockEnd - 1 :
               Write(part, LAMBDA k : <<BlockOf(inode, i), SkipFirst + k>>)
    /\ rpc' = "failed"
    /\ UNCHANGED <<ino, inode, pos, asked, len, i, bufp>>

ReadEnds ==
    /\ rpc = "read" /\ i >= BlockCnt
    /\ rpc' = "done"
    /\ UNCHANGED <<ino, inode, pos, asked, len, i, bufp, out>>

(* The caller comes with another file or slice and its own buffer. *)
NextCall ==
    /\ rpc \in {"done", "failed"}
    /\ rpc' = "closed"
    /\ ino' = 0 /\ inode' = 0
    /\ pos' = 0 /\ asked' = 0 /\ len' = 0 /\ i' = 0 /\ bufp' = 0
    /\ out' = Nothing

Next ==
    \/ \E n \in DOMAIN Files : Open(n)
    \/ \E p, l \in 0 .. MaxAsked : Read(p, l)
    \/ ReadBlock \/ ClearHole \/ BlockFails
    \/ ReadEnds \/ NextCall

Spec == Init /\ [][Next]_vars

-----------------------------------------------------------------------------
(* What byte p of a file is, block by block. *)
ByteAt(n, p) ==
    LET b == BlockOf(n, p \div BlockSize)
    IN  IF b = 0 THEN Zero ELSE <<b, p % BlockSize>>

Size == Files[ino].size

(* Every variable has its type. *)
TypeOK ==
    /\ rpc \in {"closed", "open", "read", "done", "failed"}
    /\ {ino, inode, pos, asked, len, i, bufp} \subseteq Nat
    /\ DOMAIN out \subseteq Nat

(* Whatever was written into the caller's buffer so far, also by a read    *)
(* that failed on the way, is the byte that belongs there of the file that *)
(* was asked for, in whichever group and block of the inode tables its     *)
(* inode lies.                                                             *)
RightSoFar ==
    \A k \in DOMAIN out : k < asked /\ pos + k < Size => out[k] = ByteAt(ino, pos + k)

(* A read that succeeds has filled the buffer with all of the slice that   *)
(* the file has.                                                           *)
ReadsAll ==
    rpc = "done" => \A k \in 0 .. asked - 1 : pos + k < Size => k \in DOMAIN out

TailHole ==
    /\ (len + pos) % BlockSize # 0
    /\ BlockOf(inode, (len + pos) \div BlockSize) = 0

(* Nothing is written behind the caller's buffer, except when the slice    *)
(* ends within a hole, and then less than a block.                         *)
OverrunOnlyInTailHole ==
    \A k \in DOMAIN out : k >= len => TailHole /\ k < len + BlockSize
=============================================================================
