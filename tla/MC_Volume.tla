----------------------------- MODULE MC_Volume -----------------------------
(***************************************************************************)
(* A Mac disk whose partitions 1 and 2 are file systems of the same block  *)
(* size, the second one bootable, and a DOS disk with a partition that is  *)
(* not ext2, one of another block size, one that begins beyond Width and   *)
(* one in the fourth entry.                                                *)
(* Both nodes of a file system use its block 2, one as an indirect and the *)
(* other as a double indirect block, which lists only one block.  A third  *)
(* one is sparse: it has no indirect blocks.                               *)
(***************************************************************************)
EXTENDS Volume, TLC

MCTargets == {<<"hd", 0>>, <<"hd", 1>>, <<"hd", 2>>, <<"fd", 0>>, <<"fd", 1>>, <<"fd", 2>>,
              <<"fd", 3>>, <<"fd", 4>>}
MCFileblocks == {<<"dir">>, <<"ind", 1>>, <<"dbl", 1, 2>>, <<"dbl", 2, 1>>, <<"triple">>}

E(start, count, boot) == [start |-> start, count |-> count, boot |-> boot]

(* boot: bootable, and for a PowerPC.  The third entry of the Mac map has  *)
(* no signature.                                                           *)
Mac == [scheme |-> "mac", secsize |-> 1, map_count |-> 4,
        entry |-> 1 :> E(2, 13, FALSE) @@ 2 :> E(15, 12, TRUE) @@ 4 :> E(27, 3, TRUE)]
Dos == [scheme |-> "dos",
        entry |-> 0 :> E(3, 2, FALSE) @@ 1 :> E(1, 5, FALSE) @@ 2 :> E(20, 18, FALSE)
                  @@ 3 :> E(Width + 20, 18, FALSE) @@ 4 :> E(40, 5, FALSE)]
MCMaps == "hd" :> Mac @@ "fd" :> Dos

Ext2(t, blksz, shift) ==
    [blksz |-> blksz,
     dir |-> [n \in Nodes |-> 1],
     indir |-> [n \in Nodes |-> CASE n = "a" -> 2 [] n = "b" -> 5 [] n = "c" -> 0],
     double |-> [n \in Nodes |-> CASE n = "a" -> 4 [] n = "b" -> 2 [] n = "c" -> 0],
     table |-> LET count == Place(t).len \div blksz
               IN  [b \in 0 .. count - 1 |->
                      [i \in {1, 2} |-> IF b = 4 /\ i = 2 THEN 0 ELSE (b + i + shift) % count]]]

(* hd:1 ends inside a block, so all its blocks can be read; hd:2 and fd:2  *)
(* do not.                                                                 *)
MCFs == <<"hd", 1>> :> Ext2(<<"hd", 1>>, 2, 0) @@ <<"hd", 2>> :> Ext2(<<"hd", 2>>, 2, 1)
        @@ <<"fd", 2>> :> Ext2(<<"fd", 2>>, 3, 2)
=============================================================================
