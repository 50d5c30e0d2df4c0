---------------------------- MODULE MC_Installer ----------------------------
(***************************************************************************)
(* Maps of three entries: the usual one, one that is bootable before the   *)
(* bootstrap partition, one without it, one that is cut off before it.     *)
(***************************************************************************)
EXTENDS Installer

E(type, start, len) ==
    [sig |-> TRUE, count |-> 3, type |-> type, start |-> start, len |-> len,
     bootable |-> FALSE, powerpc |-> FALSE, size |-> 0]

Usual == <<E("Apple_partition_map", 0, 1), E(BootType, 1, 4), E("Apple_UNIX_SVR2", 5, 2)>>
Earlier == [Usual EXCEPT ![1].bootable = TRUE, ![1].powerpc = TRUE]
Without == [Usual EXCEPT ![2].type = "Apple_Free"]
CutOff == [Usual EXCEPT ![2].sig = FALSE]
Odd == [Usual EXCEPT ![2].count = 2]

MCDisks == {Usual, Earlier, Without, CutOff, Odd}
=============================================================================
