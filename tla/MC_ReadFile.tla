---------------------------- MODULE MC_ReadFile ----------------------------
(***************************************************************************)
(* Three block groups of four inodes, two inodes and two descriptors to a  *)
(* block; the inode tables start at blocks 10, 20 and 30.                  *)
(***************************************************************************)
EXTENDS ReadFile, Sequences, TLC

Tables == 2 :> <<10, 20>> @@ 3 :> <<30>> @@
          10 :> <<1, 2>> @@ 11 :> <<3, 4>> @@ 20 :> <<5, 6>> @@ 21 :> <<7, 8>> @@
          30 :> <<9, 10>> @@ 31 :> <<11, 12>>

MCMeta ==
    [place \in {<<b, x>> \in (DOMAIN Tables) \X (0 .. 1) : x < Len(Tables[b])} |->
        Tables[place[1]][place[2] + 1]]

(* Empty; a part of a block; whole blocks; a hole before, between and at   *)
(* the end; a block at the end of the partition.                           *)
MCFiles ==
    2 :> [size |-> 0, blocks |-> <<>>] @@
    3 :> [size |-> 3, blocks |-> <<40>>] @@
    5 :> [size |-> 8, blocks |-> <<42, 41>>] @@
    8 :> [size |-> 10, blocks |-> <<43, 0, 44>>] @@
    9 :> [size |-> 7, blocks |-> <<0, 45>>] @@
    12 :> [size |-> 6, blocks |-> <<46, 0>>] @@
    11 :> [size |-> 5, blocks |-> <<47, 49>>]
=============================================================================
