------------------------------ MODULE PartMap ------------------------------
(***************************************************************************)
(* Where a partition is: read_mac_partition and read_dos_partition, chosen *)
(* between by part_open (part.c).  Positions on a disk are in units of     *)
(* bytes; offset_t has 64 bits, but the sums for a DOS table are made with *)
(* Width of them.                                                          *)
(***************************************************************************)
EXTENDS Integers

CONSTANTS
    Maps,         \* for each device its partition map, see MapAssumption
    SECTOR_SIZE,
    Width         \* 2^32

ASSUME MapAssumption ==
    /\ SECTOR_SIZE \in Nat \ {0} /\ Width \in Nat \ {0}
    /\ \A d \in DOMAIN Maps :
         /\ Maps[d].scheme \in {"mac", "dos", "none"}
         /\ Maps[d].scheme = "mac" =>
              /\ Maps[d].secsize \in Nat /\ Maps[d].map_count \in Nat
              /\ DOMAIN Maps[d].entry \subseteq Nat \ {0}
              /\ \A i \in DOMAIN Maps[d].entry : Maps[d].entry[i].boot \in BOOLEAN
         \* the four entries, and what lies before them in the boot block
         /\ Maps[d].scheme = "dos" => DOMAIN Maps[d].entry = 0 .. 4
         /\ Maps[d].scheme # "none" =>
              \A i \in DOMAIN Maps[d].entry :
                  Maps[d].entry[i].start \in Nat /\ Maps[d].entry[i].count \in Nat

Region(e, unit) == [start |-> e.start * unit, len |-> e.count * unit]

(* The blocks of a Mac map the loop comes to: as many as the first entry   *)
(* says, and up to the first one without the signature.                    *)
InMap(m) ==
    { i \in 1 .. (IF m.map_count < 1 THEN 1 ELSE m.map_count) : \A j \in 1 .. i : j \in DOMAIN m.entry }

(* Partition 0 is the first bootable one. *)
read_mac_partition(m, n) ==
    LET hit == { i \in InMap(m) : i = n \/ (n = 0 /\ m.entry[i].boot) }
    IN  { Region(m.entry[i], m.secsize) : i \in { j \in hit : \A k \in hit : j <= k } }

(* Mutant: the entries are counted from 0. *)
DosFromZero(m, n) ==
    IF n >= 4 THEN {}
    ELSE LET r == Region(m.entry[n + 1], SECTOR_SIZE)
         IN  {[start |-> r.start % Width, len |-> r.len % Width]}

(* Partition 4 is refused.  For partition 0 the loop counts up until its   *)
(* integer wraps, and so does the pointer: it ends one entry before the    *)
(* table.                                                                  *)
read_dos_partition(m, n) ==
    IF n >= 4 THEN {}
    ELSE LET r == Region(m.entry[n], SECTOR_SIZE)
         IN  {[start |-> r.start % Width, len |-> r.len % Width]}

(* part_open: what becomes of part_t, nothing if there is no such          *)
(* partition.                                                              *)
Located(d, n) ==
    CASE Maps[d].scheme = "mac" -> read_mac_partition(Maps[d], n)
      [] Maps[d].scheme = "dos" -> read_dos_partition(Maps[d], n)
      [] OTHER -> {}
=============================================================================
