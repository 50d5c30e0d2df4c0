------------------------------ MODULE HeapSpec ------------------------------
(***************************************************************************)
(* What a caller of malloc and free may rely on: a block it was given lies *)
(* in the heap, header included, and overlaps no other block it holds.     *)
(***************************************************************************)
EXTENDS Integers

CONSTANTS
    HeapUnits,   \* the addresses of the heap
    Hdr,         \* units of the header in front of a block
    Sizes        \* the sizes asked for

VARIABLE live    \* blocks handed out and not given back

Block == [addr : HeapUnits, size : Sizes]

Extent(b) == b.addr - Hdr .. b.addr + b.size - 1

Init == live = {}

Alloc ==
    \E b \in Block :
        /\ Extent(b) \subseteq HeapUnits
        /\ \A c \in live : Extent(b) \cap Extent(c) = {}
        /\ live' = live \cup {b}

Free == \E b \in live : live' = live \ {b}

Next == Alloc \/ Free

Spec == Init /\ [][Next]_live
=============================================================================
