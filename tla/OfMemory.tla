------------------------------ MODULE OfMemory ------------------------------
(***************************************************************************)
(* Memory as iQUIK sees it: the Open Firmware client services "claim" and  *)
(* "release" (external: modelled from how prom.c calls them) and the       *)
(* helpers prom.c builds on them.  Memory is a set of address units        *)
(* 0 .. RamTop-1; what is claimed is a subset of it, passed as c.          *)
(*                                                                         *)
(* Only the path of prom_claim / prom_release without                      *)
(* PROM_CLAIM_WORK_AROUND is modelled.                                     *)
(***************************************************************************)
EXTENDS Integers

CONSTANTS
    RamTop,               \* units of physical memory the firmware hands out
    SIZE_1M,              \* the stride of prom_claim_chunk
    SIZE_4K,              \* the chunk of prom_ensure_claimed
    PROM_CLAIM_MAX_ADDR   \* last address prom_claim_chunk tries

ASSUME MemAssumption ==
    /\ RamTop \in Nat
    /\ SIZE_1M \in Nat \ {0}
    /\ SIZE_4K \in Nat \ {0}
    /\ PROM_CLAIM_MAX_ADDR \in Nat

Ram == 0 .. RamTop - 1

(* What prom_claim returns on failure: minus one, as a pointer. *)
BadAddr == -1

(* The n units from address a. *)
Span(a, n) == a .. a + n - 1

(* Mutant: a claim beyond the end of memory is granted. *)
ClaimableAnywhere(c, a, n) == Span(a, n) \cap c = {}

(***************************************************************************)
(* External: the firmware grants a claim at a fixed address (align = 0)    *)
(* iff it lies in memory and nobody holds a part of it; a release is       *)
(* honoured iff the whole range is held, and otherwise has no effect.      *)
(***************************************************************************)
Claimable(c, a, n) == Span(a, n) \subseteq Ram \ c

prom_claim(c, a, n) == c \cup Span(a, n)

(* Mutant: a release is never refused. *)
ReleaseUnchecked(c, a, n) == c \ Span(a, n)

prom_release(c, a, n) == IF Span(a, n) \subseteq c THEN c \ Span(a, n) ELSE c

(* Mutant: the first aligned address is taken, claimed or not. *)
ChunkAddrsUnchecked(c, virt, n) ==
    { a \in virt .. PROM_CLAIM_MAX_ADDR : a % SIZE_1M = 0 /\ Span(a, n) \subseteq Ram }

(***************************************************************************)
(* prom_claim_chunk: the 1M-aligned addresses from ALIGN_UP(virt) up where *)
(* the claim would succeed; the loop stops at the lowest.                  *)
(***************************************************************************)
ChunkAddrs(c, virt, n) ==
    { a \in virt .. PROM_CLAIM_MAX_ADDR : a % SIZE_1M = 0 /\ Claimable(c, a, n) }

IsClaimChunk(c, virt, n, a) ==
    /\ a \in ChunkAddrs(c, virt, n)
    /\ \A b \in ChunkAddrs(c, virt, n) : a <= b

(***************************************************************************)
(* prom_ensure_claimed: 4K chunks from virt while below virt + size, each  *)
(* claimed on its own; a claim that fails is not noticed.  The chunks do   *)
(* not overlap, so what one claims never decides another.                  *)
(***************************************************************************)
EnsureChunks(virt, n) ==
    { a \in Span(virt, n) : (a - virt) % SIZE_4K = 0 }

EnsureGets(c, virt, n) ==
    UNION { Span(a, SIZE_4K) : a \in { b \in EnsureChunks(virt, n) : Claimable(c, b, SIZE_4K) } }

prom_ensure_claimed(c, virt, n) == c \cup EnsureGets(c, virt, n)
=============================================================================
