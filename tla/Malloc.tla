------------------------------- MODULE Malloc -------------------------------
(***************************************************************************)
(* The allocator of malloc.c: a pointer that moves up, a size word in      *)
(* front of every block, and a free that takes back only the block that    *)
(* was allocated last.  realloc has no callers.                            *)
(*                                                                         *)
(* Callers free what they were given, once: that is the environment here.  *)
(* Pointer arithmetic is that of a machine with AddrSpace addresses.       *)
(***************************************************************************)
EXTENDS Integers

CONSTANTS
    MALLOC_BASE, MALLOC_SIZE,
    Word,        \* sizeof(int), which is also the alignment
    AddrSpace,   \* 2^32
    Sizes        \* the sizes callers ask for

MallocEnd == MALLOC_BASE + MALLOC_SIZE

ASSUME HeapAssumption ==
    /\ Word \in Nat \ {0}
    /\ MALLOC_BASE \in Nat \ {0} /\ MALLOC_SIZE \in Nat
    /\ MALLOC_BASE % Word = 0 /\ MALLOC_SIZE % Word = 0
    /\ AddrSpace \in Nat \ {0}
    /\ Sizes \subseteq Nat

(* No caller asks for so much that the sum in malloc wraps around. *)
ASSUME NoWrapAssumption ==
    \A n \in Sizes : MallocEnd + n + Word < AddrSpace

VARIABLES
    malloc_ptr,   \* next free address
    last_alloc,   \* the block allocated last, 0 before the first
    live          \* blocks the callers hold

vars == <<malloc_ptr, last_alloc, live>>

Wrap(a) == a % AddrSpace

AlignWord(a) == ((a + Word - 1) \div Word) * Word

(* malloc_init: the claim succeeded. *)
Init ==
    /\ malloc_ptr = MALLOC_BASE
    /\ last_alloc = 0
    /\ live = {}

(* Mutant: the size word is forgotten in the check. *)
FitsNoHeader(n) == Wrap(malloc_ptr + n) < MallocEnd

(* Mutant: a block may end where the heap ends. *)
FitsToEnd(n) == Wrap(malloc_ptr + n + Word) <= MallocEnd

Fits(n) == Wrap(malloc_ptr + n + Word) < MallocEnd

(* Mutant: the pointer moves up without the size word. *)
AllocNoHeader(n) ==
    /\ Fits(n)
    /\ last_alloc' = malloc_ptr + Word
    /\ malloc_ptr' = AlignWord(malloc_ptr + n)
    /\ live' = live \cup {[addr |-> malloc_ptr + Word, size |-> n]}

Alloc(n) ==
    /\ Fits(n)
    /\ last_alloc' = malloc_ptr + Word
    /\ malloc_ptr' = AlignWord(malloc_ptr + n + Word)
    /\ live' = live \cup {[addr |-> malloc_ptr + Word, size |-> n]}

AllocFails(n) ==
    /\ ~Fits(n)
    /\ UNCHANGED vars

(* Mutant: any block freed rewinds the pointer. *)
FreeRewinds(b) ==
    /\ malloc_ptr' = b.addr - Word
    /\ live' = live \ {b}
    /\ UNCHANGED last_alloc

Free(b) ==
    /\ malloc_ptr' = IF b.addr = last_alloc THEN last_alloc - Word ELSE malloc_ptr
    /\ live' = live \ {b}
    /\ UNCHANGED last_alloc

Next ==
    \/ \E n \in Sizes : Alloc(n) \/ AllocFails(n)
    \/ \E b \in live : Free(b)

Spec == Init /\ [][Next]_vars

-----------------------------------------------------------------------------
HeapUnits == MALLOC_BASE .. MallocEnd - 1

Heap == INSTANCE HeapSpec WITH Hdr <- Word

(* The pointers stay in the heap and aligned. *)
TypeOK ==
    /\ malloc_ptr \in MALLOC_BASE .. MallocEnd /\ malloc_ptr % Word = 0
    /\ last_alloc \in Nat
    /\ live \subseteq [addr : Nat, size : Nat]

(* What makes the rewind in free safe: no held block reaches above         *)
(* malloc_ptr, and none but the one at last_alloc reaches above            *)
(* last_alloc, also after the block there has been freed.                  *)
LastIsTop ==
    \A b \in live :
        /\ b.addr + b.size <= malloc_ptr
        /\ b.addr # last_alloc => b.addr + b.size <= last_alloc - Word

(* !cat and message= put a NUL behind the block they asked malloc for,     *)
(* which has no room for it.  That byte is never in a block that someone   *)
(* holds, nor behind the heap: what it may hit is padding, a size word, or *)
(* memory that is free.                                                    *)
NulBehindBlock ==
    \A b \in live :
        /\ b.addr + b.size < MallocEnd
        /\ \A c \in live : b.addr + b.size \notin c.addr .. c.addr + c.size - 1

(* malloc and free keep the promise of HeapSpec: a block handed out lies   *)
(* in the heap and overlaps no other block or header still in use.         *)
ImplementsHeap == Heap!Spec
=============================================================================
