---------------------------- MODULE MallocProofs ----------------------------
(***************************************************************************)
(* Malloc implements HeapSpec, for every heap and every set of sizes that  *)
(* do not wrap around.                                                     *)
(***************************************************************************)
EXTENDS Malloc, TLAPS

(* Aligning rounds up, by less than a word, to a multiple of the word. *)
LEMMA AlignUp ==
    ASSUME NEW w \in Nat \ {0}, NEW a \in Nat
    PROVE  LET r == ((a + w - 1) \div w) * w
           IN  r \in Nat /\ r >= a /\ r < a + w /\ r % w = 0
  OBVIOUS

(* An address below a multiple of the word aligns to that multiple at      *)
(* most.                                                                   *)
LEMMA AlignBelow ==
    ASSUME NEW w \in Nat \ {0}, NEW a \in Nat, NEW e \in Nat, a <= e, e % w = 0
    PROVE  ((a + w - 1) \div w) * w <= e
  <1> DEFINE q == e \div w
             k == (a + w - 1) \div w
  <1>1. q \in Nat /\ k \in Nat /\ e = q * w
    OBVIOUS
  <1>2. k * w <= a + w - 1
    OBVIOUS
  <1>3. k * w < q * w + w
    BY <1>1, <1>2
  <1> HIDE DEF q, k
  <1>4. k <= q
    <2> SUFFICES ASSUME k > q PROVE FALSE
      BY <1>1
    <2>1. (q + 1) * w <= k * w
      BY <1>1
    <2>2. (q + 1) * w = q * w + w
      BY <1>1
    <2> QED BY <1>1, <1>3, <2>1, <2>2
  <1>5. k * w <= q * w
    BY <1>1, <1>4
  <1> QED BY <1>1, <1>5 DEF k

(* Below AddrSpace, nothing wraps. *)
LEMMA NoWrap ==
    ASSUME NEW a \in Nat, NEW m \in Nat \ {0}, a < m
    PROVE  a % m = a
  OBVIOUS

(* The sum of two multiples of the word is one. *)
LEMMA ModSum ==
    ASSUME NEW w \in Nat \ {0}, NEW a \in Nat, NEW b \in Nat, a % w = 0, b % w = 0
    PROVE  (a + b) % w = 0
  <1> DEFINE p == a \div w
             q == b \div w
  <1>1. p \in Nat /\ q \in Nat /\ a = p * w /\ b = q * w
    OBVIOUS
  <1> HIDE DEF p, q
  <1>2. a + b = (p + q) * w
    BY <1>1
  <1>3. \A r \in Nat : (r * w) % w = 0
    OBVIOUS
  <1> QED BY <1>1, <1>2, <1>3

-----------------------------------------------------------------------------
(* The inductive invariant.  LastIsTop alone does not carry the heap's     *)
(* disjointness through an allocation: blocks must also lie below          *)
(* malloc_ptr, keep apart from one another, and last_alloc must be a place *)
(* that malloc_ptr may go back to.                                         *)
InHeap ==
    \A b \in live : /\ b.addr - Word >= MALLOC_BASE /\ b.addr + b.size <= malloc_ptr
                    /\ b.addr + b.size < MallocEnd

Apart ==
    \A b, c \in live : b # c => b.addr + b.size <= c.addr - Word \/ c.addr + c.size <= b.addr - Word

LastPlace ==
    /\ last_alloc = 0 => live = {}
    /\ last_alloc # 0 => /\ last_alloc - Word >= MALLOC_BASE
                         /\ last_alloc - Word <= malloc_ptr
                         /\ (last_alloc - Word) % Word = 0

HeapInv == TypeOK /\ InHeap /\ Apart /\ LastIsTop /\ LastPlace

LEMMA HeapInit == Init => HeapInv
  <1>1. MALLOC_BASE \in MALLOC_BASE .. MallocEnd
    BY HeapAssumption DEF MallocEnd
  <1> QED BY <1>1, HeapAssumption
          DEF Init, HeapInv, TypeOK, InHeap, Apart, LastIsTop, LastPlace

(* Where an allocation leaves malloc_ptr. *)
LEMMA AllocBounds ==
    ASSUME TypeOK, NEW n \in Sizes, Alloc(n)
    PROVE  /\ n \in Nat
           /\ malloc_ptr + Word + n <= malloc_ptr'
           /\ malloc_ptr + Word + n < MallocEnd
           /\ malloc_ptr' \in MALLOC_BASE .. MallocEnd
           /\ malloc_ptr' % Word = 0
  <1> USE HeapAssumption
  <1>1. n \in Nat /\ malloc_ptr \in Nat /\ MallocEnd \in Nat /\ malloc_ptr <= MallocEnd
        /\ malloc_ptr >= MALLOC_BASE
    BY DEF TypeOK, MallocEnd
  <1> DEFINE a == malloc_ptr + n + Word
  <1>2. a \in Nat /\ a < AddrSpace
    BY <1>1, NoWrapAssumption
  <1>3. a < MallocEnd
    <2>1. a % AddrSpace = a
      BY <1>2, NoWrap
    <2> QED BY <2>1 DEF Alloc, Fits, Wrap
  <1>4. MallocEnd % Word = 0
    BY ModSum DEF MallocEnd
  <1>5. malloc_ptr' = ((a + Word - 1) \div Word) * Word
    BY DEF Alloc, AlignWord
  <1> HIDE DEF a
  <1>6. malloc_ptr' \in Nat /\ malloc_ptr' >= a /\ malloc_ptr' % Word = 0
    BY <1>2, <1>5, AlignUp
  <1>7. malloc_ptr' <= MallocEnd
    BY <1>1, <1>2, <1>3, <1>4, <1>5, AlignBelow
  <1>8. malloc_ptr' \in Nat /\ malloc_ptr' >= a
    BY <1>6
  <1>9. malloc_ptr + Word + n <= malloc_ptr' /\ malloc_ptr' \in MALLOC_BASE .. MallocEnd
        /\ malloc_ptr + Word + n < MallocEnd
    BY <1>1, <1>3, <1>7, <1>8 DEF a
  <1> QED BY <1>1, <1>6, <1>9

LEMMA HeapStep == HeapInv /\ [Next]_vars => HeapInv'
  <1> SUFFICES ASSUME HeapInv, [Next]_vars PROVE HeapInv'
    OBVIOUS
  <1> USE HeapAssumption
  <1>1. ASSUME NEW n \in Sizes, Alloc(n) PROVE HeapInv'
    <2> DEFINE new == [addr |-> malloc_ptr + Word, size |-> n]
    <2>1. /\ n \in Nat /\ malloc_ptr + Word + n <= malloc_ptr' /\ malloc_ptr + Word + n < MallocEnd
          /\ malloc_ptr' \in MALLOC_BASE .. MallocEnd /\ malloc_ptr' % Word = 0
      BY <1>1, AllocBounds DEF HeapInv
    <2>2. /\ malloc_ptr \in Nat /\ malloc_ptr >= MALLOC_BASE /\ malloc_ptr' \in Nat
          /\ malloc_ptr % Word = 0 /\ live \subseteq [addr : Nat, size : Nat]
      BY <2>1 DEF HeapInv, TypeOK
    <2>3. live' = live \cup {new} /\ last_alloc' = malloc_ptr + Word
          /\ new.addr = malloc_ptr + Word /\ new.size = n
      BY <1>1 DEF Alloc
    <2>4. \A b \in live : b.addr \in Nat /\ b.size \in Nat
                          /\ b.addr - Word >= MALLOC_BASE /\ b.addr + b.size <= malloc_ptr
                          /\ b.addr + b.size < MallocEnd
      BY <2>2 DEF HeapInv, InHeap
    <2>5. TypeOK'
      <3>1. live' \subseteq [addr : Nat, size : Nat] /\ last_alloc' \in Nat
        <4>1. malloc_ptr + Word \in Nat
          BY <2>2
        <4> QED BY <2>1, <2>2, <2>3, <4>1
      <3> QED BY <2>1, <3>1 DEF TypeOK
    <2>6. InHeap'
      BY <2>1, <2>2, <2>3, <2>4 DEF InHeap, MallocEnd
    <2>7. Apart'
      <3>1. \A b \in live : b.addr + b.size <= new.addr - Word
        BY <2>2, <2>3, <2>4
      <3> QED BY <2>3, <3>1 DEF HeapInv, Apart
    <2>8. LastIsTop'
      BY <2>1, <2>2, <2>3, <2>4 DEF LastIsTop
    <2>9. LastPlace'
      BY <2>1, <2>2, <2>3 DEF LastPlace
    <2> QED BY <2>5, <2>6, <2>7, <2>8, <2>9 DEF HeapInv
  <1>2. ASSUME NEW b \in live, Free(b) PROVE HeapInv'
    <2>1. live' = live \ {b} /\ last_alloc' = last_alloc
      BY <1>2 DEF Free
    <2>2. live \subseteq [addr : Nat, size : Nat] /\ last_alloc \in Nat /\ last_alloc # 0
      BY DEF HeapInv, TypeOK, LastPlace
    <2>3. CASE b.addr = last_alloc
      <3>1. malloc_ptr' = last_alloc - Word
        BY <1>2, <2>3 DEF Free
      <3>2. \A c \in live' : c.addr \in Nat /\ c.size \in Nat /\ c.addr + c.size <= last_alloc - Word
        <4> SUFFICES ASSUME NEW c \in live, c # b
                     PROVE  c.addr \in Nat /\ c.size \in Nat /\ c.addr + c.size <= last_alloc - Word
          BY <2>1
        <4>1. c.addr \in Nat /\ c.size \in Nat /\ b.size \in Nat
          BY <2>2
        <4>2. c.addr # last_alloc
          <5>1. b.addr + b.size <= c.addr - Word \/ c.addr + c.size <= b.addr - Word
            BY DEF HeapInv, Apart
          <5> QED BY <2>2, <2>3, <4>1, <5>1
        <4> QED BY <4>1, <4>2 DEF HeapInv, LastIsTop
      <3>3. /\ last_alloc - Word >= MALLOC_BASE /\ last_alloc - Word <= malloc_ptr
            /\ (last_alloc - Word) % Word = 0 /\ malloc_ptr \in MALLOC_BASE .. MallocEnd
        BY <2>2 DEF HeapInv, LastPlace, TypeOK
      <3>4. TypeOK'
        BY <2>1, <2>2, <3>1, <3>3 DEF TypeOK, MallocEnd
      <3>5. InHeap'
        BY <2>1, <3>1, <3>2 DEF HeapInv, InHeap
      <3>6. LastIsTop'
        BY <2>1, <3>1, <3>2 DEF LastIsTop
      <3>7. LastPlace'
        BY <2>1, <2>2, <3>1, <3>3 DEF LastPlace
      <3>8. Apart'
        BY <2>1 DEF HeapInv, Apart
      <3> QED BY <3>4, <3>5, <3>6, <3>7, <3>8 DEF HeapInv
    <2>4. CASE b.addr # last_alloc
      <3>1. malloc_ptr' = malloc_ptr
        BY <1>2, <2>4 DEF Free
      <3> QED BY <2>1, <2>2, <3>1 DEF HeapInv, TypeOK, InHeap, Apart, LastIsTop, LastPlace
    <2> QED BY <2>3, <2>4
  <1>3. CASE UNCHANGED vars
    BY <1>3 DEF vars, HeapInv, TypeOK, InHeap, Apart, LastIsTop, LastPlace
  <1> QED BY <1>1, <1>2, <1>3 DEF Next, AllocFails

(* The pointers stay in the heap and aligned through every sequence of     *)
(* allocations and frees.                                                  *)
THEOREM HeapTypeCorrect == Spec => []TypeOK
  <1>1. HeapInv => TypeOK
    BY DEF HeapInv
  <1> QED BY <1>1, HeapInit, HeapStep, PTL DEF Spec

(* free only ever rewinds over memory that nobody holds. *)
THEOREM RewindIsSafe == Spec => []LastIsTop
  <1>1. HeapInv => LastIsTop
    BY DEF HeapInv
  <1> QED BY <1>1, HeapInit, HeapStep, PTL DEF Spec

(* The NUL that !cat puts behind its block hits no block and stays in the  *)
(* heap, for every sequence of allocations and frees.                      *)
THEOREM NulIsHarmless == Spec => []NulBehindBlock
  <1>1. HeapInv => NulBehindBlock
    <2> SUFFICES ASSUME HeapInv, NEW b \in live
                 PROVE  /\ b.addr + b.size < MallocEnd
                        /\ \A c \in live : b.addr + b.size \notin c.addr .. c.addr + c.size - 1
      BY DEF NulBehindBlock
    <2>1. b.addr + b.size < MallocEnd
      BY DEF HeapInv, InHeap
    <2>2. ASSUME NEW c \in live PROVE b.addr + b.size \notin c.addr .. c.addr + c.size - 1
      <3>1. b.addr \in Nat /\ b.size \in Nat /\ c.addr \in Nat /\ c.size \in Nat
        BY DEF HeapInv, TypeOK
      <3>2. CASE b = c
        BY <3>1, <3>2
      <3>3. CASE b # c
        BY <3>1, <3>3, HeapAssumption DEF HeapInv, Apart
      <3> QED BY <3>2, <3>3
    <2> QED BY <2>1, <2>2
  <1> QED BY <1>1, HeapInit, HeapStep, PTL DEF Spec

-----------------------------------------------------------------------------
(* Refinement. *)

LEMMA StepRefines == HeapInv /\ HeapInv' /\ [Next]_vars => [Heap!Next]_live
  <1> SUFFICES ASSUME HeapInv, HeapInv', [Next]_vars PROVE [Heap!Next]_live
    OBVIOUS
  <1> USE HeapAssumption
  <1>1. ASSUME NEW n \in Sizes, Alloc(n) PROVE Heap!Alloc
    <2> DEFINE new == [addr |-> malloc_ptr + Word, size |-> n]
    <2>1. n \in Nat /\ malloc_ptr + Word + n <= malloc_ptr'
          /\ malloc_ptr' \in MALLOC_BASE .. MallocEnd
      BY <1>1, AllocBounds DEF HeapInv
    <2>2. malloc_ptr \in Nat /\ malloc_ptr >= MALLOC_BASE /\ MallocEnd \in Nat
      BY DEF HeapInv, TypeOK, MallocEnd
    <2>3. malloc_ptr + Word < MallocEnd
      <3>1. malloc_ptr + n + Word \in Nat /\ malloc_ptr + n + Word < AddrSpace
        BY <2>1, <2>2, NoWrapAssumption DEF HeapInv, TypeOK
      <3>2. (malloc_ptr + n + Word) % AddrSpace = malloc_ptr + n + Word
        BY <3>1, NoWrap
      <3> QED BY <1>1, <2>1, <2>2, <3>2 DEF Alloc, Fits, Wrap
    <2>4. new \in Heap!Block
      BY <2>1, <2>2, <2>3 DEF Heap!Block, HeapUnits
    <2>5. Heap!Extent(new) \subseteq HeapUnits
      BY <2>1, <2>2 DEF Heap!Extent, HeapUnits
    <2>6. ASSUME NEW c \in live PROVE Heap!Extent(new) \cap Heap!Extent(c) = {}
      <3>1. c.addr \in Nat /\ c.size \in Nat /\ c.addr + c.size <= malloc_ptr
        BY DEF HeapInv, TypeOK, InHeap
      <3> QED BY <2>1, <2>2, <3>1 DEF Heap!Extent
    <2>7. live' = live \cup {new}
      BY <1>1 DEF Alloc
    <2> QED BY <2>4, <2>5, <2>6, <2>7 DEF Heap!Alloc
  <1>2. ASSUME NEW b \in live, Free(b) PROVE Heap!Free
    BY <1>2 DEF Free, Heap!Free
  <1> QED BY <1>1, <1>2 DEF Next, AllocFails, vars, Heap!Next

(* malloc and free implement the heap their callers rely on. *)
THEOREM MallocImplementsHeap == Spec => ImplementsHeap
  <1>1. Init => Heap!Init
    BY DEF Init, Heap!Init
  <1> QED BY <1>1, HeapInit, HeapStep, StepRefines, PTL DEF Spec, ImplementsHeap, Heap!Spec
=============================================================================
