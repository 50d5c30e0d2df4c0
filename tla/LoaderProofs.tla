---------------------------- MODULE LoaderProofs ----------------------------
(***************************************************************************)
(* Theorems about Loader, for every memory layout and every set of files,  *)
(* and about the segments of a kernel, for all program headers.            *)
(***************************************************************************)
EXTENDS KernelSegments, WellFoundedInduction, TLAPS

-----------------------------------------------------------------------------
(* What the operators of OfMemory guarantee. *)

(* prom_claim_chunk returns an address at or above the one it was given,   *)
(* and what it claims there was free memory.                               *)
LEMMA ChunkFree ==
    ASSUME NEW c, NEW v \in Nat, NEW n \in Nat, NEW a \in ChunkAddrs(c, v, n)
    PROVE  a \in Nat /\ a >= v /\ Span(a, n) \subseteq Ram /\ Span(a, n) \cap c = {}
  BY MemAssumption DEF ChunkAddrs, Claimable

(* prom_ensure_claimed takes only free memory. *)
LEMMA EnsureFree ==
    ASSUME NEW c, NEW v, NEW n
    PROVE  EnsureGets(c, v, n) \subseteq Ram \ c
  BY DEF EnsureGets, Claimable

(* prom_release never makes more memory claimed. *)
LEMMA ReleaseShrinks ==
    ASSUME NEW c, NEW a, NEW n
    PROVE  prom_release(c, a, n) \subseteq c
  BY DEF prom_release

-----------------------------------------------------------------------------
(* Type correctness. *)

(* Addresses are bad only on the way out of a failed load_image; an        *)
(* attempt in progress has a kernel to load, above LOAD_BASE, and one that *)
(* has come as far as the initrd has an initrd to load.                    *)
InFlight ==
    /\ kernel_buf = BadAddr => lpc = "out"
    /\ initrd_buf = BadAddr => lpc = "out"
    /\ lpc # "prompt" => job \in Jobs
    /\ lpc # "prompt" => kernel_buf = BadAddr \/ kernel_buf >= LOAD_BASE
    /\ lpc \in {"initrd_len", "initrd_claim", "initrd_load"} => job.initrd # NoFile
    /\ lpc \in {"initrd_len", "initrd_claim", "initrd_load", "loaded", "relocated"}
          => image.file \in Files

LEMMA FileTypes ==
    ASSUME NEW m \in [Ram -> Tag], NEW f \in Files, NEW a \in Nat, NEW n \in Nat
    PROVE  WithFile(m, f, a, n) \in [Ram -> Tag]
  <1>1. ASSUME NEW u \in Ram, u \in Span(a, n)
        PROVE  <<f, u - a>> \in Tag
    BY <1>1, MemAssumption DEF Span, Ram, Tag
  <1> QED BY <1>1 DEF WithFile

LEMMA JunkTypes ==
    ASSUME NEW m \in [Ram -> Tag], NEW a, NEW n
    PROVE  WithJunk(m, a, n) \in [Ram -> Tag]
  BY DEF WithJunk, Tag

LEMMA MoveTypes ==
    ASSUME NEW m \in [Ram -> Tag], NEW a, NEW s, NEW n
    PROVE  WithMove(m, a, s, n) \in [Ram -> Tag]
  BY DEF WithMove, Tag

(* What memtest claims it gives back. *)
LEMMA MemtestKeepsClaims ==
    ASSUME NEW a, NEW n, Memtest(a, n)
    PROVE  claimed' = claimed
  <1>1. Span(a, n) \cap claimed = {}
    BY DEF Memtest, Claimable
  <1>2. claimed' = (claimed \cup Span(a, n)) \ Span(a, n)
    BY DEF Memtest, prom_claim, prom_release
  <1> QED BY <1>1, <1>2

LEMMA TypeInit == Init => TypeOK /\ InFlight
  <1> SUFFICES ASSUME Init PROVE TypeOK /\ InFlight
    OBVIOUS
  <1>1. Base \subseteq Ram
    BY LayoutAssumption, MemAssumption DEF Base, Iquik, Heap, Span, Ram
  <1> QED BY <1>1, LayoutAssumption, MemAssumption
          DEF Init, TypeOK, InFlight, NoJob, NoImage, NoInitrd, BadAddr, Lpcs, Jobs, Tag

LEMMA TypeStep == TypeOK /\ InFlight /\ [Next]_vars => TypeOK' /\ InFlight'
  <1> SUFFICES ASSUME TypeOK, InFlight, [Next]_vars PROVE TypeOK' /\ InFlight'
    OBVIOUS
  <1> USE FileAssumption, LayoutAssumption, MemAssumption
  <1> USE DEF memVars, bufVars, histVars
  <1>1. ASSUME NEW j \in Jobs, Request(j) PROVE TypeOK' /\ InFlight'
    BY <1>1 DEF Request, TypeOK, InFlight, BadAddr, Lpcs
  <1>2. CASE KernelLen
    BY <1>2 DEF KernelLen, TypeOK, InFlight, BadAddr, Lpcs, Jobs, NoJob
  <1>3. CASE KernelClaim
    <2>1. kernel_buf \in Nat
      BY <1>3 DEF KernelClaim, TypeOK, InFlight
    <2>2. claimed' \subseteq Ram /\ kernel_buf' \in Nat \cup {BadAddr}
      BY <1>3, <2>1, ChunkFree DEF KernelClaim, TypeOK, prom_claim
    <2>3. kernel_buf' = BadAddr => lpc' = "out"
      <3>1. ASSUME NEW a \in ChunkAddrs(claimed, kernel_buf, kernel_len) PROVE a # BadAddr
        <4>1. a \in Nat
          BY <2>1, <3>1, ChunkFree DEF TypeOK
        <4> QED BY <4>1 DEF BadAddr
      <3> QED BY <1>3, <3>1 DEF KernelClaim
    <2>4. lpc' \in {"kernel_load", "out"} /\ job \in Jobs
      BY <1>3 DEF KernelClaim, InFlight
    <2>5. kernel_buf' = BadAddr \/ kernel_buf' >= LOAD_BASE
      <3>1. kernel_buf >= LOAD_BASE
        BY <1>3, <2>1 DEF KernelClaim, InFlight, BadAddr
      <3>2. ASSUME NEW a \in ChunkAddrs(claimed, kernel_buf, kernel_len) PROVE a >= LOAD_BASE
        <4>1. a \in Nat /\ a >= kernel_buf
          BY <2>1, <3>2, ChunkFree DEF TypeOK
        <4> QED BY <2>1, <3>1, <4>1
      <3> QED BY <1>3, <3>2 DEF KernelClaim
    <2> QED BY <1>3, <2>2, <2>3, <2>4, <2>5 DEF KernelClaim, TypeOK, InFlight, Lpcs
  <1>4. CASE KernelLoad
    <2>1. kernel_buf \in Nat /\ job \in Jobs
      BY <1>4 DEF KernelLoad, TypeOK, InFlight
    <2>2. job.kernel \in Files
      BY <2>1 DEF Jobs
    <2>3. mem' \in [Ram -> Tag]
      <3>1. /\ mem \in [Ram -> Tag]
            /\ kernel_buf \in Nat /\ kernel_len \in Nat /\ job.kernel \in Files
        BY <2>1, <2>2 DEF TypeOK
      <3>2. WithFile(mem, job.kernel, kernel_buf, kernel_len) \in [Ram -> Tag]
        BY <3>1, FileTypes
      <3>3. WithJunk(mem, kernel_buf, kernel_len) \in [Ram -> Tag]
        BY <3>1, JunkTypes
      <3> QED BY <1>4, <3>2, <3>3 DEF KernelLoad
    <2>4. claimed' \subseteq Ram
      BY <1>4, ReleaseShrinks DEF KernelLoad, TypeOK
    <2>5. lpc' \in {"parse", "out"}
      BY <1>4 DEF KernelLoad
    <2> QED BY <1>4, <2>1, <2>3, <2>4, <2>5 DEF KernelLoad, TypeOK, InFlight, Lpcs
  <1>5. CASE ElfParseFails
    BY <1>5 DEF ElfParseFails, TypeOK, InFlight, Lpcs, NoImage
  <1>6. CASE ElfParse
    <2> DEFINE f == HeaderAt(kernel_buf)
    <2>1. kernel_buf \in Nat /\ kernel_len \in Nat /\ job \in Jobs
      BY <1>6 DEF ElfParse, TypeOK, InFlight
    <2>2. f \in Files
      BY <1>6 DEF ElfParse, IsKernel
    <2>3. Elf[f] \in ElfInfo
      BY <2>2
    <2>4. image' \in [buf : Nat, base : Nat, off : Nat, len : Nat, entry : Int, file : Files \cup {NoFile}]
          /\ image'.file \in Files /\ image'.buf = kernel_buf
      BY <1>6, <2>1, <2>2, <2>3 DEF ElfParse, ElfInfo
    <2>5. claimed' \subseteq Ram
      BY <1>6, EnsureFree DEF ElfParse, TypeOK, prom_ensure_claimed
    <2>6. extra' \subseteq Ram
      BY <1>6, <2>5 DEF ElfParse, TypeOK
    <2>7. missed' \subseteq Nat
      BY <1>6, <2>4 DEF ElfParse, KernelExtent, Span
    <2>8. prev' \in [kernel : Files \cup {NoFile}, buf : Nat]
      BY <1>6, <2>1 DEF ElfParse, Jobs
    <2>9. /\ initrd' \in [base : Nat, len : Nat]
          /\ initrd_buf' \in Nat
          /\ lpc' \in {"loaded", "initrd_len"}
          /\ lpc' = "initrd_len" => job.initrd # NoFile
      BY <1>6, <2>1 DEF ElfParse, TypeOK, NoInitrd, InFlight
    <2>10. UNCHANGED <<job, kernel_buf, kernel_len, initrd_len, mem, start>>
      BY <1>6 DEF ElfParse
    <2>11. TypeOK'
      BY <2>1, <2>4, <2>5, <2>6, <2>7, <2>8, <2>9, <2>10 DEF TypeOK, Lpcs
    <2>12. InFlight'
      <3>1. kernel_buf # BadAddr /\ initrd_buf' # BadAddr /\ kernel_buf >= LOAD_BASE
        BY <1>6, <2>1, <2>9 DEF ElfParse, InFlight, BadAddr
      <3> QED BY <2>1, <2>4, <2>9, <2>10, <3>1 DEF InFlight
    <2> QED BY <2>11, <2>12
  <1>7. CASE InitrdLen
    <2>1. job \in Jobs /\ job.initrd \in Files
      BY <1>7 DEF InitrdLen, InFlight, Jobs
    <2>2. initrd_len' \in Nat /\ lpc' \in {"initrd_claim", "out"}
      BY <1>7, <2>1 DEF InitrdLen
    <2> QED BY <1>7, <2>1, <2>2 DEF InitrdLen, TypeOK, InFlight, Lpcs
  <1>8. CASE InitrdClaim
    <2>1. initrd_buf \in Nat
      BY <1>8 DEF InitrdClaim, TypeOK, InFlight
    <2>2. claimed' \subseteq Ram /\ initrd_buf' \in Nat \cup {BadAddr}
      BY <1>8, <2>1, ChunkFree DEF InitrdClaim, TypeOK, prom_claim
    <2>3. initrd_buf' = BadAddr => lpc' = "out"
      <3>1. ASSUME NEW a \in ChunkAddrs(claimed, initrd_buf, initrd_len) PROVE a # BadAddr
        <4>1. a \in Nat
          BY <2>1, <3>1, ChunkFree DEF TypeOK
        <4> QED BY <4>1 DEF BadAddr
      <3> QED BY <1>8, <3>1 DEF InitrdClaim
    <2>4. lpc' \in {"initrd_load", "out"} /\ job \in Jobs /\ job.initrd # NoFile
      BY <1>8 DEF InitrdClaim, InFlight
    <2> QED BY <1>8, <2>2, <2>3, <2>4 DEF InitrdClaim, TypeOK, InFlight, Lpcs
  <1>9. CASE InitrdLoad
    <2>1. initrd_buf \in Nat /\ initrd_len \in Nat /\ job \in Jobs /\ job.initrd \in Files
      BY <1>9 DEF InitrdLoad, TypeOK, InFlight, Jobs
    <2>2. mem' \in [Ram -> Tag]
      <3>1. /\ mem \in [Ram -> Tag]
            /\ initrd_buf \in Nat /\ initrd_len \in Nat /\ job.initrd \in Files
        BY <2>1 DEF TypeOK
      <3>2. WithFile(mem, job.initrd, initrd_buf, initrd_len) \in [Ram -> Tag]
        BY <3>1, FileTypes
      <3>3. WithJunk(mem, initrd_buf, initrd_len) \in [Ram -> Tag]
        BY <3>1, JunkTypes
      <3> QED BY <1>9, <3>2, <3>3 DEF InitrdLoad
    <2>3. claimed' \subseteq Ram
      BY <1>9, ReleaseShrinks DEF InitrdLoad, TypeOK
    <2>4. lpc' \in {"loaded", "out"} /\ initrd' \in [base : Nat, len : Nat]
      BY <1>9, <2>1 DEF InitrdLoad, TypeOK
    <2>5. image.file \in Files
      BY <1>9 DEF InitrdLoad, InFlight
    <2> QED BY <1>9, <2>1, <2>2, <2>3, <2>4, <2>5 DEF InitrdLoad, TypeOK, InFlight, Lpcs
  <1>10. CASE Out
    <2>1. claimed' \subseteq Ram
      BY <1>10, ReleaseShrinks DEF Out, TypeOK
    <2> QED BY <1>10, <2>1 DEF Out, TypeOK, InFlight, Lpcs, BadAddr
  <1>11. CASE ElfReloTooBig
    BY <1>11 DEF ElfReloTooBig, TypeOK, InFlight, Lpcs
  <1>12. CASE ElfReloOld
    <2>1. image.base \in Nat /\ image.buf + image.off \in Nat /\ image.len \in Nat /\ image.file \in Files
      BY <1>12 DEF ElfReloOld, TypeOK, InFlight
    <2>2. mem' \in [Ram -> Tag]
      BY <1>12, <2>1, MoveTypes DEF ElfReloOld, TypeOK
    <2>3. claimed' \subseteq Ram
      BY <1>12, EnsureFree DEF ElfReloOld, TypeOK, prom_ensure_claimed
    <2> QED BY <1>12, <2>1, <2>2, <2>3 DEF ElfReloOld, TypeOK, InFlight, Lpcs
  <1>13. CASE ElfReloNew
    <2>1. image' \in [buf : Nat, base : Nat, off : Nat, len : Nat, entry : Int, file : Files \cup {NoFile}]
          /\ image'.file = image.file
      <3> DEFINE to == image.buf + image.off
      <3>1. to \in Nat /\ image.entry - image.base + to \in Int
        BY DEF TypeOK
      <3> QED BY <1>13, <3>1 DEF ElfReloNew, TypeOK
    <2> QED BY <1>13, <2>1 DEF ElfReloNew, TypeOK, InFlight, Lpcs
  <1>14. CASE ElfBoot
    <2>1. Elf[image.file].word \in Word
      BY <1>14 DEF ElfBoot, InFlight, ElfInfo
    <2>2. start' \in Int
      BY <1>14, <2>1 DEF ElfBoot, StartAddr, TypeOK, Word
    <2> QED BY <1>14, <2>2 DEF ElfBoot, TypeOK, InFlight, Lpcs
  <1>15. CASE KernelReturns
    BY <1>15 DEF KernelReturns, TypeOK, InFlight, Lpcs
  <1>16. CASE UNCHANGED vars
    BY <1>16 DEF vars, TypeOK, InFlight
  <1>17. ASSUME NEW a \in Ram, NEW n \in Ram, Memtest(a, n) PROVE TypeOK' /\ InFlight'
    <2>1. claimed' = claimed
      BY <1>17, MemtestKeepsClaims
    <2>2. mem' \in [Ram -> Tag]
      BY <1>17, JunkTypes DEF Memtest, TypeOK
    <2> QED BY <1>17, <2>1, <2>2 DEF Memtest, TypeOK, InFlight
  <1> QED
    BY <1>1, <1>2, <1>3, <1>4, <1>5, <1>6, <1>7, <1>8, <1>9, <1>10, <1>11, <1>12,
       <1>13, <1>14, <1>15, <1>16, <1>17 DEF Next, LoadStep, Exited

(* Every state the loader reaches is well typed. *)
THEOREM TypeCorrect == Spec => []TypeOK
  BY TypeInit, TypeStep, PTL DEF Spec

-----------------------------------------------------------------------------
(* Who holds which memory.  The inductive invariant says exactly what is   *)
(* claimed at every point of an attempt; the properties the runs check     *)
(* are weaker than it at all points but one.                               *)

KernelSpan == Span(kernel_buf, kernel_len)
InitrdSpan == Span(initrd_buf, initrd_len)
Idle == Base \cup extra

Claims ==
    /\ extra \cap Base = {}
    /\ Base \subseteq claimed
    /\ lpc \in {"prompt", "kernel_len", "kernel_claim"} => claimed = Idle
    /\ lpc \in {"kernel_load", "parse", "initrd_len", "initrd_claim"} =>
          claimed = Idle \cup KernelSpan /\ KernelSpan \cap Idle = {}
    /\ lpc = "initrd_load" =>
          /\ claimed = Idle \cup KernelSpan \cup InitrdSpan
          /\ KernelSpan \cap Idle = {}
          /\ InitrdSpan \cap (Idle \cup KernelSpan) = {}
    /\ lpc = "out" =>
          /\ kernel_buf = BadAddr => claimed = Idle
          /\ kernel_buf # BadAddr =>
                KernelSpan \cap Idle = {} /\ claimed \in {Idle, Idle \cup KernelSpan}

(* All of the parsed kernel but the missed units stays claimed until the   *)
(* initrd has found its place.                                             *)
Clear ==
    /\ lpc \in {"initrd_len", "initrd_claim"} => KernelExtent(image) \ missed \subseteq claimed
    /\ InitrdClearOfKernel

(* Only a range that is claimed as a whole is released. *)
LEMMA ReleaseWhole ==
    ASSUME NEW c, NEW i, NEW a, NEW n, Span(a, n) \cap i = {}, c \in {i, i \cup Span(a, n)}
    PROVE  prom_release(c, a, n) = i
  <1>1. CASE Span(a, n) \subseteq c
    BY <1>1 DEF prom_release
  <1>2. CASE ~(Span(a, n) \subseteq c)
    BY <1>2 DEF prom_release
  <1> QED BY <1>1, <1>2

(* Releasing from address minus one is without effect. *)
LEMMA ReleaseBad ==
    ASSUME NEW c, c \subseteq Ram, NEW n \in Nat
    PROVE  prom_release(c, BadAddr, n) = c
  <1>1. CASE n = 0
    <2>1. Span(BadAddr, n) = {}
      BY <1>1 DEF Span, BadAddr
    <2> QED BY <2>1 DEF prom_release
  <1>2. CASE n # 0
    <2>1. BadAddr \in Span(BadAddr, n)
      BY <1>2 DEF Span, BadAddr
    <2>2. BadAddr \notin Ram
      BY MemAssumption DEF Ram, BadAddr
    <2> QED BY <2>1, <2>2 DEF prom_release
  <1> QED BY <1>1, <1>2

LEMMA ClaimsInit == Init => Claims /\ Clear
  BY DEF Init, Claims, Idle, Clear, InitrdClearOfKernel

LEMMA ClaimsStep == TypeOK /\ InFlight /\ Claims /\ [Next]_vars => Claims'
  <1> SUFFICES ASSUME TypeOK, InFlight, Claims, [Next]_vars PROVE Claims'
    OBVIOUS
  <1> USE DEF memVars, bufVars, histVars
  <1>1. ASSUME NEW j \in Jobs, Request(j) PROVE Claims'
    BY <1>1 DEF Request, Claims, Idle
  <1>2. CASE KernelLen
    <2>1. kernel_len' = 0 => KernelSpan' = {}
      BY <1>2 DEF KernelLen, KernelSpan, Span, TypeOK, InFlight, BadAddr
    <2> QED BY <1>2, <2>1 DEF KernelLen, Claims, Idle
  <1>3. CASE KernelClaim
    <2>1. kernel_buf \in Nat /\ kernel_len \in Nat /\ claimed = Idle
      BY <1>3 DEF KernelClaim, TypeOK, InFlight, Claims
    <2>2. CASE lpc' = "kernel_load"
      <3>1. claimed' = Idle \cup KernelSpan' /\ KernelSpan' \cap Idle = {}
        BY <1>3, <2>1, <2>2, ChunkFree DEF KernelClaim, KernelSpan, prom_claim
      <3> QED BY <1>3, <2>2, <3>1 DEF KernelClaim, Claims, Idle
    <2>3. CASE lpc' = "out"
      BY <1>3, <2>1, <2>3 DEF KernelClaim, Claims, Idle
    <2> QED BY <1>3, <2>2, <2>3 DEF KernelClaim
  <1>4. CASE KernelLoad
    <2>1. claimed = Idle \cup KernelSpan /\ KernelSpan \cap Idle = {}
      BY <1>4 DEF KernelLoad, Claims
    <2>2. prom_release(claimed, kernel_buf, kernel_len) = Idle
      BY <2>1, ReleaseWhole DEF KernelSpan
    <2>3. KernelSpan' = KernelSpan /\ Idle' = Idle
      BY <1>4 DEF KernelLoad, KernelSpan, Idle
    <2> QED BY <1>4, <2>1, <2>2, <2>3 DEF KernelLoad, Claims, Idle
  <1>5. CASE ElfParseFails
    <2>1. KernelSpan' = KernelSpan /\ Idle' = Idle /\ kernel_buf # BadAddr
      BY <1>5 DEF ElfParseFails, KernelSpan, Idle, InFlight
    <2> QED BY <1>5, <2>1 DEF ElfParseFails, Claims
  <1>6. CASE ElfParse
    <2>1. claimed = Idle \cup KernelSpan /\ KernelSpan \cap Idle = {}
      BY <1>6 DEF ElfParse, Claims
    <2>2. claimed \subseteq claimed' /\ extra' = extra \cup (claimed' \ claimed)
      BY <1>6 DEF ElfParse, prom_ensure_claimed
    <2>3. KernelSpan' = KernelSpan /\ lpc' \in {"loaded", "initrd_len"}
      BY <1>6 DEF ElfParse, KernelSpan
    <2>4. Idle' = Idle \cup (claimed' \ claimed)
      BY <2>2 DEF Idle
    <2>5. claimed' = Idle' \cup KernelSpan' /\ KernelSpan' \cap Idle' = {}
      BY <2>1, <2>2, <2>3, <2>4
    <2>6. extra' \cap Base = {} /\ Base \subseteq claimed'
      BY <2>2 DEF Claims
    <2> QED BY <2>3, <2>5, <2>6 DEF Claims
  <1>7. CASE InitrdLen
    <2>1. KernelSpan' = KernelSpan /\ Idle' = Idle /\ kernel_buf # BadAddr
      BY <1>7 DEF InitrdLen, KernelSpan, Idle, InFlight
    <2> QED BY <1>7, <2>1 DEF InitrdLen, Claims
  <1>8. CASE InitrdClaim
    <2>1. initrd_buf \in Nat /\ initrd_len \in Nat /\ kernel_buf # BadAddr
      BY <1>8 DEF InitrdClaim, TypeOK, InFlight
    <2>2. KernelSpan' = KernelSpan /\ Idle' = Idle
      BY <1>8 DEF InitrdClaim, KernelSpan, Idle
    <2>3. claimed = Idle \cup KernelSpan /\ KernelSpan \cap Idle = {}
      BY <1>8 DEF InitrdClaim, Claims
    <2>4. CASE lpc' = "initrd_load"
      <3>1. claimed' = claimed \cup InitrdSpan' /\ InitrdSpan' \cap claimed = {}
        BY <1>8, <2>1, <2>4, ChunkFree DEF InitrdClaim, InitrdSpan, prom_claim
      <3> QED BY <1>8, <2>2, <2>3, <2>4, <3>1 DEF InitrdClaim, Claims
    <2>5. CASE lpc' = "out"
      BY <1>8, <2>1, <2>2, <2>3, <2>5 DEF InitrdClaim, Claims
    <2> QED BY <1>8, <2>4, <2>5 DEF InitrdClaim
  <1>9. CASE InitrdLoad
    <2>1. /\ claimed = Idle \cup KernelSpan \cup InitrdSpan
          /\ KernelSpan \cap Idle = {}
          /\ InitrdSpan \cap (Idle \cup KernelSpan) = {}
      BY <1>9 DEF InitrdLoad, Claims
    <2>2. prom_release(claimed, initrd_buf, initrd_len) = Idle \cup KernelSpan
      <3> DEFINE i == Idle \cup KernelSpan
      <3>1. Span(initrd_buf, initrd_len) \cap i = {} /\ claimed \in {i, i \cup Span(initrd_buf, initrd_len)}
        BY <2>1 DEF InitrdSpan
      <3> HIDE DEF i
      <3>2. prom_release(claimed, initrd_buf, initrd_len) = i
        BY <3>1, ReleaseWhole
      <3> QED BY <3>2 DEF i
    <2>3. KernelSpan' = KernelSpan /\ Idle' = Idle /\ kernel_buf # BadAddr
      BY <1>9 DEF InitrdLoad, KernelSpan, Idle, InFlight
    <2> QED BY <1>9, <2>1, <2>2, <2>3 DEF InitrdLoad, Claims, Idle
  <1>10. CASE Out
    <2>1. claimed' = Idle
      <3>1. CASE kernel_buf = BadAddr
        <4>1. kernel_buf # 0 /\ prom_release(claimed, kernel_buf, kernel_len) = claimed
          BY <3>1, ReleaseBad DEF TypeOK, BadAddr
        <4> QED BY <1>10, <3>1, <4>1 DEF Out, Claims
      <3>2. CASE kernel_buf # BadAddr
        <4>1. KernelSpan \cap Idle = {} /\ claimed \in {Idle, Idle \cup KernelSpan}
          BY <1>10, <3>2 DEF Out, Claims
        <4>2. kernel_buf # 0
          BY <1>10, <3>2, LayoutAssumption DEF Out, InFlight
        <4> QED BY <1>10, <4>1, <4>2, ReleaseWhole DEF Out, KernelSpan
      <3> QED BY <3>1, <3>2
    <2> QED BY <1>10, <2>1 DEF Out, Claims, Idle
  <1>11. CASE ElfReloTooBig
    BY <1>11 DEF ElfReloTooBig, Claims, Idle
  <1>12. CASE ElfReloOld
    BY <1>12 DEF ElfReloOld, Claims, Idle, prom_ensure_claimed
  <1>13. CASE ElfReloNew
    BY <1>13 DEF ElfReloNew, Claims, Idle
  <1>14. CASE ElfBoot
    BY <1>14 DEF ElfBoot, Claims, Idle
  <1>15. CASE KernelReturns
    BY <1>15 DEF KernelReturns, Claims, Idle
  <1>16. CASE UNCHANGED vars
    BY <1>16 DEF vars, Claims, Idle, KernelSpan, InitrdSpan
  <1>17. ASSUME NEW a \in Ram, NEW n \in Ram, Memtest(a, n) PROVE Claims'
    BY <1>17, MemtestKeepsClaims DEF Memtest, Claims, Idle
  <1> QED
    BY <1>1, <1>2, <1>3, <1>4, <1>5, <1>6, <1>7, <1>8, <1>9, <1>10, <1>11, <1>12,
       <1>13, <1>14, <1>15, <1>16, <1>17 DEF Next, LoadStep, Exited

LEMMA ClearStep == TypeOK /\ InFlight /\ Claims /\ Clear /\ [Next]_vars => Clear'
  <1> SUFFICES ASSUME TypeOK, InFlight, Claims, Clear, [Next]_vars PROVE Clear'
    OBVIOUS
  <1> USE DEF memVars, bufVars, histVars
  <1>1. ASSUME NEW j \in Jobs, Request(j) PROVE Clear'
    BY <1>1 DEF Request, Clear, InitrdClearOfKernel
  <1>2. CASE KernelLen \/ KernelClaim \/ KernelLoad \/ ElfParseFails \/ Out
    BY <1>2 DEF KernelLen, KernelClaim, KernelLoad, ElfParseFails, Out, Clear, InitrdClearOfKernel
  <1>3. CASE ElfParse
    <2>1. KernelExtent(image') \ missed' \subseteq claimed'
      BY <1>3 DEF ElfParse
    <2>2. lpc' \in {"loaded", "initrd_len"} /\ (lpc' = "loaded" => job'.initrd = NoFile)
      BY <1>3 DEF ElfParse
    <2> QED BY <2>1, <2>2 DEF Clear, InitrdClearOfKernel
  <1>4. CASE InitrdLen
    BY <1>4 DEF InitrdLen, Clear, InitrdClearOfKernel
  <1>5. CASE InitrdClaim
    <2>1. initrd_buf \in Nat /\ initrd_len \in Nat
      BY <1>5 DEF InitrdClaim, TypeOK, InFlight
    <2>2. KernelExtent(image) \ missed \subseteq claimed
      BY <1>5 DEF InitrdClaim, Clear
    <2>3. CASE lpc' = "initrd_load"
      <3>1. Span(initrd_buf', initrd_len') \cap claimed = {}
        BY <1>5, <2>1, <2>3, ChunkFree DEF InitrdClaim
      <3> QED BY <1>5, <2>2, <2>3, <3>1 DEF InitrdClaim, Clear, InitrdClearOfKernel
    <2>4. CASE lpc' = "out"
      BY <2>4 DEF Clear, InitrdClearOfKernel
    <2> QED BY <1>5, <2>3, <2>4 DEF InitrdClaim
  <1>6. CASE InitrdLoad
    BY <1>6 DEF InitrdLoad, Clear, InitrdClearOfKernel
  <1>7. CASE ElfReloTooBig \/ ElfReloOld \/ ElfReloNew \/ ElfBoot \/ KernelReturns
    BY <1>7 DEF ElfReloTooBig, ElfReloOld, ElfReloNew, ElfBoot, KernelReturns, Clear, InitrdClearOfKernel
  <1>8. CASE UNCHANGED vars
    BY <1>8 DEF vars, Clear, InitrdClearOfKernel
  <1>9. ASSUME NEW a \in Ram, NEW n \in Ram, Memtest(a, n) PROVE Clear'
    BY <1>9 DEF Memtest, Clear, InitrdClearOfKernel
  <1> QED
    BY <1>1, <1>2, <1>3, <1>4, <1>5, <1>6, <1>7, <1>8, <1>9 DEF Next, LoadStep, Exited

-----------------------------------------------------------------------------
(* Where a retried kernel lands. *)

(* The last kernel that was parsed would be placed at the same address     *)
(* again in the memory that is free at the prompt, and an attempt that has *)
(* claimed its buffer holds the address prom_claim_chunk finds there.      *)
Placement ==
    /\ prev.kernel # NoFile =>
          IsClaimChunk(Idle, LOAD_BASE, FileLen[prev.kernel], prev.buf)
    /\ lpc \in {"kernel_len", "kernel_claim"} => kernel_buf = LOAD_BASE
    /\ lpc \in {"kernel_claim", "kernel_load", "parse"} => kernel_len = FileLen[job.kernel]
    /\ lpc \in {"kernel_load", "parse"} => IsClaimChunk(Idle, LOAD_BASE, kernel_len, kernel_buf)
    /\ lpc = "out" /\ kernel_buf = BadAddr => prev.kernel # job.kernel

(* Claiming memory outside the range found does not change the search. *)
LEMMA ChunkStable ==
    ASSUME NEW c, NEW d, NEW v \in Nat, NEW n \in Nat, NEW a,
           IsClaimChunk(c, v, n, a), c \subseteq d, Span(a, n) \cap d = {}
    PROVE  IsClaimChunk(d, v, n, a)
  <1>1. ChunkAddrs(d, v, n) \subseteq ChunkAddrs(c, v, n)
    BY DEF ChunkAddrs, Claimable
  <1>2. a \in ChunkAddrs(d, v, n)
    BY DEF IsClaimChunk, ChunkAddrs, Claimable
  <1> QED BY <1>1, <1>2 DEF IsClaimChunk

LEMMA ChunkUnique ==
    ASSUME NEW c, NEW v \in Nat, NEW n \in Nat, NEW a, NEW b,
           IsClaimChunk(c, v, n, a), IsClaimChunk(c, v, n, b)
    PROVE  a = b
  <1>1. a \in Int /\ b \in Int
    BY MemAssumption DEF IsClaimChunk, ChunkAddrs
  <1>2. a <= b /\ b <= a
    BY DEF IsClaimChunk
  <1> QED BY <1>1, <1>2

LEMMA PlacementStep ==
    TypeOK /\ InFlight /\ Claims /\ Placement /\ [Next]_vars => Placement'
  <1> SUFFICES ASSUME TypeOK, InFlight, Claims, Placement, [Next]_vars PROVE Placement'
    OBVIOUS
  <1> USE DEF memVars, bufVars, histVars
  <1>1. ASSUME NEW j \in Jobs, Request(j) PROVE Placement'
    BY <1>1 DEF Request, Placement, Idle
  <1>2. CASE KernelLen
    BY <1>2, LayoutAssumption DEF KernelLen, Placement, Idle, BadAddr
  <1>3. CASE KernelClaim
    <2>1. claimed = Idle /\ kernel_buf = LOAD_BASE /\ kernel_len = FileLen[job.kernel]
          /\ Idle' = Idle
      BY <1>3 DEF KernelClaim, Claims, Placement, Idle
    <2>2. CASE lpc' = "kernel_load"
      BY <1>3, <2>1, <2>2 DEF KernelClaim, Placement
    <2>3. CASE lpc' = "out"
      <3>1. ChunkAddrs(Idle, LOAD_BASE, kernel_len) = {}
        BY <1>3, <2>1, <2>3 DEF KernelClaim
      <3>2. job.kernel # NoFile
        BY <1>3, FileAssumption DEF KernelClaim, InFlight, Jobs
      <3>3. prev.kernel # job.kernel
        BY <2>1, <3>1, <3>2 DEF Placement, IsClaimChunk
      <3> QED BY <1>3, <2>1, <2>3, <3>3 DEF KernelClaim, Placement
    <2> QED BY <1>3, <2>2, <2>3 DEF KernelClaim
  <1>4. CASE KernelLoad
    BY <1>4 DEF KernelLoad, Placement, Idle, InFlight
  <1>5. CASE ElfParseFails
    BY <1>5 DEF ElfParseFails, Placement, Idle, InFlight
  <1>6. CASE ElfParse
    <2>1. /\ claimed = Idle \cup KernelSpan /\ KernelSpan \cap Idle = {}
          /\ IsClaimChunk(Idle, LOAD_BASE, kernel_len, kernel_buf)
          /\ kernel_len = FileLen[job.kernel]
      BY <1>6 DEF ElfParse, Claims, Placement
    <2>2. Idle' = Idle \cup (claimed' \ claimed)
      BY <1>6 DEF ElfParse, Idle
    <2>3. Idle \subseteq Idle' /\ Span(kernel_buf, kernel_len) \cap Idle' = {}
      BY <2>1, <2>2 DEF KernelSpan
    <2>4. IsClaimChunk(Idle', LOAD_BASE, kernel_len, kernel_buf)
      BY <2>1, <2>3, ChunkStable, LayoutAssumption DEF TypeOK
    <2>5. prev' = [kernel |-> job.kernel, buf |-> kernel_buf] /\ lpc' \in {"loaded", "initrd_len"}
      BY <1>6 DEF ElfParse
    <2> QED BY <2>1, <2>4, <2>5 DEF Placement
  <1>7. CASE InitrdLen \/ InitrdClaim \/ InitrdLoad
    BY <1>7 DEF InitrdLen, InitrdClaim, InitrdLoad, Placement, Idle, InFlight
  <1>8. CASE Out
    BY <1>8 DEF Out, Placement, Idle
  <1>9. CASE ElfReloTooBig \/ ElfReloOld \/ ElfReloNew \/ ElfBoot \/ KernelReturns
    BY <1>9 DEF ElfReloTooBig, ElfReloOld, ElfReloNew, ElfBoot, KernelReturns, Placement, Idle
  <1>10. CASE UNCHANGED vars
    BY <1>10 DEF vars, Placement, Idle
  <1>11. ASSUME NEW a \in Ram, NEW n \in Ram, Memtest(a, n) PROVE Placement'
    BY <1>11 DEF Memtest, Placement, Idle
  <1> QED
    BY <1>1, <1>2, <1>3, <1>4, <1>5, <1>6, <1>7, <1>8, <1>9, <1>10, <1>11 DEF Next, LoadStep, Exited

LEMMA PlacementRetry == TypeOK /\ InFlight /\ Placement => RetrySameAddress
  <1> SUFFICES ASSUME TypeOK, InFlight, Placement PROVE RetrySameAddress
    OBVIOUS
  <1>1. ASSUME lpc \in {"kernel_load", "parse"}, prev.kernel = job.kernel
        PROVE  kernel_buf = prev.buf
    <2>1. job.kernel # NoFile
      BY <1>1, FileAssumption DEF InFlight, Jobs
    <2>2. /\ IsClaimChunk(Idle, LOAD_BASE, kernel_len, prev.buf)
          /\ IsClaimChunk(Idle, LOAD_BASE, kernel_len, kernel_buf)
      BY <1>1, <2>1 DEF Placement
    <2> QED BY <2>2, ChunkUnique, LayoutAssumption DEF TypeOK
  <1> QED BY <1>1 DEF Placement, RetrySameAddress

-----------------------------------------------------------------------------
(* The inductive invariant, and what follows from it. *)

Inv == TypeOK /\ InFlight /\ Claims /\ Clear /\ Placement

(* The inductive invariant of try_load_loop: which buffers are in use, and *)
(* that just these are claimed besides the base and earlier bss.           *)
THEOREM LoaderInvariant == Spec => []Inv
  <1>1. Init => Inv
    <2>1. Init => Placement
      BY DEF Init, Placement
    <2> QED BY <2>1, TypeInit, ClaimsInit DEF Inv
  <1>2. Inv /\ [Next]_vars => Inv'
    BY TypeStep, ClaimsStep, ClearStep, PlacementStep DEF Inv
  <1> QED BY <1>1, <1>2, PTL DEF Spec

(* The firmware's memory, the loader's code and its heap stay claimed      *)
(* through every sequence of failing, retried and successful loads.        *)
THEOREM BaseStaysClaimed == Spec => []BaseKept
  <1>1. Inv => BaseKept
    BY DEF Inv, Claims, BaseKept
  <1> QED BY <1>1, LoaderInvariant, PTL

(* A failed attempt returns everything but the bss chunks of elf_parse. *)
THEOREM NothingElseLeaks == Spec => []IdleHoldsOnlyBss
  <1>1. Inv => IdleHoldsOnlyBss
    BY DEF Inv, Claims, Idle, IdleHoldsOnlyBss
  <1> QED BY <1>1, LoaderInvariant, PTL

(* The initrd stays clear of every part of the kernel that was claimed. *)
THEOREM InitrdStaysClear == Spec => []InitrdClearOfKernel
  <1>1. Inv => InitrdClearOfKernel
    BY DEF Inv, Clear
  <1> QED BY <1>1, LoaderInvariant, PTL

(* A kernel that is tried again lands where it was. *)
THEOREM RetryIsStable == Spec => []RetrySameAddress
  <1>1. Inv => RetrySameAddress
    BY PlacementRetry DEF Inv
  <1> QED BY <1>1, LoaderInvariant, PTL

-----------------------------------------------------------------------------
(* prom_ensure_claimed obtains all it is asked for where nobody holds any  *)
(* of it, nor of the rest of the last chunk: the chunk of every unit is    *)
(* one of those it claims.                                                 *)
LEMMA MultipleOf ==
    ASSUME NEW b \in Nat \ {0}, NEW q \in Nat
    PROVE  (b * q) % b = 0
  OBVIOUS

LEMMA EnsureWhole ==
    ASSUME NEW c, NEW virt \in Nat, NEW n \in Nat,
           Span(virt, n + SIZE_4K) \subseteq Ram \ c
    PROVE  Span(virt, n) \subseteq prom_ensure_claimed(c, virt, n)
  <1> SUFFICES ASSUME NEW u \in Span(virt, n) PROVE u \in EnsureGets(c, virt, n)
    BY DEF prom_ensure_claimed
  <1> DEFINE q == (u - virt) \div SIZE_4K
             a == virt + SIZE_4K * q
  <1>1. u \in Nat /\ u - virt \in Nat /\ u - virt < n
    BY DEF Span
  <1>2. /\ SIZE_4K \in Nat \ {0} /\ q \in Nat /\ SIZE_4K * q \in Nat
        /\ SIZE_4K * q <= u - virt /\ u - virt < SIZE_4K * q + SIZE_4K
    BY <1>1, MemAssumption
  <1>3. (SIZE_4K * q) % SIZE_4K = 0
    BY <1>2, MultipleOf
  <1> HIDE DEF q
  <1>4. a - virt = SIZE_4K * q
    BY <1>2
  <1>5. a \in EnsureChunks(virt, n)
    BY <1>1, <1>2, <1>3, <1>4 DEF EnsureChunks, Span
  <1>6. Span(a, SIZE_4K) \subseteq Span(virt, n + SIZE_4K)
    BY <1>1, <1>2 DEF Span
  <1>7. Claimable(c, a, SIZE_4K)
    BY <1>6 DEF Claimable
  <1>8. u \in Span(a, SIZE_4K)
    BY <1>1, <1>2 DEF Span
  <1> HIDE DEF a
  <1> QED BY <1>5, <1>7, <1>8 DEF EnsureGets

(* elf_parse leaves no part of the kernel unclaimed where the memory       *)
(* behind the file is free, for every stride and every length of file and  *)
(* bss.                                                                    *)
THEOREM BssIsClaimed == Spec => FreshBssIsClaimed
  <1> DEFINE Fresh ==
        lpc = "parse" /\ lpc' # "out"
        /\ Span(kernel_buf + kernel_len, BssLen(Elf[image'.file], kernel_len) + SIZE_4K)
               \subseteq Ram \ claimed
        => missed' = {}
  <1>1. Inv /\ [Next]_vars => [Fresh]_vars
    <2> SUFFICES ASSUME Inv, Next, lpc = "parse", lpc' # "out",
                        Span(kernel_buf + kernel_len, BssLen(Elf[image'.file], kernel_len) + SIZE_4K)
                            \subseteq Ram \ claimed
                 PROVE  missed' = {}
      OBVIOUS
    <2> DEFINE f == HeaderAt(kernel_buf)
               n == BssLen(Elf[f], kernel_len)
    <2>1. ElfParse
      BY DEF Next, LoadStep, Exited, Request, Memtest, KernelLen, KernelClaim, KernelLoad,
             ElfParseFails, InitrdLen, InitrdClaim, InitrdLoad, Out, ElfReloTooBig, ElfReloOld,
             ElfReloNew, ElfBoot, KernelReturns
    <2>2. f \in Files /\ Elf[f] \in ElfInfo
      BY <2>1, FileAssumption DEF ElfParse, IsKernel
    <2>3. /\ image'.file = f /\ image'.buf = kernel_buf
          /\ image'.off = Elf[f].off /\ image'.len = Elf[f].len
      BY <2>1 DEF ElfParse
    <2>4. kernel_buf \in Nat /\ kernel_len \in Nat /\ claimed = Idle \cup KernelSpan
      BY DEF Inv, TypeOK, InFlight, Claims
    <2>5. Elf[f].off \in Nat /\ Elf[f].len \in Nat
      BY <2>2 DEF ElfInfo
    <2>6. /\ claimed' = prom_ensure_claimed(claimed, kernel_buf + kernel_len, n)
          /\ missed' = KernelExtent(image') \ claimed'
      BY <2>1 DEF ElfParse
    <2>7. n \in Nat /\ Elf[f].off + Elf[f].len <= kernel_len + n
      BY <2>4, <2>5 DEF BssLen
    <2>8. Span(kernel_buf + kernel_len, n + SIZE_4K) \subseteq Ram \ claimed
      BY <2>3
    <2> HIDE DEF n, f
    <2>9. Span(kernel_buf + kernel_len, n) \subseteq claimed'
      BY <2>4, <2>6, <2>7, <2>8, EnsureWhole
    <2>10. Span(kernel_buf, kernel_len) \subseteq claimed'
      BY <2>4, <2>6 DEF KernelSpan, prom_ensure_claimed
    <2>11. KernelExtent(image') \subseteq
             Span(kernel_buf, kernel_len) \cup Span(kernel_buf + kernel_len, n)
      BY <2>3, <2>4, <2>5, <2>7 DEF KernelExtent, Span
    <2> QED BY <2>6, <2>9, <2>10, <2>11
  <1>2. Spec => [][Next]_vars
    BY DEF Spec
  <1> HIDE DEF Fresh
  <1>3. Spec => [][Fresh]_vars
    BY <1>1, <1>2, LoaderInvariant, PTL
  <1> QED BY <1>3 DEF Fresh, FreshBssIsClaimed
-----------------------------------------------------------------------------
(***************************************************************************)
(* What is in memory when the kernel gets control: HandoffImage, for every *)
(* layout and every set of non-empty files.                                *)
(***************************************************************************)

(* elf_parse reads a header without asking whether the file has one: the   *)
(* theorem is about files that are not empty.                              *)
NoEmptyFile == \A f \in Files : FileLen[f] > 0

(* n units of memory from a hold the first n units of file f. *)
Holds(m, f, a, n) == \A i \in 0 .. n - 1 : a + i \in Ram /\ m[a + i] = <<f, i>>

(* The loader's own memory is as it was when the loader started. *)
OwnIntact(m) == \A u \in Iquik \cup Heap : m[u] = <<NoFile, 0>>

AfterParse == {"initrd_len", "initrd_claim", "initrd_load", "loaded"}

Contents ==
    /\ lpc \notin {"relocated", "running", "exit"} => OwnIntact(mem)
    /\ lpc \in AfterParse => kernel_len = FileLen[job.kernel]
    /\ lpc \in AfterParse \cup {"parse"} => Holds(mem, job.kernel, kernel_buf, kernel_len)
    /\ lpc \in AfterParse =>
          /\ image.file = job.kernel
          /\ image.buf = kernel_buf
          /\ image.off = Elf[job.kernel].off
          /\ image.len = Elf[job.kernel].len
          /\ image.base = Elf[job.kernel].base
    /\ lpc \in {"initrd_claim", "initrd_load"} => initrd_len = FileLen[job.initrd]
    /\ lpc \in {"initrd_len", "initrd_claim", "initrd_load"} => initrd_buf >= LOAD_BASE
    /\ lpc = "loaded" =>
          IF job.initrd = NoFile
          THEN initrd.len = 0
          ELSE /\ initrd.len = FileLen[job.initrd]
               /\ initrd.base >= LOAD_BASE
               /\ Holds(mem, job.initrd, initrd.base, initrd.len)

(* What HandoffImage says of a kernel that has been put in place, which is *)
(* still described as elf_parse has found it.                              *)
InPlace ==
    /\ image.file = job.kernel
    /\ image.off = Elf[job.kernel].off /\ image.len = Elf[job.kernel].len
    /\ \A i \in 0 .. image.len - 1 :
          image.off + i < FileLen[job.kernel] =>
              mem[image.base + i] = <<job.kernel, image.off + i>>
    /\ IF job.initrd = NoFile
       THEN initrd.len = 0
       ELSE /\ initrd.len = FileLen[job.initrd]
            /\ \A i \in 0 .. initrd.len - 1 : mem[initrd.base + i] = <<job.initrd, i>>
    /\ \A u \in Iquik \cup Heap : mem[u] = <<NoFile, 0>>

Ready == lpc \in {"relocated", "running"} /\ Placeable => InPlace

-----------------------------------------------------------------------------
LEMMA OwnInRam == Iquik \cup Heap \subseteq Ram /\ Iquik \cup Heap \subseteq Base
  BY LayoutAssumption, MemAssumption DEF Iquik, Heap, Span, Ram, Base

(* Writing a file into a range that is not the loader's leaves the         *)
(* loader's memory alone, and so does a read that fails.                   *)
LEMMA WriteKeepsOwn ==
    ASSUME NEW m, OwnIntact(m), NEW a, NEW n, NEW f, Span(a, n) \cap Base = {}
    PROVE  OwnIntact(WithFile(m, f, a, n)) /\ OwnIntact(WithJunk(m, a, n))
  BY OwnInRam DEF OwnIntact, WithFile, WithJunk

(* A file that has been read is there, and stays when another is read to   *)
(* a range apart from it.                                                  *)
LEMMA FileIsRead ==
    ASSUME NEW m, NEW f, NEW a \in Nat, NEW n \in Nat, Span(a, n) \subseteq Ram
    PROVE  Holds(WithFile(m, f, a, n), f, a, n)
  <1> SUFFICES ASSUME NEW i \in 0 .. n - 1
               PROVE  a + i \in Ram /\ WithFile(m, f, a, n)[a + i] = <<f, i>>
    BY DEF Holds
  <1>1. a + i \in Span(a, n) /\ (a + i) - a = i
    BY DEF Span
  <1> QED BY <1>1 DEF WithFile

LEMMA ReadKeepsFile ==
    ASSUME NEW m, NEW f, NEW a \in Nat, NEW n \in Nat, Holds(m, f, a, n),
           NEW g, NEW b, NEW k, Span(b, k) \cap Span(a, n) = {}
    PROVE  Holds(WithFile(m, g, b, k), f, a, n)
  <1> SUFFICES ASSUME NEW i \in 0 .. n - 1
               PROVE  a + i \in Ram /\ WithFile(m, g, b, k)[a + i] = <<f, i>>
    BY DEF Holds
  <1>1. a + i \in Span(a, n)
    BY DEF Span
  <1>2. a + i \in Ram /\ m[a + i] = <<f, i>>
    BY DEF Holds
  <1> QED BY <1>1, <1>2 DEF WithFile

LEMMA ContentsInit == Init => Contents /\ Ready
  <1> SUFFICES ASSUME Init PROVE Contents /\ Ready
    OBVIOUS
  <1>1. OwnIntact(mem)
    BY OwnInRam DEF Init, OwnIntact
  <1> QED BY <1>1 DEF Init, Contents, Ready, AfterParse

LEMMA ContentsStep ==
    ASSUME NoEmptyFile, Inv, Contents, [Next]_vars
    PROVE  Contents'
  <1> USE DEF memVars, bufVars, histVars
  <1>1. ASSUME NEW j \in Jobs, Request(j) PROVE Contents'
    BY <1>1 DEF Request, Contents, AfterParse
  <1>2. CASE KernelLen
    BY <1>2 DEF KernelLen, Contents, AfterParse
  <1>3. CASE KernelClaim
    BY <1>3 DEF KernelClaim, Contents, AfterParse
  <1>4. CASE KernelLoad
    <2>1. /\ KernelSpan \cap Base = {} /\ KernelSpan \subseteq Ram
          /\ kernel_buf \in Nat /\ kernel_len \in Nat
      BY <1>4 DEF KernelLoad, Inv, Claims, Idle, TypeOK, InFlight
    <2>2. OwnIntact(mem')
      BY <1>4, <2>1, WriteKeepsOwn DEF KernelLoad, Contents, KernelSpan
    <2>3. lpc' = "parse" => Holds(mem', job.kernel, kernel_buf, kernel_len)
      BY <1>4, <2>1, FileIsRead DEF KernelLoad, KernelSpan
    <2> QED BY <1>4, <2>2, <2>3 DEF KernelLoad, Contents, AfterParse
  <1>5. CASE ElfParseFails
    BY <1>5 DEF ElfParseFails, Contents, AfterParse
  <1>6. CASE ElfParse
    <2>1. /\ Holds(mem, job.kernel, kernel_buf, kernel_len)
          /\ kernel_len = FileLen[job.kernel]
          /\ job.kernel \in Files /\ kernel_buf \in Nat /\ kernel_buf >= LOAD_BASE
          /\ OwnIntact(mem)
      BY <1>6 DEF ElfParse, Contents, Inv, Placement, InFlight, TypeOK, Jobs
    <2>2. kernel_len \in Nat /\ kernel_len > 0
      BY <2>1, FileAssumption DEF NoEmptyFile
    <2>3. HeaderAt(kernel_buf) = job.kernel
      <3>1. kernel_buf + 0 \in Ram /\ mem[kernel_buf + 0] = <<job.kernel, 0>>
        BY <2>1, <2>2 DEF Holds
      <3>2. kernel_buf + 0 = kernel_buf
        BY <2>1
      <3> QED BY <3>1, <3>2 DEF HeaderAt
    <2>4. /\ image'.file = job.kernel /\ image'.buf = kernel_buf
          /\ image'.off = Elf[job.kernel].off /\ image'.len = Elf[job.kernel].len
          /\ image'.base = Elf[job.kernel].base
      BY <1>6, <2>3 DEF ElfParse
    <2>5. /\ lpc' \in {"initrd_len", "loaded"}
          /\ lpc' = "loaded" => job.initrd = NoFile /\ initrd'.len = 0
          /\ lpc' = "initrd_len" => initrd_buf' = kernel_buf + kernel_len
      BY <1>6 DEF ElfParse, NoInitrd
    <2>6. lpc' = "initrd_len" => initrd_buf' >= LOAD_BASE
      BY <2>1, <2>2, <2>5, LayoutAssumption
    <2>7. UNCHANGED <<job, kernel_buf, kernel_len, mem>>
      BY <1>6 DEF ElfParse
    <2> QED BY <2>1, <2>4, <2>5, <2>6, <2>7 DEF Contents, AfterParse
  <1>7. CASE InitrdLen
    BY <1>7 DEF InitrdLen, Contents, AfterParse
  <1>8. CASE InitrdClaim
    <2>1. initrd_buf \in Nat /\ initrd_len \in Nat /\ initrd_buf >= LOAD_BASE
      BY <1>8 DEF InitrdClaim, Inv, TypeOK, InFlight, Contents
    <2>2. ASSUME NEW a \in ChunkAddrs(claimed, initrd_buf, initrd_len) PROVE a >= LOAD_BASE
      <3>1. a \in Nat /\ a >= initrd_buf
        BY <2>1, <2>2, ChunkFree
      <3> QED BY <2>1, <3>1, LayoutAssumption
    <2>3. lpc' = "initrd_load" => initrd_buf' >= LOAD_BASE
      BY <1>8, <2>2 DEF InitrdClaim
    <2> QED BY <1>8, <2>3 DEF InitrdClaim, Contents, AfterParse
  <1>9. CASE InitrdLoad
    <2>1. /\ InitrdSpan \cap Base = {} /\ InitrdSpan \subseteq Ram /\ InitrdSpan \cap KernelSpan = {}
          /\ initrd_buf \in Nat /\ initrd_len \in Nat /\ kernel_buf \in Nat /\ kernel_len \in Nat
          /\ job.initrd # NoFile
      BY <1>9 DEF InitrdLoad, Inv, Claims, Idle, TypeOK, InFlight
    <2>2. OwnIntact(mem')
      BY <1>9, <2>1, WriteKeepsOwn DEF InitrdLoad, Contents, InitrdSpan
    <2>3. lpc' = "loaded" => Holds(mem', job.initrd, initrd_buf, initrd_len)
      BY <1>9, <2>1, FileIsRead DEF InitrdLoad, InitrdSpan
    <2>4. Holds(mem, job.kernel, kernel_buf, kernel_len)
      BY <1>9 DEF InitrdLoad, Contents, AfterParse
    <2>5. lpc' = "loaded" => Holds(mem', job.kernel, kernel_buf, kernel_len)
      BY <1>9, <2>1, <2>4, ReadKeepsFile DEF InitrdLoad, InitrdSpan, KernelSpan
    <2> QED BY <1>9, <2>1, <2>2, <2>3, <2>5 DEF InitrdLoad, Contents, AfterParse
  <1>10. CASE Out
    BY <1>10 DEF Out, Contents, AfterParse
  <1>11. CASE ElfReloTooBig \/ ElfReloOld \/ ElfReloNew \/ ElfBoot \/ KernelReturns
    BY <1>11 DEF ElfReloTooBig, ElfReloOld, ElfReloNew, ElfBoot, KernelReturns, Contents, AfterParse
  <1>12. CASE UNCHANGED vars
    BY <1>12 DEF vars, Contents
  <1>13. ASSUME NEW a \in Ram, NEW n \in Ram, Memtest(a, n) PROVE Contents'
    <2>1. Span(a, n) \cap Base = {}
      BY <1>13 DEF Memtest, Claimable, Inv, Claims
    <2>2. OwnIntact(mem')
      BY <1>13, <2>1, WriteKeepsOwn DEF Memtest, Contents
    <2> QED BY <1>13, <2>2 DEF Memtest, Contents, AfterParse
  <1> QED
    BY <1>1, <1>2, <1>3, <1>4, <1>5, <1>6, <1>7, <1>8, <1>9, <1>10, <1>11, <1>12, <1>13
       DEF Next, LoadStep, Exited

-----------------------------------------------------------------------------
(* memmove copies what it should and leaves the rest alone. *)
LEMMA MoveCopies ==
    ASSUME NEW m, NEW d \in Nat, NEW s \in Nat, NEW n \in Nat, NEW i \in 0 .. n - 1,
           d + i \in Ram, s + i \in Ram
    PROVE  WithMove(m, d, s, n)[d + i] = m[s + i]
  <1>1. d + i \in Span(d, n)
    BY DEF Span
  <1>2. (d + i) - d + s = s + i
    OBVIOUS
  <1>3. WithMove(m, d, s, n)[d + i] = m[(d + i) - d + s]
    BY <1>1, <1>2 DEF WithMove
  <1> QED BY <1>2, <1>3

LEMMA MoveElsewhere ==
    ASSUME NEW m, NEW d \in Nat, NEW s \in Nat, NEW n \in Nat, NEW u \in Ram, u >= d + n
    PROVE  WithMove(m, d, s, n)[u] = m[u]
  <1>1. u \notin Span(d, n)
    BY MemAssumption DEF Span, Ram
  <1> QED BY <1>1 DEF WithMove

LEMMA ReadyStep ==
    ASSUME Inv, Contents, Ready, [Next]_vars
    PROVE  Ready'
  <1> USE DEF memVars, bufVars, histVars
  <1>1. CASE ElfReloOld
    <2> SUFFICES ASSUME Placeable' PROVE InPlace'
      BY DEF Ready
    <2> DEFINE k == job.kernel
    <2>1. /\ job' = job /\ image' = image /\ initrd' = initrd
          /\ mem' = WithMove(mem, image.base, image.buf + image.off, image.len)
          /\ job.old
      BY <1>1 DEF ElfReloOld
    <2>2. /\ image.file = k /\ image.buf = kernel_buf /\ image.off = Elf[k].off
          /\ image.len = Elf[k].len /\ image.base = Elf[k].base
          /\ kernel_len = FileLen[k]
          /\ Holds(mem, k, kernel_buf, kernel_len)
          /\ OwnIntact(mem)
      BY <1>1 DEF ElfReloOld, Contents, AfterParse
    <2>3. /\ image.base \in Nat /\ image.off \in Nat /\ image.len \in Nat /\ image.buf \in Nat
          /\ kernel_len \in Nat /\ IQUIK_BASE \in Nat /\ LOAD_BASE \in Nat
          /\ IQUIK_BASE <= LOAD_BASE /\ IQUIK_BASE < RamTop /\ RamTop \in Nat
          /\ initrd.base \in Nat /\ initrd.len \in Nat
      BY LayoutAssumption, MemAssumption DEF Inv, TypeOK
    <2>4. image.base + image.len <= IQUIK_BASE
      BY <2>1, <2>2 DEF Placeable
    <2>5. ASSUME NEW i \in 0 .. image.len - 1, image.off + i < FileLen[k]
          PROVE  mem'[image.base + i] = <<k, image.off + i>>
      <3>1. image.base + i \in Ram
        BY <2>3, <2>4 DEF Ram
      <3>2. image.off + i \in 0 .. kernel_len - 1
        BY <2>2, <2>3, <2>5
      <3>3. kernel_buf + (image.off + i) \in Ram
            /\ mem[kernel_buf + (image.off + i)] = <<k, image.off + i>>
        BY <2>2, <3>2 DEF Holds
      <3>4. (image.buf + image.off) + i = kernel_buf + (image.off + i)
        BY <2>2, <2>3
      <3>5. image.buf + image.off \in Nat
        BY <2>3
      <3>6. mem'[image.base + i] = mem[(image.buf + image.off) + i]
        <4> DEFINE d == image.base
                   src == image.buf + image.off
                   n == image.len
        <4>1. d \in Nat /\ src \in Nat /\ n \in Nat /\ i \in 0 .. n - 1 /\ d + i \in Ram /\ src + i \in Ram
          BY <2>3, <3>1, <3>3, <3>4, <3>5
        <4>2. mem' = WithMove(mem, d, src, n)
          BY <2>1
        <4> HIDE DEF d, src, n
        <4>3. WithMove(mem, d, src, n)[d + i] = mem[src + i]
          BY <4>1, MoveCopies
        <4> QED BY <4>2, <4>3 DEF d, src
      <3> QED BY <3>3, <3>4, <3>6
    <2>6. ASSUME NEW u \in Ram, u >= IQUIK_BASE PROVE mem'[u] = mem[u]
      <3>1. u >= image.base + image.len
        BY <2>3, <2>4, <2>6 DEF Ram
      <3>2. image.buf + image.off \in Nat
        BY <2>3
      <3> DEFINE d == image.base
                 src == image.buf + image.off
                 n == image.len
      <3>3. d \in Nat /\ src \in Nat /\ n \in Nat /\ u >= d + n
        BY <2>3, <3>1, <3>2
      <3>4. mem' = WithMove(mem, d, src, n)
        BY <2>1
      <3> HIDE DEF d, src, n
      <3>5. WithMove(mem, d, src, n)[u] = mem[u]
        BY <3>3, MoveElsewhere
      <3> QED BY <3>4, <3>5
    <2>7. \A u \in Iquik \cup Heap : mem'[u] = <<NoFile, 0>>
      <3> SUFFICES ASSUME NEW u \in Iquik \cup Heap PROVE mem'[u] = <<NoFile, 0>>
        OBVIOUS
      <3>1. u \in Ram /\ u >= IQUIK_BASE
        BY OwnInRam, LayoutAssumption, MemAssumption DEF Iquik, Heap, Span
      <3>2. mem'[u] = mem[u]
        BY <2>6, <3>1
      <3> QED BY <2>2, <3>2 DEF OwnIntact
    <2>8. job.initrd = NoFile => initrd.len = 0
      BY <1>1 DEF ElfReloOld, Contents
    <2>9. job.initrd # NoFile =>
            /\ initrd.len = FileLen[job.initrd]
            /\ \A i \in 0 .. initrd.len - 1 : mem'[initrd.base + i] = <<job.initrd, i>>
      <3> SUFFICES ASSUME job.initrd # NoFile
                   PROVE  /\ initrd.len = FileLen[job.initrd]
                          /\ \A i \in 0 .. initrd.len - 1 : mem'[initrd.base + i] = <<job.initrd, i>>
        OBVIOUS
      <3>1. /\ initrd.len = FileLen[job.initrd] /\ initrd.base >= LOAD_BASE
            /\ Holds(mem, job.initrd, initrd.base, initrd.len)
        BY <1>1 DEF ElfReloOld, Contents
      <3>2. ASSUME NEW i \in 0 .. initrd.len - 1 PROVE mem'[initrd.base + i] = <<job.initrd, i>>
        <4>1. initrd.base + i \in Ram /\ mem[initrd.base + i] = <<job.initrd, i>>
          BY <3>1 DEF Holds
        <4>2. initrd.base + i >= IQUIK_BASE
          BY <2>3, <3>1
        <4> QED BY <2>6, <4>1, <4>2
      <3> QED BY <3>1, <3>2
    <2> QED BY <2>1, <2>2, <2>5, <2>7, <2>8, <2>9 DEF InPlace
  <1>2. CASE ElfReloNew
    <2> DEFINE k == job.kernel
               to == image.buf + image.off
    <2>1. /\ job' = job /\ initrd' = initrd /\ mem' = mem
          /\ image'.base = to /\ image'.len = image.len
          /\ image'.off = image.off /\ image'.file = image.file
      BY <1>2 DEF ElfReloNew, Inv, TypeOK
    <2>2. /\ image.file = k /\ image.buf = kernel_buf /\ kernel_len = FileLen[k]
          /\ image.off = Elf[k].off /\ image.len = Elf[k].len
          /\ Holds(mem, k, kernel_buf, kernel_len)
          /\ OwnIntact(mem)
      BY <1>2 DEF ElfReloNew, Contents, AfterParse
    <2>3. /\ image.off \in Nat /\ image.len \in Nat /\ image.buf \in Nat /\ kernel_len \in Nat
      BY DEF Inv, TypeOK
    <2>4. ASSUME NEW i \in 0 .. image.len - 1, image.off + i < FileLen[k]
          PROVE  mem[to + i] = <<k, image.off + i>>
      <3>1. image.off + i \in 0 .. kernel_len - 1 /\ to + i = kernel_buf + (image.off + i)
        BY <2>2, <2>3, <2>4
      <3> QED BY <2>2, <3>1 DEF Holds
    <2>5. /\ job.initrd = NoFile => initrd.len = 0
          /\ job.initrd # NoFile =>
               /\ initrd.len = FileLen[job.initrd]
               /\ \A i \in 0 .. initrd.len - 1 : mem[initrd.base + i] = <<job.initrd, i>>
      BY <1>2 DEF ElfReloNew, Contents, Holds
    <2>6. \A u \in Iquik \cup Heap : mem[u] = <<NoFile, 0>>
      BY <2>2 DEF OwnIntact
    <2>7. InPlace'
      BY <2>1, <2>2, <2>4, <2>5, <2>6 DEF InPlace
    <2> QED BY <2>7 DEF Ready
  <1>3. CASE ElfBoot
    BY <1>3 DEF ElfBoot, Ready, InPlace, Placeable
  <1>4. CASE UNCHANGED vars
    BY <1>4 DEF vars, Ready, InPlace, Placeable
  <1>5. ASSUME lpc' \notin {"relocated", "running"} PROVE Ready'
    BY <1>5 DEF Ready
  <1>6. CASE LoadStep /\ ~ElfReloOld /\ ~ElfReloNew /\ ~ElfBoot
    <2>1. lpc' \notin {"relocated", "running"}
      BY <1>6 DEF LoadStep, KernelLen, KernelClaim, KernelLoad, ElfParseFails, ElfParse,
                  InitrdLen, InitrdClaim, InitrdLoad, Out, ElfReloTooBig
    <2> QED BY <1>5, <2>1
  <1>7. ASSUME NEW j \in Jobs, Request(j) PROVE Ready'
    BY <1>5, <1>7 DEF Request
  <1>8. CASE KernelReturns
    BY <1>5, <1>8 DEF KernelReturns
  <1>9. ASSUME NEW a \in Ram, NEW n \in Ram, Memtest(a, n) PROVE Ready'
    BY <1>5, <1>9 DEF Memtest
  <1> QED BY <1>1, <1>2, <1>3, <1>4, <1>6, <1>7, <1>8, <1>9 DEF Next, Exited

LEMMA HandoffReady ==
    ASSUME NoEmptyFile
    PROVE  Spec => []Ready
  <1>1. Init => Contents /\ Ready
    BY ContentsInit
  <1>2. Inv /\ Contents /\ Ready /\ [Next]_vars => Contents' /\ Ready'
    BY NoEmptyFile, ContentsStep, ReadyStep
  <1>. QED  BY <1>1, <1>2, LoaderInvariant, PTL DEF Spec

(* With no empty file among those named, the kernel that gets control is   *)
(* the one asked for, in place, with its initrd complete and the loader's  *)
(* code and heap untouched, whatever failed attempts went before.          *)
THEOREM HandoffIsCorrect ==
    ASSUME NoEmptyFile
    PROVE  Spec => []HandoffImage
  <1>1. Ready => HandoffImage
    BY DEF Ready, HandoffImage, InPlace
  <1>. QED  BY <1>1, NoEmptyFile, HandoffReady, PTL

-----------------------------------------------------------------------------
(***************************************************************************)
(* The loop of elf_parse over any number of program headers.               *)
(***************************************************************************)

(* Every set of numbers has a least one. *)
LEMMA LeastNumber ==
    ASSUME NEW T \in SUBSET Nat, T # {}
    PROVE  \E l \in T : \A m \in T : l <= m
  <1>. DEFINE R == OpToRel(<, Nat)
  <1>1. IsWellFoundedOn(R, Nat)
    BY NatLessThanWellFounded
  <1>2. \A a, b \in Nat : <<a, b>> \in R <=> a < b
    BY DEF OpToRel
  <1>. HIDE DEF R
  <1>3. PICK l \in T : \A m \in T : ~(<<m, l>> \in R)
    BY <1>1, WFMin
  <1>4. ASSUME NEW m \in T
        PROVE  l <= m
    <2>1. l \in Nat /\ m \in Nat /\ ~(<<m, l>> \in R)
      BY <1>3
    <2>. QED  BY <1>2, <2>1
  <1>. QED  BY <1>4

(* A set that holds 0 and with every number the next one holds them all. *)
LEMMA AllNumbers ==
    ASSUME NEW T \in SUBSET Nat, 0 \in T, \A n \in T : n + 1 \in T
    PROVE  T = Nat
  <1>. SUFFICES ASSUME Nat \ T # {}
                PROVE  FALSE
    OBVIOUS
  <1>1. PICK l \in Nat \ T : \A m \in Nat \ T : l <= m
    BY LeastNumber
  <1>2. l - 1 \in Nat /\ l - 1 \notin Nat \ T
    BY <1>1
  <1>. QED  BY <1>1, <1>2

(* g gives what the first headers, up to the m-th, come to. *)
HeadersTo(e, m, g) ==
    g = [n \in 0 .. m |-> IF n = 0 THEN NoSegment ELSE AddSegment(g[n - 1], e.ph[n])]

LEMMA HeadersAdd ==
    ASSUME NEW e
    PROVE  \A m \in Nat : \E g : HeadersTo(e, m, g)
  <1>. DEFINE T == { m \in Nat : \E g : HeadersTo(e, m, g) }
  <1>1. 0 \in T
    <2>1. HeadersTo(e, 0, [n \in 0 .. 0 |-> NoSegment])
      BY DEF HeadersTo
    <2>. QED  BY <2>1
  <1>2. ASSUME NEW m \in T
        PROVE  m + 1 \in T
    <2>1. PICK g : HeadersTo(e, m, g)
      OBVIOUS
    <2>. DEFINE h == [n \in 0 .. m + 1 |->
                        IF n = m + 1 THEN AddSegment(g[m], e.ph[m + 1]) ELSE g[n]]
    <2>2. m \in Nat /\ g = [n \in 0 .. m |->
                               IF n = 0 THEN NoSegment ELSE AddSegment(g[n - 1], e.ph[n])]
      BY <2>1 DEF HeadersTo
    <2>3. \A n \in 0 .. m : g[n] = IF n = 0 THEN NoSegment ELSE AddSegment(g[n - 1], e.ph[n])
      BY <2>2
    <2>4. \A n \in 0 .. m + 1 :
            h[n] = IF n = 0 THEN NoSegment ELSE AddSegment(h[n - 1], e.ph[n])
      BY <2>2, <2>3
    <2>5. h = [n \in 0 .. m + 1 |-> h[n]]
      OBVIOUS
    <2>. HIDE DEF h
    <2>6. HeadersTo(e, m + 1, h)
      BY <2>4, <2>5 DEF HeadersTo
    <2>. QED  BY <2>2, <2>6
  <1>3. T = Nat
    <2>. HIDE DEF T
    <2>1. T \in SUBSET Nat
      BY DEF T
    <2>. QED  BY <1>1, <1>2, <2>1, AllNumbers
  <1>. QED  BY <1>3

LEMMA ParsedIsLoop ==
    ASSUME NEW e, Len(e.ph) \in Nat
    PROVE  \E g : /\ HeadersTo(e, Len(e.ph), g)
                  /\ Parsed(e).off = g[Len(e.ph)].off /\ Parsed(e).len = g[Len(e.ph)].len
                  /\ Parsed(e).base = g[Len(e.ph)].base
  <1>. DEFINE g == CHOOSE f : HeadersTo(e, Len(e.ph), f)
  <1>1. HeadersTo(e, Len(e.ph), g)
    BY HeadersAdd
  <1>2. Parsed(e) = [ok |-> e.elf /\ g[Len(e.ph)].len # 0, off |-> g[Len(e.ph)].off,
                     len |-> g[Len(e.ph)].len, base |-> g[Len(e.ph)].base,
                     entry |-> Phys(e.entry), word |-> e.word]
    BY DEF Parsed, HeadersTo
  <1>. DEFINE s == g[Len(e.ph)]
              ok == e.elf /\ s.len # 0
              entry == Phys(e.entry)
  <1>. HIDE DEF s, ok, entry, g
  <1>3. Parsed(e) = [ok |-> ok, off |-> s.off, len |-> s.len, base |-> s.base,
                     entry |-> entry, word |-> e.word]
    BY <1>2 DEF s, ok, entry
  <1>4. Parsed(e).off = s.off /\ Parsed(e).len = s.len /\ Parsed(e).base = s.base
    BY <1>3
  <1>. QED  BY <1>1, <1>4 DEF s

(* What the loop has found after n headers: as long as the length is 0,    *)
(* only empty segments; then the first that is not, and a range that       *)
(* reaches to the end of each further one.                                 *)
Found(e, n, s) ==
    /\ s \in [off : Nat, len : Nat, base : Nat]
    /\ s.len = 0 => \A k \in LoadableOf(e) : k <= n => e.ph[k].memsz = 0
    /\ s.len # 0 =>
          \E f \in LoadableOf(e) :
            /\ f <= n /\ e.ph[f].memsz # 0
            /\ s.off = e.ph[f].offset /\ s.base = Phys(e.ph[f].vaddr)
            /\ \A k \in LoadableOf(e) :
                 /\ k < f => e.ph[k].memsz = 0
                 /\ k >= f /\ k <= n => e.ph[k].offset + e.ph[k].memsz <= s.off + s.len

LEMMA PhysType ==
    ASSUME NEW v \in Nat
    PROVE  Phys(v) \in Nat
  BY AddrAssumption DEF Phys

LEMMA HeaderType ==
    ASSUME NEW ph \in Seq(ProgramHeader), NEW k \in DOMAIN ph
    PROVE  /\ k \in Nat /\ k > 0 /\ k <= Len(ph)
           /\ ph[k].offset \in Nat /\ ph[k].memsz \in Nat /\ ph[k].filesz \in Nat
           /\ ph[k].vaddr \in Nat
  <1>1. ph[k] \in ProgramHeader /\ k \in 1 .. Len(ph) /\ Len(ph) \in Nat
    OBVIOUS
  <1>. QED  BY <1>1 DEF ProgramHeader

LEMMA FoundHere ==
    ASSUME NEW e, NEW n, NEW s \in [off : Nat, len : Nat, base : Nat], s.len # 0,
           NEW f \in LoadableOf(e), f <= n, e.ph[f].memsz # 0,
           s.off = e.ph[f].offset, s.base = Phys(e.ph[f].vaddr),
           \A k \in LoadableOf(e) :
              /\ k < f => e.ph[k].memsz = 0
              /\ k >= f /\ k <= n => e.ph[k].offset + e.ph[k].memsz <= s.off + s.len
    PROVE  Found(e, n, s)
  BY DEF Found

LEMMA InRange ==
    ASSUME NEW a \in Nat, NEW m \in Nat, NEW c \in Nat, NEW d \in Nat, NEW o \in Nat,
           NEW b \in Nat, NEW h \in 0 .. c - 1, a >= o, a + m <= o + d, c <= m
    PROVE  /\ a - o + h \in 0 .. d - 1 /\ o + (a - o + h) = a + h
           /\ (b + (a - o)) + h = b + (a - o + h)
  OBVIOUS

LEMMA FoundStep ==
    ASSUME NEW e, e.ph \in Seq(ProgramHeader), LinkedInOneRange(e),
           NEW n \in Nat, n + 1 <= Len(e.ph), NEW s, Found(e, n, s)
    PROVE  Found(e, n + 1, AddSegment(s, e.ph[n + 1]))
  <1>. DEFINE p == e.ph[n + 1]
              t == AddSegment(s, p)
              L == LoadableOf(e)
  <1>1. /\ n + 1 \in DOMAIN e.ph
        /\ \A k \in L : /\ k \in Nat /\ e.ph[k].offset \in Nat /\ e.ph[k].memsz \in Nat
                         /\ e.ph[k].vaddr \in Nat
        /\ p.offset \in Nat /\ p.memsz \in Nat /\ p.vaddr \in Nat
    <2>1. n + 1 \in DOMAIN e.ph
      OBVIOUS
    <2>2. L \subseteq DOMAIN e.ph
      BY DEF LoadableOf
    <2>. QED  BY <2>1, <2>2, HeaderType
  <1>2. s \in [off : Nat, len : Nat, base : Nat]
    BY DEF Found
  <1>3. n + 1 \in L <=> ~Skipped(p)
    BY <1>1 DEF LoadableOf
  <1>4. \A j, k \in L : j < k => e.ph[j].offset + e.ph[j].memsz <= e.ph[k].offset
    BY DEF LinkedInOneRange
  <1>. HIDE DEF L
  <1>5. \A k \in L : k <= n + 1 => k <= n \/ k = n + 1
    BY <1>1
  <1>6. CASE Skipped(p)
    <2>1. t = s
      BY <1>6 DEF AddSegment
    <2>2. \A k \in L : k <= n + 1 => k <= n
      BY <1>3, <1>5, <1>6
    <2>3. s.len # 0 => \A f \in L : f <= n => f <= n + 1
      BY <1>1
    <2>. QED  BY <1>2, <2>1, <2>2, <2>3 DEF Found, L
  <1>7. CASE ~Skipped(p) /\ s.len = 0
    <2>1. t = [off |-> p.offset, len |-> p.memsz, base |-> Phys(p.vaddr)]
      BY <1>7 DEF AddSegment, FirstSegment
    <2>2. t \in [off : Nat, len : Nat, base : Nat]
      <3>1. Phys(p.vaddr) \in Nat
        BY <1>1, PhysType
      <3>. QED  BY <1>1, <2>1, <3>1
    <2>3. t.off = p.offset /\ t.len = p.memsz /\ t.base = Phys(p.vaddr) /\ n + 1 \in L
      BY <1>3, <1>7, <2>1
    <2>4. \A k \in L : k <= n => e.ph[k].memsz = 0
      BY <1>7 DEF Found, L
    <2>. HIDE DEF t
    <2>5. ASSUME p.memsz = 0
          PROVE  Found(e, n + 1, t)
      BY <1>5, <2>2, <2>3, <2>4, <2>5 DEF Found, L
    <2>6. ASSUME p.memsz # 0
          PROVE  Found(e, n + 1, t)
      <3>1. \A k \in L : k < n + 1 => k <= n
        BY <1>1
      <3>2. \A k \in L : k >= n + 1 /\ k <= n + 1 => k = n + 1
        BY <1>1
      <3>3. \A k \in L : /\ k < n + 1 => e.ph[k].memsz = 0
                         /\ k >= n + 1 /\ k <= n + 1 =>
                                e.ph[k].offset + e.ph[k].memsz <= t.off + t.len
        BY <1>1, <2>3, <2>4, <3>1, <3>2
      <3>4. /\ t.len # 0 /\ n + 1 <= n + 1 /\ e.ph[n + 1].memsz # 0
            /\ t.off = e.ph[n + 1].offset /\ t.base = Phys(e.ph[n + 1].vaddr)
        BY <2>3, <2>6
      <3>. HIDE DEF p
      <3>. QED  BY <2>2, <2>3, <3>3, <3>4, FoundHere DEF L
    <2>. QED  BY <2>5, <2>6 DEF t
  <1>8. CASE ~Skipped(p) /\ s.len # 0
    <2>1. PICK f \in L :
            /\ f <= n /\ e.ph[f].memsz # 0
            /\ s.off = e.ph[f].offset /\ s.base = Phys(e.ph[f].vaddr)
            /\ \A k \in L :
                 /\ k < f => e.ph[k].memsz = 0
                 /\ k >= f /\ k <= n => e.ph[k].offset + e.ph[k].memsz <= s.off + s.len
      BY <1>8 DEF Found, L
    <2>2. n + 1 \in L /\ f < n + 1 /\ f \in Nat
      BY <1>1, <1>3, <1>8, <2>1
    <2>3. e.ph[f].offset + e.ph[f].memsz <= p.offset
      BY <1>4, <2>2
    <2>4. t = [s EXCEPT !.len = p.offset + p.memsz - s.off]
      BY <1>8 DEF AddSegment
    <2>5. p.offset + p.memsz - s.off \in Nat /\ p.offset + p.memsz - s.off # 0
      <3>1. \A a, b, c, d \in Nat : a + b <= c /\ b # 0 => c + d - a \in Nat /\ c + d - a # 0
        OBVIOUS
      <3>2. s.off \in Nat /\ e.ph[f].memsz \in Nat /\ s.off + e.ph[f].memsz <= p.offset
        BY <1>1, <1>2, <2>1, <2>3
      <3>. QED  BY <1>1, <2>1, <3>1, <3>2
    <2>6. /\ t \in [off : Nat, len : Nat, base : Nat] /\ t.off = s.off /\ t.base = s.base
          /\ t.len = p.offset + p.memsz - s.off
      BY <1>2, <2>4, <2>5
    <2>. HIDE DEF t
    <2>7. ASSUME NEW k \in L, k <= n + 1
          PROVE  e.ph[k].offset + e.ph[k].memsz <= t.off + t.len
      <3>1. t.off + t.len = p.offset + p.memsz
        <4>. DEFINE a == s.off
                    b == p.offset
                    m == p.memsz
        <4>1. a \in Int /\ b \in Int /\ m \in Int
          BY <1>1, <1>2
        <4>2. t.off = a /\ t.len = b + m - a
          BY <2>6
        <4>. HIDE DEF a, b, m
        <4>3. a + (b + m - a) = b + m
          BY <4>1
        <4>. QED  BY <4>2, <4>3 DEF b, m
      <3>2. CASE k = n + 1
        BY <1>1, <3>1, <3>2
      <3>3. CASE k <= n
        <4>1. k < n + 1
          BY <1>1, <3>3
        <4>2. e.ph[k].offset + e.ph[k].memsz <= p.offset
          BY <1>4, <2>2, <4>1
        <4>3. \A a, b, c, d \in Nat : a + b <= c => a + b <= c + d
          OBVIOUS
        <4>. QED  BY <1>1, <3>1, <4>2, <4>3
      <3>. QED  BY <1>5, <2>7, <3>2, <3>3
    <2>8. t.len # 0 /\ f <= n + 1
      BY <1>1, <2>2, <2>5, <2>6
    <2>9. \A k \in L : /\ k < f => e.ph[k].memsz = 0
                       /\ k >= f /\ k <= n + 1 =>
                              e.ph[k].offset + e.ph[k].memsz <= t.off + t.len
      BY <2>1, <2>7
    <2>10. Found(e, n + 1, t)
      BY <2>1, <2>6, <2>8, <2>9 DEF Found, L
    <2>. QED  BY <2>10 DEF t
  <1>. QED  BY <1>6, <1>7, <1>8

LEMMA ParsedFinds ==
    ASSUME NEW e, e.ph \in Seq(ProgramHeader), LinkedInOneRange(e)
    PROVE  \E s : /\ Found(e, Len(e.ph), s)
                  /\ Parsed(e).off = s.off /\ Parsed(e).len = s.len /\ Parsed(e).base = s.base
  <1>. DEFINE N == Len(e.ph)
  <1>1. N \in Nat
    OBVIOUS
  <1>2. PICK g : /\ HeadersTo(e, N, g)
                 /\ Parsed(e).off = g[N].off /\ Parsed(e).len = g[N].len
                 /\ Parsed(e).base = g[N].base
    BY <1>1, ParsedIsLoop
  <1>3. \A n \in 0 .. N : g[n] = IF n = 0 THEN NoSegment ELSE AddSegment(g[n - 1], e.ph[n])
    BY <1>2 DEF HeadersTo
  <1>. DEFINE T == { n \in Nat : n <= N => Found(e, n, g[n]) }
  <1>4. 0 \in T
    <2>1. g[0] = NoSegment
      BY <1>1, <1>3
    <2>2. \A k \in LoadableOf(e) : k \in Nat /\ k > 0
      BY DEF LoadableOf
    <2>3. Found(e, 0, NoSegment)
      BY <2>2 DEF Found, NoSegment
    <2>. QED  BY <2>1, <2>3
  <1>5. ASSUME NEW n \in T
        PROVE  n + 1 \in T
    <2>. SUFFICES ASSUME n + 1 <= N
                  PROVE  Found(e, n + 1, g[n + 1])
      OBVIOUS
    <2>1. n \in Nat /\ Found(e, n, g[n])
      BY <1>1
    <2>2. n + 1 \in 0 .. N /\ n + 1 # 0 /\ (n + 1) - 1 = n
      BY <1>1, <2>1
    <2>3. g[n + 1] = AddSegment(g[n], e.ph[n + 1])
      BY <1>3, <2>2
    <2>. QED  BY <2>1, <2>3, FoundStep
  <1>6. T = Nat
    <2>. HIDE DEF T
    <2>1. T \in SUBSET Nat
      BY DEF T
    <2>. QED  BY <1>4, <1>5, <2>1, AllNumbers
  <1>7. Found(e, N, g[N])
    BY <1>1, <1>6
  <1>. QED  BY <1>2, <1>7

(* For a kernel linked in one range, whatever its program headers are,     *)
(* every loadable segment is in memory at its linked distance from the     *)
(* first when the kernel gets control, and its bss is in the range that    *)
(* was kept clear for it.                                                  *)
THEOREM SegmentsAreInPlace ==
    ASSUME NoEmptyFile
    PROVE  Spec => []SegmentsInPlace
  <1>1. Inv /\ Ready => SegmentsInPlace
    <2>. SUFFICES ASSUME Inv, Ready, lpc = "running", Placeable,
                         LinkedInOneRange(Headers[job.kernel]),
                         HoldsItsSegments(Headers[job.kernel], FileLen[job.kernel]),
                         NEW k \in LoadableOf(Headers[job.kernel])
                  PROVE  LET p == Headers[job.kernel].ph[k]
                             at == image.base + Phys(p.vaddr) - Elf[job.kernel].base
                         IN  /\ \A i \in 0 .. p.filesz - 1 :
                                   mem[at + i] = <<job.kernel, p.offset + i>>
                             /\ Span(at, p.memsz) \subseteq Span(image.base, image.len)
      BY DEF SegmentsInPlace
    <2>. DEFINE e == Headers[job.kernel]
                p == e.ph[k]
                at == image.base + Phys(p.vaddr) - Elf[job.kernel].base
    <2>1. job.kernel \in Files
      BY DEF Inv, InFlight, Jobs
    <2>2. e.ph \in Seq(ProgramHeader) /\ Elf[job.kernel] = Parsed(e)
      BY <2>1, HeadersAssumption
    <2>3. /\ image.off = Elf[job.kernel].off /\ image.len = Elf[job.kernel].len
          /\ \A i \in 0 .. image.len - 1 :
                image.off + i < FileLen[job.kernel] =>
                    mem[image.base + i] = <<job.kernel, image.off + i>>
          /\ image.base \in Nat /\ FileLen[job.kernel] \in Nat
      BY <2>1, FileAssumption DEF Ready, InPlace, Inv, TypeOK
    <2>. HIDE DEF e
    <2>4. /\ k \in DOMAIN e.ph /\ k \in Nat /\ k <= Len(e.ph) /\ k \in LoadableOf(e)
          /\ p.offset \in Nat /\ p.memsz \in Nat /\ p.filesz \in Nat /\ p.vaddr \in Nat
          /\ p.filesz <= p.memsz /\ p.offset + p.filesz <= FileLen[job.kernel]
          /\ LinkedInOneRange(e)
      <3>1. k \in LoadableOf(e) /\ LinkedInOneRange(e) /\ HoldsItsSegments(e, FileLen[job.kernel])
        BY DEF e
      <3>2. k \in DOMAIN e.ph
        BY <3>1 DEF LoadableOf
      <3>3. p.filesz <= p.memsz /\ p.offset + p.filesz <= FileLen[job.kernel]
        BY <3>1 DEF HoldsItsSegments
      <3>. QED  BY <2>2, <3>1, <3>2, <3>3, HeaderType
    <2>5. PICK s : /\ Found(e, Len(e.ph), s)
                   /\ Elf[job.kernel].off = s.off /\ Elf[job.kernel].len = s.len
                   /\ Elf[job.kernel].base = s.base
      BY <2>2, <2>4, ParsedFinds
    <2>6. s.off \in Nat /\ s.len \in Nat /\ s.base \in Nat /\ Phys(p.vaddr) \in Nat
      BY <2>4, <2>5, PhysType DEF Found
    <2>. HIDE DEF p
    <2>7. CASE p.memsz = 0
      <3>1. p.filesz = 0 /\ at \in Int
        BY <2>3, <2>4, <2>5, <2>6, <2>7
      <3>. HIDE DEF at
      <3>2. 0 .. p.filesz - 1 = {} /\ Span(at, p.memsz) = {}
        BY <2>7, <3>1 DEF Span
      <3>. QED  BY <3>2 DEF at, p, e
    <2>8. CASE p.memsz # 0
      <3>1. PICK f \in LoadableOf(e) :
              /\ s.off = e.ph[f].offset /\ s.base = Phys(e.ph[f].vaddr)
              /\ k < f => p.memsz = 0
              /\ k >= f => p.offset + p.memsz <= s.off + s.len
        BY <2>4, <2>5, <2>8 DEF Found, p
      <3>2. /\ f \in DOMAIN e.ph /\ f \in Nat /\ k >= f
            /\ e.ph[f].memsz \in Nat
        <4>1. f \in DOMAIN e.ph
          BY DEF LoadableOf
        <4>2. f \in Nat /\ e.ph[f].memsz \in Nat
          BY <2>2, <4>1, HeaderType
        <4>3. k >= f
          BY <2>4, <2>8, <3>1, <4>2
        <4>. QED  BY <4>1, <4>2, <4>3
      <3>3. Phys(p.vaddr) - s.base = p.offset - s.off /\ p.offset >= s.off
        <4>1. CASE k = f
          BY <2>4, <2>6, <3>1, <4>1 DEF p
        <4>2. CASE k > f
          <5>1. /\ e.ph[f].offset + e.ph[f].memsz <= p.offset
                /\ Phys(p.vaddr) - Phys(e.ph[f].vaddr) = p.offset - e.ph[f].offset
            BY <2>4, <3>1, <4>2 DEF LinkedInOneRange, p
          <5>2. \A a, b, c \in Nat : a + b <= c => c >= a
            OBVIOUS
          <5>3. e.ph[f].offset \in Nat
            BY <2>6, <3>1
          <5>. QED  BY <2>4, <3>1, <3>2, <5>1, <5>2, <5>3
        <4>. QED  BY <2>4, <3>2, <4>1, <4>2
      <3>4. at = image.base + (p.offset - s.off)
        BY <2>3, <2>4, <2>5, <2>6, <3>3
      <3>. HIDE DEF at
      <3>5. ASSUME NEW i \in 0 .. p.filesz - 1
            PROVE  mem[at + i] = <<job.kernel, p.offset + i>>
        <4>. DEFINE j == p.offset - s.off + i
        <4>1. image.off = s.off /\ image.len = s.len /\ p.offset + p.memsz <= s.off + s.len
          BY <2>3, <2>5, <3>1, <3>2
        <4>2. p.offset + i < FileLen[job.kernel]
          BY <2>3, <2>4
        <4>3. /\ j \in 0 .. s.len - 1 /\ s.off + j = p.offset + i
              /\ (image.base + (p.offset - s.off)) + i = image.base + j
          <5>. DEFINE a == p.offset
                      o == s.off
                      b == image.base
                      c == p.filesz
                      d == s.len
                      m == p.memsz
          <5>1. /\ a \in Nat /\ o \in Nat /\ b \in Nat /\ c \in Nat /\ d \in Nat /\ m \in Nat
                /\ i \in 0 .. c - 1 /\ a >= o /\ a + m <= o + d /\ c <= m
            BY <2>3, <2>4, <2>6, <3>3, <4>1
          <5>. HIDE DEF a, o, b, c, d, m
          <5>2. /\ a - o + i \in 0 .. d - 1 /\ o + (a - o + i) = a + i
                /\ (b + (a - o)) + i = b + (a - o + i)
            BY <5>1, InRange
          <5>. QED  BY <5>2 DEF a, o, b, d
        <4>. HIDE DEF j
        <4>. QED  BY <2>3, <3>4, <4>1, <4>2, <4>3
      <3>6. Span(at, p.memsz) \subseteq Span(image.base, image.len)
        <4>1. \A a, b, d, m, o \in Nat : a >= o /\ a + m <= o + d =>
                Span(b + (a - o), m) \subseteq Span(b, d)
          BY DEF Span
        <4>2. image.len = s.len /\ p.offset + p.memsz <= s.off + s.len
          BY <2>3, <2>5, <3>1, <3>2
        <4>. QED  BY <2>3, <2>4, <2>6, <3>3, <3>4, <4>1, <4>2
      <3>. QED  BY <3>5, <3>6 DEF at, p, e
    <2>. QED  BY <2>7, <2>8
  <1>. QED  BY <1>1, NoEmptyFile, HandoffReady, LoaderInvariant, PTL
=============================================================================
