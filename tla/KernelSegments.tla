--------------------------- MODULE KernelSegments ---------------------------
(***************************************************************************)
(* The files of Loader, described by their program headers: what elf_parse *)
(* finds in them is what ElfHeaders computes.                              *)
(***************************************************************************)
EXTENDS Loader, ElfHeaders

CONSTANT Headers    \* for each file what ElfHeaders says of it

ProgramHeader == [load : BOOLEAN, offset : Nat, vaddr : Nat, filesz : Nat, memsz : Nat]

ASSUME HeadersAssumption ==
    /\ \A f \in Files : Headers[f].ph \in Seq(ProgramHeader)
    /\ Elf = [f \in Files |-> Parsed(Headers[f])]

(* When the kernel gets control, every loadable segment its headers name   *)
(* is in memory at its linked distance from the first, and its bss is in   *)
(* the range the loader kept clear: although elf_parse reduces the headers *)
(* to one range, and whether or not the kernel was moved.                  *)
SegmentsInPlace ==
    LET e == Headers[job.kernel]
    IN  lpc = "running" /\ Placeable /\ LinkedInOneRange(e)
                        /\ HoldsItsSegments(e, FileLen[job.kernel]) =>
            \A k \in LoadableOf(e) :
                LET p == e.ph[k]
                    at == image.base + Phys(p.vaddr) - Elf[job.kernel].base
                IN  /\ \A i \in 0 .. p.filesz - 1 : mem[at + i] = <<job.kernel, p.offset + i>>
                    /\ Span(at, p.memsz) \subseteq Span(image.base, image.len)
=============================================================================
