----------------------------- MODULE ElfHeaders -----------------------------
(***************************************************************************)
(* What elf_parse (elf.c) takes from the headers of an ELF file: the one   *)
(* range of the file that is to be moved to its linked address.            *)
(*                                                                         *)
(* A file is described by elf (magic, class and byte order are right), its *)
(* program headers ph, its entry point and the word found there.           *)
(***************************************************************************)
EXTENDS Integers, Sequences

CONSTANT AddrSize   \* ADDRMASK + 1: kernels are linked at virtual addresses

ASSUME AddrAssumption == AddrSize \in Nat \ {0}

Phys(vaddr) == vaddr % AddrSize

NoSegment == [off |-> 0, len |-> 0, base |-> 0]

Skipped(p) == ~p.load \/ p.offset = 0

FirstSegment(p) == [off |-> p.offset, len |-> p.memsz, base |-> Phys(p.vaddr)]

(* Mutant: only the first loadable segment counts. *)
AddFirstOnly(s, p) == IF Skipped(p) \/ s.len # 0 THEN s ELSE FirstSegment(p)

(* The loop over the headers: the first loadable segment gives offset and  *)
(* address, each further one the end.                                      *)
AddSegment(s, p) ==
    IF Skipped(p) THEN s
    ELSE IF s.len = 0 THEN FirstSegment(p)
    ELSE [s EXCEPT !.len = p.offset + p.memsz - s.off]

Parsed(e) ==
    LET after[n \in 0 .. Len(e.ph)] ==
            IF n = 0 THEN NoSegment ELSE AddSegment(after[n - 1], e.ph[n])
        s == after[Len(e.ph)]
    IN  [ok |-> e.elf /\ s.len # 0, off |-> s.off, len |-> s.len, base |-> s.base,
         entry |-> Phys(e.entry), word |-> e.word]

-----------------------------------------------------------------------------
LoadableOf(e) == { k \in DOMAIN e.ph : ~Skipped(e.ph[k]) }

(* How kernels are linked: the loadable segments come in the order of the  *)
(* file and are as far apart in memory as they are in the file.            *)
LinkedInOneRange(e) ==
    \A j, k \in LoadableOf(e) : j < k =>
        /\ e.ph[j].offset + e.ph[j].memsz <= e.ph[k].offset
        /\ Phys(e.ph[k].vaddr) - Phys(e.ph[j].vaddr) = e.ph[k].offset - e.ph[j].offset

(* A file of length len holds what its headers name. *)
HoldsItsSegments(e, len) ==
    \A k \in LoadableOf(e) :
        /\ e.ph[k].filesz <= e.ph[k].memsz
        /\ e.ph[k].offset + e.ph[k].filesz <= len
=============================================================================
