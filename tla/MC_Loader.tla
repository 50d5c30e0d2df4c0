----------------------------- MODULE MC_Loader -----------------------------
(***************************************************************************)
(* A small machine for the Loader, with addresses in units of a quarter of *)
(* 1M, and files described by their program headers.                       *)
(***************************************************************************)
EXTENDS KernelSegments

Nop == [nop |-> TRUE, value |-> 0, toc |-> FALSE]
Desc == [nop |-> FALSE, value |-> 1, toc |-> FALSE]

Ph(load, offset, vaddr, filesz, memsz) ==
    [load |-> load, offset |-> offset, vaddr |-> vaddr, filesz |-> filesz, memsz |-> memsz]

(* k1: small, with bss; k2: a header segment, text, a note and data whose  *)
(* bss crosses a 1M line, too long for an old kernel; k0: a kernel that    *)
(* was truncated; any other file is an initrd, not ELF.                    *)
HeadersOf(f) ==
    CASE f = "k1" -> [elf |-> TRUE, entry |-> AddrSize + 1, word |-> Desc,
                      ph |-> <<Ph(TRUE, 1, AddrSize, 1, 2)>>]
      [] f = "k2" -> [elf |-> TRUE, entry |-> AddrSize + 2, word |-> Nop,
                      ph |-> <<Ph(TRUE, 0, AddrSize + 1, 1, 1), Ph(TRUE, 1, AddrSize + 2, 1, 1),
                               Ph(FALSE, 1, 0, 1, 1), Ph(TRUE, 2, AddrSize + 3, 1, 4)>>]
      [] OTHER -> [elf |-> FALSE, entry |-> 0, word |-> Nop, ph |-> <<>>]

MCFileLen == [f \in Files |-> CASE f = "k0" -> 0 [] f = "k1" -> 2 [] f = "k2" -> 3 [] OTHER -> 4]
MCHeaders == [f \in Files |-> HeadersOf(f)]
MCElf == [f \in Files |-> Parsed(HeadersOf(f))]
=============================================================================
