------------------------ MODULE MCComputeChecksums ------------------------
(***************************************************************************)
(* Small kernel.elf images for ComputeChecksums.  Addresses and offsets    *)
(* are scaled down; the checksum slot keeps its real 8 bytes.              *)
(*                                                                         *)
(*   file  0..1  .text    PROGBITS vaddr 64                                *)
(*   file  2..3  .rodata  PROGBITS vaddr 66                                *)
(*   file  4..15 .data    PROGBITS vaddr 68..79                            *)
(*   (none)      .bss     NOBITS   vaddr 80..87, sh_offset 16              *)
(*   file 16..19 .symtab  SYMTAB   (layout WithSymtab only)                *)
(*                                                                         *)
(* As ld lays it out, the NOBITS .bss row carries the offset where the     *)
(* next file bytes (here .symtab) begin.  llvm-objcopy keeps the layout   *)
(* and the loaded bytes and rebuilds the symbol and string tables, so its *)
(* copy may differ from the linker's output in the .symtab bytes.         *)
(*                                                                         *)
(* The CRC-32 the tool stores is checked here too, against its reference   *)
(* definition on every short message (a constant-level invariant).        *)
(***************************************************************************)
EXTENDS ComputeChecksums, Crc32Reference

MCSymbol == "platform_expected_checksums"

\* A name that contains MCSymbol and that llvm-nm sorts before it.
Decoy == "__platform_expected_checksums_end"

MCMatchesSymbol == {MCSymbol, Decoy}

Row(n, t, a, o, s) == [name |-> n, type |-> t, addr |-> a, off |-> o, size |-> s]

Loaded ==
    << Row(".text", "PROGBITS", 64, 0, 2), Row(".rodata", "PROGBITS", 66, 2, 2),
       Row(".data", "PROGBITS", 68, 4, 12), Row(".bss", "NOBITS", 80, 16, 8) >>

WithSymtab == Loaded \o << Row(".symtab", "SYMTAB", 0, 16, 4) >>
BssAtEof   == Loaded

LoadedBytes == <<1, 2, 3, 4>> \o [i \in 1..12 |-> 5]

BytesOf(layout) == IF layout = WithSymtab THEN LoadedBytes \o <<9, 9, 9, 9>>
                                          ELSE LoadedBytes

\* llvm-objcopy's copy: .symtab (file bytes 16..19) rewritten, the rest as is.
MCObjcopy(img) == IF Len(img) = 20 THEN [i \in 1..20 |-> IF i > 16 THEN 8 ELSE img[i]]
                                   ELSE img

\* The same layout relinked with different code in .text.
RebuiltOf(layout) == [BytesOf(layout) EXCEPT ![2] = 7]

Nm(name, a) == [name |-> name, addr |-> a]

\* llvm-nm listings, sorted by name.
InData      == << Nm("kernel_main", 64), Nm(MCSymbol, 68) >>
InDataLater == << Nm("kernel_main", 64), Nm(MCSymbol, 72) >>
AtDataEnd   == << Nm("kernel_main", 64), Nm(MCSymbol, 76) >>
InBss       == << Nm("kernel_main", 64), Nm(MCSymbol, 80) >>
WithDecoy   == << Nm(Decoy, 72), Nm("kernel_main", 64), Nm(MCSymbol, 68) >>
Missing     == << Nm("kernel_main", 64) >>
InRodata    == << Nm("kernel_main", 64), Nm(MCSymbol, 66) >>

Elf(layout, nm) ==
    [sections |-> layout, symbols |-> nm, bytes |-> BytesOf(layout),
     rebuilt |-> RebuiltOf(layout)]

MCElves ==
    {Elf(l, nm) : l \in {WithSymtab, BssAtEof},
                  nm \in {InData, InDataLater, AtDataEnd, InBss, WithDecoy, Missing, InRodata}}


\* Every sample image whose symbol table has no longer name containing
\* MCSymbol.
NoDecoyElves == {Elf(l, nm) : l \in {WithSymtab, BssAtEof},
                              nm \in {InData, InDataLater, AtDataEnd, InBss, Missing, InRodata}}
SymtabElves == {Elf(WithSymtab, InBss)}


\* Messages of up to three bytes over a spread of byte values: single bits
\* at both ends, all ones, and mixed patterns.
RefMessages == MessagesUpTo({0, 1, 2, 7, 49, 128, 165, 255}, 3)

\* Crc32 and the reference agree on every short message.
ReferenceAgrees == \A m \in RefMessages : Crc32(m) = CrcReference(m)

(***************************************************************************)
(* zlib.crc32 as main() uses it for the two checksums (Crc32) equals the   *)
(* polynomial-division definition of CRC-32: on every short message, and   *)
(* on the .text and .rodata bytes the run has dumped.                      *)
(***************************************************************************)
CrcMatchesReference ==
    /\ ReferenceAgrees
    /\ \A d \in {textData, rodataData} \ {None} : Crc32(d) = CrcReference(d)

=============================================================================
