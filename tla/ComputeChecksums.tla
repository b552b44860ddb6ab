-------------------------- MODULE ComputeChecksums --------------------------
(***************************************************************************)
(* script/compute_checksums.py: main() dumps .text and .rodata with        *)
(* llvm-objcopy (which, given no output file, also writes its copy of the *)
(* input back over kernel.elf), takes their CRC-32s, finds the checksum symbol with       *)
(* llvm-nm, finds the .data or .bss row holding it in llvm-readelf -S,     *)
(* turns its address into a file offset, reads kernel.elf, packs the two   *)
(* CRCs little-endian at that offset (growing the file for a NOBITS row)   *)
(* and writes the whole file back with open(path, 'wb').                   *)
(*                                                                         *)
(* The tool runs as one process beside two environment actors: a build     *)
(* that may rewrite kernel.elf while the tool runs (Relink), and storage   *)
(* faults: the process may die at any point and a write may stop short     *)
(* (Crash, WriteFails).  Each subprocess call may fail.                    *)
(***************************************************************************)
EXTENDS Naturals, Sequences, SequencesExt, Crc32

CONSTANTS
    Elves,          \* the kernel.elf images the tool may be run on
    Symbol,         \* args.symbol, the checksum storage symbol
    MatchesSymbol,  \* the names whose llvm-nm line contains the text Symbol
    MaxRelinks,     \* how often a concurrent build may rewrite kernel.elf
    StorageFaults,  \* whether the process may die and a write may stop short
    ToolsMayHang,   \* whether an llvm tool may never return
    None,           \* Python's None: a model value
    Objcopy(_)      \* the file llvm-objcopy writes for an input image

(***************************************************************************)
(* An ELF image: its llvm-readelf -S rows in order, its llvm-nm -S listing *)
(* (sorted by name, as llvm-nm prints it), its bytes, and the bytes a      *)
(* rebuild with new code but the same layout would write.                  *)
(***************************************************************************)
SectionRow == [name : STRING, type : STRING, addr : Nat, off : Nat, size : Nat]
NmLine     == [name : STRING, addr : Nat]
Image      == Seq(Byte)

ASSUME /\ Elves \subseteq [sections : Seq(SectionRow), symbols : Seq(NmLine),
                           bytes : Image, rebuilt : Image]
       /\ Symbol \in MatchesSymbol
       /\ MaxRelinks \in Nat
       /\ StorageFaults \in BOOLEAN
       /\ ToolsMayHang \in BOOLEAN
       \* objcopy re-serialises: the same layout and section bytes, and a
       \* copy of a copy is the copy.
       /\ \A e \in Elves : \A i \in {e.bytes, e.rebuilt} :
             /\ Objcopy(Objcopy(i)) = Objcopy(i)
             /\ \A s \in {r \in Range(e.sections) : r.type = "PROGBITS"} :
                   SubSeq(Objcopy(i), s.off + 1, s.off + s.size) = SubSeq(i, s.off + 1, s.off + s.size)

VARIABLES
    elf,         \* the image the tool was started on (its layout never changes)
    disk,        \* the bytes of kernel.elf on disk
    pc,          \* the point main() has reached
    verifyOnly,  \* args.verify_only
    textData,    \* get_section_data(path, '.text')
    rodataData,  \* get_section_data(path, '.rodata')
    textCrc,
    rodataCrc,
    symAddr,     \* the address get_symbol_address returned
    target,      \* the readelf row patch_binary chose
    buf,         \* the bytearray read from disk and patched in memory
    orphaned,    \* the file the tool opened for writing was replaced on disk
    built        \* ghost: the images the build wrote to disk, oldest first

vars == <<elf, disk, pc, verifyOnly, textData, rodataData, textCrc, rodataCrc,
          symAddr, target, buf, orphaned, built>>

sections == elf.sections
symbols  == elf.symbols

\* The steps that wait on an llvm tool in subprocess.run.
ToolCalls == {"get_text", "get_rodata", "get_symbol", "readelf"}

\* "hung": blocked in subprocess.run on a tool that never exits.
Running  == ToolCalls \cup {"checksum", "read_file", "open_wb", "write", "hung"}
Terminal == {"done", "failed", "crashed"}

TypeOK ==
    /\ elf \in Elves
    /\ disk \in Image
    /\ pc \in Running \cup Terminal
    /\ verifyOnly \in BOOLEAN
    /\ textData \in Image \cup {None}
    /\ rodataData \in Image \cup {None}
    /\ textCrc \in Word \cup {None}
    /\ rodataCrc \in Word \cup {None}
    /\ symAddr \in Nat \cup {None}
    /\ target \in SectionRow \cup {None}
    /\ buf \in Image
    /\ orphaned \in BOOLEAN
    /\ built \in Seq(Image) /\ built # <<>>

-----------------------------------------------------------------------------
(***************************************************************************)
(* Helpers                                                                 *)
(***************************************************************************)

\* llvm-objcopy --dump-section NAME=/dev/stdout: the file bytes of the row.
DumpSection(img, name) ==
    LET i == SelectInSeq(sections, LAMBDA s : s.name = name)
    IN  IF i = 0 THEN None
        ELSE SubSeq(img, sections[i].off + 1, sections[i].off + sections[i].size)

\* The first readelf row named n whose address range holds a.
RowHolding(n, a) ==
    SelectInSeq(sections, LAMBDA s : s.name = n /\ s.addr <= a /\ a < s.addr + s.size)

\* patch_binary tries '.data' first, then '.bss'.
SearchOrder == <<".data", ".bss">>

FindSection(a) ==
    LET k == SelectInSeq(SearchOrder, LAMBDA n : RowHolding(n, a) # 0)
    IN  IF k = 0 THEN None ELSE sections[RowHolding(SearchOrder[k], a)]

\* file_offset = offset + (addr - vaddr)
\* Mutant: the section's file offset, without the symbol's place in it.
FileOffsetSectionStart == target.off

FileOffset == target.off + (symAddr - target.addr)

\* Mutant: bit j of each byte weighted 2^(j+1).
PackU32LEShifted(w) ==
    [k \in 1..4 |-> MapThenSumSet(LAMBDA j : 2^(j + 1), {j \in 0..7 : 8 * (k - 1) + j \in w})]

\* struct.pack('<I', w): the four bytes of w, least significant first.
PackU32LE(w) ==
    [k \in 1..4 |-> MapThenSumSet(LAMBDA j : 2^j, {j \in 0..7 : 8 * (k - 1) + j \in w})]

\* struct.pack_into('<I', data, off, w) on a bytearray long enough for it.
PackInto(data, off, w) ==
    [p \in DOMAIN data |-> IF off < p /\ p <= off + 4 THEN PackU32LE(w)[p - off]
                                                       ELSE data[p]]

\* Mutant: the second value packed 8 bytes on, as for 64-bit slots.
PackChecksumsGap(data, off) == PackInto(PackInto(data, off, textCrc), off + 8, rodataCrc)

\* Mutant: the two values packed in the wrong order.
PackChecksumsSwapped(data, off) == PackInto(PackInto(data, off, rodataCrc), off + 4, textCrc)

PackChecksums(data, off) == PackInto(PackInto(data, off, textCrc), off + 4, rodataCrc)

\* Mutant: extends by n zeros instead of n - len(data).
ExtendToBy(data, n) ==
    IF Len(data) < n THEN data \o [i \in 1..n |-> 0] ELSE data

\* data.extend(b'\x00' * (n - len(data))) when len(data) < n
ExtendTo(data, n) ==
    IF Len(data) < n THEN data \o [i \in 1..(n - Len(data)) |-> 0] ELSE data

\* f.write(s) at position 0 of the open file.
WriteAtStart(file, s) == s \o SubSeq(file, Len(s) + 1, Len(file))

-----------------------------------------------------------------------------
(***************************************************************************)
(* The tool                                                                *)
(***************************************************************************)

Init ==
    /\ elf \in Elves
    /\ disk = elf.bytes
    /\ pc = "get_text"
    /\ verifyOnly \in BOOLEAN
    /\ textData = None /\ rodataData = None
    /\ textCrc = None /\ rodataCrc = None
    /\ symAddr = None /\ target = None
    /\ buf = <<>>
    /\ orphaned = FALSE
    /\ built = <<elf.bytes>>

\* get_section_data(elf_path, name) into data: llvm-objcopy is given the
\* input file only, so besides dumping the section it writes its copy of
\* the input to a temporary file and renames it over kernel.elf.  When it
\* fails (no such section, or any other error) it writes nothing and the
\* function returns None.
ObjcopyDump(name, data) ==
    \/ /\ DumpSection(disk, name) # None
       /\ data' = DumpSection(disk, name)
       /\ disk' = Objcopy(disk)
    \/ /\ data' = None
       /\ UNCHANGED disk

\* text_data = get_section_data(elf_path, '.text'), run in verify-only mode too.
GetTextSection ==
    /\ pc = "get_text"
    /\ ObjcopyDump(".text", textData)
    /\ pc' = "get_rodata"
    /\ UNCHANGED <<elf, verifyOnly, rodataData, textCrc, rodataCrc,
                   symAddr, target, buf, orphaned, built>>

GetRodataSection ==
    /\ pc = "get_rodata"
    /\ ObjcopyDump(".rodata", rodataData)
    /\ pc' = "checksum"
    /\ UNCHANGED <<elf, verifyOnly, textData, textCrc, rodataCrc,
                   symAddr, target, buf, orphaned, built>>

\* main(): fail if a section is missing, take both CRCs, stop if verify-only.
ComputeCrcs ==
    /\ pc = "checksum"
    /\ IF textData = None \/ rodataData = None
       THEN /\ pc' = "failed"
            /\ UNCHANGED <<textCrc, rodataCrc>>
       ELSE /\ textCrc' = Crc32(textData)
            /\ rodataCrc' = Crc32(rodataData)
            /\ pc' = IF verifyOnly THEN "done" ELSE "get_symbol"
    /\ UNCHANGED <<elf, disk, verifyOnly, textData, rodataData, symAddr,
                   target, buf, orphaned, built>>

\* get_symbol_address: the first llvm-nm line containing the symbol's name.
\* A failing llvm-nm, or no such line, makes patch_binary return False.
GetSymbolAddress ==
    /\ pc = "get_symbol"
    /\ LET i == SelectInSeq(symbols, LAMBDA l : l.name \in MatchesSymbol)
       IN  \/ /\ i # 0
              /\ symAddr' = symbols[i].addr
              /\ pc' = "readelf"
           \/ /\ pc' = "failed"
              /\ UNCHANGED symAddr
    /\ UNCHANGED <<elf, disk, verifyOnly, textData, rodataData, textCrc,
                   rodataCrc, target, buf, orphaned, built>>

\* patch_binary: run llvm-readelf -S and pick the .data, else .bss, row
\* holding the address; none, or a failing readelf, returns False.
ReadElfSections ==
    /\ pc = "readelf"
    /\ \/ /\ FindSection(symAddr) # None
          /\ target' = FindSection(symAddr)
          /\ pc' = "read_file"
       \/ /\ pc' = "failed"
          /\ UNCHANGED target
    /\ UNCHANGED <<elf, disk, verifyOnly, textData, rodataData, textCrc,
                   rodataCrc, symAddr, buf, orphaned, built>>

\* NOBITS row: read the file, zero-extend it to file_offset + 8, pack both.
PatchNobits ==
    /\ pc = "read_file"
    /\ target.type = "NOBITS"
    /\ buf' = PackChecksums(ExtendTo(disk, FileOffset + 8), FileOffset)
    /\ pc' = "open_wb"
    /\ UNCHANGED <<elf, disk, verifyOnly, textData, rodataData, textCrc,
                   rodataCrc, symAddr, target, orphaned, built>>

\* Mutant: the file is opened with 'wb' before it is read, so the read sees
\* an empty file and pack_into raises.
PatchProgbitsTruncatedFirst ==
    /\ pc = "read_file"
    /\ target.type # "NOBITS"
    /\ disk' = <<>>
    /\ pc' = "failed"
    /\ UNCHANGED <<elf, verifyOnly, textData, rodataData, textCrc,
                   rodataCrc, symAddr, target, buf, orphaned, built>>

\* File-backed row: read the file and pack both; pack_into past the end of
\* the bytearray raises struct.error, which nothing catches.
PatchProgbits ==
    /\ pc = "read_file"
    /\ target.type # "NOBITS"
    /\ IF FileOffset + 8 <= Len(disk)
       THEN /\ buf' = PackChecksums(disk, FileOffset)
            /\ pc' = "open_wb"
       ELSE /\ pc' = "failed"
            /\ UNCHANGED buf
    /\ UNCHANGED <<elf, disk, verifyOnly, textData, rodataData, textCrc,
                   rodataCrc, symAddr, target, orphaned, built>>

\* Mutant: the file opened with 'r+b', which does not truncate.
OpenForWriteNoTruncate ==
    /\ pc = "open_wb"
    /\ pc' = "write"
    /\ UNCHANGED <<elf, disk, verifyOnly, textData, rodataData, textCrc, rodataCrc,
                   symAddr, target, buf, orphaned, built>>

\* open(elf_path, 'wb') truncates the file.
OpenForWrite ==
    /\ pc = "open_wb"
    /\ disk' = <<>>
    /\ pc' = "write"
    /\ UNCHANGED <<elf, verifyOnly, textData, rodataData, textCrc, rodataCrc,
                   symAddr, target, buf, orphaned, built>>

\* f.write(data); patch_binary and main return success.  Bytes written to a
\* file that the build has since replaced never reach kernel.elf.
WriteBack ==
    /\ pc = "write"
    /\ disk' = IF orphaned THEN disk ELSE WriteAtStart(disk, buf)
    /\ pc' = "done"
    /\ UNCHANGED <<elf, verifyOnly, textData, rodataData, textCrc, rodataCrc,
                   symAddr, target, buf, orphaned, built>>

-----------------------------------------------------------------------------
(***************************************************************************)
(* The environment                                                         *)
(***************************************************************************)

\* The disk fills up: only a prefix of the buffer reaches the file and the
\* OSError ends the process.
WriteFails ==
    /\ StorageFaults
    /\ pc = "write"
    /\ \E k \in 0..(Len(buf) - 1) :
          disk' = IF orphaned THEN disk ELSE WriteAtStart(disk, SubSeq(buf, 1, k))
    /\ pc' = "failed"
    /\ UNCHANGED <<elf, verifyOnly, textData, rodataData, textCrc, rodataCrc,
                   symAddr, target, buf, orphaned, built>>

\* subprocess.run has no timeout: a tool that never exits blocks main().
ToolHangs ==
    /\ ToolsMayHang
    /\ pc \in ToolCalls
    /\ pc' = "hung"
    /\ UNCHANGED <<elf, disk, verifyOnly, textData, rodataData, textCrc,
                   rodataCrc, symAddr, target, buf, orphaned, built>>

\* The process is killed.
Crash ==
    /\ StorageFaults
    /\ pc \in Running
    /\ pc' = "crashed"
    /\ UNCHANGED <<elf, disk, verifyOnly, textData, rodataData, textCrc,
                   rodataCrc, symAddr, target, buf, orphaned, built>>

\* A concurrent build relinks kernel.elf with new code and the same layout.
\* The linker writes a new file and renames it over the old one, so a file
\* the tool holds open for writing is orphaned.
Relink ==
    /\ Len(built) <= MaxRelinks
    /\ pc \in Running
    /\ disk' = elf.rebuilt
    /\ built' = Append(built, elf.rebuilt)
    /\ orphaned' = (orphaned \/ pc = "write")
    /\ UNCHANGED <<elf, pc, verifyOnly, textData, rodataData, textCrc,
                   rodataCrc, symAddr, target, buf>>

Next ==
    \/ GetTextSection \/ GetRodataSection \/ ComputeCrcs
    \/ GetSymbolAddress \/ ReadElfSections
    \/ PatchNobits \/ PatchProgbits \/ OpenForWrite \/ WriteBack
    \/ WriteFails \/ Crash \/ Relink \/ ToolHangs

Spec == Init /\ [][Next]_vars

\* The tool's own steps: the process is scheduled while it can run, and a
\* tool that exits makes subprocess.run return.
ToolStep ==
    \/ GetTextSection \/ GetRodataSection \/ ComputeCrcs
    \/ GetSymbolAddress \/ ReadElfSections
    \/ PatchNobits \/ PatchProgbits \/ OpenForWrite \/ WriteBack

FairSpec ==
    /\ Spec
    /\ WF_vars(GetTextSection) /\ WF_vars(GetRodataSection) /\ WF_vars(ComputeCrcs)
    /\ WF_vars(GetSymbolAddress) /\ WF_vars(ReadElfSections) /\ WF_vars(PatchNobits)
    /\ WF_vars(PatchProgbits) /\ WF_vars(OpenForWrite) /\ WF_vars(WriteBack)

-----------------------------------------------------------------------------
(***************************************************************************)
(* Properties                                                              *)
(***************************************************************************)

\* main() returned 0 after patching.
Patched == pc = "done" /\ ~verifyOnly

\* How the kernel reads a little-endian uint32_t at file offset off.
LoadU32LE(img, off) ==
    {i \in 0..31 : (img[off + 1 + i \div 8] \div 2^(i % 8)) % 2 = 1}

\* The addresses a loader gives file byte p: file-backed rows only.
LoadAddresses(p) ==
    {s.addr + (p - s.off) : s \in {s \in Range(sections) :
                                     s.type = "PROGBITS" /\ s.off <= p /\ p < s.off + s.size}}

(***************************************************************************)
(* Round trip (patch_binary's pack_into calls and write): when main()      *)
(* reports success, the eight bytes at the offset it patched decode, read  *)
(* little-endian, to the CRC-32 of the .text and of the .rodata bytes of   *)
(* the file as it now is on disk, so the kernel's self-check passes.       *)
(***************************************************************************)
ImageSelfVerifies ==
    Patched =>
        /\ FileOffset + 8 <= Len(disk)
        /\ LoadU32LE(disk, FileOffset) = Crc32(DumpSection(disk, ".text"))
        /\ LoadU32LE(disk, FileOffset + 4) = Crc32(DumpSection(disk, ".rodata"))

\* The whole files kernel.elf can hold besides the tool's own write: an
\* image the build wrote, or llvm-objcopy's copy of one.
WholeImages == Range(built) \cup {Objcopy(i) : i \in Range(built)}

(***************************************************************************)
(* A successful patch changes only the 8-byte window (patch_binary's read, *)
(* extend, pack_into and write-back): every other byte of the file the     *)
(* tool read, the build's image as llvm-objcopy rewrote it, is unchanged,  *)
(* the file never shrinks, and it grows, with zeros, only as far as the    *)
(* window's end.                                                           *)
(***************************************************************************)
PatchPreservesImage ==
    Patched =>
        LET orig == Objcopy(Last(built))
        IN  /\ Len(disk) = IF Len(orig) < FileOffset + 8 THEN FileOffset + 8 ELSE Len(orig)
            /\ \A p \in 1..Len(disk) :
                  (p <= FileOffset \/ FileOffset + 8 < p) =>
                      disk[p] = IF p <= Len(orig) THEN orig[p] ELSE 0

(***************************************************************************)
(* When main() fails, or the process dies, kernel.elf is a whole image:    *)
(* the build's or objcopy's copy of it, never a partly written patch       *)
(* (spec 4.4, 7: no partial patch is ever written).                        *)
(***************************************************************************)
FailureLeavesWholeImage ==
    pc \in {"failed", "crashed"} => disk \in WholeImages

(***************************************************************************)
(* Whatever crashes, fills up, hangs or relinks, kernel.elf is a whole     *)
(* image, the tool's patched buffer, or, only from open(path, 'wb') on and *)
(* only in a run that did not complete, a prefix of that buffer: the       *)
(* truncating open and the write from the start never leave old and new   *)
(* bytes mixed in one file.                                                *)
(***************************************************************************)
TornOnlyByTheWrite ==
    disk \notin WholeImages \cup {buf} =>
        pc \in {"write", "failed", "crashed"} /\ IsPrefix(disk, buf)

(***************************************************************************)
(* A verify-only run leaves kernel.elf as the build wrote it (spec 6:      *)
(* verify-only runs never mutate the file; spec 8: zero file writes).      *)
(***************************************************************************)
VerifyOnlyLeavesImage ==
    verifyOnly => disk \in Range(built)

(***************************************************************************)
(* The patched bytes are the ones the loader puts at the checksum symbol   *)
(* itself: file byte FileOffset + j is loaded at Symbol's address + j      *)
(* (spec 1: the tool must never write to the wrong offset).  Stated for   *)
(* an 8-byte slot inside a file-backed row: a NOBITS .bss slot is not      *)
(* loaded from the file (spec 4.3), and the code checks only that the      *)
(* symbol's first byte lies in the row.                                    *)
(***************************************************************************)
PatchLandsOnSymbol ==
    Patched /\ target.type = "PROGBITS" /\ symAddr + 8 <= target.addr + target.size =>
        \E l \in Range(symbols) :
            /\ l.name = Symbol
            /\ \A j \in 0..7 : LoadAddresses(FileOffset + j) = {l.addr + j}

(***************************************************************************)
(* The 8-byte window overlaps the file bytes of no other section (spec     *)
(* 4.3: the offset derived for a NOBITS section lies at or beyond the      *)
(* physical end of the file).                                              *)
(***************************************************************************)
NoForeignSectionBytes ==
    Patched =>
        \A s \in Range(sections) :
            (s # target /\ s.type # "NOBITS") =>
                (s.off + s.size <= FileOffset \/ FileOffset + 8 <= s.off)

(***************************************************************************)
(* Every run of main() ends (spec 5: a tool call that does not return in   *)
(* bounded time must abort the run before any file mutation).              *)
(***************************************************************************)
Termination == <>(pc \in Terminal)

=============================================================================
