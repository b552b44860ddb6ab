-------------------------- MODULE LldbArchCommands --------------------------
(***************************************************************************)
(* The per-architecture LLDB commands under platform/*/script/debug/:      *)
(* walk_pt / walk_ttbr split a virtual address into page-table indices,    *)
(* decode_satp splits a RISC-V satp value into MODE, ASID and PPN, x86-64  *)
(* walk_pt also reads the PML4 entry, and the dump_* commands only print.  *)
(* A command exists once `command script import` has run its script's     *)
(* __lldb_init_module, which binds each name to that script's handler.    *)
(*                                                                         *)
(* Python integers are unbounded and TLC's stop at 2^31, so a number is    *)
(* the set of its 1 bits within 0..MaxBit.  (n >> s) & (2^w - 1) keeps the *)
(* bits s..s+w-1 and moves them down by s.  A negative argument, which     *)
(* int(command, 0) accepts, is all ones above its low bits, as Python's    *)
(* arithmetic shift sees it.                                               *)
(***************************************************************************)
EXTENDS Naturals, Sequences, FiniteSets

CONSTANTS
    Arches,     \* the platforms whose command script is loaded
    Values,     \* the numbers an argument can denote
    Pml4Mem,    \* x86-64: the readable PML4 entries, by address
    None

\* Bits modelled, past 64 because int() accepts larger numbers.
MaxBit == 67
Num == SUBSET (0..MaxBit)

ASSUME /\ Arches \subseteq {"arm32", "arm64", "x64", "rv32", "rv64"}
       /\ Values \subseteq Num
       /\ \A a \in DOMAIN Pml4Mem : Pml4Mem[a] \in SUBSET (0..63)

\* (n >> shift) & ((1 << width) - 1)
Bits(n, shift, width) == {i - shift : i \in {j \in n : shift <= j /\ j < shift + width}}

\* The value of a bit set, for the few small fields used as numbers.
RECURSIVE ValueOf(_)
ValueOf(s) == IF s = {} THEN 0
              ELSE LET m == CHOOSE i \in s : TRUE IN 2^m + ValueOf(s \ {m})

F(name, shift, width) == [name |-> name, shift |-> shift, width |-> width]

\* The shifts and masks of each walk command, field by field.
WalkArm32 == << F("L1", 20, 12), F("L2", 12, 8), F("offset", 0, 12) >>
WalkArm64 == << F("L0", 39, 9), F("L1", 30, 9), F("L2", 21, 9), F("L3", 12, 9),
                F("offset", 0, 12) >>
WalkX64   == << F("PML4", 39, 9), F("PDPT", 30, 9), F("PD", 21, 9), F("PT", 12, 9),
                F("offset", 0, 12) >>
WalkRv32  == << F("VPN1", 22, 10), F("VPN0", 12, 10), F("offset", 0, 12) >>

WalkRv64  == << F("VPN2", 30, 9), F("VPN1", 21, 9), F("VPN0", 12, 9), F("offset", 0, 12) >>

WalkFields(arch) ==
    [arm32 |-> WalkArm32, arm64 |-> WalkArm64, x64 |-> WalkX64,
     rv32 |-> WalkRv32, rv64 |-> WalkRv64][arch]

\* The shifts and masks of decode_satp, RV64 and RV32 versions.
SatpRv64 == << F("mode", 60, 4), F("asid", 44, 16), F("ppn", 0, 44) >>
SatpRv32 == << F("mode", 31, 1), F("asid", 22, 9), F("ppn", 0, 22) >>

SatpFields(arch) == IF arch = "rv64" THEN SatpRv64 ELSE SatpRv32

\* The fields of n, in the order the command prints them.
Decode(n, fields) == [k \in 1..Len(fields) |-> Bits(n, fields[k].shift, fields[k].width)]

\* An argument: empty, not a Python integer literal, or a number.
Commands == {[kind |-> "empty"], [kind |-> "garbage"]} \cup [kind : {"number"}, value : Values]

\* For VMOS, PML4 is at 0x100000.
Pml4Base == 1048576

\* The names each script's __lldb_init_module binds with
\* `command script add -f <module>.<handler> <name>`.
InitArm32 == {"walk_pt", "dump_vectors"}
InitArm64 == {"walk_ttbr", "dump_vectors"}
InitX64   == {"walk_pt", "dump_idt", "dump_gdt"}
InitRv32  == {"walk_pt", "dump_csr", "decode_satp"}
InitRv64  == {"walk_pt", "dump_csr", "decode_satp"}

ScriptCommands(arch) ==
    [arm32 |-> InitArm32, arm64 |-> InitArm64, x64 |-> InitX64,
     rv32 |-> InitRv32, rv64 |-> InitRv64][arch]

CommandNames == UNION {ScriptCommands(a) : a \in Arches}

VARIABLES
    out,         \* what the last command appended to its result, as data
    registered   \* command name -> the platform whose handler it runs

vars == <<out, registered>>

TypeOK ==
    /\ registered \in UNION {[D -> Arches] : D \in SUBSET CommandNames}
    /\ \A n \in DOMAIN registered : n \in ScriptCommands(registered[n])
    /\ out \in {None} \cup [cmd : STRING, arch : Arches, kind : {"usage", "invalid", "text"}]
                   \cup [cmd : STRING, arch : Arches, kind : {"fields"}, value : Num,
                         fields : Seq(Num), entry : {None, [read |-> FALSE]}
                             \cup [read : {TRUE}, present : {FALSE}]
                             \cup [read : {TRUE}, present : {TRUE}, writable : BOOLEAN,
                                   user : BOOLEAN, phys : SUBSET (12..51)]]

Init == out = None /\ registered = [n \in {} |-> None]

\* The usage and ValueError returns shared by every command that takes an
\* argument.
Rejected(name, arch, c) ==
    [cmd |-> name, arch |-> arch, kind |-> IF c.kind = "empty" THEN "usage" ELSE "invalid"]

\* Mutant: the physical-address mask 0xFFFFFFFFFFFFF000, taking in the NX bit.
Pml4EntryWideMask(v) ==
    LET a == Pml4Base + ValueOf(Bits(v, 39, 9)) * 8
        e == Pml4Mem[a]
    IN  IF a \notin DOMAIN Pml4Mem THEN [read |-> FALSE]
        ELSE IF 0 \in e THEN [read |-> TRUE, present |-> TRUE, writable |-> 1 \in e,
                              user |-> 2 \in e, phys |-> {i \in e : 12 <= i}]
        ELSE [read |-> TRUE, present |-> FALSE]

\* x86-64: what walk_pt shows of the PML4 entry for the address: the
\* present, writable and user bits and entry & 0xFFFFFFFFFF000, only
\* "Not Present", or the read error.
Pml4Entry(v) ==
    LET a == Pml4Base + ValueOf(Bits(v, 39, 9)) * 8
        e == Pml4Mem[a]
    IN  IF a \notin DOMAIN Pml4Mem THEN [read |-> FALSE]
        ELSE IF 0 \in e THEN [read |-> TRUE, present |-> TRUE, writable |-> 1 \in e,
                              user |-> 2 \in e, phys |-> {i \in e : 12 <= i /\ i <= 51}]
        ELSE [read |-> TRUE, present |-> FALSE]

\* command script import: __lldb_init_module binds the script's names.  For
\* a name another script bound before, `command script add` without -o
\* depends on the LLDB release: older ones rebind it to this script's
\* handler, newer ones refuse with an error HandleCommand does not report,
\* so the first binding stays.
LoadScript(arch) ==
    LET names == ScriptCommands(arch)
    IN  /\ \/ registered' = [n \in DOMAIN registered \cup names |->
                                IF n \in names THEN arch ELSE registered[n]]
           \/ registered' = [n \in DOMAIN registered \cup names |->
                                IF n \in DOMAIN registered THEN registered[n] ELSE arch]
        /\ UNCHANGED out

\* walk_pt / walk_ttbr <vaddr>.
WalkPageTables(arch, c) ==
    \/ c.kind # "number" /\ out' = Rejected("walk_pt", arch, c)
    \/ c.kind = "number" /\ out' = [cmd |-> "walk_pt", arch |-> arch, kind |-> "fields",
                                     value |-> c.value, fields |-> Decode(c.value, WalkFields(arch)),
                                     entry |-> IF arch = "x64" THEN Pml4Entry(c.value) ELSE None]

\* decode_satp <satp> (rv32, rv64).
DecodeSatp(arch, c) ==
    \/ c.kind # "number" /\ out' = Rejected("decode_satp", arch, c)
    \/ c.kind = "number" /\ out' = [cmd |-> "decode_satp", arch |-> arch, kind |-> "fields",
                                     value |-> c.value, fields |-> Decode(c.value, SatpFields(arch)),
                                     entry |-> None]

\* dump_csr, dump_vectors, dump_idt, dump_gdt: fixed text.
DumpCsr(arch)     == out' = [cmd |-> "dump_csr", arch |-> arch, kind |-> "text"]
DumpVectors(arch) == out' = [cmd |-> "dump_vectors", arch |-> arch, kind |-> "text"]
DumpIdt(arch)     == out' = [cmd |-> "dump_idt", arch |-> arch, kind |-> "text"]
DumpGdt(arch)     == out' = [cmd |-> "dump_gdt", arch |-> arch, kind |-> "text"]

\* The user types a registered command name: LLDB calls the handler the
\* name is bound to.
Invoke(n) ==
    LET arch == registered[n]
    IN  /\ \/ n \in {"walk_pt", "walk_ttbr"} /\ \E c \in Commands : WalkPageTables(arch, c)
           \/ n = "decode_satp"  /\ \E c \in Commands : DecodeSatp(arch, c)
           \/ n = "dump_csr"     /\ DumpCsr(arch)
           \/ n = "dump_vectors" /\ DumpVectors(arch)
           \/ n = "dump_idt"     /\ DumpIdt(arch)
           \/ n = "dump_gdt"     /\ DumpGdt(arch)
        /\ UNCHANGED registered

Next ==
    \/ \E arch \in Arches : LoadScript(arch)
    \/ \E n \in DOMAIN registered : Invoke(n)

Spec == Init /\ [][Next]_vars

=============================================================================
