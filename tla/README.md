# TLA+ models of the picokernel build and debug scripts

The Python in this repository is the tooling around the kernel. The core
piece is `script/compute_checksums.py`. It is a post-link step that stores
the CRC-32 of `.text` and of `.rodata` in the symbol
`platform_expected_checksums`, so that the kernel can check itself. This
directory holds TLA+ models of that tool and of the pieces it relies on.
Each model says what is true of the code, and TLC checks it.

## 1. Inventory

| Component | Source | State | Operations | Status |
|---|---|---|---|---|
| Checksum patcher: Orchestrator, SectionLayoutIndex, AddressTranslator and BinaryPatcher of the spec | `script/compute_checksums.py` | kernel.elf on disk; the locals of `main`/`patch_binary` (section bytes, CRCs, symbol address, chosen readelf row, the `bytearray`) | `get_section_data` x2, CRC, `get_symbol_address`, the readelf row search, the offset, read, extend, `pack_into` x2, `open('wb')`, `write` | modelled: `ComputeChecksums` |
| ChecksumComputer | `zlib.crc32(...) & 0xFFFFFFFF` (lines 186-187) | none (pure) | CRC-32 | modelled: `Crc32`, checked against `Crc32Reference` in `patch_core` |
| External LLVM tools (`llvm-objcopy`, `llvm-nm`, `llvm-readelf`) | (not in repo) | the ELF's section table and symbol table | dump a section (and, given no output file, rewrite the input with objcopy's copy), list symbols sorted by name, list section rows | modelled by their output, by objcopy's write-back and by failing |
| Flake test matrix runner | `script/flake_all.py` | 12 configurations, a 4-thread pool, `all_stats` | `run_flake_test` (subprocess, parse, classify), `as_completed` collection, summary, exit code | modelled: `FlakeAll` |
| LLDB kernel pretty-printers | `script/debug/lldb_formatters.py` | the debugger's type-summary registry; the summaries only read debugger memory | `__lldb_init_module` (eight `type summary add`), the `kernel_summary` queue walk, `kwork_summary`, the five request summaries, `platform_summary` | modelled: `KernelSummary` (the walk), `LldbFormatters` (the rest) |
| Per-architecture LLDB commands | `platform/*/script/debug/lldb_*_cmds.py` | none (each command appends to its result) | `walk_pt`/`walk_ttbr`, `decode_satp`, the x86-64 PML4 entry read, the `dump_*` commands | modelled: `LldbArchCommands` |
| UDP echo server | `script/udp_echo_server.py` | a socket | recvfrom/sendto loop | not modelled: pure I/O |

### How the patcher's parts interact

`main` calls `get_section_data` twice. Each call runs
`llvm-objcopy --dump-section NAME=/dev/stdout kernel.elf`. Given no output
file, objcopy also writes its copy of the input to a temporary file and
renames it over kernel.elf, so each dump rewrites the file, in
`--verify-only` mode as well. `main` then takes the two CRCs and stops there if
`--verify-only` is set. Otherwise it calls `patch_binary`:

1. `get_symbol_address` runs `llvm-nm -S`. It takes the first line in which
   the symbol name occurs as a substring.
2. `llvm-readelf -S` lists the section rows. The search takes the first
   `.data` row whose range holds the address. If none does, it takes the
   first such `.bss` row.
3. The file offset is `off + (addr - vaddr)`.
4. The code reads the whole file. For a NOBITS row it zero-extends the file
   to offset + 8. It packs the two CRCs little-endian at the offset.
5. `open(path, 'wb')` truncates the file and `f.write` writes it back.

The tool is a single process with no concurrency of its own. What makes it
hard is everything around it:

- the file is read three times and written three times (twice by
  objcopy, once by the patch), with nothing locking it against a build
  that rewrites it;
- the write-back is truncate-then-write, which is not atomic against a
  crash or a full disk;
- the symbol and the section are found by text matching over tool output;
- the NOBITS offset is only meaningful if it lies past every byte in the
  file.

### What makes each component correct

- Patcher:
  - after a success, the slot decodes to the CRCs of the image on disk;
  - only the slot's 8 bytes change, and the file grows only with zeros up
    to the slot's end;
  - a failure or crash leaves a whole image, never a partial patch;
  - a torn file appears only inside the write-back, as a prefix of the
    patched buffer;
  - a verify-only run leaves the file as the build wrote it;
  - the bytes patched are the ones loaded at the symbol itself;
  - no other section's bytes are overwritten.
- Crc32: it equals the standard CRC-32.
- FlakeAll:
  - a configuration is "works" only if every run make made passed, and
    "broken" only if none did (the docstring);
  - the script finishes even if make hangs.
- KernelSummary: each depth it reports is the number of nodes reachable
  from the queue head, capped at the bound, and it reports depths rather
  than an error.
- LldbFormatters: from what `kwork_summary`, a request summary or
  `platform_summary` prints, a reader recovers what memory holds: no two
  values share a name in the tables, and a value past a table is still
  shown.

## 2. Modules

| Module | Models | Notes |
|---|---|---|
| `Crc32.tla` | `zlib.crc32` as the tool calls it | A 32-bit word is the set of its 1 bits. TLC integers stop at 2^31, and XOR becomes symmetric difference. |
| `ComputeChecksums.tla` | `compute_checksums.py`, with the build and storage faults as environment | One action per step between I/O points (see below). |
| `MCComputeChecksums.tla` | sample kernel.elf images, objcopy's copy of each, and the CRC reference check | Two layouts × seven nm listings. |
| `Crc32Reference.tla` | the textbook CRC-32 | Polynomial long division over GF(2); `MessagesUpTo` enumerates short messages. |
| `FlakeAll.tla` | `flake_all.py` | The pool, the timeout, the parser and the exit status. |
| `KernelSummary.tla` | `kernel_summary` and `count_list` | The walk is a RECURSIVE operator over a map from node to the word at + 24. |
| `LldbFormatters.tla` | the other summaries and `__lldb_init_module` | A value is a record of members; a missing member is the invalid SBValue `Invalid`, which reads as 0. A printed text is a record of field texts: a table name, `UNKNOWN(n)` or `n`. `ImportFormatters` fills the registry, type -> function, with `@@`, so a re-import replaces each type's summary. |
| `MCKernelSummary.tla` | a debugger session: every memory of three nodes and one unreadable address for `kernel_t`, and small sets of `kwork_t`, request and `platform_t` values for the rest | Checks the walk against reachability, which is computed as a set closure, and each other summary against a reader's decoding of its text. |
| `MCFlakeAll.tla` | three configurations, two workers | The output forms of `make flake`. |
| `LldbArchCommands.tla` | the five `lldb_*_cmds.py` scripts | A number is the set of its 1 bits up to bit 67; each command is one action. |
| `MCLldbArchCommands.tla` | arguments and PML4 memory | 0, -1 and every single-bit number; a present PML4 entry with the NX bit and high bits set, and a zero entry. |

### ComputeChecksums: state and actions against the code

Variables:

| Variable | Code |
|---|---|
| `disk` | the bytes of kernel.elf |
| `pc` | how far `main` has got |
| `textData`, `rodataData` | the results of `get_section_data` |
| `textCrc`, `rodataCrc` | `text_crc`, `rodata_crc` |
| `symAddr` | `addr` |
| `target` | the readelf row chosen |
| `buf` | the `bytearray` `data` |
| `orphaned` | the file the tool opened has been replaced by the build |
| `built` | ghost: the images the build wrote |

Actions:

| Action | Code |
|---|---|
| `GetTextSection`, `GetRodataSection` | lines 176-179 and `get_section_data` (`ObjcopyDump`: the dump and objcopy's write-back, or a failure that writes nothing) |
| `ComputeCrcs` | lines 181-193 (None check, CRCs, verify-only exit) |
| `GetSymbolAddress` | `get_symbol_address` |
| `ReadElfSections` | readelf and the `.data`/`.bss` search, lines 75-104, and its failure returns at 153-158 |
| `PatchNobits` | lines 105-122 |
| `PatchProgbits` | lines 132-142; `pack_into` past the end raises `struct.error` |
| `OpenForWrite` | `open(path, 'wb')` |
| `WriteBack` | `f.write`, return True |
| `WriteFails`, `Crash` | environment, only when `StorageFaults` |
| `ToolHangs` | an `llvm-*` subprocess that never exits (the `subprocess.run` calls have no `timeout`), only when `ToolsMayHang` |
| `Relink` | a concurrent build, at most `MaxRelinks` times |

Every subprocess may fail, and each failure takes the code's failure
return. The ELF's layout and symbols are data. The readelf row is a record
and the nm line is a record. Column parsing is abstracted: the `[ N]` and
`[NN]` forms of a row give the same record.

`Objcopy` is a constant operator: the file llvm-objcopy writes for an
input. The module assumes what llvm-objcopy guarantees and the properties
rely on: the layout and the bytes of every file-backed section are kept,
and a copy of a copy is the copy. In the samples (`MCObjcopy`), the copy
differs from the linker's output in the `.symtab` bytes, because objcopy
rebuilds the symbol and string tables; for the layout without `.symtab`
it is byte-identical. The call is one step: the rename is atomic, and a
relink inside one objcopy call is listed as a hazard.

`Relink` writes a new file and renames it over the old one, as ld and lld
do. So a file the tool already holds open for writing becomes orphaned, and
the tool's write never reaches the path.

### Crc32: evaluation

`CrcShiftN` and `CrcFold` are top-level recursive functions, not
operators. A function application evaluates its argument once, but TLC
re-evaluates operator arguments by name inside `ENABLED`. With operators,
the weak-fairness conditions on `ComputeCrcs` took minutes per state.

### LldbArchCommands: state and actions against the code

- `out` is what the last command appended to its `SBCommandReturnObject`.
  It holds the usage or invalid-argument result, or the decoded fields
  (the value, one bit set per field in print order, and the PML4 entry on
  x86-64), or "text" for the print-only commands.
- `WalkPageTables(arch, c)` covers `walk_pt`/`walk_ttbr`: the empty-argument
  return, the `ValueError` return, and the shifts and masks of each
  platform (`WalkArm32` ... `WalkRv64`).
- On x86-64, `Pml4Entry` models the `ReadUnsignedFromMemory` at
  0x100000 + index * 8 and its error path, the present bit, and
  `entry & 0xFFFFFFFFFF000`.
- `DecodeSatp` uses the RV64 and RV32 layouts.
- `DumpCsr`, `DumpVectors`, `DumpIdt` and `DumpGdt` only print.
- `registered` maps each command name to the platform whose handler it
  runs. `LoadScript(arch)` is `command script import`, which runs the
  script's `__lldb_init_module`. It binds that script's names
  (`InitArm32` ... `InitRv64`). For a name another script bound before,
  such as `walk_pt`, which four scripts use, `command script add` without
  `-o` depends on the LLDB release: older releases rebind it, newer ones
  refuse, and `HandleCommand` drops the error. Both outcomes are
  disjuncts of `LoadScript`.
- `Invoke(n)` is typing a registered name: LLDB calls the handler bound to
  it. Only a loaded script's commands exist. Any sequence of imports, in
  any order and repeated, is explored.

### FlakeAll: state and actions against the code

| Variable | Code |
|---|---|
| `queue` | the executor's work queue, in submission order |
| `running` | the tasks a worker thread is running (at most `MaxParallel`) |
| `outcome` | what each task's make did: its output, a timeout (with, as a ghost, how many runs had passed when make was killed) or an exception |
| `allStats` | `all_stats` |
| `exitCode` | the `sys.exit` status |

| Action | Code |
|---|---|
| `StartTask` | a free worker takes the next task (`executor.submit`, lines 133-137) |
| `MakeExits` | `subprocess.run` returns; the parse is `RunFlakeTest` (lines 72-102) |
| `TimeoutExpires`, `MakeFails` | the two `except` branches (lines 104-109) |
| `Collect` | one iteration of the `as_completed` loop (lines 139-147) |
| `Summarize` | the classification and exit status (lines 149-191) |

The output of make is reduced to what the parser reads: the number of
`✓ PASSED` and `✗ FAILED` lines, the `Results: p/t passed` summary if any,
and the return code. The `except` in the collection loop is unreachable,
because `run_flake_test` catches `Exception` itself, so it has no action.

## 3. Runs

| Run | Cfg | Expect | What it shows |
|---|---|---|---|
| `patch_core` | `patch_core.cfg` | pass | On the 12 images without a decoy symbol and every tool-failure path: `ImageSelfVerifies` (the slot decodes, read little-endian as the kernel reads it, to the CRCs of the on-disk `.text`/`.rodata`); `PatchPreservesImage` (only the slot changes in the file objcopy left, and the file grows with zeros only to the slot's end); `FailureLeavesWholeImage` (a failed run leaves the build's image or objcopy's copy of it); `PatchLandsOnSymbol` (for an 8-byte slot inside `.data`, the bytes patched are the ones loaded at the symbol); `CrcMatchesReference` (`Crc32` equals the polynomial-division CRC-32 on every message of up to 3 bytes over 8 byte values, and on each section the run dumped). |
| `patch_faults` | `patch_faults.cfg` | pass | With a crash at any point, a short write, a hung llvm tool and a relink, kernel.elf is a whole image or the patched buffer, except that from `open('wb')` on, in a run that did not complete, it may be a prefix of that buffer (`TornOnlyByTheWrite`): truncate-then-write never mixes old and new bytes. |
| `relink_stale` | `relink_stale.cfg` | violation | `ImageSelfVerifies` fails when a build rewrites kernel.elf while the tool runs. The code takes no lock (spec §5 asks for exclusive access). |
| `crash_truncates` | `crash_truncates.cfg` | violation | `FailureLeavesWholeImage` fails: a crash or ENOSPC after `open('wb')` leaves a truncated file (spec §4.4 asks for atomicity). |
| `verify_only_writes` | `verify_only_writes.cfg` | violation | `VerifyOnlyLeavesImage` fails: a `--verify-only` run replaces kernel.elf with objcopy's copy at the first section dump, because line 25 gives `llvm-objcopy` no output file. Spec §6 says verify-only runs never mutate the file. |
| `tool_hangs` | `tool_hangs.cfg` | violation | `Termination` fails under weak fairness of every tool step: an `llvm-*` process that never exits keeps `subprocess.run` waiting for ever. Spec §5 asks for a bounded timeout. |
| `flake_pool` | `flake_pool.cfg` | pass | Three configurations on two workers, with every output form, timeout and exception in every interleaving of the workers and the collecting main thread: the pool never runs more than `MaxParallel` tasks (`TypeOK`), and the script finishes (`Termination`). |
| `flake_total_discarded` | `flake_total_discarded.cfg` | violation | `StatusFollowsDocstring` (works only if every run make made passed, broken only if none did) fails in two ways. Line 102 passes a `total_runs` of 10, so "10/20 passed" is classified as works; TLC reports this one. Line 106 ignores the output a `TimeoutExpired` carries, so a make killed after 4 passed runs is classified broken; with ten-run outputs only, TLC reports that one. |
| `kernel_summary` | `kernel_summary.cfg` | pass | `DepthIsReachableCount`: on every memory with cycles of every length, chains longer than `Limit` = 3 and failed reads, each depth is the number of distinct nodes reachable from the head, capped at `Limit`. `SummaryShowsStoredFields`: after the formatters are imported, once or twice, `p` of any `kwork_t` in the sample (states 0, 4, 5, ops 0, 1, 7, 8, results 0, 7, 8, flags 0-3), of each request type, or of any `platform_t` with or without each device and a MAC, shows text from which the stored state, op, result, STANDING bit, devices, block geometry and MAC can be read back. |
| `lldb_not_imported` | `lldb_not_imported.cfg` | violation | `SummaryShowsDepths` fails: `lldb.SBError()` at line 154 raises `NameError` because the module never imports `lldb`, and the outer `except` turns the whole summary into an error string. |
| `bss_overwrites_symtab` | `bss_overwrites_symtab.cfg` | violation | `NoForeignSectionBytes` fails: for a `.bss` symbol, the offset is `.bss`'s `sh_offset`, where `.symtab` starts, and the patch overwrites it. |
| `lldb_fields` | `lldb_fields.cfg` | pass | After any sequence of script imports, under either LLDB behaviour for a name already bound, every command runs a handler of a script that defines it, on every argument form; `TypeOK` includes the PML4 physical address staying within bits 12-51 (a mask taking in the NX bit breaks it). |

### Bounds

Addresses and offsets are scaled down: `.text` and `.rodata` are 2 bytes
each and `.data` is 12 bytes. The 8-byte slot and the byte encoding are
kept exactly.

The nm listings cover these cases:

- the symbol at the start, the middle and the end of `.data`
  (`AtDataEnd` spills past it);
- the symbol in `.bss`;
- the symbol in `.rodata` (no section found);
- the symbol missing;
- a decoy that sorts first. Only `patch_faults`, `relink_stale`,
  `crash_truncates`, `verify_only_writes` and `tool_hangs` use it.
  `PatchLandsOnSymbol` holds only without it.
  The repository defines no such symbol.

The two layouts are `.bss` at the end of file and `.bss` followed by
`.symtab`. Between them they reach every branch of `patch_binary`. One
relink is enough to place it in each window between two I/O steps.

For the LLDB commands, the arguments are empty, not a number, 0, -1 and
every single-bit number up to bit 67, so that every field of every
layout, and the PML4 index of each sample entry, is reached.

For the formatters, the `kwork_t` sample holds a named value and a value
past each table (state 5, op 0 and 8, result 8), both values of the
STANDING bit with and without bit 1 set, and, for the requests, works
whose state and result lie past the tables. Each `platform_t` device is
present or absent independently, and the MAC member is present or
missing.

A timed-out make had passed 0 or 4 runs (`PassedBeforeTimeout`). The
classification ignores that number; only the docstring property reads
it.

For FlakeAll, three configurations and two workers are enough for a task
to wait in the queue while both workers run, and for completions to
arrive out of submission order. The five output forms cover every branch
of the parser: summary present, no summary with lines, and no output at
all.

## 4. Fairness

FlakeAll's `Termination` assumes weak fairness of `StartTask` (an idle pool
worker takes queued work), of `TimeoutExpires` (`subprocess.run` has
`timeout=300`), of `Collect` and of `Summarize` (the main thread). It does
not assume fairness of `MakeExits`, because a QEMU guest can hang. Removing
the timeout breaks `Termination`, and the mutant run of the check shows
this.

Patcher: `FairSpec`, used by `tool_hangs`, puts weak fairness on each of the tool's own steps
(`GetTextSection` ... `WriteBack`). A single process gets scheduled while
it can run, and a subprocess that has exited makes `subprocess.run`
return. There is no fairness on `Relink`, `Crash`, `WriteFails` or
`ToolHangs`, which are the environment. Under `FairSpec` a hung tool is a legal forever-stutter,
because nothing in the code ends it (`tool_hangs`).

`CHECK_DEADLOCK FALSE` reflects that the process exits.

## 5. Not modelled, and why

- Argument parsing and the `elf_path.exists()` check: the model starts on
  an existing file.
- Printing.
- The text layout of the tools' output. The model uses the records the
  output encodes.
- The kernel-side checksum verification. It lives in C outside `src/`;
  `LoadU32LE` stands for how it reads the slot.
- The UDP echo server (`script/udp_echo_server.py`). Each loop iteration
  receives one datagram and sends it back to its sender, and nothing
  carries over between datagrams. What remains is the socket API's own
  behaviour. Its one bound, `recvfrom(4096)`, truncates only a datagram
  larger than a standard 1500-byte frame carries unfragmented. The printing-only LLDB
  commands are actions that only set `out`.
- In the LLDB summaries: the text layout (labels, separators, hex
  formatting of the MAC), `kernel_t`'s time and timer-count fields (read
  and printed unchanged), and the `print` calls. Every printed value has
  every member the summary reads. A missing member reads as 0 (`Child`,
  `Unsigned`), but which members `kwork_t` has, and which flag bits exist
  besides STANDING, are in the kernel's C headers, not under `src/` (see
  the hazard at line 33). `kernel_summary` is checked as if `lldb` were
  bound.
- Processes below `make flake` (QEMU guests). On a timeout,
  `subprocess.run` kills make only, so the guests can outlive it (see the
  hazards). The Makefile that starts them is not under `src/`.

## 6. Plan

1. (done) `Crc32` with its reference check, and `ComputeChecksums` with
   the runs above.
2. (done) Subprocess hangs (`ToolHangs`, `tool_hangs`). Open: the
   overlapping-rows case for the `.data`-before-`.bss` policy (spec §8).
   Searching `.data` first picks the file-backed row, so no property of
   the image tells it apart.
3. (done) objcopy's write-back (`ObjcopyDump`, `verify_only_writes`).
   Open: splitting one objcopy call into read and rename, to show a
   relink in between being undone.
4. (done) `FlakeAll.tla`, with the partial output of a timeout as a
   ghost (`StatusFollowsDocstring`). Still open: the return code, which is ignored
   (hazard at line 98). It depends on what the Makefile's `flake` target
   returns, and that target is not in `src/`.
5. (done) `KernelSummary.tla`, and `LldbFormatters.tla` for the other
   summaries and their registration. The offset-24 layout assumption is still
   open (hazard at line 160). It needs `kwork_t` from the C sources, which
   are not under `src/`.
6. (done) `LldbArchCommands`, with script registration
   (`LoadScript`, `Invoke`). Open: which VA width ARM64 uses. The code
   and its comment disagree, and the translation setup is in C outside
   `src/`.
