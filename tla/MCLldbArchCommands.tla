------------------------ MODULE MCLldbArchCommands ------------------------
(***************************************************************************)
(* Arguments: zero, every single bit up to MaxBit, and -1 (all ones).     *)
(* Each field is a bitwise function of the argument, so single bits decide *)
(* which field a bit lands in for every argument.                          *)
(***************************************************************************)
EXTENDS LldbArchCommands, TLC

MCValues == {{}, 0..MaxBit} \cup {{i} : i \in 0..MaxBit}

\* PML4[0]: present, writable, a frame with bits 12, 40 and 51 set, and
\* the NX bit 63; PML4[511]: not present; every other slot fails to read.
MCPml4Mem == (Pml4Base :> {0, 1, 12, 40, 51, 63}) @@ ((Pml4Base + 511 * 8) :> {})

=============================================================================
