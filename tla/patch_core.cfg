\* The pipeline on every sample image whose symbol table has no decoy name,
\* without a concurrent build or storage faults: what a successful or a
\* failed run leaves on disk; and the CRC-32 against its reference.
CONSTANTS
    Elves <- NoDecoyElves
    Symbol <- MCSymbol
    MatchesSymbol <- MCMatchesSymbol
    MaxRelinks = 0
    StorageFaults = FALSE
    ToolsMayHang = FALSE
    None = None
    Objcopy <- MCObjcopy
SPECIFICATION Spec
INVARIANT TypeOK
INVARIANT ImageSelfVerifies
INVARIANT PatchPreservesImage
INVARIANT FailureLeavesWholeImage
INVARIANT PatchLandsOnSymbol
INVARIANT CrcMatchesReference
\* The tool is a process that exits.
CHECK_DEADLOCK FALSE
