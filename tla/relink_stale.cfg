\* A build relinks kernel.elf while the tool runs; nothing locks the file.
CONSTANTS
    Elves <- MCElves
    Symbol <- MCSymbol
    MatchesSymbol <- MCMatchesSymbol
    MaxRelinks = 1
    StorageFaults = FALSE
    ToolsMayHang = FALSE
    None = None
    Objcopy <- MCObjcopy
SPECIFICATION Spec
INVARIANT ImageSelfVerifies
\* The tool is a process that exits.
CHECK_DEADLOCK FALSE
