\* Every sample image; any llvm tool may never exit.
CONSTANTS
    Elves <- MCElves
    Symbol <- MCSymbol
    MatchesSymbol <- MCMatchesSymbol
    MaxRelinks = 0
    StorageFaults = FALSE
    ToolsMayHang = TRUE
    None = None
    Objcopy <- MCObjcopy
SPECIFICATION FairSpec
PROPERTY Termination
\* The tool is a process that exits.
CHECK_DEADLOCK FALSE
