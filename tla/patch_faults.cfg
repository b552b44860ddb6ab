\* Crashes, short writes, hung tools and a concurrent relink: what can be
\* left on disk.
CONSTANTS
    Elves <- MCElves
    Symbol <- MCSymbol
    MatchesSymbol <- MCMatchesSymbol
    MaxRelinks = 1
    StorageFaults = TRUE
    ToolsMayHang = TRUE
    None = None
    Objcopy <- MCObjcopy
SPECIFICATION Spec
INVARIANT TornOnlyByTheWrite
\* The tool is a process that exits.
CHECK_DEADLOCK FALSE
