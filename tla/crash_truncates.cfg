\* The process dies, or the disk fills, after open(path, 'wb').
CONSTANTS
    Elves <- MCElves
    Symbol <- MCSymbol
    MatchesSymbol <- MCMatchesSymbol
    MaxRelinks = 0
    StorageFaults = TRUE
    ToolsMayHang = FALSE
    None = None
    Objcopy <- MCObjcopy
SPECIFICATION Spec
INVARIANT FailureLeavesWholeImage
\* The tool is a process that exits.
CHECK_DEADLOCK FALSE
