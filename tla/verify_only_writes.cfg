\* A verify-only run on images of both layouts.
CONSTANTS
    Elves <- MCElves
    Symbol <- MCSymbol
    MatchesSymbol <- MCMatchesSymbol
    MaxRelinks = 0
    StorageFaults = FALSE
    ToolsMayHang = FALSE
    None = None
    Objcopy <- MCObjcopy
SPECIFICATION Spec
INVARIANT VerifyOnlyLeavesImage
\* The tool is a process that exits.
CHECK_DEADLOCK FALSE
