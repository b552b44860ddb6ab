\* The symbol is in .bss and .symtab follows in the file, as ld lays it out.
CONSTANTS
    Elves <- SymtabElves
    Symbol <- MCSymbol
    MatchesSymbol <- MCMatchesSymbol
    MaxRelinks = 0
    StorageFaults = FALSE
    ToolsMayHang = FALSE
    None = None
    Objcopy <- MCObjcopy
SPECIFICATION Spec
INVARIANT NoForeignSectionBytes
\* The tool is a process that exits.
CHECK_DEADLOCK FALSE
