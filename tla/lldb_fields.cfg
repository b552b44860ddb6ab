\* Every platform, every command, every argument form.
CONSTANTS
    Arches = {"arm32", "arm64", "x64", "rv32", "rv64"}
    Values <- MCValues
    Pml4Mem <- MCPml4Mem
    None = None
SPECIFICATION Spec
INVARIANT TypeOK
