\* The module as written: it never imports lldb.
CONSTANTS
    Limit = 3
    LldbImported = FALSE
    Nodes = {1, 2, 3}
    Unreadable = {9}
    Invalid = Invalid
    None = None
SPECIFICATION Spec
INVARIANT SummaryShowsDepths
CHECK_DEADLOCK FALSE
