\* Three readable nodes and one unreadable address, so that lists of every
\* length up to past the cap, cycles of every length and failed reads occur;
\* the printed values cover every table's names and numbers past them.
CONSTANTS
    Limit = 3
    LldbImported = TRUE
    Nodes = {1, 2, 3}
    Unreadable = {9}
    Invalid = Invalid
    None = None
SPECIFICATION Spec
INVARIANTS DepthIsReachableCount SummaryShowsStoredFields
\* Construction stops once every node and head is set.
CHECK_DEADLOCK FALSE
