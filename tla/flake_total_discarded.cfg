\* make reports its own run count in the summary (here it ran 20 runs), and
\* a make killed by the timeout may already have printed passed runs.
CONSTANTS
    Tasks <- MCTasks
    MaxParallel = 2
    Runs = 10
    Outcomes <- TwentyRunOutcomes
    PassedBeforeTimeout = {0, 4}
    None = None
SPECIFICATION Spec
INVARIANT StatusFollowsDocstring
CHECK_DEADLOCK FALSE
