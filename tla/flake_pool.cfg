\* Three configurations, two workers, every output form, timeouts and
\* exceptions, under the fairness of the pool, the timer and main: the script ends.
CONSTANTS
    Tasks <- MCTasks
    MaxParallel = 2
    Runs = 10
    Outcomes <- TenRunOutcomes
    PassedBeforeTimeout = {0, 4}
    None = None
SPECIFICATION Spec
INVARIANT TypeOK
PROPERTY Termination
\* The script exits once it has set its exit status.
CHECK_DEADLOCK FALSE
