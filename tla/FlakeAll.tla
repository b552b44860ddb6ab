------------------------------ MODULE FlakeAll ------------------------------
(***************************************************************************)
(* script/flake_all.py: runs `make flake` for every configuration on a     *)
(* ThreadPoolExecutor of MaxParallel workers, collects the results with    *)
(* as_completed, classifies each configuration and sets the exit code.     *)
(*                                                                         *)
(* A worker thread takes the next submitted task (FIFO), runs make, and    *)
(* either make exits with some output or the 300 s timeout of              *)
(* subprocess.run fires first.  The main thread collects completed         *)
(* futures in any order.  What make prints is abstracted to the counts the *)
(* parser can see: PASSED lines, FAILED lines and the "Results: p/t"       *)
(* summary, if any.                                                        *)
(***************************************************************************)
EXTENDS Naturals, Sequences, SequencesExt, FiniteSets

CONSTANTS
    Tasks,        \* the submission order of the configurations
    MaxParallel,  \* MAX_PARALLEL
    Runs,         \* the 10 runs per configuration the code assumes
    Outcomes,     \* what `make flake` can print and return
    PassedBeforeTimeout, \* how many runs can have passed when the timeout kills make
    None

Configs == Range(Tasks)

\* What make printed and returned, as the parser sees it.
Summary == [passed : Nat, total : Nat]
Output  == [kind : {"exited"}, passLines : Nat, failLines : Nat,
            summary : Summary \cup {None}, rc : Nat]
\* A timeout keeps, as a ghost, the runs that passed before make was killed
\* (the PASSED lines of the output TimeoutExpired carries).
Outcome == Output \cup [kind : {"timeout"}, passedBefore : Nat] \cup {[kind |-> "error"]}

ASSUME /\ IsInjective(Tasks)
       /\ MaxParallel \in Nat \ {0}
       /\ Outcomes \subseteq Output
       /\ PassedBeforeTimeout \subseteq 0..Runs

\* A ConfigStats record.
Stats == [config : Configs, total : Nat, passed : Nat, failed : Nat, success : BOOLEAN]

VARIABLES
    queue,     \* submitted tasks no worker has taken yet
    running,   \* configurations whose make is running
    outcome,   \* per configuration: what its make did, once it is done
    allStats,  \* all_stats, in collection order
    exitCode   \* the process exit status, once main has finished

vars == <<queue, running, outcome, allStats, exitCode>>

Collected == {allStats[i].config : i \in 1..Len(allStats)}

TypeOK ==
    /\ queue \in Seq(Configs)
    /\ running \subseteq Configs /\ Cardinality(running) <= MaxParallel
    /\ outcome \in [Configs -> Outcome \cup {None}]
    /\ allStats \in Seq(Stats)
    /\ exitCode \in {None, 0, 1}

\* ConfigStats.status.
Status(s) ==
    IF s.passed = s.total THEN "works"
    ELSE IF s.passed > 0 THEN "flaky"
    ELSE "broken"

\* run_flake_test after subprocess.run: parse the output, or the fixed
\* result of a timeout or an exception.  total_runs is always Runs.
RunFlakeTest(c, o) ==
    IF o.kind = "exited"
    THEN LET counted == o.passLines + o.failLines
             passed  == IF o.summary # None THEN o.summary.passed
                        ELSE IF counted = 0 THEN 0 ELSE o.passLines
             failed  == IF o.summary # None THEN o.summary.total - o.summary.passed
                        ELSE IF counted = 0 THEN Runs ELSE o.failLines
         IN  [config |-> c, total |-> Runs, passed |-> passed,
              failed |-> failed, success |-> o.rc = 0]
    ELSE [config |-> c, total |-> Runs, passed |-> 0, failed |-> Runs, success |-> FALSE]

Init ==
    /\ queue = Tasks
    /\ running = {}
    /\ outcome = [c \in Configs |-> None]
    /\ allStats = <<>>
    /\ exitCode = None

\* Mutant: the pool admits one task more than it has workers.
StartTaskOneTooMany ==
    /\ queue # <<>>
    /\ Cardinality(running) <= MaxParallel
    /\ running' = running \cup {Head(queue)}
    /\ queue' = Tail(queue)
    /\ UNCHANGED <<outcome, allStats, exitCode>>

\* A pool worker is free and takes the next submitted task.
StartTask ==
    /\ queue # <<>>
    /\ Cardinality(running) < MaxParallel
    /\ running' = running \cup {Head(queue)}
    /\ queue' = Tail(queue)
    /\ UNCHANGED <<outcome, allStats, exitCode>>

\* make exits before the timeout; the worker parses and returns.
MakeExits(c) ==
    /\ c \in running
    /\ \E o \in Outcomes : outcome' = [outcome EXCEPT ![c] = o]
    /\ running' = running \ {c}
    /\ UNCHANGED <<queue, allStats, exitCode>>

\* Mutant: subprocess.run called without a timeout.
TimeoutNeverExpires(c) == FALSE

\* subprocess.run raises TimeoutExpired after 300 s.
TimeoutExpires(c) ==
    /\ c \in running
    /\ \E n \in PassedBeforeTimeout :
           outcome' = [outcome EXCEPT ![c] = [kind |-> "timeout", passedBefore |-> n]]
    /\ running' = running \ {c}
    /\ UNCHANGED <<queue, allStats, exitCode>>

\* subprocess.run raises another exception (make not found, ...).
MakeFails(c) ==
    /\ c \in running
    /\ outcome' = [outcome EXCEPT ![c] = [kind |-> "error"]]
    /\ running' = running \ {c}
    /\ UNCHANGED <<queue, allStats, exitCode>>

\* as_completed yields a finished future not yielded before; its result
\* is appended to all_stats.
Collect(c) ==
    /\ exitCode = None
    /\ outcome[c] # None
    /\ c \notin Collected
    /\ allStats' = Append(allStats, RunFlakeTest(c, outcome[c]))
    /\ UNCHANGED <<queue, running, outcome, exitCode>>

\* as_completed is exhausted; classify and exit.
Summarize ==
    /\ exitCode = None
    /\ Collected = Configs
    /\ exitCode' = IF \E i \in 1..Len(allStats) : Status(allStats[i]) \in {"flaky", "broken"}
                   THEN 1 ELSE 0
    /\ UNCHANGED <<queue, running, outcome, allStats>>

Next ==
    \/ StartTask
    \/ \E c \in Configs : MakeExits(c) \/ TimeoutExpires(c) \/ MakeFails(c) \/ Collect(c)
    \/ Summarize

(***************************************************************************)
(* make may hang, so MakeExits is not fair.  The pool's worker threads,    *)
(* the 300 s timer and the main thread are.                                *)
(***************************************************************************)
Fairness ==
    /\ WF_vars(StartTask)
    /\ \A c \in Configs : WF_vars(TimeoutExpires(c)) /\ WF_vars(Collect(c))
    /\ WF_vars(Summarize)

Spec == Init /\ [][Next]_vars /\ Fairness

\* make's own account of a configuration: every run it made passed.
AllRunsPassed(o) ==
    /\ o.kind = "exited"
    /\ IF o.summary # None THEN o.summary.passed = o.summary.total
                           ELSE o.failLines = 0 /\ o.passLines > 0

\* The runs of a configuration that passed, as make reported them, or had
\* reported them when it was killed.
RunsPassed(o) ==
    CASE o.kind = "exited" /\ o.summary # None -> o.summary.passed
      [] o.kind = "exited"                      -> o.passLines
      [] o.kind = "timeout"                     -> o.passedBefore
      [] OTHER                                  -> 0

(***************************************************************************)
(* The module docstring's categories, for the runs make actually made: a  *)
(* configuration is "works" only if every run passed, and "broken" only   *)
(* if no run passed, whatever the run count or a timeout.                 *)
(***************************************************************************)
StatusFollowsDocstring ==
    \A i \in 1..Len(allStats) :
        LET o == outcome[allStats[i].config]
        IN  /\ Status(allStats[i]) = "works"  => AllRunsPassed(o)
            /\ Status(allStats[i]) = "broken" => RunsPassed(o) = 0

(***************************************************************************)
(* The script always finishes: the pool drains the queue, the timeout ends *)
(* a make that hangs, and as_completed yields every future.               *)
(***************************************************************************)
Termination == <>(exitCode # None)

=============================================================================
