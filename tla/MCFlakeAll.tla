----------------------------- MODULE MCFlakeAll -----------------------------
(***************************************************************************)
(* Three of the twelve configurations on a pool of two workers, so that a *)
(* task waits in the queue while both workers run make.  Outcomes are what *)
(* `make flake` prints for its 10 runs.                                    *)
(***************************************************************************)
EXTENDS FlakeAll

MCTasks == <<"arm64/MMIO", "arm64/PCI", "x64/MMIO">>

Exit(p, f, sum, rc) == [kind |-> "exited", passLines |-> p, failLines |-> f,
                        summary |-> sum, rc |-> rc]

Result(p, t) == [passed |-> p, total |-> t]

\* The forms the output of a 10-run `make flake` takes.
TenRunOutcomes ==
    { Exit(10, 0, Result(10, 10), 0),   \* all passed
      Exit(7, 3, Result(7, 10), 2),     \* some failed
      Exit(0, 10, Result(0, 10), 2),    \* all failed
      Exit(0, 0, None, 2),              \* the build failed before any run
      Exit(3, 1, None, 2) }             \* make stopped before its summary

\* make ran 20 runs (its run count set to 20) and half failed.
TwentyRunOutcomes == TenRunOutcomes \cup { Exit(10, 10, Result(10, 20), 2) }

=============================================================================
