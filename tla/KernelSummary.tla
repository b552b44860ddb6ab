--------------------------- MODULE KernelSummary ---------------------------
(***************************************************************************)
(* kernel_summary in script/debug/lldb_formatters.py: the LLDB summary of  *)
(* kernel_t.  count_list walks one of the three work queues by reading the *)
(* word at node + 24 as the next pointer, stopping at a null pointer, a    *)
(* node seen before, Limit nodes, or a failed read.                        *)
(*                                                                         *)
(* The target's memory is a function from the nodes the debugger can read  *)
(* to the word at node + 24; an address outside its domain fails to read. *)
(* Which word sits at + 24 on each target is data: the walk is the same.   *)
(***************************************************************************)
EXTENDS Naturals, Sequences

CONSTANTS
    Limit,         \* the loop bound, 1000 in the code
    LldbImported   \* whether the name lldb is bound in the module

ASSUME Limit \in Nat /\ LldbImported \in BOOLEAN

\* The three queue heads, in the order kernel_summary counts them.
Queues == <<"submit_queue_head", "ready_queue_head", "cancel_queue_head">>

\* A count_list result: a depth, or the exception that ended it.
Depth(n) == [ok |-> TRUE, count |-> n]
Raised   == [ok |-> FALSE, count |-> 0]

\* Mutant: the loop forgets the visited set, so only Limit stops a cycle.
RECURSIVE CountLoopNoVisited(_, _, _, _)
CountLoopNoVisited(mem, current, visited, count) ==
    IF current = 0 \/ count >= Limit THEN Depth(count)
    ELSE IF ~LldbImported THEN Raised
    ELSE IF current \in DOMAIN mem
         THEN CountLoopNoVisited(mem, mem[current], visited, count + 1)
         ELSE Depth(count + 1)

\* The while loop of count_list.  lldb.SBError() raises NameError, outside
\* the inner try, when lldb is not bound; a failed read breaks the loop
\* after the node is counted.
RECURSIVE CountLoop(_, _, _, _)
CountLoop(mem, current, visited, count) ==
    IF current = 0 \/ current \in visited \/ count >= Limit THEN Depth(count)
    ELSE IF ~LldbImported THEN Raised
    ELSE IF current \in DOMAIN mem
         THEN CountLoop(mem, mem[current], visited \cup {current}, count + 1)
         ELSE Depth(count + 1)

\* count_list(head_name).
CountList(mem, head) == IF head = 0 THEN Depth(0) ELSE CountLoop(mem, head, {}, 0)

\* kernel_summary: the three depths, or the error string if a walk raised.
Summary(mem, heads) ==
    LET r == [q \in 1..3 |-> CountList(mem, heads[q])]
    IN  IF \A q \in 1..3 : r[q].ok
        THEN [ok |-> TRUE, depths |-> [q \in 1..3 |-> r[q].count]]
        ELSE [ok |-> FALSE, depths |-> <<>>]

=============================================================================
