-------------------------- MODULE MCKernelSummary --------------------------
(***************************************************************************)
(* A debugger session on the kernel: lldb_formatters.py may be imported   *)
(* (once or again), and the user prints either kernel_t or one of the     *)
(* other structures.  For kernel_t the session builds every small kernel  *)
(* image, one choice at a time: a partial map from Nodes to next words    *)
(* (0, another node, or a node that cannot be read) and the three queue   *)
(* heads.  For the other types it prints each value of a small set whose  *)
(* members take the table's names, values past the tables and set and    *)
(* unset flag bits.                                                       *)
(***************************************************************************)
EXTENDS LldbFormatters, FiniteSets

CONSTANTS Nodes, Unreadable, None

ASSUME Unreadable \cap Nodes = {} /\ 0 \notin Nodes \cup Unreadable

Addr == Nodes \cup Unreadable

VARIABLES mem, heads, shown

vars == <<mem, heads, summaries, shown>>

\* The nodes reachable from head through readable next words: the set a
\* walk of the list can visit.
RECURSIVE Closure(_, _)
Closure(m, s) ==
    LET t == s \cup ({m[a] : a \in s \cap DOMAIN m} \ {0})
    IN  IF t = s THEN s ELSE Closure(m, t)

Reachable(m, head) == IF head = 0 THEN {} ELSE Closure(m, {head})

CapAt(n, k) == IF n < k THEN n ELSE k

\* The values printed: every member the summary reads is present.
Mac == [i \in 0..5 |-> 16 * i + 2]
KworkValues == [state : {0, 4, 5}, op : {0, 1, 7, 8}, result : {0, 7, 8}, flags : {0, 1, 2, 3}]
SomeWork == {[state |-> 3, op |-> 2, result |-> 6, flags |-> 1],
             [state |-> 9, op |-> 0, result |-> 9, flags |-> 2]}
RequestValues(fn) ==
    LET counters == {RequestCounters[fn][i] : i \in DOMAIN RequestCounters[fn]}
    IN  {[m \in {"work"} \cup counters |-> IF m = "work" THEN w ELSE c[m]] :
            w \in SomeWork, c \in [counters -> {0, 3}]}
PlatformValues ==
    [virtio_rng_ptr : {0, 64}, virtio_blk_ptr : {0, 64}, virtio_net_ptr : {0, 64},
     block_capacity : {8}, block_sector_size : {512}, net_mac_address : {Mac, Invalid}]
Values(fn) == CASE fn = "kwork_summary"    -> KworkValues
                [] fn = "platform_summary" -> PlatformValues
                [] OTHER                   -> RequestValues(fn)

Init ==
    /\ mem = [a \in {} |-> 0] /\ heads = <<0, 0, 0>>
    /\ summaries = [t \in {} |-> ""]
    /\ shown = None

KernelUntouched == DOMAIN mem = {} /\ heads = <<0, 0, 0>>

\* Give a node its next word.
SetNext ==
    \E a \in Nodes \ DOMAIN mem, v \in Addr \cup {0} :
        /\ shown = None
        /\ mem' = [x \in DOMAIN mem \cup {a} |-> IF x = a THEN v ELSE mem[x]]
        /\ UNCHANGED <<heads, summaries, shown>>

\* Point a queue head at an address.
SetHead ==
    \E q \in 1..3, a \in Addr :
        /\ shown = None
        /\ heads[q] = 0
        /\ heads' = [heads EXCEPT ![q] = a]
        /\ UNCHANGED <<mem, summaries, shown>>

\* `p` of a value whose type has a registered summary other than kernel_t's.
PrintValue ==
    \E t \in DOMAIN summaries \ {"kernel_t"} :
        \E v \in Values(summaries[t]) :
            /\ KernelUntouched
            /\ shown' = [type |-> t, value |-> v, text |-> Format(summaries[t], v)]
            /\ UNCHANGED <<mem, heads, summaries>>

Next == SetNext \/ SetHead \/ (ImportFormatters /\ UNCHANGED <<mem, heads, shown>>) \/ PrintValue

Spec == Init /\ [][Next]_vars

TypeOK ==
    /\ DOMAIN mem \subseteq Nodes /\ \A a \in DOMAIN mem : mem[a] \in Addr \cup {0}
    /\ heads \in [1..3 -> Addr \cup {0}]

(***************************************************************************)
(* Each queue depth kernel_summary reports is the number of distinct nodes *)
(* reachable from the queue head, a node that cannot be read included,   *)
(* capped at Limit: the walk neither loops on a cycle, counts a node     *)
(* twice, nor stops early.                                                *)
(***************************************************************************)
DepthIsReachableCount ==
    LET s == Summary(mem, heads)
    IN  s.ok => \A q \in 1..3 : s.depths[q] = CapAt(Cardinality(Reachable(mem, heads[q])), Limit)

(***************************************************************************)
(* kernel_summary shows the queue depths (its docstring) rather than its   *)
(* error string.                                                           *)
(***************************************************************************)
SummaryShowsDepths == Summary(mem, heads).ok

\* How a reader of a summary takes a field's text back to a number.
ReadField(table, text) ==
    IF "name" \in DOMAIN text THEN CHOOSE k \in DOMAIN table : table[k] = text.name
    ELSE IF "unknown" \in DOMAIN text THEN text.unknown
    ELSE text.number

ReadKwork(s) == [state |-> ReadField(States, s.state), op |-> ReadField(Ops, s.op),
                 result |-> ReadField(ErrNames, s.result),
                 standing |-> s.flags = Name("STANDING")]

\* What a kwork_t holds that its summary is meant to show: the STANDING flag
\* is bit 0 of flags.
KworkStored(w) == [state |-> w.state, op |-> w.op, result |-> w.result,
                   standing |-> w.flags % 2 = 1]

DevicePointer == "RNG" :> "virtio_rng_ptr" @@ "BLK" :> "virtio_blk_ptr" @@ "NET" :> "virtio_net_ptr"

ReadPlatform(s) ==
    LET at(d) == {i \in DOMAIN s : s[i].dev = d}
    IN  [devices |-> {s[i].dev : i \in DOMAIN s},
         blk     |-> {<<s[i].capacity, s[i].sectorSize>> : i \in at("BLK")},
         mac     |-> {s[i].mac : i \in {j \in at("NET") : "mac" \in DOMAIN s[j]}}]

PlatformStored(p) ==
    [devices |-> {d \in DOMAIN DevicePointer : p[DevicePointer[d]] # 0},
     blk     |-> IF p.virtio_blk_ptr # 0 THEN {<<p.block_capacity, p.block_sector_size>>} ELSE {},
     mac     |-> IF p.virtio_net_ptr # 0 /\ p.net_mac_address # Invalid
                 THEN {p.net_mac_address} ELSE {}]

(***************************************************************************)
(* Once lldb_formatters.py is imported, `p` of a kwork_t, of a request     *)
(* (its embedded work) or of a platform_t shows text from which a reader  *)
(* recovers what memory holds: the state, op and result numbers, names    *)
(* or not, the STANDING flag, the devices present with the block geometry *)
(* and the MAC; the tables of kwork_summary give no two values one name,  *)
(* and a value past a table stays visible.                                *)
(***************************************************************************)
SummaryShowsStoredFields ==
    shown # None =>
        LET fn == summaries[shown.type]
            v  == shown.value
        IN  CASE fn = "kwork_summary"    -> ReadKwork(shown.text) = KworkStored(v)
              [] fn = "platform_summary" -> ReadPlatform(shown.text) = PlatformStored(v)
              [] OTHER                   -> ReadKwork(shown.text.work) = KworkStored(v.work)

=============================================================================
