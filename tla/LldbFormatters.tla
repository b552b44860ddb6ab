--------------------------- MODULE LldbFormatters ---------------------------
(***************************************************************************)
(* script/debug/lldb_formatters.py: the LLDB type summaries of the kernel's *)
(* structures and the __lldb_init_module that registers them.              *)
(*                                                                         *)
(* A value the debugger shows is a record from member names to member     *)
(* values (numbers, or nested records for an embedded struct or array).   *)
(* GetChildMemberWithName of a member the type does not have gives an     *)
(* invalid SBValue, Invalid here, whose GetValueAsUnsigned() is 0 and      *)
(* whose own members are invalid again: no read raises.  A summary is the *)
(* record of the texts it shows; each text is a name from one of the      *)
(* code's tables, UNKNOWN(n), or a number n, kept apart as records so     *)
(* that TLC compares them.  kernel_summary is the walk of KernelSummary.   *)
(***************************************************************************)
EXTENDS KernelSummary, TLC, SequencesExt

CONSTANT Invalid   \* the invalid SBValue of a missing member

\* GetChildMemberWithName(m) and GetChildAtIndex(m).
Child(v, m) == IF v # Invalid /\ m \in DOMAIN v THEN v[m] ELSE Invalid

\* GetValueAsUnsigned() with its default fail value 0.
Unsigned(v) == IF v = Invalid THEN 0 ELSE v

\* The tables of kwork_summary.
States == 0 :> "DEAD" @@ 1 :> "SUBMIT_REQUESTED" @@ 2 :> "LIVE" @@ 3 :> "READY"
          @@ 4 :> "CANCEL_REQUESTED"
Ops == 1 :> "TIMER" @@ 2 :> "RNG_READ" @@ 3 :> "BLOCK_READ" @@ 4 :> "BLOCK_WRITE"
       @@ 5 :> "BLOCK_FLUSH" @@ 6 :> "NET_RECV" @@ 7 :> "NET_SEND"
ErrNames == 0 :> "OK" @@ 1 :> "BUSY" @@ 2 :> "INVALID" @@ 3 :> "CANCELLED"
            @@ 4 :> "TIMEOUT" @@ 5 :> "NO_DEVICE" @@ 6 :> "IO_ERROR" @@ 7 :> "NO_SPACE"

\* The three forms a field's text takes.
Name(n)    == [name |-> n]
Unknown(v) == [unknown |-> v]      \* f'UNKNOWN({v})'
Number(v)  == [number |-> v]       \* f'{v}'

\* dict.get(k, default) on a table of names.
Lookup(d, k, default) == IF k \in DOMAIN d THEN Name(d[k]) ELSE default

\* Mutant: the flag test reads bit 1 instead of bit 0.
StandingBitOne(flags) == (flags \div 2) % 2 = 1

\* flags_val & 0x01, the one flag kwork_summary decodes.
Standing(flags) == flags % 2 = 1

\* kwork_summary: four members read, each looked up in its table.
KworkSummary(w) ==
    LET state  == Unsigned(Child(w, "state"))
        op     == Unsigned(Child(w, "op"))
        result == Unsigned(Child(w, "result"))
        flags  == Unsigned(Child(w, "flags"))
    IN  [op     |-> Lookup(Ops, op, Unknown(op)),
         state  |-> Lookup(States, state, Unknown(state)),
         result |-> Lookup(ErrNames, result, Number(result)),
         flags  |-> IF Standing(flags) THEN Name("STANDING") ELSE Name("NONE")]

\* The counters each request summary reads after its embedded work.
RequestCounters ==
    "ktimer_summary"        :> <<"deadline_ms">>
 @@ "krng_req_summary"      :> <<"length", "completed">>
 @@ "kblk_req_summary"      :> <<"num_segments">>
 @@ "knet_recv_req_summary" :> <<"num_buffers", "buffer_index">>
 @@ "knet_send_req_summary" :> <<"num_packets", "packets_sent">>

\* ktimer_summary, krng_req_summary, kblk_req_summary, knet_recv_req_summary
\* and knet_send_req_summary: the summary of the member work, then the
\* request's counters.
RequestSummary(fn, v) ==
    [work     |-> KworkSummary(Child(v, "work")),
     counters |-> [i \in DOMAIN RequestCounters[fn] |->
                      Number(Unsigned(Child(v, RequestCounters[fn][i])))]]

\* platform_summary: a device is listed when its pointer is non-zero, in
\* the order RNG, BLK, NET; the MAC is shown only if the member is valid.
\* The empty list is printed as "no devices".
PlatformSummary(p) ==
    LET present(m) == Unsigned(Child(p, m)) # 0
        mac == Child(p, "net_mac_address")
        rng == <<[dev |-> "RNG"]>>
        blk == <<[dev |-> "BLK", capacity |-> Unsigned(Child(p, "block_capacity")),
                  sectorSize |-> Unsigned(Child(p, "block_sector_size"))]>>
        net == IF mac # Invalid
               THEN <<[dev |-> "NET", mac |-> [i \in 0..5 |-> Unsigned(Child(mac, i))]]>>
               ELSE <<[dev |-> "NET"]>>
    IN  (IF present("virtio_rng_ptr") THEN rng ELSE <<>>)
     \o (IF present("virtio_blk_ptr") THEN blk ELSE <<>>)
     \o (IF present("virtio_net_ptr") THEN net ELSE <<>>)

\* The summary function a registered name stands for (all but kernel_t's).
Format(fn, v) ==
    CASE fn = "kwork_summary"    -> KworkSummary(v)
      [] fn = "platform_summary" -> PlatformSummary(v)
      [] OTHER                   -> RequestSummary(fn, v)

\* The `type summary add` commands of __lldb_init_module: type -> function.
Registrations ==
    "kwork_t" :> "kwork_summary" @@ "ktimer_req_t" :> "ktimer_summary"
 @@ "krng_req_t" :> "krng_req_summary" @@ "kblk_req_t" :> "kblk_req_summary"
 @@ "knet_recv_req_t" :> "knet_recv_req_summary"
 @@ "knet_send_req_t" :> "knet_send_req_summary"
 @@ "kernel_t" :> "kernel_summary" @@ "platform_t" :> "platform_summary"

VARIABLE summaries   \* the debugger's type-summary registry: type -> function

\* command script import: __lldb_init_module runs; `type summary add` of a
\* type already registered replaces its summary.
ImportFormatters == summaries' = Registrations @@ summaries

=============================================================================
